---------------------------- MODULE StateDatabase ----------------------------
(***************************************************************************)
(* The balancer's desired state in a file, and what the balancer is told   *)
(* about it.  GET and PUT requests run concurrently; a store holds the     *)
(* write lock while it truncates the file, writes it and broadcasts the    *)
(* stored state to the reconciliation service, but a read takes no lock.   *)
(* A read that finds the file missing or empty stores the default state.   *)
(* Any of these steps may fail, and leaves the file as it is by then; the  *)
(* process may die at any of them.                                         *)
(***************************************************************************)
EXTENDS FiniteSets, Naturals

CONSTANTS
    Op,            \* the GET and PUT requests
    State,         \* the states that are PUT
    Default,       \* BalancerDesiredState::default()
    None,          \* nobody, nothing
    Empty,         \* the contents of a truncated file
    Garbled,       \* contents that are not a valid database file
    MaxCrashes     \* bound: how often the balancer dies

ASSUME StateDatabaseAssumption ==
    /\ {None, Empty, Garbled} \cap {Default} = {}
    /\ None \notin {Empty, Garbled}
    /\ {Default, None, Empty, Garbled} \cap State = {}
    /\ None \notin Op
    /\ MaxCrashes \in Nat

VARIABLES
    file,          \* the contents of the file; None when it does not exist
    lock,          \* the holder of write_lock
    pc,            \* per request, its place
    put,           \* per request, the state it PUTs; None for a GET
    schema,        \* per request, the schema it is storing
    known,         \* the state the reconciliation service was told last
    up,            \* the balancer is running
    crashes,       \* how often it died, for the bound
    stored,        \* history: the PUTs that were acknowledged
    damaged,       \* history: a store failed, or was cut short by a crash
    behind         \* history: the request whose store failed after it touched the
                   \* file, until the next store or start

opVars == <<pc, put, schema>>
vars == <<file, lock, pc, put, schema, known, up, crashes, stored, damaged,
          behind>>

Contents == State \cup {Default, None, Empty, Garbled}
Places == {"idle", "read", "lock", "create", "write", "notify", "done", "failed"}

TypeOK ==
    /\ file \in Contents
    /\ lock \in Op \cup {None}
    /\ pc \in [Op -> Places]
    /\ put \in [Op -> State \cup {None}]
    /\ schema \in [Op -> State \cup {Default, None}]
    /\ known \in State \cup {Default, None}
    /\ up \in BOOLEAN
    /\ crashes \in 0 .. MaxCrashes
    /\ stored \in SUBSET Op
    /\ damaged \in BOOLEAN
    /\ behind \in Op \cup {None}

Init ==
    /\ file = None
    /\ lock = None
    /\ pc = [o \in Op |-> "idle"]
    /\ put = [o \in Op |-> None]
    /\ schema = [o \in Op |-> None]
    /\ known = None
    /\ up = FALSE
    /\ crashes = 0
    /\ stored = {}
    /\ damaged = FALSE
    /\ behind = None

\* Faulty variant: a file that cannot be parsed is taken for a state.
StartUnparsed ==
    /\ ~up
    /\ up' = TRUE
    /\ file' = IF file \in {None, Empty} THEN Default ELSE file
    /\ known' = file'
    /\ behind' = None
    /\ UNCHANGED <<lock, opVars, crashes, stored, damaged>>

\* The balancer starts: it reads the initial state before it serves requests,
\* and does not start on a file it cannot parse.
Start ==
    /\ ~up
    /\ file # Garbled
    /\ up' = TRUE
    /\ file' = IF file \in {None, Empty} THEN Default ELSE file
    /\ known' = file'
    /\ behind' = None
    /\ UNCHANGED <<lock, opVars, crashes, stored, damaged>>

\* The default state cannot be stored: the balancer does not start.
StartFails(contents) ==
    /\ ~up
    /\ file \in {None, Empty}
    /\ file' = contents
    /\ damaged' = TRUE
    /\ UNCHANGED <<lock, opVars, known, up, crashes, stored, behind>>

\* A request arrives: a GET, or the PUT of a state.
Arrive(o, state) ==
    /\ up
    /\ pc[o] = "idle"
    /\ pc' = [pc EXCEPT ![o] = "read"]
    /\ put' = [put EXCEPT ![o] = state]
    /\ UNCHANGED <<file, lock, schema, known, up, crashes, stored, damaged, behind>>

\* read_schema_from_file, without the lock, whether to answer a GET or to modify
\* what is there by a PUT.  The file may not be readable, and what is Garbled cannot
\* be parsed.
ReadSchemaFromFile(o) ==
    /\ pc[o] = "read"
    /\ \/ /\ file \in {None, Empty}
          /\ pc' = [pc EXCEPT ![o] = "lock"]
          /\ schema' = [schema EXCEPT ![o] = Default]
       \/ /\ pc' = [pc EXCEPT ![o] = "failed"]
          /\ UNCHANGED schema
       \/ /\ file \in State \cup {Default}
          /\ pc' = [pc EXCEPT ![o] = IF put[o] = None THEN "done" ELSE "lock"]
          /\ schema' = [schema EXCEPT ![o] = put[o]]
    /\ UNCHANGED <<file, lock, put, known, up, crashes, stored, damaged, behind>>

\* store_schema, step by step: lock, truncate, write and sync, broadcast, unlock.
AcquireLock(o) ==
    /\ pc[o] = "lock"
    /\ lock = None
    /\ lock' = o
    /\ pc' = [pc EXCEPT ![o] = "create"]
    /\ UNCHANGED <<file, put, schema, known, up, crashes, stored, damaged, behind>>

\* File::create fails: the file is as it was.
CreateFails(o) ==
    /\ pc[o] = "create"
    /\ lock' = None
    /\ pc' = [pc EXCEPT ![o] = "failed"]
    /\ UNCHANGED <<file, put, schema, known, up, crashes, stored, damaged, behind>>

CreateFile(o) ==
    /\ pc[o] = "create"
    /\ file' = Empty
    /\ pc' = [pc EXCEPT ![o] = "write"]
    /\ UNCHANGED <<lock, put, schema, known, up, crashes, stored, damaged, behind>>

\* Faulty variant: the lock covers the write, but not the broadcast.
WriteSchemaUnlocking(o) ==
    /\ pc[o] = "write"
    /\ file' = schema[o]
    /\ lock' = None
    /\ pc' = [pc EXCEPT ![o] = "notify"]
    /\ UNCHANGED <<put, schema, known, up, crashes, stored, damaged, behind>>

WriteSchema(o) ==
    /\ pc[o] = "write"
    /\ file' = schema[o]
    /\ pc' = [pc EXCEPT ![o] = "notify"]
    /\ UNCHANGED <<lock, put, schema, known, up, crashes, stored, damaged, behind>>

\* The disk is full: the file stays empty, or cut short; the request fails.
WriteFails(o, contents) ==
    /\ pc[o] = "write"
    /\ file' = contents
    /\ damaged' = TRUE
    /\ behind' = o
    /\ lock' = None
    /\ pc' = [pc EXCEPT ![o] = "failed"]
    /\ UNCHANGED <<put, schema, known, up, crashes, stored>>

\* sync_all fails once everything was written, or nobody receives the broadcast: the
\* state stays in the file, the request fails and nobody is told.
SyncFails(o) ==
    /\ pc[o] = "notify"
    /\ damaged' = TRUE
    /\ behind' = o
    /\ lock' = None
    /\ pc' = [pc EXCEPT ![o] = "failed"]
    /\ UNCHANGED <<file, put, schema, known, up, crashes, stored>>

\* The broadcast, and the unlocking; a PUT that had stored the default because
\* there was nothing to modify goes on to store its own state.
Notify(o) ==
    /\ pc[o] = "notify"
    /\ known' = schema[o]
    /\ behind' = None
    /\ lock' = None
    /\ \/ /\ put[o] \notin {None, schema[o]}
          /\ schema' = [schema EXCEPT ![o] = put[o]]
          /\ pc' = [pc EXCEPT ![o] = "lock"]
          /\ UNCHANGED stored
       \/ /\ put[o] \in {None, schema[o]}
          /\ stored' = IF put[o] = None THEN stored ELSE stored \cup {o}
          /\ pc' = [pc EXCEPT ![o] = "done"]
          /\ UNCHANGED schema
    /\ UNCHANGED <<file, put, up, crashes, damaged>>

\* The process dies; a write under way leaves the file as it finds it.
Crash ==
    /\ up
    /\ crashes < MaxCrashes
    /\ crashes' = crashes + 1
    /\ up' = FALSE
    /\ known' = None
    /\ behind' = None
    /\ lock' = None
    /\ pc' = [o \in Op |-> IF pc[o] \in {"idle", "done"} THEN pc[o] ELSE "failed"]
    /\ \/ /\ \E o \in Op : pc[o] = "write"
          /\ file' \in {Empty, Garbled}
          /\ damaged' = TRUE
       \/ /\ ~ \E o \in Op : pc[o] = "write"
          /\ UNCHANGED <<file, damaged>>
    /\ UNCHANGED <<put, schema, stored>>

-----------------------------------------------------------------------------
OpStep(o) ==
    \/ ReadSchemaFromFile(o)
    \/ AcquireLock(o)
    \/ CreateFile(o)
    \/ CreateFails(o)
    \/ WriteSchema(o)
    \/ \E contents \in {Empty, Garbled} : WriteFails(o, contents)
    \/ SyncFails(o)
    \/ Notify(o)

Next ==
    \/ Start
    \/ \E contents \in {Empty, Garbled, Default} : StartFails(contents)
    \/ \E o \in Op, state \in State \cup {None} : Arrive(o, state)
    \/ \E o \in Op : OpStep(o)
    \/ Crash

Spec == Init /\ [][Next]_vars

-----------------------------------------------------------------------------
(***************************************************************************)
(* Properties.                                                             *)
(***************************************************************************)
Quiescent == \A o \in Op : pc[o] \notin {"create", "write", "notify"}

KnownOrBehind ==
    \/ known = file
    \/ /\ behind # None /\ pc[behind] = "failed"
       /\ file \in {Empty, Garbled, schema[behind]}

\* When no store is under way, the state the agents are steered to is the state
\* a restart would find, however stores interleave; the two are apart only after a
\* store that failed, until the next one, and then the file has what that request,
\* which was told of its failure, has written of its own state (store_schema
\* broadcasts under the lock).
KnownIsStored == up /\ Quiescent => KnownOrBehind

\* "persists desired state": once a PUT was acknowledged, the file holds a state
\* that was PUT (the persistence tests).
PutIsKept ==
    /\ stored # {}
    /\ ~damaged
    /\ \A o \in Op : pc[o] \in {"idle", "done", "failed"}
    => file # Default

-----------------------------------------------------------------------------
(***************************************************************************)
(* What makes KnownIsStored inductive (see DesiredStateProofs).            *)
(***************************************************************************)
\* The lock's holder is the one request inside store_schema.
LockHeld == \A o \in Op : pc[o] \in {"create", "write", "notify"} <=> lock = o

\* What the holder has done to the file so far.
HolderWrote ==
    \A o \in Op :
        /\ pc[o] \in {"lock", "create", "write", "notify"} => schema[o] \in State \cup {Default}
        /\ pc[o] = "notify" => file = schema[o]

\* A balancer that is down has no request under way.
DownIsIdle == ~up => \A o \in Op : pc[o] \in {"idle", "done", "failed"}

\* A store that has not created the file yet may still fail and leave it alone.
UntouchedIsKnown == up /\ (\A o \in Op : pc[o] \notin {"write", "notify"}) => KnownOrBehind

IInv ==
    /\ TypeOK
    /\ LockHeld
    /\ HolderWrote
    /\ DownIsIdle
    /\ UntouchedIsKnown
=============================================================================
