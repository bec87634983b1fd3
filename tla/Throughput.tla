---------------------------- MODULE Throughput ------------------------------
(***************************************************************************)
(* The meter of an agent's token throughput: tokens are counted in a       *)
(* window, and the token that finds the window old enough turns the count  *)
(* into the reported rate.  Time passes in ticks of half a window.         *)
(***************************************************************************)
EXTENDS Naturals

CONSTANT MaxCount      \* bound: tokens of one window

ASSUME ThroughputAssumption == MaxCount \in Nat

WINDOW_DURATION == 2
STALE_AFTER == 4

VARIABLES
    tokens_per_second,    \* the tokens of the window measured last
    window_age,           \* the time since window_started_at, up to where it matters
    window_token_count,
    idle                  \* history: the time since the last token, up to where it matters

throughputVars == <<tokens_per_second, window_age, window_token_count, idle>>

ThroughputInit ==
    /\ tokens_per_second = 0 /\ window_age = 0 /\ window_token_count = 0
    /\ idle = 0

Later(time) == IF time > STALE_AFTER THEN time ELSE time + 1

Tick ==
    /\ window_age' = Later(window_age) /\ idle' = Later(idle)
    /\ UNCHANGED <<tokens_per_second, window_token_count>>

RecordToken ==
    /\ window_token_count < MaxCount
    /\ idle' = 0
    /\ IF window_age >= WINDOW_DURATION
       THEN /\ tokens_per_second' = window_token_count + 1
            /\ window_token_count' = 0 /\ window_age' = 0
       ELSE /\ window_token_count' = window_token_count + 1
            /\ UNCHANGED <<tokens_per_second, window_age>>

ThroughputNext == Tick \/ RecordToken

\* tokens_per_second()
Reported ==
    IF window_age > STALE_AFTER /\ window_token_count = 0 THEN 0 ELSE tokens_per_second
-----------------------------------------------------------------------------
ThroughputTypeOK ==
    /\ tokens_per_second \in 0 .. MaxCount
    /\ window_age \in 0 .. STALE_AFTER + 1 /\ window_token_count \in 0 .. MaxCount
    /\ idle \in 0 .. STALE_AFTER + 1

\* An agent that has been idle long enough reports no throughput, if the last token
\* was also the one that closed a window; otherwise the rate before it stays up
\* (tokens_per_second, STALE_AFTER).
StaleIsZero == idle > STALE_AFTER /\ window_token_count = 0 => Reported = 0
=============================================================================
