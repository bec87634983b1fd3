--------------------------- MODULE ResponseStream ---------------------------
(***************************************************************************)
(* What an inference client is promised for every request it sends:        *)
(* responses, then one terminal message and nothing after it, and an       *)
(* answer that is withheld only from a client that withdrew the request by *)
(* cancelling it or by leaving.  Forwarding implements this specification. *)
(***************************************************************************)
EXTENDS Naturals

CONSTANT Attempt       \* the requests of one client

VARIABLES
    phase,             \* per request: "unsent", "open", "answered", "withdrawn"
    tokens,            \* per request, how many responses the client has got
    withdrawals        \* the requests the client no longer wants answered

vars == <<phase, tokens, withdrawals>>

Init ==
    /\ phase = [a \in Attempt |-> "unsent"]
    /\ tokens = [a \in Attempt |-> 0]
    /\ withdrawals = {}

Open(a) ==
    /\ phase[a] = "unsent"
    /\ phase' = [phase EXCEPT ![a] = "open"]
    /\ UNCHANGED <<tokens, withdrawals>>

Token(a) ==
    /\ phase[a] = "open"
    /\ tokens' = [tokens EXCEPT ![a] = @ + 1]
    /\ UNCHANGED <<phase, withdrawals>>

Answer(a) ==
    /\ phase[a] = "open"
    /\ phase' = [phase EXCEPT ![a] = "answered"]
    /\ UNCHANGED <<tokens, withdrawals>>

WithdrawRequest(a) ==
    /\ withdrawals' = withdrawals \cup {a}
    /\ UNCHANGED <<phase, tokens>>

Withhold(a) ==
    /\ phase[a] = "open"
    /\ a \in withdrawals
    /\ phase' = [phase EXCEPT ![a] = "withdrawn"]
    /\ UNCHANGED <<tokens, withdrawals>>

Next == \E a \in Attempt :
    Open(a) \/ Token(a) \/ Answer(a) \/ WithdrawRequest(a) \/ Withhold(a)

Spec == Init /\ [][Next]_vars

Fairness == \A a \in Attempt : WF_vars(Answer(a) \/ Withhold(a))

FairSpec == Spec /\ Fairness
=============================================================================
