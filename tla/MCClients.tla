----------------------------- MODULE MCClients -----------------------------
(***************************************************************************)
(* A client has a socket pool and an HTTP side that share nothing; and the *)
(* harness of the tests starts a cluster and watches it through a client.  *)
(* A behaviour exercises one of the three and the others stay as they were *)
(* made.                                                                   *)
(***************************************************************************)
EXTENDS SocketClient, HttpClient, ClusterHarness

VARIABLE transport

HttpUnused ==
    /\ call = "health" /\ answer = "ok" /\ lines = <<>> /\ terminated = FALSE
    /\ arriving = <<>> /\ buffer = <<>> /\ yielded = <<>>
    /\ stage = "over" /\ outcome = "none"

Init ==
    /\ \/ transport = "socket" /\ SocketInit /\ HttpUnused
       \/ transport = "http" /\ HttpInit /\ SocketInit /\ library = "rust"
       \/ transport = "harness" /\ HttpUnused /\ SocketInit /\ library = "rust"
    /\ HarnessInit
    /\ transport # "harness" => params = [state |-> "none", wait |-> FALSE]

Next ==
    /\ UNCHANGED transport
    /\ \/ transport = "socket" /\ SocketNext /\ UNCHANGED <<httpClientVars, harnessVars>>
       \/ transport = "http" /\ HttpNext /\ UNCHANGED <<socketClientVars, harnessVars>>
       \/ transport = "harness" /\ HarnessNext /\ UNCHANGED <<socketClientVars, httpClientVars>>

Spec ==
    /\ Init
    /\ [][Next]_<<transport, socketClientVars, httpClientVars, harnessVars>>
    /\ SocketFairness
    /\ HttpFairness
    /\ WF_harnessVars(transport = "harness" /\ HarnessStep)
    /\ WF_harnessVars(transport = "harness" /\ ProcessStep)
-----------------------------------------------------------------------------
\* What a client of any of the libraries reads is what the balancer sent it: in
\* order, asked for once, whole or ended with a reason; what it says of a call that
\* failed is so; and the balancer is not left answering what nobody reads
\* (InferenceSocketPool, Connection, spawn_read_task, ndjson and sse streams).  What
\* a test takes for its cluster is that cluster, and none of its processes is lost
\* track of (start_subprocess_cluster, AgentsStreamWatcher, SubprocessProcess).
AnswerIsFaithful ==
    /\ SocketTypeOK /\ HttpTypeOK
    /\ ErrorIsTrue
    /\ OwnFramesInOrder /\ AskedOnce /\ EndsWithReason /\ AbandonedIsStopped
    /\ HarnessTypeOK /\ ClusterIsReady /\ DisappearedWasLost /\ NoneIsOrphaned

\* Every call comes to an end, over the sockets and over HTTP, and so does a test
\* with its processes.
CallsEnd == StreamEnds /\ []<>(CallEnded /\ (transport = "harness" => HarnessEnded))
=============================================================================
