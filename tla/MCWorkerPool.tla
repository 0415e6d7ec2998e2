----------------------------- MODULE MCWorkerPool -----------------------------
(* One thread and a full queue, two threads with the same command twice or  *)
(* that of two connections, and two threads with pauses.                    *)
EXTENDS WorkerPool, TLC

CONSTANTS k1, k2

MCConns == {k1, k2}

Full   == [workers |-> 1, capacity |-> 2, events |-> 4, pauses |-> 0,
           conns |-> {k1}, types |-> {"send", "typing"}]
Double == [workers |-> 2, capacity |-> 2, events |-> 3, pauses |-> 0,
           conns |-> {k1}, types |-> {"join"}]
Two    == [workers |-> 2, capacity |-> 2, events |-> 2, pauses |-> 0,
           conns |-> MCConns, types |-> {"join"}]
Paused == [workers |-> 2, capacity |-> 1, events |-> 1, pauses |-> 2,
           conns |-> {k1}, types |-> {"session"}]

MCScenarios == {Full, Double, Two, Paused}

=============================================================================
