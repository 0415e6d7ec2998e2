------------------------------ MODULE MCMessages ------------------------------
(***************************************************************************)
(* Small instances of Messages: two worker threads with and without the    *)
(* write queue, one slot in each pool.                                     *)
(***************************************************************************)
EXTENDS Messages

CONSTANTS m1, m2, m3, w1, w2

TwoPools == {"read", "write"}
ReadPool == {"read"}

Base == [writing |-> FALSE, capacity |-> 1, msgs |-> {m1, m2}, asks |-> 2, drops |-> 0, losses |-> 0,
         downs |-> 0, stops |-> FALSE, disconnects |-> FALSE]

\* Messages are stored before they are fanned out.
Synchronous ==
    {[Base EXCEPT !.msgs = {m1, m2, m3}, !.disconnects = TRUE],
     [Base EXCEPT !.asks = 1, !.losses = 1, !.drops = 1],
     [Base EXCEPT !.asks = 1, !.downs = 1]}

\* Messages are queued for the writer thread.
Queued ==
    {[Base EXCEPT !.writing = TRUE, !.asks = 1, !.stops = TRUE, !.capacity = n] : n \in {0, 1}}
    \cup {[Base EXCEPT !.writing = TRUE, !.asks = 0, !.msgs = {m1, m2, m3}, !.losses = 1, !.downs = 1]}

MCMCases == Synchronous \cup Queued

=============================================================================
