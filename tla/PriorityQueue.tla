----------------------------- MODULE PriorityQueue -----------------------------
(***************************************************************************)
(* The two-lane queue that OutgoingQueue and EventQueue both are: high     *)
(* goes before low, and in a full queue makes room at low's expense.       *)
(***************************************************************************)
EXTENDS Naturals, Sequences

EmptyQueue == [high |-> <<>>, low |-> <<>>]

Size(q) == Len(q.high) + Len(q.low)

\* push_impl; a capacity of 0 is no bound.  A refused message leaves q as it is.
Offer(q, x, lane, capacity) ==
    IF capacity = 0 \/ Size(q) < capacity THEN [q EXCEPT ![lane] = Append(@, x)]
    ELSE IF lane = "high" /\ q.low # <<>>
    THEN [high |-> Append(q.high, x), low |-> SubSeq(q.low, 1, Len(q.low) - 1)]
    ELSE q

\* try_pop, pop_front_locked: the message handed out, and what stays.
Lane(q)  == IF q.high # <<>> THEN "high" ELSE "low"
First(q) == Head(q[Lane(q)])
Rest(q)  == [q EXCEPT ![Lane(q)] = Tail(@)]

=============================================================================
