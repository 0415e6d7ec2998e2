---------------------------- MODULE Subscriptions ----------------------------
(***************************************************************************)
(* What app/managers/subscription/SubscriptionManager promises: a relation *)
(* between connections and topics, and snapshots of a topic's subscribers  *)
(* that stay as they were taken while the fanout goes through them.        *)
(***************************************************************************)
CONSTANTS Conns, Topics, Readers,
          NoSnapshot   \* nullptr, or no call in progress

VARIABLES subs,      \* pairs <<connection, topic>>
          snapshot   \* reader -> the subscribers it is sending to

-----------------------------------------------------------------------------
SubscribersIn(r, t) == {c \in Conns : <<c, t>> \in r}

Subscribed(r, c, t)      == r \cup {<<c, t>>}
Unsubscribed(r, c, t)    == r \ {<<c, t>>}
WithoutConnection(r, c)  == {p \in r : p[1] # c}
WithoutTopic(r, t)       == {p \in r : p[2] # t}

Start == subs = {} /\ snapshot = [r \in Readers |-> NoSnapshot]

Subscribe(c, t)   == subs' = Subscribed(subs, c, t) /\ UNCHANGED snapshot
Unsubscribe(c, t) == subs' = Unsubscribed(subs, c, t) /\ UNCHANGED snapshot
DropConnection(c) == subs' = WithoutConnection(subs, c) /\ UNCHANGED snapshot
DropTopic(t)      == subs' = WithoutTopic(subs, t) /\ UNCHANGED snapshot

\* getSubscribers: a topic nobody subscribes to answers nullptr.
Take(r, t) ==
    /\ snapshot[r] = NoSnapshot
    /\ snapshot' = [snapshot EXCEPT ![r] =
          IF SubscribersIn(subs, t) = {} THEN NoSnapshot ELSE SubscribersIn(subs, t)]
    /\ UNCHANGED subs

Release(r) == snapshot' = [snapshot EXCEPT ![r] = NoSnapshot] /\ UNCHANGED subs

Step ==
    \/ \E c \in Conns, t \in Topics : Subscribe(c, t) \/ Unsubscribe(c, t)
    \/ \E c \in Conns : DropConnection(c)
    \/ \E t \in Topics : DropTopic(t)
    \/ \E r \in Readers : Release(r) \/ \E t \in Topics : Take(r, t)

Promise == Start /\ [][Step]_<<subs, snapshot>>

=============================================================================
