-------------------------- MODULE SubscriptionManager --------------------------
(***************************************************************************)
(* app/managers/subscription/SubscriptionManager.cpp: the relation is kept *)
(* in both directions.  conn_to_topics is a map to sets.  topic_to_conns   *)
(* maps a topic to a shared_ptr of a vector, which getSubscribers hands    *)
(* out; a writer copies a vector first if somebody else holds it.  Vectors *)
(* are cells of a heap, a shared_ptr is the address of a cell, and the use *)
(* count of a cell is the map's pointer plus the readers that hold it.     *)
(***************************************************************************)
EXTENDS Connections, Maps, Sequences, Naturals

CONSTANTS Topics, Readers,
          Cells,    \* addresses of vectors
          Null      \* nullptr

ASSUME NullIsNoCell == Null \notin Cells

VARIABLES conn_to_topics, topic_to_conns,
          heap,     \* address -> sequence of connections
          held      \* reader -> the vector it is going through, or Null

managerVars == <<conn_to_topics, topic_to_conns, heap>>
subscriptionVars == <<conn_to_topics, topic_to_conns, heap, held>>

-----------------------------------------------------------------------------
TopicsOf(c) == IF c \in DOMAIN conn_to_topics THEN conn_to_topics[c] ELSE {}

\* vec_ptr.use_count() > 1
Shared(a) == \E r \in Readers : held[r] = a

\* The last shared_ptr to a vector frees it.
Collect(cells) == Restrict(cells, DOMAIN cells \cap (Range(topic_to_conns') \cup Range(held')))

FreeCells == Cells \ DOMAIN heap

\* topic_to_conns[t], which operator[] creates empty.
VectorOf(t) == IF t \in DOMAIN topic_to_conns THEN heap[topic_to_conns[t]] ELSE <<>>

\* The reverse index, with the entry of c dropped when it has become empty.
Without(index, c, dropped) ==
    IF index[c] \ dropped = {} THEN Erase(index, c) ELSE Put(index, c, index[c] \ dropped)

\* eraseConnFromTopic on the elements: the last one takes the place of c.
SwapErase(vec, c) ==
    IF c \in Range(vec)
    THEN LET k == CHOOSE i \in DOMAIN vec : vec[i] = c
         IN  [i \in 1..(Len(vec) - 1) |-> IF i = k THEN vec[Len(vec)] ELSE vec[i]]
    ELSE vec

\* Variant: the vector is changed in place, whoever holds it.
WriteInPlace(a, b) == b = a

\* A writer of the vector at a goes on with the cell b: the same one, or, while a
\* reader holds a, a fresh copy.
WritesTo(a, b) == IF Shared(a) THEN b \in FreeCells ELSE b = a

-----------------------------------------------------------------------------
SubscriptionInit ==
    /\ conn_to_topics = EmptyMap /\ topic_to_conns = EmptyMap
    /\ heap = EmptyMap
    /\ held = [r \in Readers |-> Null]

SubscribeConnection(c, t) ==
    /\ t \notin TopicsOf(c)
    /\ conn_to_topics' = Put(conn_to_topics, c, TopicsOf(c) \cup {t})
    /\ UNCHANGED held
    /\ \E b \in Cells :
          /\ IF t \in DOMAIN topic_to_conns THEN WritesTo(topic_to_conns[t], b)
                                            ELSE b \in FreeCells
          /\ topic_to_conns' = Put(topic_to_conns, t, b)
          /\ heap' = Collect(Put(heap, b, Append(VectorOf(t), c)))

\* The vectors of the topics in ts lose c, each in place or in a copy of its own,
\* and a topic whose vector became empty is dropped.
EraseFrom(ts, c) ==
    \E to \in [ts -> Cells] :
       /\ \A t \in ts : WritesTo(topic_to_conns[t], to[t])
       /\ \A t, u \in ts : to[t] = to[u] => t = u
       /\ LET rest == [t \in ts |-> SwapErase(VectorOf(t), c)]
          IN  /\ topic_to_conns' =
                    [t \in DOMAIN topic_to_conns \ {x \in ts : rest[x] = <<>>} |->
                       IF t \in ts THEN to[t] ELSE topic_to_conns[t]]
              /\ heap' = Collect([a \in DOMAIN heap \cup Range(to) |->
                    IF a \in Range(to) THEN rest[CHOOSE t \in ts : to[t] = a] ELSE heap[a]])

UnsubscribeConnection(c, t) ==
    /\ t \in TopicsOf(c)
    /\ conn_to_topics' = Without(conn_to_topics, c, {t})
    /\ UNCHANGED held
    /\ EraseFrom({t} \cap DOMAIN topic_to_conns, c)

RemoveAllForConnection(c) ==
    /\ c \in DOMAIN conn_to_topics
    /\ conn_to_topics' = Erase(conn_to_topics, c)
    /\ UNCHANGED held
    /\ EraseFrom(conn_to_topics[c] \cap DOMAIN topic_to_conns, c)

\* Variant: the reverse index keeps the topic.
RemoveTopicOnly(t) ==
    /\ t \in DOMAIN topic_to_conns
    /\ topic_to_conns' = Erase(topic_to_conns, t)
    /\ UNCHANGED <<conn_to_topics, held>>
    /\ heap' = Collect(heap)

\* The subscribers' entries are cleaned up by way of the vector.
RemoveAllForTopic(t) ==
    LET listed(c) == c \in DOMAIN conn_to_topics /\ c \in Range(heap[topic_to_conns[t]])
    IN  /\ t \in DOMAIN topic_to_conns
        /\ conn_to_topics' =
              [c \in {x \in DOMAIN conn_to_topics : listed(x) => conn_to_topics[x] # {t}} |->
                 IF listed(c) THEN conn_to_topics[c] \ {t} ELSE conn_to_topics[c]]
        /\ topic_to_conns' = Erase(topic_to_conns, t)
        /\ UNCHANGED held
        /\ heap' = Collect(heap)

\* A command fetches the pointer, and drops it when its fanout is assembled.
GetSubscribers(r, t) ==
    /\ held[r] = Null
    /\ t \in DOMAIN topic_to_conns
    /\ held' = [held EXCEPT ![r] = topic_to_conns[t]]
    /\ UNCHANGED managerVars

DropSnapshot(r) ==
    /\ held[r] # Null
    /\ held' = [held EXCEPT ![r] = Null]
    /\ UNCHANGED <<conn_to_topics, topic_to_conns>>
    /\ heap' = Collect(heap)

SubscriptionNext ==
    \/ \E c \in Conns, t \in Topics : SubscribeConnection(c, t) \/ UnsubscribeConnection(c, t)
    \/ \E c \in Conns : RemoveAllForConnection(c)
    \/ \E t \in Topics : RemoveAllForTopic(t)
    \/ \E r \in Readers : DropSnapshot(r) \/ \E t \in Topics : GetSubscribers(r, t)

SubscriptionSpec == SubscriptionInit /\ [][SubscriptionNext]_subscriptionVars

-----------------------------------------------------------------------------
\* The two directions are one relation: a topic's vector lists exactly the
\* connections whose entry has the topic, each once (fanout sends once per
\* element), and neither map keeps an empty entry.
IndexesAgree ==
    /\ \A t \in DOMAIN topic_to_conns :
          LET vec == heap[topic_to_conns[t]]
          IN  /\ vec # <<>>
              /\ Range(vec) = {c \in DOMAIN conn_to_topics : t \in conn_to_topics[c]}
              /\ \A i, j \in DOMAIN vec : vec[i] = vec[j] => i = j
    /\ \A c \in DOMAIN conn_to_topics :
          conn_to_topics[c] # {} /\ conn_to_topics[c] \subseteq DOMAIN topic_to_conns

\* The relation the maps stand for, and the subscribers each reader is going through.
SubscribedPairs == {p \in Conns \X Topics : p[2] \in TopicsOf(p[1])}
Snapshots == [r \in Readers |-> IF held[r] = Null THEN Null ELSE Range(heap[held[r]])]

Abstract == INSTANCE Subscriptions WITH
    NoSnapshot <- Null, subs <- SubscribedPairs, snapshot <- Snapshots

\* The manager implements the promise; above all, the vector a reader goes
\* through without the lock is the set of subscribers at the time of the call,
\* whatever is subscribed and unsubscribed meanwhile.
KeepsPromise == Abstract!Promise

=============================================================================
