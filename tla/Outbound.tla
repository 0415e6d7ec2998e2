------------------------------- MODULE Outbound -------------------------------
(***************************************************************************)
(* From a worker's push to the client: OutgoingQueue, OutgoingWorker with  *)
(* its per-connection outboxes and retransmission buffers, the connection  *)
(* registry, and HeartbeatService.  All but the queue belongs to one event *)
(* loop thread: `loop` says where in a tick that thread is, and callbacks  *)
(* of the socket run only between ticks.  Workers push, clients read and   *)
(* time passes at any moment.                                              *)
(***************************************************************************)
EXTENDS Connections, Maps, PriorityQueue, FiniteSets

CONSTANTS Loads,               \* what may be asked of the stack in one behaviour
          QueueCapacity,       \* of OutgoingQueue
          OutboxCapacity,      \* PerConnectionOutbox::capacity
          SlowHits,            \* overflows of the outbox before the connection is dropped
          ReliableCapacity,    \* ReliableOutbound::capacity
          MaxRetransmits,      \* OutgoingWorkerConfig::max_retransmits
          MaxPerTick,          \* OutgoingWorkerConfig::max_per_tick
          SocketWindow,        \* frames the kernel takes at once
          SocketLimit          \* frames from which the socket is backpressured

Kinds  == {"reliable", "plain", "typing", "ok", "failed", "drop"}
Timers == {"auth", "token", "silent"}

\* conns are yet to connect and pushes yet to be made; opened have connected; budget
\* is tick_deadline_enabled_.
Load == [conns : SUBSET Conns, opened : SUBSET Conns, pushes : Nat, kinds : SUBSET Kinds,
         timers : SUBSET Timers, budget : BOOLEAN]

ASSUME LoadsKnown == Loads \subseteq Load
ASSUME BoundsNat  ==
    /\ {QueueCapacity, OutboxCapacity, SlowHits, ReliableCapacity} \subseteq Nat \ {0}
    /\ {MaxRetransmits, MaxPerTick, SocketWindow, SocketLimit} \subseteq Nat \ {0}

VARIABLES load,
          queue,       \* OutgoingQueue
          registry,    \* ConnectionRegistery: connection -> ConnectionContext
          unacked,     \* pending_unacked_conns_
          loop,        \* where the event loop is
          peer,        \* connection -> frames on their way, highest seq the client has
          taken        \* connection -> reliable messages its outbox took (history)

outboundVars == <<load, queue, registry, unacked, loop, peer, taken>>

Idle == [pc |-> "idle"]

NewContext == [auth |-> "pending", outbox |-> <<>>, slow_hits |-> 0,
               next_seq |-> 0, acked_seq |-> 0, buffer |-> <<>>, late |-> {}]

OutboundInit ==
    /\ load \in Loads
    /\ queue = EmptyQueue /\ unacked = {} /\ loop = Idle
    /\ registry = EmptyMap /\ peer = EmptyMap /\ taken = EmptyMap

-----------------------------------------------------------------------------
(* Workers: the messages commands and services hand to the queue.          *)

LaneOf(item) == IF item.kind = "typing" THEN "low" ELSE "high"

\* An update of the authentication or a drop has one target.
Push(kind, to) ==
    LET item == [kind |-> kind, id |-> IF kind = "reliable" THEN load.pushes ELSE 0]
    IN  /\ load.pushes > 0
        /\ kind \in {"ok", "failed", "drop"} => Cardinality(to) = 1
        /\ load' = [load EXCEPT !.pushes = @ - 1]
        /\ queue' = Offer(queue, [to |-> to, item |-> item], LaneOf(item), QueueCapacity)
        /\ UNCHANGED <<registry, unacked, loop, peer, taken>>

-----------------------------------------------------------------------------
(* The socket.  send answers SUCCESS while the kernel takes the frame; past *)
(* that the library keeps it all the same, and answers BACKPRESSURE.        *)

Blocked(c)   == Len(peer[c].wire) >= SocketLimit
Succeeds(c)  == Len(peer[c].wire) < SocketWindow
Written(c, frame) == [peer EXCEPT ![c].wire = Append(@, frame)]

\* The close callback, with detach: nothing is known of the connection any more.
Closed(gone) ==
    /\ registry' = Restrict(registry, DOMAIN registry \ gone)
    /\ peer'     = Restrict(peer, DOMAIN peer \ gone)
    /\ taken'    = Restrict(taken, DOMAIN taken \ gone)

-----------------------------------------------------------------------------
(* OutgoingWorker::tick                                                     *)

Tick ==
    /\ loop = Idle
    /\ loop' = [pc |-> "drain", processed |-> 0, touched |-> {}]
    /\ UNCHANGED <<load, queue, registry, unacked, peer, taken>>

DropItem == [kind |-> "drop", id |-> 0]

LowIn(outbox) == {i \in DOMAIN outbox : LaneOf(outbox[i]) = "low"}

\* The last low item of a full outbox makes room.
Evicted(outbox) ==
    LET last == CHOOSE i \in LowIn(outbox) : \A j \in LowIn(outbox) : j <= i
    IN  SubSeq(outbox, 1, last - 1) \o SubSeq(outbox, last + 1, Len(outbox))

Takes(ctx, item) ==
    Len(ctx.outbox) < OutboxCapacity \/ (LaneOf(item) = "high" /\ LowIn(ctx.outbox) # {})

\* enqueue_to_outbox
Enqueued(ctx, item) ==
    IF Len(ctx.outbox) < OutboxCapacity THEN [ctx EXCEPT !.outbox = Append(@, item)]
    ELSE IF LaneOf(item) = "low" THEN ctx
    ELSE IF LowIn(ctx.outbox) # {} THEN [ctx EXCEPT !.outbox = Append(Evicted(@), item)]
    ELSE IF ctx.slow_hits + 1 < SlowHits THEN [ctx EXCEPT !.slow_hits = @ + 1]
    ELSE [ctx EXCEPT !.outbox = <<DropItem>>, !.slow_hits = 0]

\* drain_queue, distribute: one message to the outboxes of those still connected.
Drain ==
    LET msg  == First(queue)
        here == msg.to \cap DOMAIN registry
    IN  /\ loop.pc = "drain" /\ Size(queue) > 0 /\ loop.processed < MaxPerTick
        /\ queue' = Rest(queue)
        /\ loop' = [loop EXCEPT !.processed = @ + 1, !.touched = @ \cup here]
        /\ registry' = [c \in DOMAIN registry |->
              IF c \in here THEN Enqueued(registry[c], msg.item) ELSE registry[c]]
        /\ taken' = [c \in DOMAIN taken |->
              IF c \in here /\ msg.item.kind = "reliable" /\ Takes(registry[c], msg.item)
              THEN Append(taken[c], msg.item.id) ELSE taken[c]]
        /\ UNCHANGED <<load, unacked, peer>>

Drained ==
    /\ loop.pc = "drain"
    /\ Size(queue) = 0 \/ loop.processed = MaxPerTick \/ load.budget
    /\ loop' = [pc |-> "flush", touched |-> loop.touched]
    /\ UNCHANGED <<load, queue, registry, unacked, peer, taken>>

Flush(c) ==
    /\ loop.pc = "flush" /\ c \in loop.touched
    /\ loop' = [pc |-> "send", conn |-> c, touched |-> loop.touched \ {c}]
    /\ UNCHANGED <<load, queue, registry, unacked, peer, taken>>

Flushed ==
    /\ loop.pc = "flush"
    /\ loop.touched = {} \/ load.budget
    /\ loop' = [pc |-> "sweep", conns |-> unacked]
    /\ UNCHANGED <<load, queue, registry, unacked, peer, taken>>

-----------------------------------------------------------------------------
(* flush_connection_outbox, an item at a time                               *)

NextConnection == loop' = [pc |-> "flush", touched |-> loop.touched]

Popped(ctx) == [ctx EXCEPT !.outbox = Tail(@)]

\* Variant: a message that has to wait uses up a number.
StopCounting(c) ==
    /\ registry[c].outbox # <<>> =>
          Head(registry[c].outbox).kind \in {"reliable", "plain", "typing"} /\ Blocked(c)
    /\ NextConnection
    /\ registry' = [registry EXCEPT ![c].next_seq = @ + 1]
    /\ UNCHANGED <<unacked, peer, taken>>

\* The outbox is empty, or the head has to wait.
Stop(c) ==
    /\ registry[c].outbox # <<>> =>
          Head(registry[c].outbox).kind \in {"reliable", "plain", "typing"} /\ Blocked(c)
    /\ NextConnection
    /\ UNCHANGED <<registry, unacked, peer, taken>>

\* Variant: the number is given out again.
NumberedAlike(ctx) ==
    [Popped(ctx) EXCEPT
        !.buffer = Append(@, [seq |-> ctx.next_seq + 1, id |-> Head(ctx.outbox).id,
                              attempts |-> 1, overdue |-> FALSE])]

Numbered(ctx) ==
    LET seq == ctx.next_seq + 1
    IN  [Popped(ctx) EXCEPT
            !.next_seq = seq,
            !.buffer = Append(@, [seq |-> seq, id |-> Head(ctx.outbox).id,
                                  attempts |-> 1, overdue |-> FALSE])]

\* A frame the kernel did not take at once is not counted as sent.
SendReliable(c) ==
    /\ Head(registry[c].outbox).kind = "reliable" /\ ~Blocked(c)
    /\ peer' = Written(c, [seq |-> registry[c].next_seq + 1, id |-> Head(registry[c].outbox).id])
    /\ IF Succeeds(c)
       THEN /\ registry' = [registry EXCEPT ![c] = Numbered(@)]
            /\ unacked' = unacked \cup {c}
            /\ UNCHANGED loop
       ELSE NextConnection /\ UNCHANGED <<registry, unacked>>
    /\ UNCHANGED taken

SendPlain(c) ==
    /\ Head(registry[c].outbox).kind \in {"plain", "typing"} /\ ~Blocked(c)
    /\ peer' = Written(c, [seq |-> 0, id |-> 0])
    /\ IF Succeeds(c) THEN registry' = [registry EXCEPT ![c] = Popped(@)] /\ UNCHANGED loop
       ELSE NextConnection /\ UNCHANGED registry
    /\ UNCHANGED <<unacked, taken>>

\* AUTH_FAILED is terminal; a new token's expiry counts from now.
Updated(ctx, state) ==
    IF ctx.auth = "failed" THEN ctx
    ELSE [ctx EXCEPT !.auth = state, !.late = @ \ {"token"}]

UpdateAuthState(c) ==
    /\ Head(registry[c].outbox).kind \in {"ok", "failed"}
    /\ registry' = [registry EXCEPT ![c] = Popped(Updated(@, Head(@.outbox).kind))]
    /\ UNCHANGED <<loop, unacked, peer, taken>>

DropConnection(c) ==
    /\ Head(registry[c].outbox).kind = "drop"
    /\ Closed({c})
    /\ NextConnection
    /\ UNCHANGED unacked

SendStep ==
    /\ loop.pc = "send"
    /\ LET c == loop.conn
       IN  \/ Stop(c)
           \/ /\ registry[c].outbox # <<>>
              /\ SendReliable(c) \/ SendPlain(c) \/ UpdateAuthState(c) \/ DropConnection(c)
    /\ UNCHANGED <<load, queue>>

-----------------------------------------------------------------------------
(* retransmit_sweep.  A connection it gives up is ended when the sweep is   *)
(* over; on the loop thread nothing comes in between.                       *)

SweepOn(c) == [pc |-> "sweep", conns |-> loop.conns \ {c}]

Sweep(c) ==
    /\ loop.pc = "sweep" /\ c \in loop.conns
    /\ \/ /\ c \in DOMAIN registry => registry[c].buffer = <<>>
          /\ unacked' = unacked \ {c}
          /\ loop' = SweepOn(c)
          /\ UNCHANGED <<registry, peer, taken>>
       \/ /\ c \in DOMAIN registry /\ Len(registry[c].buffer) > ReliableCapacity
          /\ unacked' = unacked \ {c}
          /\ loop' = SweepOn(c)
          /\ Closed({c})
       \/ /\ c \in DOMAIN registry /\ Len(registry[c].buffer) \in 1..ReliableCapacity
          /\ loop' = [pc |-> "resend", conn |-> c, at |-> 1, conns |-> loop.conns \ {c}]
          /\ UNCHANGED <<registry, unacked, peer, taken>>
    /\ UNCHANGED <<load, queue>>

NextFrame == [loop EXCEPT !.at = @ + 1]

\* Variant: tries are not counted.
RetriedUncounted(p) == [p EXCEPT !.overdue = FALSE]

Retried(p) == [p EXCEPT !.overdue = FALSE, !.attempts = @ + 1]

Resend ==
    LET c == loop.conn
        p == registry[c].buffer[loop.at]
    IN  /\ loop.pc = "resend" /\ loop.at <= Len(registry[c].buffer)
        /\ \/ /\ ~p.overdue
              /\ loop' = NextFrame
              /\ UNCHANGED <<registry, unacked, peer, taken>>
           \/ /\ p.overdue /\ p.attempts >= MaxRetransmits
              /\ unacked' = unacked \ {c}
              /\ loop' = SweepOn(c)
              /\ Closed({c})
           \/ /\ p.overdue /\ p.attempts < MaxRetransmits /\ Blocked(c)
              /\ loop' = SweepOn(c)
              /\ UNCHANGED <<registry, unacked, peer, taken>>
           \/ /\ p.overdue /\ p.attempts < MaxRetransmits /\ ~Blocked(c)
              /\ peer' = Written(c, [seq |-> p.seq, id |-> p.id])
              /\ registry' = IF Succeeds(c)
                             THEN [registry EXCEPT ![c].buffer[loop.at] = Retried(@)]
                             ELSE registry
              /\ loop' = NextFrame
              /\ UNCHANGED <<unacked, taken>>
        /\ UNCHANGED <<load, queue>>

Resent ==
    /\ loop.pc = "resend" /\ loop.at > Len(registry[loop.conn].buffer)
    /\ loop' = SweepOn(loop.conn)
    /\ UNCHANGED <<load, queue, registry, unacked, peer, taken>>

Swept ==
    /\ loop.pc = "sweep" /\ loop.conns = {}
    /\ loop' = Idle
    /\ UNCHANGED <<load, queue, registry, unacked, peer, taken>>

TickStep == Drain \/ Drained \/ (\E c \in Conns : Flush(c) \/ Sweep(c)) \/ Flushed
            \/ SendStep \/ Resend \/ Resent \/ Swept

-----------------------------------------------------------------------------
(* The other callbacks of the loop                                          *)

Opened(c) ==
    /\ loop = Idle /\ c \in load.conns
    /\ load' = [load EXCEPT !.conns = @ \ {c}, !.opened = @ \cup {c}]
    /\ registry' = Put(registry, c, NewContext)
    /\ peer' = Put(peer, c, [wire |-> <<>>, seen |-> 0])
    /\ taken' = Put(taken, c, <<>>)
    /\ UNCHANGED <<queue, unacked, loop>>

\* The frames on_ack pops: those at the front that n acknowledges.
Covered(buffer, n) ==
    CHOOSE k \in 0..Len(buffer) :
       (\A i \in 1..k : buffer[i].seq <= n) /\ (k < Len(buffer) => buffer[k + 1].seq > n)

Uncovered(buffer, n) == SubSeq(buffer, Covered(buffer, n) + 1, Len(buffer))

\* Variant: one frame too many counts as acknowledged.
AckedByMore(ctx, n) ==
    [ctx EXCEPT !.acked_seq = IF n > @ THEN n ELSE @, !.buffer = Uncovered(@, n + 1)]

\* on_ack
AckedBy(ctx, n) ==
    [ctx EXCEPT !.acked_seq = IF n > @ THEN n ELSE @, !.buffer = Uncovered(@, n)]

\* What a PING shows.
Alive(ctx) == [ctx EXCEPT !.late = @ \ {"silent"}]

\* An ACK, or the last_recv_seq of a PING, which also shows that the client lives.
\* Until the connection is authenticated both are dropped.
Ack(c, n, ping) ==
    /\ loop = Idle /\ c \in DOMAIN registry /\ registry[c].auth = "ok"
    /\ registry' = [registry EXCEPT ![c] =
          IF ping THEN Alive(AckedBy(@, n)) ELSE AckedBy(@, n)]
    /\ unacked' = IF registry'[c].buffer = <<>> THEN unacked \ {c} ELSE unacked
    /\ UNCHANGED <<load, queue, loop, peer, taken>>

\* Variant: only a connection that once authenticated is looked at.
ReapedLater(ctx) ==
    ctx.auth = "failed" \/ (ctx.auth = "ok" /\ ctx.late \cap {"token", "silent"} # {})

\* HeartbeatService::tick
Reaped(ctx) ==
    \/ ctx.auth = "failed"
    \/ ctx.auth = "pending" /\ "auth" \in ctx.late
    \/ ctx.auth = "ok" /\ ctx.late \cap {"token", "silent"} # {}

Heartbeat ==
    /\ loop = Idle
    /\ Closed({c \in DOMAIN registry : Reaped(registry[c])})
    /\ UNCHANGED <<load, queue, unacked, loop>>

\* The client leaves, or the message handler ends a connection (a malformed
\* message, any message after AUTH_FAILED).
Leave(c) ==
    /\ loop = Idle /\ c \in DOMAIN registry
    /\ Closed({c})
    /\ UNCHANGED <<load, queue, unacked, loop>>

-----------------------------------------------------------------------------
(* The network, the client and the clock                                    *)

Highest(S) == CHOOSE n \in S : \A k \in S : k <= n

Receive(c, n) ==
    /\ c \in DOMAIN peer /\ n \in DOMAIN peer[c].wire
    /\ peer' = [peer EXCEPT ![c] =
          [wire |-> SubSeq(@.wire, n + 1, Len(@.wire)),
           seen |-> Highest({@.seen} \cup {@.wire[i].seq : i \in 1..n})]]
    /\ UNCHANGED <<load, queue, registry, unacked, loop, taken>>

ReceiveAll(c) == c \in DOMAIN peer /\ Receive(c, Len(peer[c].wire))

\* retransmit_timeout has passed for all that was sent.
Wait(c) ==
    /\ c \in DOMAIN registry
    /\ \E i \in DOMAIN registry[c].buffer : ~registry[c].buffer[i].overdue
    /\ registry' = [registry EXCEPT ![c].buffer =
          [i \in DOMAIN @ |-> [@[i] EXCEPT !.overdue = TRUE]]]
    /\ UNCHANGED <<load, queue, unacked, loop, peer, taken>>

Elapse(c, t) ==
    /\ c \in DOMAIN registry /\ t \in load.timers \ registry[c].late
    /\ registry' = [registry EXCEPT ![c].late = @ \cup {t}]
    /\ UNCHANGED <<load, queue, unacked, loop, peer, taken>>

OutboundNext ==
    \/ \E kind \in load.kinds, to \in SUBSET load.opened \ {{}} : Push(kind, to)
    \/ Tick \/ TickStep \/ Heartbeat
    \/ \E c \in Conns :
          \/ Opened(c) \/ Leave(c) \/ Wait(c)
          \/ \E n \in 1..SocketLimit : Receive(c, n)
          \/ \E t \in Timers : Elapse(c, t)
    \/ \E c \in DOMAIN peer : \E n \in 0..peer[c].seen, ping \in BOOLEAN : Ack(c, n, ping)

OutboundSpec == OutboundInit /\ [][OutboundNext]_outboundVars

\* The timers of the loop fire, time passes, and the client goes on reading.
OutboundFair ==
    /\ OutboundSpec
    /\ WF_outboundVars(Tick) /\ WF_outboundVars(TickStep) /\ SF_outboundVars(Heartbeat)
    /\ \A c \in Conns : /\ WF_outboundVars(ReceiveAll(c)) /\ WF_outboundVars(Wait(c))
                        /\ WF_outboundVars(Elapse(c, "auth"))

-----------------------------------------------------------------------------
(* Properties                                                               *)

Seqs(s) == {s[i].seq : i \in DOMAIN s}

\* A seq stands for one message: whatever is sent under number n, at first or again,
\* is the n-th reliable message the outbox took, so a client that drops the numbers
\* it has seen applies the messages in order and once.
SeqNamesMessage ==
    \A c \in DOMAIN registry :
       /\ \A i \in DOMAIN peer[c].wire :
             LET f == peer[c].wire[i] IN f.seq > 0 => f.seq <= Len(taken[c]) /\ f.id = taken[c][f.seq]
       /\ \A i \in DOMAIN registry[c].buffer :
             LET p == registry[c].buffer[i] IN p.seq <= Len(taken[c]) /\ p.id = taken[c][p.seq]

\* "leave seq unconsumed and retry next tick - no gap": a client never sees a number
\* before the one that precedes it.
NoGap ==
    \A c \in DOMAIN registry : \A i \in DOMAIN peer[c].wire :
       peer[c].wire[i].seq <= 1 + Highest({peer[c].seen} \cup {peer[c].wire[j].seq : j \in 1..(i - 1)})

\* A numbered frame is kept for retransmission until the client has it.
KeptUntilSeen ==
    \A c \in DOMAIN registry : \A n \in 1..registry[c].next_seq :
       n <= peer[c].seen \/ n \in Seqs(registry[c].buffer)

\* "after this many tries, drop": a reliable frame does not stay unacknowledged for
\* ever on an open connection, whether or not the client acknowledges.
AckedOrClosed ==
    \A c \in Conns :
       c \in DOMAIN registry /\ registry[c].buffer # <<>>
          ~> c \notin DOMAIN registry \/ registry[c].buffer = <<>>

\* A connection does not stay unauthenticated for ever, where auth_pending_timeout can
\* pass.
AuthenticatedOrClosed ==
    \A c \in Conns :
       c \in DOMAIN registry /\ "auth" \in load.timers
          ~> c \notin DOMAIN registry \/ registry[c].auth = "ok"

\* "retry next tick": what is left in an outbox is sent, or the connection closed.
RetriedUntilSent ==
    \A c \in Conns :
       c \in DOMAIN registry /\ registry[c].outbox # <<>>
          ~> c \notin DOMAIN registry \/ registry[c].outbox = <<>>

=============================================================================
