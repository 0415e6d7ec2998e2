------------------------------- MODULE Messages -------------------------------
(***************************************************************************)
(* The messages of one text channel: the commands SendMessage,             *)
(* SelectActiveChannel and FetchMessagesBefore on the threads of the       *)
(* worker pool, MessageService with its AsyncMessageWriter and             *)
(* DbWriteQueue, and MessageRepository over the transactions of            *)
(* Persistence.  With a write queue a message is answered and fanned out   *)
(* when it is queued and stored later by the writer thread; without one it *)
(* is stored first.                                                        *)
(*                                                                         *)
(* A message is a model value; its position in table is its message_seq.   *)
(* The clients are external: each remembers what it was shown, and when it *)
(* selects the channel again names a cursor up to which it has everything. *)
(***************************************************************************)
EXTENDS Persistence, Sequences, FiniteSetsExt

CONSTANTS Workers, Writer,  \* the threads of the pool, and the writer's
          Msgs, Clients,
          PageLimit,        \* the limit of a fetch, after clamp_limit
          MaxRetries,       \* db_write_max_retries
          MCases            \* what is asked of the service and what may go wrong

\* The writer is a thread of its own, and run() retries a write only before commit().
ASSUME WriterAssumption == Writer \notin Workers /\ "write" \notin Idempotent

ASSUME CasesAssumption == \A k \in MCases : k.capacity \in Nat /\ k.msgs \subseteq Msgs

VARIABLES table,     \* kergit_app.messages, in the order of message_seq
          writing,   \* async_writer_ is set
          stopping,  \* AsyncMessageWriter::stop has been called
          queue,     \* the DbWriteQueue's items
          size,      \* its size_ counter
          subs,      \* connections subscribed to the channel's topic
          shown,     \* client -> the messages it was shown
          asked,     \* clients that were ever answered a page
          oldest,    \* client -> the first message of its oldest page
          synced,    \* clients whose selection of the channel was answered
          partial,   \* clients that were sent a full page after their cursor
          unsent, asks, case,
          unsure,    \* history: messages stored by a commit reported as failed
          accepted,  \* history: messages queued and answered before stop was called
          writeOff   \* history: messages given up, which the counters record

input    == <<unsent, asks, case>>
pages    == <<shown, asked, oldest>>
writer   == <<writing, stopping, queue, size>>
clients  == <<subs, pages, synced, partial>>
history  == <<unsure, accepted, writeOff>>
messageVars == <<table, writer, clients, input, history>>
vars     == <<poolVars, dbVars, thread, messageVars>>

Frame(pc, op, m, c) ==
    [pc |-> pc, op |-> op, msg |-> m, client |-> c, cursor |-> 0, page |-> {}, tries |-> 0,
     pool |-> IF op \in {"send", "write"} THEN "write" ELSE "read", slot |-> NoSlot, attempt |-> 1]

\* A variant: the page is fetched before the topic is subscribed.
SelectOrderSwapped(after) == CASE after = "start"      -> "lease"
                               [] after = "fetched"    -> "subscribe"
                               [] after = "subscribed" -> "reply"

\* The steps of SelectActiveChannel: subscribe, fetch, reply.
SelectOrder(after) == CASE after = "start"      -> "subscribe"
                        [] after = "subscribed" -> "lease"
                        [] after = "fetched"    -> "reply"

\* Where a thread goes on when its transaction is done, and when it has failed.
Done(t)   == CASE thread[t].op = "send"   -> "fan_out"
               [] thread[t].op = "write"  -> "stored"
               [] thread[t].op = "before" -> "reply"
               [] OTHER                   -> SelectOrder("fetched")
Failed(t) == IF thread[t].op = "write" THEN "failed" ELSE "error"

-----------------------------------------------------------------------------
(* MessageRepository                                                       *)

\* fetchMessages, fetchMessagesAfter and fetchMessagesBefore: the sequence numbers
\* of the rows in a page.
LatestPage == (Len(table) - PageLimit + 1 .. Len(table)) \cap DOMAIN table

PageAfter(seq) == (seq + 1 .. seq + PageLimit) \cap DOMAIN table
PageBefore(seq) == (seq - PageLimit .. seq - 1) \cap DOMAIN table

FetchPage(f) == CASE f.op = "latest" -> LatestPage
                  [] f.op = "after"  -> PageAfter(f.cursor)
                  [] f.op = "before" -> PageBefore(f.cursor)

\* insertMessage names the id, so the row of an earlier attempt is in its way;
\* sendMessage leaves the id to the database.
Refused(f) == f.op = "write" /\ f.msg \in Range(table)

\* The trigger numbers the row under the lock of the channel's counter, which is
\* held up to the commit.
Apply(f) == table' = IF f.op \in {"send", "write"} THEN Append(table, f.msg) ELSE table

Transact(t) ==
    \/ Lease(t, Failed(t)) /\ UNCHANGED messageVars
    \/ Connect(t, Failed(t)) /\ UNCHANGED messageVars
    \/ /\ thread[t].pc = "exec" /\ thread[t].pool = "read"
       /\ Execute(t, [thread[t] EXCEPT !.page = FetchPage(thread[t])]) /\ UNCHANGED messageVars
    \/ /\ thread[t].pc = "exec" /\ thread[t].pool = "write" /\ ~Refused(thread[t])
       /\ Execute(t, thread[t]) /\ UNCHANGED messageVars
    \/ /\ thread[t].pc = "exec" /\ Refused(thread[t])
       /\ Refuse(t, Failed(t)) /\ UNCHANGED messageVars
    \/ ExecuteBroken(t) /\ UNCHANGED messageVars
    \/ Commit(t, Done(t)) /\ Apply(thread[t]) /\ UNCHANGED <<writer, clients, input, history>>
    \/ CommitBroken(t, Failed(t)) /\ UNCHANGED messageVars
    \/ /\ CommitUnanswered(t, Failed(t)) /\ Apply(thread[t])
       /\ unsure' = IF thread[t].op = "send" THEN unsure \cup {thread[t].msg} ELSE unsure
       /\ UNCHANGED <<writer, clients, input, accepted, writeOff>>
    \/ Retry(t, Failed(t)) /\ UNCHANGED messageVars

-----------------------------------------------------------------------------
(* SendMessageCommand and MessageService::sendMessage                      *)

\* A valid message of a member; what the command checks before is the business
\* of the hub modules.
SendMessage(t, m) ==
    /\ At(t, "idle") /\ m \in unsent
    /\ unsent' = unsent \ {m}
    /\ Goto(t, Frame(IF writing THEN "enqueue" ELSE "lease", "send", m, "none"))
    /\ UNCHANGED <<poolVars, dbVars, table, writer, clients, asks, case, history>>

\* A variant: one message more than the capacity.
HasRoomAndOne == case.capacity = 0 \/ size <= case.capacity

\* reserve_slot_: an atomic compare and exchange; capacity 0 means no limit.
HasRoom == case.capacity = 0 \/ size < case.capacity

\* enqueue, up to the push.  When stopAsyncWriter has destroyed the writer since
\* the pointer was tested, the call may answer anything.
Enqueue(t) ==
    /\ At(t, "enqueue")
    /\ \/ writing /\ HasRoom /\ size' = size + 1 /\ Proceed(t, "push")
       \/ writing /\ ~HasRoom /\ Proceed(t, "error") /\ UNCHANGED size
       \/ ~writing /\ (Proceed(t, "fan_out") \/ Proceed(t, "error")) /\ UNCHANGED size
    /\ UNCHANGED <<poolVars, dbVars, table, writing, stopping, queue, clients, input, history>>

\* ThreadSafeQueue::push takes an item whether the queue is stopped or not.
Push(t) ==
    LET f == thread[t]
    IN  /\ At(t, "push")
        /\ queue' = IF writing THEN Append(queue, [msg |-> f.msg, tries |-> f.tries]) ELSE queue
        /\ accepted' = IF stopping THEN accepted ELSE accepted \cup {f.msg}
        /\ IF f.op = "send" THEN Proceed(t, "fan_out") ELSE Finish(t)
        /\ UNCHANGED <<poolVars, dbVars, table, writing, stopping, size, clients, input, unsure, writeOff>>

\* The append is sent to the subscribers of this moment.
FanOut(t) ==
    /\ At(t, "fan_out")
    /\ shown' = [c \in Clients |-> IF c \in subs THEN shown[c] \cup {thread[t].msg} ELSE shown[c]]
    /\ Finish(t)
    /\ UNCHANGED <<poolVars, dbVars, table, writer, subs, asked, oldest, synced, partial, input, history>>

\* QueueFull, RepoFailure: the command answers an error.
AnswerError(t) ==
    /\ At(t, "error")
    /\ Finish(t)
    /\ UNCHANGED <<poolVars, dbVars, messageVars>>

-----------------------------------------------------------------------------
(* AsyncMessageWriter                                                      *)

\* DbWriteQueue::pop takes the item and then lowers the counter.
Pop ==
    /\ At(Writer, "idle") /\ queue # <<>>
    /\ queue' = Tail(queue)
    /\ Goto(Writer, [Frame("popped", "write", Head(queue).msg, "none") EXCEPT !.tries = Head(queue).tries])
    /\ UNCHANGED <<poolVars, dbVars, table, writing, stopping, size, clients, input, history>>

PopDone ==
    /\ At(Writer, "popped")
    /\ size' = size - 1
    /\ Proceed(Writer, "lease")
    /\ UNCHANGED <<poolVars, dbVars, table, writing, stopping, queue, clients, input, history>>

Stored ==
    /\ At(Writer, "stored")
    /\ Finish(Writer)
    /\ UNCHANGED <<poolVars, dbVars, messageVars>>

\* A variant: a failed write is not queued again.
WriteFailedOnce ==
    /\ At(Writer, "failed")
    /\ Finish(Writer)
    /\ UNCHANGED <<poolVars, dbVars, messageVars>>

\* A failed write goes to the back of the queue if that has room, and is given
\* up and counted if not, or after max_retries_.
WriteFailed ==
    LET f == thread[Writer]
        again == f.tries < MaxRetries /\ HasRoom
    IN  /\ At(Writer, "failed")
        /\ IF again
           THEN Goto(Writer, [f EXCEPT !.pc = "push", !.tries = @ + 1]) /\ size' = size + 1
           ELSE Finish(Writer) /\ UNCHANGED size
        /\ writeOff' = IF again THEN writeOff ELSE writeOff \cup {f.msg}
        /\ UNCHANGED <<poolVars, dbVars, table, writing, stopping, queue, clients, input, unsure, accepted>>

\* AppStack::stop: the writer empties the queue and ends, and is destroyed, while
\* the worker pool is still running.
StopWriter ==
    /\ writing /\ ~stopping /\ case.stops
    /\ stopping' = TRUE
    /\ UNCHANGED <<poolVars, dbVars, thread, table, writing, queue, size, clients, input, history>>

WriterEnds ==
    /\ stopping /\ writing /\ At(Writer, "idle") /\ queue = <<>>
    /\ Goto(Writer, [pc |-> "gone", slot |-> NoSlot])
    /\ UNCHANGED <<poolVars, dbVars, messageVars>>

DestroyWriter ==
    /\ writing /\ At(Writer, "gone")
    /\ writing' = FALSE /\ queue' = <<>> /\ size' = 0
    /\ UNCHANGED <<poolVars, dbVars, thread, table, stopping, clients, input, history>>

-----------------------------------------------------------------------------
(* SelectActiveChannelCommand and FetchMessagesBeforeCommand               *)

Has(c, i) == i \in DOMAIN table /\ table[i] \in shown[c]

\* The last message up to which the client has everything since its oldest page.
KnownLatest(c) ==
    CHOOSE k \in oldest[c] - 1 .. Len(table) : ~Has(c, k + 1) /\ \A i \in oldest[c] .. k : Has(c, i)

\* The client selects the channel, for the first time or with a cursor.
SelectActiveChannel(t, c, op) ==
    /\ At(t, "idle") /\ asks > 0 /\ ~\E x \in Workers : thread[x] # Idle /\ thread[x].client = c
    /\ op = "after" => c \in asked /\ KnownLatest(c) > 0
    /\ asks' = asks - 1
    /\ synced' = synced \ {c}
    /\ shown' = IF op = "latest" THEN [shown EXCEPT ![c] = {}] ELSE shown
    /\ oldest' = IF op = "latest" THEN [oldest EXCEPT ![c] = 1] ELSE oldest
    /\ Goto(t, [Frame(SelectOrder("start"), op, "none", c) EXCEPT
                    !.cursor = IF op = "after" THEN KnownLatest(c) ELSE 0])
    /\ UNCHANGED <<poolVars, dbVars, table, writer, subs, asked, partial, unsent, case, history>>

Subscribe(t) ==
    /\ At(t, "subscribe")
    /\ subs' = subs \cup {thread[t].client}
    /\ Proceed(t, SelectOrder("subscribed"))
    /\ UNCHANGED <<poolVars, dbVars, table, writer, pages, synced, partial, input, history>>

\* The page before the first message the client has.
FetchMessagesBefore(t, c) ==
    /\ At(t, "idle") /\ asks > 0 /\ ~\E x \in Workers : thread[x] # Idle /\ thread[x].client = c
    /\ c \in asked /\ oldest[c] > 1
    /\ asks' = asks - 1
    /\ Goto(t, [Frame("lease", "before", "none", c) EXCEPT !.cursor = oldest[c]])
    /\ UNCHANGED <<poolVars, dbVars, table, writer, clients, unsent, case, history>>

\* The batch reaches the client.  A full page after a cursor may not be all.
Reply(t) ==
    LET f == thread[t]
        c == f.client
    IN  /\ At(t, "reply")
        /\ shown' = [shown EXCEPT ![c] = @ \cup {table[i] : i \in f.page}]
        /\ oldest' = IF f.op = "after" \/ f.page = {} THEN oldest ELSE [oldest EXCEPT ![c] = Min(f.page)]
        /\ asked' = asked \cup {c}
        /\ synced' = IF f.op = "before" THEN synced ELSE synced \cup {c}
        /\ partial' = IF f.op = "after" /\ Cardinality(f.page) = PageLimit THEN partial \cup {c}
                      ELSE IF f.op = "before" THEN partial ELSE partial \ {c}
        /\ Finish(t)
        /\ UNCHANGED <<poolVars, dbVars, table, writer, subs, input, history>>

\* The client's connection is gone, and with it the subscription.
Disconnect(c) ==
    /\ c \in synced /\ case.disconnects
    /\ ~\E x \in Workers : thread[x] # Idle /\ thread[x].client = c
    /\ subs' = subs \ {c} /\ synced' = synced \ {c}
    /\ UNCHANGED <<poolVars, dbVars, thread, table, writer, pages, partial, input, history>>

-----------------------------------------------------------------------------

Init ==
    /\ PersistenceInit
    /\ case \in MCases
    /\ up \/ case.downs > 0
    /\ drops = case.drops /\ losses = case.losses /\ downs = IF up THEN case.downs ELSE 0
    /\ thread = [t \in Workers \cup {Writer} |-> Idle]
    /\ table = <<>> /\ queue = <<>> /\ size = 0
    /\ writing = case.writing /\ stopping = FALSE
    /\ subs = {} /\ shown = [c \in Clients |-> {}] /\ asked = {} /\ oldest = [c \in Clients |-> 1]
    /\ synced = {} /\ partial = {}
    /\ unsent = case.msgs /\ asks = case.asks
    /\ unsure = {} /\ accepted = {} /\ writeOff = {}

Next ==
    \/ \E t \in Workers :
        \/ \E m \in Msgs : SendMessage(t, m)
        \/ Enqueue(t) \/ FanOut(t) \/ AnswerError(t) \/ Subscribe(t) \/ Reply(t)
        \/ \E c \in Clients : FetchMessagesBefore(t, c) \/ \E op \in {"latest", "after"} : SelectActiveChannel(t, c, op)
    \/ \E t \in Workers \cup {Writer} : Push(t) \/ Transact(t)
    \/ Pop \/ PopDone \/ Stored \/ WriteFailed \/ StopWriter \/ WriterEnds \/ DestroyWriter
    \/ \E c \in Clients : Disconnect(c)
    \/ DatabaseStep /\ UNCHANGED messageVars

Spec == Init /\ [][Next]_vars

-----------------------------------------------------------------------------
(* Properties                                                              *)

Quiet == \A t \in Workers : thread[t] = Idle
Written == At(Writer, "gone") \/ (thread[Writer] = Idle /\ queue = <<>>)
InHand(t) == IF thread[t] # Idle /\ thread[t].pc # "gone" /\ thread[t].op = "write" THEN {thread[t].msg} ELSE {}

\* The sets are of their kinds and DbWriteQueue keeps to its capacity: the counter
\* covers the items in the queue, so that a full queue is noticed.
MessagesTypeOK ==
    /\ Range(table) \subseteq Msgs /\ unsent \subseteq Msgs
    /\ synced \subseteq subs /\ subs \subseteq Clients
    /\ \A c \in Clients : shown[c] \subseteq Msgs
    /\ writing => Len(queue) <= size
    /\ writing /\ case.capacity # 0 => size <= case.capacity

\* Whatever breaks and is retried, by the transaction runner or by the writer, a
\* message that was sent once is stored at most once.
StoredOnce == \A i, j \in DOMAIN table : table[i] = table[j] => i = j

\* A message that was queued before the writer is stopped is stored, on its way,
\* or counted as given up; also during the shutdown.
NothingForgotten ==
    accepted \subseteq UNION {Range(table), {queue[i].msg : i \in DOMAIN queue}, InHand(Writer), writeOff}

HasNoHoles(c) == \A i \in oldest[c] .. Len(table) : table[i] \in shown[c] \cup unsure

\* "When Client D later selects channel alpha, it fetches the latest messages and
\* catches up": once everything is handled, a client that has selected the channel
\* and paged back has every message since its oldest page, live or fetched,
\* but for those whose commit was reported as failed, and for a client that was
\* sent a full page after its cursor and has to ask again.
SelectCatchesUp == Quiet /\ Written => \A c \in synced \ partial : HasNoHoles(c)

\* SelectCatchesUp, when messages are stored before they are fanned out.
SyncCatchesUp == ~case.writing => SelectCatchesUp

=============================================================================
