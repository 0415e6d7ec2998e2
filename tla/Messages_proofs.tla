---------------------------- MODULE Messages_proofs ----------------------------
(***************************************************************************)
(* No slot of a pool is lost or shared, no message is stored twice or        *)
(* forgotten, and the write queue keeps to its capacity, for any number of   *)
(* threads, slots, messages and clients and whatever breaks.                 *)
(***************************************************************************)
EXTENDS Messages, FiniteSetTheorems, TLAPS

Threads == Workers \cup {Writer}

\* The steps of run() that hold a slot, and all of its steps.
Leasing == {"connect", "exec", "commit", "retry"}
Running == Leasing \cup {"lease"}

Fields == {"pc", "op", "msg", "client", "cursor", "page", "tries", "pool", "slot", "attempt"}
IsFrame(f) == DOMAIN f = Fields /\ f = [x \in Fields |-> f[x]]
Gone == [pc |-> "gone", slot |-> NoSlot]

\* What a frame may look like: the steps of its operation, and a slot exactly where
\* run() holds one.
FrameOK(f) ==
    /\ IsFrame(f)
    /\ \/ f.op = "send" /\ f.pc \in Running \cup {"enqueue", "push", "fan_out", "error"}
       \/ f.op = "write" /\ f.pc \in Running \cup {"popped", "push", "stored", "failed"}
       \/ f.op \in {"latest", "after"} /\ f.pc \in Running \cup {"subscribe", "reply", "error"}
       \/ f.op = "before" /\ f.pc \in Running \cup {"reply", "error"}
    /\ f.tries \in Nat
    /\ f.op \in {"send", "write"} => f.msg \in Msgs /\ f.pool = "write"
    /\ f.op \notin {"send", "write"} => f.client \in Clients /\ f.pool = "read"
    /\ IF f.pc \in Leasing THEN f.slot \in Pools \X Slots ELSE f.slot = NoSlot

ThreadsOK ==
    /\ thread = [t \in Threads |-> thread[t]]
    /\ \A t \in Workers : thread[t] = Idle \/ (FrameOK(thread[t]) /\ thread[t].op # "write")
    /\ thread[Writer] \in {Idle, Gone} \/ (FrameOK(thread[Writer]) /\ thread[Writer].op = "write")

\* A slot is free, or one thread has it.
SlotsOwned ==
    /\ free \subseteq Pools \X Slots
    /\ \A t \in Threads : thread[t].pc \in Leasing => thread[t].slot \notin free
    /\ \A t, u \in Threads : thread[t].pc \in Leasing /\ thread[u].pc \in Leasing
                                /\ thread[t].slot = thread[u].slot => t = u
    /\ \A s \in (Pools \X Slots) \ free : \E t \in Threads : thread[t].pc \in Leasing /\ thread[t].slot = s

-----------------------------------------------------------------------------
Items == [msg : Msgs, tries : Nat]
MsgsOf(q) == {q[i].msg : i \in DOMAIN q}
QueuedMsgs == MsgsOf(queue)
Distinct(q) == \A i, j \in DOMAIN q : q[i].msg = q[j].msg => i = j

\* The worker has a message that is neither queued nor stored yet.
Holds(f) == f # Idle /\ f.op = "send" /\ f.pc \in Running \cup {"enqueue", "push"}
Carries(x) == Holds(thread[x])

\* A message is in one place: not sent yet, with a worker, in the queue, with the writer,
\* or stored; only one of the last three may also be stored already.
InOnePlace ==
    /\ \A x \in Workers : Carries(x) =>
          thread[x].msg \notin UNION {unsent, Range(table), QueuedMsgs, InHand(Writer)}
    /\ \A x, y \in Workers : Carries(x) /\ Carries(y) /\ thread[x].msg = thread[y].msg => x = y
    /\ unsent \cap UNION {Range(table), QueuedMsgs, InHand(Writer)} = {}
    /\ Distinct(queue)
    /\ InHand(Writer) \cap QueuedMsgs = {}
    /\ At(Writer, "commit") => thread[Writer].msg \notin Range(table)
    /\ StoredOnce

\* What the end of the writer rests on.
WriterEndsClean ==
    /\ NothingForgotten
    /\ At(Writer, "stored") => thread[Writer].msg \in Range(table)
    /\ At(Writer, "gone") => stopping /\ accepted \subseteq Range(table) \cup writeOff
    /\ ~writing => /\ queue = <<>>
                   /\ \/ At(Writer, "gone")
                      \/ /\ ~stopping /\ thread[Writer] = Idle
                         /\ \A x \in Workers : thread[x].pc \notin {"enqueue", "push"}

Pushing == {t \in Threads : At(t, "push")}

\* The counter is ahead of the queue by the items about to be pushed and the item
\* just taken out.
CounterExact ==
    /\ IsFiniteSet(Pushing) /\ size \in Int /\ case.capacity \in Nat
    /\ writing => size = Len(queue) + Cardinality(Pushing) + IF At(Writer, "popped") THEN 1 ELSE 0
    /\ writing /\ case.capacity # 0 => size <= case.capacity

\* What the steps need to know of counting; Counts has it from the library.
Counting ==
    /\ \A S : IsFiniteSet(S) => Cardinality(S) \in Nat
    /\ \A S, x : IsFiniteSet(S) /\ x \notin S =>
          IsFiniteSet(S \cup {x}) /\ Cardinality(S \cup {x}) = Cardinality(S) + 1
    /\ \A S, x : IsFiniteSet(S) /\ x \in S =>
          IsFiniteSet(S \ {x}) /\ Cardinality(S \ {x}) = Cardinality(S) - 1

\* A client whose selection is under way is subscribed once the command has done so.
SelectionsSubscribed ==
    /\ synced \subseteq subs /\ subs \subseteq Clients
    /\ shown = [c \in Clients |-> shown[c]]
    /\ \A c \in Clients : shown[c] \subseteq Msgs
    /\ \A x \in Workers :
          thread[x] # Idle /\ thread[x].op \in {"latest", "after"} /\ thread[x].pc # "subscribe"
             => thread[x].client \in subs
    /\ \A x \in Workers : thread[x] # Idle => thread[x].page \subseteq DOMAIN table

MessagesInv ==
    /\ table \in Seq(Msgs) /\ queue \in Seq(Items) /\ unsent \subseteq Msgs
    /\ ThreadsOK /\ SlotsOwned /\ InOnePlace /\ WriterEndsClean /\ CounterExact
    /\ SelectionsSubscribed

-----------------------------------------------------------------------------
(* Frames                                                                  *)

\* The updates the threads make to their frames, and what they leave as it is.
WithPc(f, p)       == [f EXCEPT !.pc = p]
SlotTaken(f, s)    == [f EXCEPT !.pc = "connect", !.slot = s]
Returned(f, p)     == [f EXCEPT !.pc = p, !.slot = NoSlot, !.attempt = 1]
TriedAgain(f)      == [f EXCEPT !.pc = "exec", !.attempt = @ + 1]
WithPage(f, page)  == [[f EXCEPT !.page = page] EXCEPT !.pc = "commit"]
PushedAgain(f)     == [f EXCEPT !.pc = "push", !.tries = @ + 1]
WithCursor(f, seq) == [f EXCEPT !.cursor = seq]
WithTries(f, n)    == [f EXCEPT !.tries = n]

SameCall(g, f) ==
    IsFrame(g) /\ g.op = f.op /\ g.msg = f.msg /\ g.client = f.client /\ g.pool = f.pool

\* What an update leaves as it is, and what it changes.
Updates(g, f, pc, slot, tries, page) ==
    SameCall(g, f) /\ g.pc = pc /\ g.slot = slot /\ g.tries = tries /\ g.page = page

\* Going to the next step changes nothing else in the frame.
LEMMA WithPcIs ==
    ASSUME NEW f, IsFrame(f), NEW p
    PROVE  Updates(WithPc(f, p), f, p, f.slot, f.tries, f.page)
BY Zenon DEF Updates, IsFrame, SameCall, Fields, WithPc

\* A lease fills in the slot.
LEMMA SlotTakenIs ==
    ASSUME NEW f, IsFrame(f), NEW s
    PROVE  Updates(SlotTaken(f, s), f, "connect", s, f.tries, f.page)
BY Zenon DEF Updates, IsFrame, SameCall, Fields, SlotTaken

\* A return gives up the slot and starts the count of attempts anew.
LEMMA ReturnedIs ==
    ASSUME NEW f, IsFrame(f), NEW p
    PROVE  Updates(Returned(f, p), f, p, NoSlot, f.tries, f.page)
BY Zenon DEF Updates, IsFrame, SameCall, Fields, Returned

\* Another attempt keeps the slot.
LEMMA TriedAgainIs ==
    ASSUME NEW f, IsFrame(f)
    PROVE  Updates(TriedAgain(f), f, "exec", f.slot, f.tries, f.page)
BY Zenon DEF Updates, IsFrame, SameCall, Fields, TriedAgain

\* A query fills in the page.
LEMMA WithPageIs ==
    ASSUME NEW f, IsFrame(f), NEW page
    PROVE  Updates(WithPage(f, page), f, "commit", f.slot, f.tries, page)
BY Zenon DEF Updates, IsFrame, SameCall, Fields, WithPage

\* The writer takes its message back to the queue with one more try.
LEMMA PushedAgainIs ==
    ASSUME NEW f, IsFrame(f)
    PROVE  Updates(PushedAgain(f), f, "push", f.slot, f.tries + 1, f.page)
BY Zenon DEF Updates, IsFrame, SameCall, Fields, PushedAgain

\* The cursor a read starts from is no part of what the invariant is about.
LEMMA WithCursorIs ==
    ASSUME NEW f, IsFrame(f), NEW seq
    PROVE  Updates(WithCursor(f, seq), f, f.pc, f.slot, f.tries, f.page)
BY Zenon DEF Updates, IsFrame, SameCall, Fields, WithCursor

\* The tries of an item come along into the frame.
LEMMA WithTriesIs ==
    ASSUME NEW f, IsFrame(f), NEW n
    PROVE  Updates(WithTries(f, n), f, f.pc, f.slot, n, f.page)
BY Zenon DEF Updates, IsFrame, SameCall, Fields, WithTries

\* A new frame.
LEMMA FrameNew ==
    ASSUME NEW pc, NEW op, NEW m, NEW c
    PROVE  /\ IsFrame(Frame(pc, op, m, c))
           /\ Frame(pc, op, m, c).pc = pc /\ Frame(pc, op, m, c).op = op
           /\ Frame(pc, op, m, c).msg = m /\ Frame(pc, op, m, c).client = c
           /\ Frame(pc, op, m, c).pool = IF op \in {"send", "write"} THEN "write" ELSE "read"
           /\ Frame(pc, op, m, c).slot = NoSlot /\ Frame(pc, op, m, c).tries = 0
           /\ Frame(pc, op, m, c).page = {}
BY Zenon DEF IsFrame, Fields, Frame

\* The program counters of a thread without a call.
LEMMA Marks == Idle.pc = "idle" /\ Gone.pc = "gone"
BY Zenon DEF Idle, Gone

\* A thread inside run() is in a frame; one at another place of an operation, too.
LEMMA FrameHere ==
    ASSUME ThreadsOK, NEW t \in Threads, thread[t].pc \notin {"idle", "gone"}
    PROVE  /\ FrameOK(thread[t]) /\ IsFrame(thread[t])
           /\ t \in Workers => thread[t].op # "write"
           /\ t = Writer => thread[t].op = "write"
BY WriterAssumption DEF ThreadsOK, Threads, Idle, Gone, FrameOK

\* An idle thread and one that has ended are in no frame.
LEMMA FrameKinds ==
    ASSUME NEW f, f = Idle \/ f = Gone \/ FrameOK(f)
    PROVE  /\ f.pc = "idle" <=> f = Idle
           /\ f.pc = "gone" <=> f = Gone
           /\ f.pc \notin {"idle", "gone"} => FrameOK(f)
           /\ f.pc \in Leasing => f.slot \in Pools \X Slots
           /\ f.pc \notin Leasing /\ f # Idle => f.slot = NoSlot
BY DEF Idle, Gone, FrameOK, Running, Leasing

\* A thread goes from one frame of its own to another.
Steps(t, g) ==
    /\ thread' = [thread EXCEPT ![t] = g]
    /\ t \in Workers => g = Idle \/ (FrameOK(g) /\ g.op # "write")
    /\ t = Writer => g \in {Idle, Gone} \/ (FrameOK(g) /\ g.op = "write")

\* A thread that steps to a proper frame leaves the others where they are.
LEMMA ThreadsKept ==
    ASSUME ThreadsOK, NEW t \in Threads, NEW g, Steps(t, g)
    PROVE  /\ ThreadsOK'
           /\ thread'[t] = g /\ \A u \in Threads \ {t} : thread'[u] = thread[u]
BY Zenon, WriterAssumption DEF ThreadsOK, Threads, Steps

-----------------------------------------------------------------------------
(* Sequences                                                               *)

\* What Append does to the length, the domain and the elements.
LEMMA AppendItem ==
    ASSUME NEW S, NEW s \in Seq(S), NEW e \in S
    PROVE  /\ Append(s, e) \in Seq(S) /\ Len(Append(s, e)) = Len(s) + 1
           /\ DOMAIN s = 1 .. Len(s) /\ Len(s) \in Nat
           /\ DOMAIN Append(s, e) = DOMAIN s \cup {Len(s) + 1}
           /\ Range(Append(s, e)) = Range(s) \cup {e}
           /\ \A i \in DOMAIN s : Append(s, e)[i] = s[i]
           /\ Append(s, e)[Len(s) + 1] = e
<1>1. /\ Append(s, e) \in Seq(S) /\ Len(Append(s, e)) = Len(s) + 1
      /\ DOMAIN s = 1 .. Len(s) /\ Len(s) \in Nat
      /\ DOMAIN Append(s, e) = DOMAIN s \cup {Len(s) + 1}
      /\ \A i \in DOMAIN s : Append(s, e)[i] = s[i]
      /\ Append(s, e)[Len(s) + 1] = e
  OBVIOUS
<1>2. Range(Append(s, e)) = Range(s) \cup {e}
  BY Zenon, <1>1 DEF Range
<1>. QED BY Zenon, <1>1, <1>2

\* An item whose message is not in the queue yet is added, ...
LEMMA Queued ==
    ASSUME NEW q \in Seq(Items), NEW e \in Items
    PROVE  /\ MsgsOf(Append(q, e)) = MsgsOf(q) \cup {e.msg}
           /\ Distinct(q) /\ e.msg \notin MsgsOf(q) => Distinct(Append(q, e))
<1>. DEFINE r == Append(q, e)
<1>1. /\ DOMAIN q = 1 .. Len(q) /\ Len(q) \in Nat
      /\ DOMAIN r = DOMAIN q \cup {Len(q) + 1}
      /\ \A i \in DOMAIN q : r[i] = q[i]
      /\ r[Len(q) + 1] = e
  BY AppendItem
<1>. HIDE DEF r
<1>2. MsgsOf(r) = MsgsOf(q) \cup {e.msg}
  BY <1>1 DEF MsgsOf
<1>3. Distinct(q) /\ e.msg \notin MsgsOf(q) => Distinct(r)
  BY ZenonT(30), <1>1 DEF MsgsOf, Distinct
<1>. QED BY Zenon, <1>2, <1>3 DEF r

\* ... and the first one is taken out.
LEMMA Unqueued ==
    ASSUME NEW q \in Seq(Items), q # <<>>
    PROVE  /\ Head(q) \in Items /\ Tail(q) \in Seq(Items) /\ Len(Tail(q)) = Len(q) - 1
           /\ MsgsOf(q) = MsgsOf(Tail(q)) \cup {Head(q).msg}
           /\ Distinct(q) => Distinct(Tail(q)) /\ Head(q).msg \notin MsgsOf(Tail(q))
<1>. DEFINE r == Tail(q)
<1>1. /\ DOMAIN q = 1 .. Len(q) /\ Len(q) \in Nat \ {0}
      /\ Head(q) \in Items /\ r \in Seq(Items) /\ Len(r) = Len(q) - 1
      /\ DOMAIN r = 1 .. (Len(q) - 1)
      /\ \A i \in 1 .. (Len(q) - 1) : r[i] = q[i + 1]
      /\ Head(q) = q[1]
  OBVIOUS
<1>. HIDE DEF r
<1>2. MsgsOf(q) \subseteq MsgsOf(r) \cup {q[1].msg}
  <2>. SUFFICES ASSUME NEW i \in DOMAIN q, i # 1
                PROVE  q[i].msg \in MsgsOf(r)
    BY Zenon DEF MsgsOf
  <2>1. i - 1 \in DOMAIN r /\ r[i - 1] = q[i]
    BY <1>1
  <2>. QED BY Zenon, <2>1 DEF MsgsOf
<1>3. MsgsOf(r) \cup {q[1].msg} \subseteq MsgsOf(q)
  <2>1. 1 \in DOMAIN q /\ \A i \in DOMAIN r : i + 1 \in DOMAIN q /\ r[i] = q[i + 1]
    BY <1>1
  <2>. QED BY Zenon, <2>1 DEF MsgsOf
<1>4. ASSUME Distinct(q)
      PROVE  Distinct(r) /\ q[1].msg \notin MsgsOf(r)
  <2>1. \A i \in DOMAIN r : i + 1 \in DOMAIN q /\ r[i] = q[i + 1] /\ i + 1 # 1 /\ i \in Nat
    BY <1>1
  <2>2. Distinct(r)
    BY <1>4, <2>1 DEF Distinct
  <2>3. 1 \in DOMAIN q /\ \A i \in DOMAIN r : q[i + 1].msg # q[1].msg
    BY <1>1, <1>4, <2>1 DEF Distinct
  <2>. QED BY Zenon, <2>1, <2>2, <2>3 DEF MsgsOf
<1>. QED BY Zenon, <1>1, <1>2, <1>3, <1>4 DEF r

-----------------------------------------------------------------------------
(* A step of run()                                                         *)

\* What it does to the slots of the pool, ...
SlotMoves(f, g) ==
    \/ f.pc = "lease" /\ g.pc = "connect" /\ g.slot \in free /\ free' = free \ {g.slot}
    \/ f.pc \in Leasing /\ g.pc \in Leasing /\ g.slot = f.slot /\ free' = free
    \/ f.pc \in Leasing /\ g.pc \notin Running /\ g.slot = NoSlot /\ free' = free \cup {f.slot}
    \/ f.pc = "lease" /\ g.pc \notin Running /\ g.slot = NoSlot /\ free' = free

\* ... to the table, which only a commit changes, and after which only a read is tried
\* again, ...
TableMoves(t, f, g) ==
    \/ g.pc \in Running \ {"commit"} /\ table' = table
    \/ f.pc = "exec" /\ g.pc = "commit" /\ ~Refused(f) /\ table' = table
    \/ f.pc = "commit" /\ g.pc \in {Done(t), Failed(t)} /\ Apply(f)
    \/ g.pc = Failed(t) /\ table' = table

\* ... and to the thread: one frame changes, and stays that of its operation.
Moves(t, f, g) ==
    /\ thread' = [thread EXCEPT ![t] = g] /\ f.pc \in Running
    /\ SameCall(g, f) /\ g.tries = f.tries /\ (g.page = f.page \/ g.page \subseteq DOMAIN table)
    /\ SlotMoves(f, g) /\ TableMoves(t, f, g)
    /\ UNCHANGED <<writer, clients, input, accepted, writeOff>>

\* A slot stays with one thread, whether the thread is in run() or elsewhere.
LEMMA SlotsKept ==
    ASSUME ThreadsOK, SlotsOwned, NEW t \in Threads, NEW g, Steps(t, g),
           \/ SlotMoves(thread[t], g)
           \/ thread[t].pc \notin Leasing /\ g.pc \notin Leasing /\ free' = free
    PROVE  SlotsOwned'
<1>1. thread'[t] = g /\ \A u \in Threads \ {t} : thread'[u] = thread[u]
  BY Zenon, ThreadsKept
<1>. DEFINE f == thread[t]
<1>2. /\ f = Idle \/ f = Gone \/ FrameOK(f)
      /\ g = Idle \/ g = Gone \/ FrameOK(g)
  BY Zenon DEF ThreadsOK, Steps, Threads
<1>3. /\ f.pc \in Leasing => f.slot \in Pools \X Slots
      /\ g.pc \in Leasing => g.slot \in Pools \X Slots
  BY Zenon, <1>2, FrameKinds
<1>. HIDE DEF f
<1>4. CASE f.pc = "lease" /\ g.pc = "connect" /\ g.slot \in free /\ free' = free \ {g.slot}
  BY <1>1, <1>3, <1>4 DEF SlotsOwned, Leasing, f
<1>5. CASE f.pc \in Leasing /\ g.pc \in Leasing /\ g.slot = f.slot /\ free' = free
  BY <1>1, <1>3, <1>5 DEF SlotsOwned, f
<1>6. CASE f.pc \in Leasing /\ g.pc \notin Leasing /\ free' = free \cup {f.slot}
  BY <1>1, <1>3, <1>6 DEF SlotsOwned, f
<1>7. CASE f.pc \notin Leasing /\ g.pc \notin Leasing /\ free' = free
  BY <1>1, <1>3, <1>7 DEF SlotsOwned, f
<1>. QED BY Zenon, <1>4, <1>5, <1>6, <1>7 DEF SlotMoves, Running, Leasing, f

\* Where a thread goes on after its transaction.
LEMMA Outcomes ==
    ASSUME ThreadsOK, NEW t \in Threads, thread[t].pc \in Running
    PROVE  /\ Done(t) \notin Running /\ Failed(t) \notin Running
           /\ Failed(t) = IF thread[t].op = "write" THEN "failed" ELSE "error"
           /\ thread[t].op = "send" => Done(t) = "fan_out"
           /\ thread[t].op = "write" => Done(t) = "stored"
           /\ thread[t].op \in {"latest", "after", "before"} => Done(t) = "reply"
<1>1. FrameOK(thread[t])
  BY Zenon, FrameHere DEF Running, Leasing
<1>. QED BY Zenon, <1>1 DEF FrameOK, Done, Failed, SelectOrder, Running, Leasing

\* Every step of Transact is of this kind.
LEMMA TransactMoves ==
    ASSUME ThreadsOK, SlotsOwned, NEW t \in Threads, Transact(t)
    PROVE  \E g : Moves(t, thread[t], g)
<1>. DEFINE f == thread[t]
<1>0. f.pc \in Running /\ f.pc \notin {"idle", "gone"}
  BY Zenon DEF Transact, Lease, Connect, Execute, Refuse, ExecuteBroken, Commit, CommitBroken,
         CommitUnanswered, Retry, At, Running, Leasing
<1>1. IsFrame(f) /\ FrameOK(f)
  BY Zenon, <1>0, FrameHere
<1>2. Done(t) \notin Running /\ Failed(t) \notin Running
  BY Zenon, <1>0, Outcomes
<1>. DEFINE to(p) == WithPc(f, p)
            failed == Returned(f, Failed(t))
<1>3. \A p : /\ SameCall(to(p), f) /\ to(p).pc = p /\ to(p).slot = f.slot
             /\ to(p).tries = f.tries /\ to(p).page = f.page
  BY Zenon, <1>1, WithPcIs DEF Updates
<1>4. /\ SameCall(failed, f) /\ failed.pc = Failed(t) /\ failed.slot = NoSlot
      /\ failed.tries = f.tries /\ failed.page = f.page
  BY ZenonT(30), <1>1, ReturnedIs DEF Updates
<1>5. ASSUME UNCHANGED messageVars
      PROVE  UNCHANGED <<writer, clients, input, accepted, writeOff>> /\ table' = table
  BY Zenon, <1>5 DEF messageVars, history
<1>6. CASE Lease(t, Failed(t)) /\ UNCHANGED messageVars
  <2>1. CASE \E s \in FreeIn(f.pool) : free' = free \ {s} /\ Goto(t, SlotTaken(f, s))
    <3>1. PICK s \in FreeIn(f.pool) : free' = free \ {s} /\ Goto(t, SlotTaken(f, s))
      BY Zenon, <2>1
    <3>. DEFINE g == SlotTaken(f, s)
    <3>2. SameCall(g, f) /\ g.pc = "connect" /\ g.slot = s /\ g.tries = f.tries /\ g.page = f.page
      BY Zenon, <1>1, SlotTakenIs DEF Updates
    <3>3. thread' = [thread EXCEPT ![t] = g] /\ s \in free
      BY Zenon, <3>1 DEF Goto, FreeIn
    <3>. HIDE DEF g
    <3>4. SlotMoves(f, g) /\ TableMoves(t, f, g)
      BY Zenon, <1>5, <1>6, <3>1, <3>2, <3>3 DEF SlotMoves, TableMoves, Lease, At, Running, Leasing
    <3>. QED BY Zenon, <1>0, <1>5, <1>6, <3>2, <3>3, <3>4 DEF Moves
  <2>2. CASE Return(t, Failed(t)) /\ UNCHANGED free
    <3>1. thread' = [thread EXCEPT ![t] = failed] /\ f.pc = "lease"
      BY Zenon, <1>6, <2>2 DEF Return, Goto, Returned, Lease, At
    <3>2. SlotMoves(f, failed) /\ TableMoves(t, f, failed)
      BY Zenon, <1>2, <1>4, <1>5, <1>6, <2>2, <3>1 DEF SlotMoves, TableMoves
    <3>. QED BY Zenon, <1>0, <1>4, <1>5, <1>6, <3>1, <3>2 DEF Moves
  <2>. QED BY Zenon, <1>6, <2>1, <2>2 DEF Lease, SlotTaken
<1>7. ASSUME NEW p \in Leasing \ {"commit"}, Proceed(t, p), UNCHANGED free, f.pc \in Leasing,
             table' = table, UNCHANGED <<writer, clients, input, accepted, writeOff>>
      PROVE  Moves(t, f, to(p))
  <2>1. thread' = [thread EXCEPT ![t] = to(p)]
    BY Zenon, <1>7 DEF Proceed, Goto, WithPc
  <2>2. SlotMoves(f, to(p)) /\ TableMoves(t, f, to(p))
    BY Zenon, <1>3, <1>7 DEF SlotMoves, TableMoves, Running
  <2>. QED BY Zenon, <1>0, <1>3, <1>7, <2>1, <2>2 DEF Moves
<1>8. ASSUME Release(t), Return(t, Failed(t)), f.pc \in Leasing,
             table' = table \/ (f.pc = "commit" /\ Apply(f)),
             UNCHANGED <<writer, clients, input, accepted, writeOff>>
      PROVE  Moves(t, f, failed)
  <2>1. thread' = [thread EXCEPT ![t] = failed] /\ free' = free \cup {f.slot}
    BY Zenon, <1>8 DEF Return, Goto, Returned, Release, SlotOf
  <2>2. SlotMoves(f, failed) /\ TableMoves(t, f, failed)
    BY Zenon, <1>2, <1>4, <1>8, <2>1 DEF SlotMoves, TableMoves
  <2>. QED BY Zenon, <1>0, <1>4, <1>8, <2>1, <2>2 DEF Moves
<1>. HIDE DEF to, failed
<1>9. CASE Connect(t, Failed(t)) /\ UNCHANGED messageVars
  <2>1. f.pc = "connect" /\ "exec" \in Leasing \ {"commit"} /\ f.pc \in Leasing
    BY Zenon, <1>9 DEF Connect, At, Leasing
  <2>2. \/ Proceed(t, "exec") /\ UNCHANGED free
        \/ Release(t) /\ Return(t, Failed(t))
    BY Zenon, <1>9 DEF Connect, poolVars
  <2>. QED BY Zenon, <1>5, <1>7, <1>8, <1>9, <2>1, <2>2
<1>10. CASE /\ f.pc = "exec" /\ f.pool = "read"
            /\ Execute(t, [f EXCEPT !.page = FetchPage(f)]) /\ UNCHANGED messageVars
  <2>. DEFINE g == WithPage(f, FetchPage(f))
  <2>1. /\ SameCall(g, f) /\ g.pc = "commit" /\ g.slot = f.slot /\ g.tries = f.tries
        /\ g.page = FetchPage(f)
    BY Zenon, <1>1, WithPageIs DEF Updates
  <2>2. thread' = [thread EXCEPT ![t] = g] /\ free' = free
    BY Zenon, <1>10 DEF Execute, Goto, poolVars, WithPage
  <2>. HIDE DEF g
  <2>3. f.op \in {"latest", "after", "before"} /\ ~Refused(f)
    BY Zenon, <1>1, <1>10 DEF FrameOK, Refused
  <2>4. g.page \subseteq DOMAIN table
    BY Zenon, <2>1, <2>3 DEF FetchPage, LatestPage, PageAfter, PageBefore
  <2>5. SlotMoves(f, g) /\ TableMoves(t, f, g)
    BY Zenon, <1>5, <1>10, <2>1, <2>2, <2>3 DEF SlotMoves, TableMoves, Leasing
  <2>. QED BY Zenon, <1>0, <1>5, <1>10, <2>1, <2>2, <2>4, <2>5 DEF Moves
<1>11. CASE /\ f.pc = "exec" /\ f.pool = "write" /\ ~Refused(f)
            /\ Execute(t, f) /\ UNCHANGED messageVars
  <2>1. thread' = [thread EXCEPT ![t] = to("commit")] /\ free' = free
    BY Zenon, <1>11 DEF Execute, Goto, to, WithPc, poolVars
  <2>2. SlotMoves(f, to("commit")) /\ TableMoves(t, f, to("commit"))
    BY Zenon, <1>3, <1>5, <1>11, <2>1 DEF SlotMoves, TableMoves, Leasing
  <2>. QED BY Zenon, <1>0, <1>3, <1>5, <1>11, <2>1, <2>2 DEF Moves
<1>12. CASE f.pc = "exec" /\ Refused(f) /\ Refuse(t, Failed(t)) /\ UNCHANGED messageVars
  BY Zenon, <1>5, <1>8, <1>12 DEF Refuse, Leasing
<1>13. CASE ExecuteBroken(t) /\ UNCHANGED messageVars
  BY Zenon, <1>5, <1>7, <1>13 DEF ExecuteBroken, At, Leasing
<1>14. CASE Commit(t, Done(t)) /\ Apply(f) /\ UNCHANGED <<writer, clients, input, history>>
  <2>. DEFINE g == Returned(f, Done(t))
  <2>1. /\ SameCall(g, f) /\ g.pc = Done(t) /\ g.slot = NoSlot
        /\ g.tries = f.tries /\ g.page = f.page
    BY Zenon, <1>1, ReturnedIs DEF Updates
  <2>2. thread' = [thread EXCEPT ![t] = g] /\ free' = free \cup {f.slot} /\ f.pc = "commit"
    BY Zenon, <1>14 DEF Commit, Return, Goto, Returned, Release, SlotOf, At
  <2>. HIDE DEF g
  <2>3. SlotMoves(f, g) /\ TableMoves(t, f, g)
    BY Zenon, <1>2, <1>14, <2>1, <2>2 DEF SlotMoves, TableMoves, Leasing
  <2>. QED BY Zenon, <1>0, <1>14, <2>1, <2>2, <2>3 DEF Moves, history
<1>15. CASE CommitBroken(t, Failed(t)) /\ UNCHANGED messageVars
  <2>1. f.pc = "commit" /\ AfterBrokenCommit(t, Failed(t))
    BY Zenon, <1>15 DEF CommitBroken, At
  <2>. QED BY Zenon, <1>5, <1>7, <1>8, <1>15, <2>1 DEF AfterBrokenCommit, Leasing
<1>16. CASE /\ CommitUnanswered(t, Failed(t)) /\ Apply(f)
            /\ UNCHANGED <<writer, clients, input, accepted, writeOff>>
  <2>1. f.pc = "commit" /\ AfterBrokenCommit(t, Failed(t))
    BY Zenon, <1>16 DEF CommitUnanswered, At
  <2>2. CASE f.pool \in Idempotent /\ Proceed(t, "retry") /\ UNCHANGED free
    <3>1. f.op \notin {"send", "write"}
      BY Zenon, <2>2, <1>1, WriterAssumption DEF FrameOK
    <3>2. table' = table
      BY Zenon, <3>1, <1>16 DEF Apply
    <3>. QED BY Zenon, <1>7, <1>16, <2>1, <2>2, <3>2 DEF Leasing
  <2>3. CASE Release(t) /\ Return(t, Failed(t))
    BY Zenon, <1>8, <1>16, <2>1, <2>3 DEF Leasing
  <2>. QED BY Zenon, <2>1, <2>2, <2>3 DEF AfterBrokenCommit
<1>17. CASE Retry(t, Failed(t)) /\ UNCHANGED messageVars
  <2>1. f.pc = "retry"
    BY Zenon, <1>17 DEF Retry, At
  <2>2. CASE Goto(t, TriedAgain(f)) /\ UNCHANGED free
    <3>. DEFINE g == TriedAgain(f)
    <3>1. /\ SameCall(g, f) /\ g.pc = "exec" /\ g.slot = f.slot
          /\ g.tries = f.tries /\ g.page = f.page
      BY Zenon, <1>1, TriedAgainIs DEF Updates
    <3>2. thread' = [thread EXCEPT ![t] = g]
      BY Zenon, <2>2 DEF Goto
    <3>. HIDE DEF g
    <3>3. SlotMoves(f, g) /\ TableMoves(t, f, g)
      BY Zenon, <1>5, <1>17, <2>1, <2>2, <3>1 DEF SlotMoves, TableMoves, Leasing, Running
    <3>. QED BY Zenon, <1>0, <1>5, <1>17, <3>1, <3>2, <3>3 DEF Moves
  <2>3. CASE Release(t) /\ Return(t, Failed(t))
    BY Zenon, <1>5, <1>8, <1>17, <2>1, <2>3 DEF Leasing
  <2>. QED BY Zenon, <1>17, <2>2, <2>3 DEF Retry, TriedAgain
<1>. QED BY Zenon, <1>6, <1>9, <1>10, <1>11, <1>12, <1>13, <1>14, <1>15, <1>16, <1>17 DEF Transact

-----------------------------------------------------------------------------
(* A step of one thread, seen by the others                                *)

\* A worker's step leaves what the writer has in hand alone.
LEMMA WorkerSteps ==
    ASSUME ThreadsOK, NEW t \in Workers, NEW g, Steps(t, g)
    PROVE  /\ t # Writer /\ t \in Threads
           /\ thread'[t] = g /\ \A x \in Workers \ {t} : thread'[x] = thread[x]
           /\ thread'[Writer] = thread[Writer] /\ InHand(Writer)' = InHand(Writer)
<1>1. t # Writer /\ t \in Threads /\ Writer \in Threads
  BY Zenon, WriterAssumption DEF Threads
<1>2. thread'[t] = g /\ \A u \in Threads \ {t} : thread'[u] = thread[u]
  BY Zenon, <1>1, ThreadsKept
<1>. QED BY Zenon, <1>1, <1>2 DEF Threads, InHand

\* A step of the writer decides what it has in hand and leaves the workers alone.
LEMMA WriterSteps ==
    ASSUME ThreadsOK, NEW g, Steps(Writer, g)
    PROVE  /\ thread'[Writer] = g /\ \A x \in Workers : thread'[x] = thread[x]
           /\ InHand(Writer) = IF thread[Writer].pc \in {"idle", "gone"} THEN {} ELSE {thread[Writer].msg}
           /\ InHand(Writer)' = IF g.pc \in {"idle", "gone"} THEN {} ELSE {g.msg}
<1>1. Writer \in Threads /\ Writer \notin Workers
  BY Zenon, WriterAssumption DEF Threads
<1>2. thread'[Writer] = g /\ \A x \in Workers : thread'[x] = thread[x]
  BY Zenon, <1>1, ThreadsKept DEF Threads
<1>3. ASSUME NEW f, f \in {Idle, Gone} \/ (FrameOK(f) /\ f.op = "write")
      PROVE  (f # Idle /\ f.pc # "gone" /\ f.op = "write") <=> f.pc \notin {"idle", "gone"}
  BY Zenon, <1>3, FrameKinds DEF Gone, Idle, FrameOK, Running, Leasing
<1>. QED BY Zenon, <1>2, <1>3 DEF InHand, ThreadsOK, Steps

\* The threads about to push, after a step of one thread.
LEMMA PushingMoves ==
    ASSUME ThreadsOK, NEW t \in Threads, NEW g, Steps(t, g)
    PROVE  /\ t \in Pushing <=> thread[t].pc = "push"
           /\ Pushing' = IF g.pc = "push" THEN Pushing \cup {t} ELSE Pushing \ {t}
<1>1. thread'[t] = g /\ \A u \in Threads \ {t} : thread'[u] = thread[u]
  BY Zenon, ThreadsKept
<1>. QED BY Zenon, <1>1 DEF Pushing, At

\* The frames of a worker that has no message to hand on.
Light(f) ==
    f = Idle \/ (FrameOK(f) /\ f.op # "write" /\ (f.op = "send" => f.pc \in {"fan_out", "error"}))

\* A worker that keeps to these leaves every message where it is.
LEMMA LightStep ==
    ASSUME MessagesInv, NEW t \in Workers, NEW g, Steps(t, g), Light(thread[t]), Light(g),
           UNCHANGED <<table, writer, unsent, case, accepted, writeOff>>
    PROVE  InOnePlace' /\ WriterEndsClean' /\ CounterExact'
<1>. USE DEF MessagesInv
<1>1. /\ t # Writer /\ t \in Threads
      /\ thread'[t] = g /\ \A x \in Workers \ {t} : thread'[x] = thread[x]
      /\ thread'[Writer] = thread[Writer] /\ InHand(Writer)' = InHand(Writer)
  BY Zenon, WorkerSteps
<1>2. ASSUME NEW f, Light(f)
      PROVE  ~Holds(f) /\ f.pc \notin {"enqueue", "push"}
  BY <1>2 DEF Light, Holds, FrameOK, Idle, Running, Leasing
<1>3. /\ table' = table /\ queue' = queue /\ size' = size /\ writing' = writing
      /\ stopping' = stopping /\ unsent' = unsent /\ case' = case /\ accepted' = accepted
      /\ writeOff' = writeOff
  BY Zenon DEF writer
<1>4. \A x \in Workers : (Carries(x)' <=> Carries(x)) /\ (Carries(x) => thread'[x] = thread[x])
  BY Zenon, <1>1, <1>2 DEF Carries
<1>5. \A x \in Workers : thread[x].pc \notin {"enqueue", "push"} => thread'[x].pc \notin {"enqueue", "push"}
  BY Zenon, <1>1, <1>2
<1>6. InOnePlace'
  BY Zenon, <1>1, <1>3, <1>4 DEF InOnePlace, At, StoredOnce, QueuedMsgs
<1>7. WriterEndsClean'
  BY ZenonT(30), <1>1, <1>3, <1>5 DEF WriterEndsClean, NothingForgotten, At
<1>8. Pushing' = Pushing
  BY Zenon, <1>1, <1>2, PushingMoves
<1>9. CounterExact'
  BY Zenon, <1>1, <1>3, <1>8 DEF CounterExact, At
<1>. QED BY Zenon, <1>6, <1>7, <1>9

\* Selections go on as they were while a worker's frame keeps its promise and the
\* table only grows.
LEMMA SelectionsKept ==
    ASSUME MessagesInv, NEW t \in Workers, NEW g, Steps(t, g), UNCHANGED clients,
           DOMAIN table \subseteq DOMAIN table',
           g = Idle \/ /\ g.page \subseteq DOMAIN table
                       /\ g.op \in {"latest", "after"} /\ g.pc # "subscribe" => g.client \in subs
    PROVE  SelectionsSubscribed'
<1>1. thread'[t] = g /\ \A x \in Workers \ {t} : thread'[x] = thread[x]
  BY Zenon, WorkerSteps DEF MessagesInv
<1>. QED BY Zenon, <1>1 DEF MessagesInv, SelectionsSubscribed, clients, pages

\* What the clients are shown is untouched when no worker moves and the table only grows.
LEMMA SelectionsApart ==
    ASSUME MessagesInv, \A x \in Workers : thread'[x] = thread[x], UNCHANGED clients,
           DOMAIN table \subseteq DOMAIN table'
    PROVE  SelectionsSubscribed'
BY Zenon DEF MessagesInv, SelectionsSubscribed, clients, pages

-----------------------------------------------------------------------------
(* A message with a worker                                                 *)

\* SendMessage: the message passes from the client to a worker.
LEMMA SendKeeps ==
    ASSUME MessagesInv, NEW t \in Workers, NEW m, SendMessage(t, m)
    PROVE  MessagesInv'
<1>. DEFINE start == IF writing THEN "enqueue" ELSE "lease"
            g == Frame(start, "send", m, "none")
<1>1. thread' = [thread EXCEPT ![t] = g] /\ thread[t].pc = "idle" /\ m \in unsent /\ m \in Msgs
  BY Zenon DEF SendMessage, Goto, At, MessagesInv
<1>. HIDE DEF start
<1>2. /\ IsFrame(g) /\ g.pc = start /\ g.op = "send" /\ g.msg = m
      /\ g.pool = "write" /\ g.slot = NoSlot /\ g.tries = 0 /\ g.page = {}
  BY FrameNew
<1>. HIDE DEF g
<1>. USE DEF start
<1>3. FrameOK(g) /\ g # Idle
  BY <1>1, <1>2 DEF FrameOK, Running, Leasing, Idle
<1>4. Steps(t, g) /\ ThreadsOK
  BY Zenon, <1>1, <1>2, <1>3, WriterAssumption DEF Steps, MessagesInv
<1>5. /\ t # Writer /\ t \in Threads
      /\ thread'[t] = g /\ \A x \in Workers \ {t} : thread'[x] = thread[x]
      /\ thread'[Writer] = thread[Writer] /\ InHand(Writer)' = InHand(Writer)
  BY Zenon, <1>4, WorkerSteps
<1>6. /\ table' = table /\ queue' = queue /\ size' = size /\ writing' = writing /\ free' = free
      /\ stopping' = stopping /\ unsent' = unsent \ {m} /\ case' = case /\ accepted' = accepted
      /\ writeOff' = writeOff /\ UNCHANGED clients
  BY Zenon DEF SendMessage, writer, history, poolVars
<1>7. ThreadsOK' /\ SlotsOwned'
  BY Zenon, <1>1, <1>2, <1>4, <1>5, <1>6, ThreadsKept, SlotsKept DEF MessagesInv, Leasing
<1>8. ~Carries(t) /\ Carries(t)' /\ thread'[t].msg = m
  BY Zenon, <1>1, <1>2, <1>3, <1>5 DEF Carries, Holds, Running, Leasing
<1>9. \A x \in Workers \ {t} : (Carries(x)' <=> Carries(x)) /\ thread'[x] = thread[x]
  BY Zenon, <1>5 DEF Carries
<1>10. InOnePlace'
  BY <1>1, <1>5, <1>6, <1>8, <1>9 DEF MessagesInv, InOnePlace, At, StoredOnce, QueuedMsgs
<1>11. WriterEndsClean'
  BY <1>2, <1>5, <1>6 DEF MessagesInv, WriterEndsClean, NothingForgotten, At
<1>12. Pushing' = Pushing
  BY Zenon, <1>1, <1>2, <1>4, <1>5, PushingMoves
<1>13. CounterExact'
  BY Zenon, <1>5, <1>6, <1>12 DEF MessagesInv, CounterExact, At
<1>14. SelectionsSubscribed'
  BY Zenon, <1>2, <1>4, <1>6, SelectionsKept
<1>. QED BY Zenon, <1>6, <1>7, <1>10, <1>11, <1>13, <1>14 DEF MessagesInv

\* enqueue: the counter is raised before the item is in the queue, unless that is full or gone.
LEMMA EnqueueKeeps ==
    ASSUME Counting, MessagesInv, NEW t \in Workers, Enqueue(t)
    PROVE  MessagesInv'
<1>. DEFINE f == thread[t]
<1>1. f.pc = "enqueue" /\ t \in Threads /\ ThreadsOK /\ f.pc \notin {"idle", "gone"}
  BY Zenon DEF Enqueue, At, Threads, MessagesInv
<1>2. IsFrame(f) /\ FrameOK(f) /\ f.op # "write"
  BY Zenon, <1>1, FrameHere
<1>3. f.op = "send" /\ f.slot = NoSlot
  BY Zenon, <1>1, <1>2 DEF FrameOK, Running, Leasing
<1>4. PICK p : /\ thread' = [thread EXCEPT ![t] = WithPc(f, p)]
               /\ \/ writing /\ HasRoom /\ size' = size + 1 /\ p = "push"
                  \/ writing /\ p = "error" /\ size' = size
                  \/ ~writing /\ p \in {"fan_out", "error"} /\ size' = size
  BY Zenon DEF Enqueue, Proceed, Goto, WithPc
<1>. DEFINE g == WithPc(f, p)
<1>5. SameCall(g, f) /\ g.pc = p /\ g.slot = f.slot /\ g.tries = f.tries /\ g.page = f.page
  BY Zenon, <1>2, WithPcIs DEF Updates
<1>6. thread' = [thread EXCEPT ![t] = g] /\ p \in {"push", "fan_out", "error"}
  BY Zenon, <1>4
<1>. HIDE DEF g, f
<1>7. FrameOK(g) /\ g # Idle /\ g.op = "send"
  BY <1>2, <1>3, <1>5, <1>6 DEF FrameOK, SameCall, Running, Leasing, Idle
<1>8. Steps(t, g)
  BY Zenon, <1>6, <1>7, WriterAssumption DEF Steps
<1>9. /\ t # Writer
      /\ thread'[t] = g /\ \A x \in Workers \ {t} : thread'[x] = thread[x]
      /\ thread'[Writer] = thread[Writer] /\ InHand(Writer)' = InHand(Writer)
  BY Zenon, <1>1, <1>8, WorkerSteps
<1>10. /\ table' = table /\ queue' = queue /\ writing' = writing /\ free' = free
       /\ stopping' = stopping /\ unsent' = unsent /\ case' = case /\ accepted' = accepted
       /\ writeOff' = writeOff /\ UNCHANGED clients
  BY Zenon DEF Enqueue, input, history, poolVars
<1>11. ThreadsOK' /\ SlotsOwned'
  BY Zenon, <1>1, <1>5, <1>6, <1>8, <1>9, <1>10, ThreadsKept, SlotsKept DEF MessagesInv, Leasing, f
<1>12. \A x \in Workers : Carries(x)' => Carries(x) /\ thread'[x].msg = thread[x].msg
  BY <1>1, <1>2, <1>3, <1>5, <1>7, <1>9 DEF Carries, Holds, SameCall, f, Idle
<1>13. InOnePlace'
  BY Zenon, <1>9, <1>10, <1>12 DEF MessagesInv, InOnePlace, At, StoredOnce, QueuedMsgs
<1>14. WriterEndsClean'
  BY <1>1, <1>4, <1>5, <1>9, <1>10 DEF MessagesInv, WriterEndsClean, NothingForgotten, At, f
<1>15. /\ t \notin Pushing
       /\ Pushing' = IF p = "push" THEN Pushing \cup {t} ELSE Pushing \ {t}
  BY Zenon, <1>1, <1>5, <1>8, PushingMoves DEF f
<1>16. IsFiniteSet(Pushing) /\ size \in Int /\ case.capacity \in Nat /\ Len(queue) \in Nat
  BY DEF MessagesInv, CounterExact
<1>17. /\ Cardinality(Pushing) \in Nat
       /\ IsFiniteSet(Pushing \cup {t}) /\ Cardinality(Pushing \cup {t}) = Cardinality(Pushing) + 1
       /\ Pushing \ {t} = Pushing
  BY <1>15, <1>16 DEF Counting
<1>18. CounterExact'
  <2>1. CASE writing /\ HasRoom /\ size' = size + 1 /\ p = "push"
    <3>1. size = Len(queue) + Cardinality(Pushing) + IF At(Writer, "popped") THEN 1 ELSE 0
      BY Zenon, <2>1 DEF MessagesInv, CounterExact
    <3>2. /\ IsFiniteSet(Pushing') /\ Cardinality(Pushing') = Cardinality(Pushing) + 1
          /\ At(Writer, "popped")' = At(Writer, "popped") /\ Len(queue') = Len(queue)
          /\ size' = size + 1 /\ case.capacity # 0 => size + 1 <= case.capacity
      BY <2>1, <1>9, <1>10, <1>15, <1>16, <1>17 DEF At, HasRoom
    <3>. QED BY <3>1, <3>2, <2>1, <1>10, <1>16, <1>17 DEF CounterExact
  <2>2. CASE size' = size /\ p # "push"
    BY Zenon, <2>2, <1>9, <1>10, <1>15, <1>16, <1>17 DEF MessagesInv, CounterExact, At
  <2>. QED BY Zenon, <1>4, <2>1, <2>2
<1>19. f.page \subseteq DOMAIN table
  BY <1>1 DEF MessagesInv, SelectionsSubscribed, f, Idle
<1>20. SelectionsSubscribed'
  BY Zenon, <1>5, <1>7, <1>8, <1>10, <1>19, SelectionsKept
<1>. QED BY Zenon, <1>10, <1>11, <1>13, <1>14, <1>18, <1>20 DEF MessagesInv

\* What a push does to the queue and its counter, whoever pushes.
LEMMA PushCounts ==
    ASSUME Counting, MessagesInv, NEW t \in Threads, NEW g, Push(t), Steps(t, g), g.pc # "push",
           At(Writer, "popped")' = At(Writer, "popped")
    PROVE  /\ queue' \in Seq(Items) /\ CounterExact'
           /\ writing => /\ QueuedMsgs' = QueuedMsgs \cup {thread[t].msg}
                         /\ Distinct(queue) /\ thread[t].msg \notin QueuedMsgs => Distinct(queue')
           /\ ~writing => queue' = queue
<1>. DEFINE e == [msg |-> thread[t].msg, tries |-> thread[t].tries]
<1>1. /\ thread[t].pc = "push" /\ ThreadsOK /\ queue \in Seq(Items)
      /\ queue' = IF writing THEN Append(queue, e) ELSE queue
      /\ size' = size /\ case' = case /\ writing' = writing
  BY Zenon DEF Push, At, MessagesInv, input
<1>2. FrameOK(thread[t])
  BY Zenon, <1>1, FrameHere
<1>3. e \in Items /\ e.msg = thread[t].msg
  BY Zenon, <1>1, <1>2 DEF Items, FrameOK, Running, Leasing
<1>. HIDE DEF e
<1>4. /\ Append(queue, e) \in Seq(Items) /\ Len(Append(queue, e)) = Len(queue) + 1
      /\ Len(queue) \in Nat
  BY <1>1, <1>3, AppendItem
<1>5. /\ MsgsOf(Append(queue, e)) = MsgsOf(queue) \cup {e.msg}
      /\ Distinct(queue) /\ e.msg \notin MsgsOf(queue) => Distinct(Append(queue, e))
  BY Zenon, <1>1, <1>3, Queued
<1>6. t \in Pushing /\ Pushing' = Pushing \ {t}
  BY Zenon, <1>1, PushingMoves
<1>7. /\ IsFiniteSet(Pushing) /\ size \in Int /\ case.capacity \in Nat
      /\ writing => size = Len(queue) + Cardinality(Pushing) + IF At(Writer, "popped") THEN 1 ELSE 0
      /\ writing /\ case.capacity # 0 => size <= case.capacity
  BY Zenon DEF MessagesInv, CounterExact
<1>8. /\ IsFiniteSet(Pushing') /\ Cardinality(Pushing') = Cardinality(Pushing) - 1
      /\ Cardinality(Pushing) \in Nat
  BY Zenon, <1>6, <1>7 DEF Counting
<1>9. writing => size = Len(queue') + Cardinality(Pushing') + IF At(Writer, "popped")' THEN 1 ELSE 0
  BY <1>1, <1>4, <1>7, <1>8
<1>10. CounterExact'
  BY Zenon, <1>1, <1>7, <1>8, <1>9 DEF CounterExact
<1>. QED BY Zenon, <1>1, <1>3, <1>4, <1>5, <1>10 DEF QueuedMsgs

\* The second half of enqueue: the item is in the queue, and the worker is done with it.
LEMMA PushKeeps ==
    ASSUME Counting, MessagesInv, NEW t \in Workers, Push(t)
    PROVE  MessagesInv'
<1>. DEFINE f == thread[t]
            g == WithPc(f, "fan_out")
<1>1. f.pc = "push" /\ t \in Threads /\ ThreadsOK /\ f.pc \notin {"idle", "gone"}
  BY Zenon DEF Push, At, Threads, MessagesInv
<1>2. IsFrame(f) /\ FrameOK(f) /\ f.op # "write"
  BY Zenon, <1>1, FrameHere
<1>3. f.op = "send" /\ f.slot = NoSlot
  BY Zenon, <1>1, <1>2 DEF FrameOK, Running, Leasing
<1>4. /\ thread' = [thread EXCEPT ![t] = g]
      /\ accepted' = IF stopping THEN accepted ELSE accepted \cup {f.msg}
  BY Zenon, <1>3 DEF Push, Proceed, Goto, WithPc
<1>5. SameCall(g, f) /\ g.pc = "fan_out" /\ g.slot = f.slot /\ g.tries = f.tries /\ g.page = f.page
  BY Zenon, <1>2, WithPcIs DEF Updates
<1>. HIDE DEF g, f
<1>6. FrameOK(g) /\ g # Idle /\ g.op = "send"
  BY <1>2, <1>3, <1>5 DEF FrameOK, SameCall, Running, Leasing, Idle
<1>7. Steps(t, g)
  BY Zenon, <1>4, <1>6, WriterAssumption DEF Steps
<1>8. /\ t # Writer
      /\ thread'[t] = g /\ \A x \in Workers \ {t} : thread'[x] = thread[x]
      /\ thread'[Writer] = thread[Writer] /\ InHand(Writer)' = InHand(Writer)
  BY Zenon, <1>1, <1>7, WorkerSteps
<1>9. /\ table' = table /\ writing' = writing /\ free' = free
      /\ stopping' = stopping /\ unsent' = unsent /\ case' = case
      /\ writeOff' = writeOff /\ UNCHANGED clients
  BY Zenon DEF Push, input, poolVars
<1>10. ThreadsOK' /\ SlotsOwned'
  BY Zenon, <1>1, <1>5, <1>7, <1>8, <1>9, ThreadsKept, SlotsKept DEF MessagesInv, Leasing, f
<1>11. /\ queue' \in Seq(Items) /\ CounterExact'
       /\ writing => /\ QueuedMsgs' = QueuedMsgs \cup {f.msg}
                     /\ Distinct(queue) /\ f.msg \notin QueuedMsgs => Distinct(queue')
       /\ ~writing => queue' = queue
  BY Zenon, <1>1, <1>5, <1>7, <1>8, PushCounts DEF f, At
<1>12. /\ Carries(t) /\ ~Carries(t)'
       /\ \A x \in Workers \ {t} : (Carries(x)' <=> Carries(x)) /\ thread'[x] = thread[x]
  BY <1>1, <1>3, <1>5, <1>8 DEF Carries, Holds, Running, Leasing, f, Idle
<1>13. f.msg \notin UNION {unsent, Range(table), QueuedMsgs, InHand(Writer)}
  BY Zenon, <1>12 DEF MessagesInv, InOnePlace, f
<1>14. QueuedMsgs' \subseteq QueuedMsgs \cup {f.msg} /\ Distinct(queue')
  BY Zenon, <1>11, <1>13 DEF MessagesInv, InOnePlace, QueuedMsgs
<1>15. InOnePlace'
  BY <1>8, <1>9, <1>12, <1>13, <1>14 DEF MessagesInv, InOnePlace, At, StoredOnce, f
<1>16. ~writing => At(Writer, "gone") /\ stopping /\ queue = <<>>
  BY Zenon, <1>1 DEF MessagesInv, WriterEndsClean, f
<1>17. At(Writer, "gone") => stopping
  BY Zenon DEF MessagesInv, WriterEndsClean
<1>18. QueuedMsgs \subseteq QueuedMsgs' /\ (~stopping => f.msg \in QueuedMsgs')
  BY Zenon, <1>11, <1>16 DEF QueuedMsgs
<1>19. NothingForgotten'
  BY <1>4, <1>8, <1>9, <1>18 DEF MessagesInv, WriterEndsClean, NothingForgotten, QueuedMsgs, MsgsOf
<1>20. WriterEndsClean'
  BY Zenon, <1>4, <1>8, <1>9, <1>11, <1>16, <1>17, <1>19 DEF MessagesInv, WriterEndsClean, At
<1>21. f.page \subseteq DOMAIN table
  BY <1>1 DEF MessagesInv, SelectionsSubscribed, f, Idle
<1>22. SelectionsSubscribed'
  BY Zenon, <1>5, <1>6, <1>7, <1>9, <1>21, SelectionsKept
<1>. QED BY Zenon, <1>9, <1>10, <1>11, <1>15, <1>20, <1>22 DEF MessagesInv

-----------------------------------------------------------------------------
(* A message with the writer                                               *)

\* While the writer has a frame, it is set and its queue counts.
LEMMA WriterHere ==
    ASSUME MessagesInv, thread[Writer].pc \notin {"idle", "gone"}
    PROVE  /\ FrameOK(thread[Writer]) /\ IsFrame(thread[Writer]) /\ thread[Writer].op = "write"
           /\ writing /\ ThreadsOK /\ Writer \in Threads
<1>1. ThreadsOK /\ Writer \in Threads
  BY Zenon DEF MessagesInv, Threads
<1>2. FrameOK(thread[Writer]) /\ IsFrame(thread[Writer]) /\ thread[Writer].op = "write"
  BY Zenon, <1>1, FrameHere
<1>. QED BY <1>1, <1>2 DEF MessagesInv, WriterEndsClean, At, Idle

\* NothingForgotten, with the names used here, before and after a step.
LEMMA AcceptedMeans ==
    /\ NothingForgotten <=> accepted \subseteq UNION {Range(table), QueuedMsgs, InHand(Writer), writeOff}
    /\ NothingForgotten' <=> accepted' \subseteq UNION {Range(table'), QueuedMsgs', InHand(Writer)', writeOff'}
BY Zenon DEF NothingForgotten, QueuedMsgs, MsgsOf

\* The writer puts back an item it could not store.
LEMMA PushAgainKeeps ==
    ASSUME Counting, MessagesInv, Push(Writer)
    PROVE  MessagesInv'
<1>. DEFINE f == thread[Writer]
<1>1. f.pc = "push" /\ f.pc \notin {"idle", "gone"}
  BY Zenon DEF Push, At
<1>2. FrameOK(f) /\ IsFrame(f) /\ f.op = "write" /\ writing /\ ThreadsOK /\ Writer \in Threads
  BY Zenon, <1>1, WriterHere
<1>3. /\ thread' = [thread EXCEPT ![Writer] = Idle]
      /\ accepted' = IF stopping THEN accepted ELSE accepted \cup {f.msg}
  BY Zenon, <1>2 DEF Push, Finish, Goto
<1>4. Steps(Writer, Idle) /\ Idle.pc = "idle"
  BY Zenon, <1>3, WriterAssumption DEF Steps, Idle
<1>5. /\ thread'[Writer] = Idle /\ \A x \in Workers : thread'[x] = thread[x]
      /\ InHand(Writer) = {f.msg} /\ InHand(Writer)' = {}
  BY Zenon, <1>1, <1>2, <1>4, WriterSteps
<1>6. /\ table' = table /\ writing' = writing /\ free' = free
      /\ stopping' = stopping /\ unsent' = unsent /\ case' = case
      /\ writeOff' = writeOff /\ UNCHANGED clients
  BY Zenon DEF Push, input, poolVars
<1>7. ThreadsOK' /\ SlotsOwned'
  BY Zenon, <1>1, <1>2, <1>4, <1>6, ThreadsKept, SlotsKept DEF MessagesInv, Leasing
<1>. HIDE DEF f
<1>8. At(Writer, "popped")' = At(Writer, "popped")
  BY Zenon, <1>1, <1>4, <1>5 DEF At, f
<1>9. /\ queue' \in Seq(Items) /\ CounterExact'
      /\ QueuedMsgs' = QueuedMsgs \cup {f.msg}
      /\ Distinct(queue) /\ f.msg \notin QueuedMsgs => Distinct(queue')
  BY Zenon, <1>2, <1>4, <1>8, PushCounts DEF f
<1>10. \A x \in Workers : Carries(x)' <=> Carries(x)
  BY Zenon, <1>5 DEF Carries
<1>11. InOnePlace'
  BY <1>4, <1>5, <1>6, <1>9, <1>10 DEF MessagesInv, InOnePlace, At, StoredOnce
<1>12. NothingForgotten'
  BY ZenonT(30), <1>3, <1>5, <1>6, <1>9, AcceptedMeans DEF MessagesInv, WriterEndsClean
<1>13. WriterEndsClean'
  BY Zenon, <1>2, <1>4, <1>5, <1>6, <1>12 DEF WriterEndsClean, At
<1>14. SelectionsSubscribed'
  BY Zenon, <1>5, <1>6, SelectionsApart
<1>. QED BY Zenon, <1>6, <1>7, <1>9, <1>11, <1>13, <1>14 DEF MessagesInv

\* The writer takes the oldest item; the counter still includes it.
LEMMA PopKeeps ==
    ASSUME Counting, MessagesInv, Pop
    PROVE  MessagesInv'
<1>. DEFINE f == thread[Writer]
            e == Head(queue)
            h == Frame("popped", "write", e.msg, "none")
            g == WithTries(h, e.tries)
<1>1. /\ f.pc = "idle" /\ queue # <<>> /\ queue \in Seq(Items) /\ queue' = Tail(queue)
      /\ thread' = [thread EXCEPT ![Writer] = g] /\ ThreadsOK /\ Writer \in Threads
  BY Zenon DEF Pop, At, Goto, MessagesInv, WithTries, Threads
<1>2. /\ e \in Items /\ Tail(queue) \in Seq(Items) /\ Len(Tail(queue)) = Len(queue) - 1
      /\ MsgsOf(queue) = MsgsOf(Tail(queue)) \cup {e.msg}
      /\ Distinct(queue) => Distinct(Tail(queue)) /\ e.msg \notin MsgsOf(Tail(queue))
      /\ Len(queue) \in Nat
  BY <1>1, Unqueued
<1>. HIDE DEF e
<1>3. /\ IsFrame(h) /\ h.pc = "popped" /\ h.op = "write" /\ h.msg = e.msg
      /\ h.pool = "write" /\ h.slot = NoSlot
  BY FrameNew
<1>. HIDE DEF h
<1>4. SameCall(g, h) /\ g.pc = "popped" /\ g.slot = NoSlot /\ g.tries = e.tries
  BY Zenon, <1>3, WithTriesIs DEF Updates
<1>. HIDE DEF g
<1>5. FrameOK(g) /\ g.op = "write" /\ g.msg = e.msg
  BY Zenon, <1>2, <1>3, <1>4 DEF FrameOK, SameCall, Items, Running, Leasing
<1>6. Steps(Writer, g)
  BY Zenon, <1>1, <1>5, WriterAssumption DEF Steps
<1>7. /\ thread'[Writer] = g /\ \A x \in Workers : thread'[x] = thread[x]
      /\ InHand(Writer) = {} /\ InHand(Writer)' = {e.msg}
  BY ZenonT(30), <1>1, <1>4, <1>5, <1>6, WriterSteps
<1>8. /\ table' = table /\ writing' = writing /\ free' = free /\ size' = size
      /\ stopping' = stopping /\ unsent' = unsent /\ case' = case /\ accepted' = accepted
      /\ writeOff' = writeOff /\ UNCHANGED clients
  BY Zenon DEF Pop, input, poolVars, history
<1>9. ThreadsOK' /\ SlotsOwned'
  BY Zenon, <1>1, <1>4, <1>6, <1>8, ThreadsKept, SlotsKept DEF MessagesInv, Leasing
<1>10. writing
  BY Zenon, <1>1 DEF MessagesInv, WriterEndsClean
<1>11. Pushing' = Pushing
  BY Zenon, <1>1, <1>4, <1>6, PushingMoves
<1>12. /\ IsFiniteSet(Pushing) /\ size \in Int /\ case.capacity \in Nat
       /\ size = Len(queue) + Cardinality(Pushing) + IF At(Writer, "popped") THEN 1 ELSE 0
       /\ case.capacity # 0 => size <= case.capacity /\ Cardinality(Pushing) \in Nat
  BY Zenon, <1>10 DEF Counting, MessagesInv, CounterExact
<1>13. ~At(Writer, "popped") /\ At(Writer, "popped")'
  BY Zenon, <1>1, <1>4, <1>7 DEF At
<1>14. CounterExact'
  <2>1. Cardinality(Pushing) \in Nat
    BY Zenon, <1>12 DEF Counting
  <2>2. size = Len(queue') + Cardinality(Pushing') + 1
    BY <2>1, <1>1, <1>2, <1>11, <1>12, <1>13
  <2>. QED BY Zenon, <2>2, <1>8, <1>11, <1>12, <1>13 DEF CounterExact
<1>. HIDE DEF f
<1>15. \A x \in Workers : Carries(x)' <=> Carries(x)
  BY Zenon, <1>7 DEF Carries
<1>16. InOnePlace'
  BY <1>1, <1>2, <1>4, <1>7, <1>8, <1>15 DEF MessagesInv, InOnePlace, At, StoredOnce, QueuedMsgs
<1>17. NothingForgotten'
  BY <1>1, <1>2, <1>7, <1>8, AcceptedMeans DEF MessagesInv, WriterEndsClean, QueuedMsgs
<1>18. WriterEndsClean'
  BY Zenon, <1>4, <1>7, <1>8, <1>10, <1>17 DEF WriterEndsClean, At
<1>19. SelectionsSubscribed'
  BY Zenon, <1>7, <1>8, SelectionsApart
<1>. QED BY Zenon, <1>1, <1>2, <1>8, <1>9, <1>14, <1>16, <1>18, <1>19 DEF MessagesInv

\* A message that is not in the table is stored.
LEMMA StoredKeeps ==
    ASSUME MessagesInv, NEW m \in Msgs, m \notin Range(table), table' = Append(table, m)
    PROVE  /\ table' \in Seq(Msgs) /\ Range(table') = Range(table) \cup {m}
           /\ DOMAIN table \subseteq DOMAIN table' /\ StoredOnce'
<1>1. /\ table' \in Seq(Msgs) /\ Range(table') = Range(table) \cup {m}
      /\ DOMAIN table = 1 .. Len(table) /\ Len(table) \in Nat
      /\ DOMAIN table' = DOMAIN table \cup {Len(table) + 1}
      /\ \A i \in DOMAIN table : table'[i] = table[i]
      /\ table'[Len(table) + 1] = m
  BY AppendItem DEF MessagesInv
<1>2. \A i \in DOMAIN table : table[i] # m
  BY Zenon DEF Range
<1>. QED BY <1>1, <1>2 DEF MessagesInv, InOnePlace, StoredOnce

\* A step of the writer that leaves the queue alone: it stores its message when it
\* commits, and keeps it until it is stored or given up.
LEMMA WriterKeeps ==
    ASSUME MessagesInv, NEW g, Steps(Writer, g), thread[Writer].pc \notin {"idle", "gone"},
           UNCHANGED <<writing, stopping, queue, unsent, case, accepted, clients>>,
           \/ thread[Writer].pc \notin Leasing /\ g.pc \notin Leasing /\ free' = free
           \/ SlotMoves(thread[Writer], g),
           \/ table' = table
           \/ thread[Writer].pc = "commit" /\ table' = Append(table, thread[Writer].msg),
           g.pc = "commit" => thread[Writer].msg \notin Range(table'),
           g.pc = "stored" => thread[Writer].msg \in Range(table'),
           g # Gone, g # Idle => g.msg = thread[Writer].msg,
           writeOff \subseteq writeOff',
           g = Idle => thread[Writer].msg \in Range(table') \cup writeOff',
           CounterExact'
    PROVE  MessagesInv'
<1>. DEFINE f == thread[Writer]
<1>1. FrameOK(f) /\ IsFrame(f) /\ f.op = "write" /\ writing /\ ThreadsOK /\ Writer \in Threads
  BY Zenon, WriterHere
<1>2. ThreadsOK' /\ SlotsOwned'
  BY Zenon, <1>1, ThreadsKept, SlotsKept DEF MessagesInv
<1>3. /\ thread'[Writer] = g /\ \A x \in Workers : thread'[x] = thread[x]
      /\ InHand(Writer) = {f.msg}
      /\ InHand(Writer)' = IF g.pc \in {"idle", "gone"} THEN {} ELSE {g.msg}
  BY Zenon, <1>1, WriterSteps
<1>4. /\ g.pc # "gone" /\ (g.pc # "idle" => g.msg = f.msg)
      /\ g.pc = "idle" => f.msg \in Range(table') \cup writeOff'
  BY Zenon, FrameKinds DEF Steps
<1>5. /\ table' \in Seq(Msgs) /\ Range(table') \subseteq Range(table) \cup {f.msg}
      /\ Range(table) \subseteq Range(table') /\ DOMAIN table \subseteq DOMAIN table' /\ StoredOnce'
  <2>1. CASE table' = table
    BY Zenon, <2>1 DEF MessagesInv, InOnePlace, StoredOnce
  <2>2. CASE f.pc = "commit" /\ table' = Append(table, f.msg)
    <3>1. f.msg \in Msgs /\ f.msg \notin Range(table)
      BY Zenon, <1>1, <2>2 DEF FrameOK, MessagesInv, InOnePlace, At
    <3>. QED BY Zenon, <2>2, <3>1, StoredKeeps
  <2>. QED BY Zenon, <2>1, <2>2
<1>6. \A x \in Workers : Carries(x)' <=> Carries(x)
  BY Zenon, <1>3 DEF Carries
<1>7. QueuedMsgs' = QueuedMsgs
  BY Zenon DEF QueuedMsgs
<1>8. (g.pc = "commit" => f.msg \notin Range(table')) /\ (g.pc = "stored" => f.msg \in Range(table'))
  BY Zenon
<1>. HIDE DEF f
<1>9. InOnePlace'
  <2>1. f.msg \notin unsent /\ f.msg \notin QueuedMsgs /\ InHand(Writer)' \subseteq {f.msg}
    BY Zenon, <1>3, <1>4 DEF MessagesInv, InOnePlace
  <2>2. \A x \in Workers : Carries(x) => thread[x].msg # f.msg
    BY Zenon, <1>3 DEF MessagesInv, InOnePlace
  <2>3. \A x \in Workers : Carries(x)' =>
           thread'[x].msg \notin UNION {unsent', Range(table'), QueuedMsgs', InHand(Writer)'}
    BY <1>3, <1>5, <1>6, <1>7, <2>1, <2>2 DEF MessagesInv, InOnePlace
  <2>4. \A x, y \in Workers : Carries(x)' /\ Carries(y)' /\ thread'[x].msg = thread'[y].msg => x = y
    BY Zenon, <1>3, <1>6 DEF MessagesInv, InOnePlace
  <2>5. unsent' \cap UNION {Range(table'), QueuedMsgs', InHand(Writer)'} = {}
    BY <1>5, <1>7, <2>1 DEF MessagesInv, InOnePlace
  <2>6. Distinct(queue') /\ InHand(Writer)' \cap QueuedMsgs' = {}
    BY Zenon, <1>7, <2>1 DEF MessagesInv, InOnePlace
  <2>7. At(Writer, "commit")' => thread'[Writer].msg \notin Range(table')
    BY Zenon, <1>3, <1>4, <1>8 DEF At
  <2>. QED BY Zenon, <1>5, <2>3, <2>4, <2>5, <2>6, <2>7 DEF InOnePlace
<1>10. NothingForgotten'
  <2>. SUFFICES ASSUME NEW m \in accepted
                PROVE  m \in Range(table') \cup QueuedMsgs' \cup InHand(Writer)' \cup writeOff'
    BY Zenon, AcceptedMeans
  <2>1. m \in Range(table) \/ m \in QueuedMsgs \/ m = f.msg \/ m \in writeOff
    BY Zenon, <1>3, AcceptedMeans DEF MessagesInv, WriterEndsClean
  <2>2. f.msg \in Range(table') \cup writeOff' \cup InHand(Writer)'
    BY Zenon, <1>3, <1>4
  <2>. QED BY Zenon, <1>5, <1>7, <2>1, <2>2
<1>11. WriterEndsClean'
  BY Zenon, <1>1, <1>3, <1>4, <1>8, <1>10 DEF WriterEndsClean, At
<1>12. SelectionsSubscribed'
  BY Zenon, <1>3, <1>5, SelectionsApart
<1>. QED BY Zenon, <1>2, <1>5, <1>9, <1>11, <1>12 DEF MessagesInv

\* The counter follows a step of the writer by which nobody starts or ends a push.
LEMMA CountsKept ==
    ASSUME MessagesInv, NEW t \in Threads, NEW g, Steps(t, g), thread[t].pc # "push", g.pc # "push",
           thread[t].pc # "popped", g.pc # "popped", UNCHANGED <<writing, queue, size, case>>
    PROVE  CounterExact'
<1>1. thread'[t] = g /\ \A u \in Threads \ {t} : thread'[u] = thread[u]
  BY Zenon, ThreadsKept DEF MessagesInv
<1>2. Pushing' = Pushing
  BY Zenon, PushingMoves DEF MessagesInv
<1>3. At(Writer, "popped")' = At(Writer, "popped")
  BY Zenon, <1>1 DEF At, Threads
<1>. QED BY Zenon, <1>2, <1>3 DEF MessagesInv, CounterExact

\* The counter is lowered after the item was taken.
LEMMA PopDoneKeeps ==
    ASSUME Counting, MessagesInv, PopDone
    PROVE  MessagesInv'
<1>. DEFINE f == thread[Writer]
            g == WithPc(f, "lease")
<1>1. f.pc = "popped" /\ f.pc \notin {"idle", "gone"}
  BY Zenon DEF PopDone, At
<1>2. FrameOK(f) /\ IsFrame(f) /\ f.op = "write" /\ writing /\ ThreadsOK /\ Writer \in Threads
  BY Zenon, <1>1, WriterHere
<1>3. SameCall(g, f) /\ g.pc = "lease" /\ g.slot = f.slot /\ g.tries = f.tries /\ g.page = f.page
  BY Zenon, <1>2, WithPcIs DEF Updates
<1>4. thread' = [thread EXCEPT ![Writer] = g]
  BY Zenon DEF PopDone, Proceed, Goto, WithPc
<1>. HIDE DEF g, f
<1>5. FrameOK(g) /\ g.op = "write" /\ g.msg = f.msg
  BY Zenon, <1>1, <1>2, <1>3 DEF FrameOK, SameCall, Running, Leasing
<1>6. Steps(Writer, g)
  BY Zenon, <1>4, <1>5, WriterAssumption DEF Steps
<1>7. /\ UNCHANGED <<table, writing, stopping, queue, unsent, case, accepted, clients>>
      /\ writeOff' = writeOff /\ free' = free /\ size' = size - 1
  BY Zenon DEF PopDone, input, poolVars, history
<1>8. thread'[Writer] = g
  BY Zenon, <1>2, <1>6, WriterSteps
<1>9. Pushing' = Pushing
  BY Zenon, <1>1, <1>2, <1>3, <1>6, PushingMoves DEF f
<1>10. /\ IsFiniteSet(Pushing) /\ size \in Int /\ case.capacity \in Nat
       /\ size = Len(queue) + Cardinality(Pushing) + IF At(Writer, "popped") THEN 1 ELSE 0
       /\ case.capacity # 0 => size <= case.capacity
       /\ Len(queue) \in Nat
  BY <1>2 DEF MessagesInv, CounterExact
<1>11. Cardinality(Pushing) \in Nat
  BY Zenon, <1>10 DEF Counting
<1>12. At(Writer, "popped") /\ ~At(Writer, "popped")'
  BY Zenon, <1>1, <1>3, <1>8 DEF At, f
<1>13. size' = Len(queue') + Cardinality(Pushing')
  BY <1>7, <1>9, <1>10, <1>11, <1>12
<1>14. CounterExact'
  BY <1>7, <1>9, <1>10, <1>11, <1>12, <1>13 DEF CounterExact
<1>15. g # Gone /\ g # Idle
  BY <1>3 DEF Gone, Idle
<1>. QED BY Zenon, <1>1, <1>3, <1>5, <1>6, <1>7, <1>14, <1>15, WriterKeeps DEF f, Leasing

\* The writer is done with a message that is in the table.
LEMMA WriteEndsKeep ==
    ASSUME MessagesInv, Stored
    PROVE  MessagesInv'
<1>1. thread[Writer].pc = "stored" /\ thread' = [thread EXCEPT ![Writer] = Idle]
  BY Zenon DEF Stored, At, Finish, Goto
<1>2. Steps(Writer, Idle) /\ Idle.pc = "idle" /\ Idle # Gone
  BY Zenon, <1>1, WriterAssumption DEF Steps, Idle, Gone
<1>3. /\ UNCHANGED <<table, writing, stopping, queue, size, unsent, case, accepted, clients>>
      /\ writeOff' = writeOff /\ free' = free
  BY Zenon DEF Stored, messageVars, writer, input, poolVars, history
<1>4. CounterExact'
  BY Zenon, <1>1, <1>2, <1>3, CountsKept DEF Threads
<1>5. thread[Writer].msg \in Range(table)
  BY Zenon, <1>1 DEF MessagesInv, WriterEndsClean, At
<1>. QED BY Zenon, <1>1, <1>2, <1>3, <1>4, <1>5, WriterKeeps DEF Leasing

\* A failed write is tried again later, or given up and recorded as lost.
LEMMA WriteFailedKeeps ==
    ASSUME Counting, MessagesInv, WriteFailed
    PROVE  MessagesInv'
<1>. DEFINE f == thread[Writer]
            g == PushedAgain(f)
<1>1. f.pc = "failed" /\ f.pc \notin {"idle", "gone"}
  BY Zenon DEF WriteFailed, At
<1>2. FrameOK(f) /\ IsFrame(f) /\ f.op = "write" /\ writing /\ ThreadsOK /\ Writer \in Threads
  BY Zenon, <1>1, WriterHere
<1>3. /\ UNCHANGED <<table, writing, stopping, queue, unsent, case, accepted, clients>>
      /\ free' = free
  BY Zenon DEF WriteFailed, input, poolVars
<1>4. CASE Finish(Writer) /\ size' = size /\ writeOff' = writeOff \cup {f.msg}
  <2>1. thread' = [thread EXCEPT ![Writer] = Idle]
    BY Zenon, <1>4 DEF Finish, Goto
  <2>2. Steps(Writer, Idle) /\ Idle.pc = "idle" /\ Idle # Gone
    BY Zenon, <2>1, WriterAssumption DEF Steps, Idle, Gone
  <2>3. CounterExact'
    BY Zenon, <1>1, <1>2, <1>3, <1>4, <2>2, CountsKept
  <2>. QED BY Zenon, <1>1, <1>3, <1>4, <2>2, <2>3, WriterKeeps DEF Leasing
<1>5. CASE HasRoom /\ Goto(Writer, g) /\ size' = size + 1 /\ writeOff' = writeOff
  <2>1. SameCall(g, f) /\ g.pc = "push" /\ g.slot = f.slot /\ g.tries = f.tries + 1
    BY Zenon, <1>2, PushedAgainIs DEF Updates
  <2>2. thread' = [thread EXCEPT ![Writer] = g]
    BY Zenon, <1>5 DEF Goto
  <2>. HIDE DEF g, f
  <2>3. FrameOK(g) /\ g.op = "write" /\ g.msg = f.msg
    BY <1>1, <1>2, <2>1 DEF FrameOK, SameCall, Running, Leasing
  <2>4. Steps(Writer, g) /\ g # Gone /\ g # Idle
    BY <2>1, <2>2, <2>3, WriterAssumption DEF Steps, Gone, Idle
  <2>5. thread'[Writer] = g
    BY Zenon, <1>2, <2>4, WriterSteps
  <2>6. Writer \notin Pushing /\ Pushing' = Pushing \cup {Writer}
    BY Zenon, <1>1, <1>2, <2>1, <2>4, PushingMoves DEF f
  <2>7. /\ IsFiniteSet(Pushing) /\ size \in Int /\ case.capacity \in Nat
        /\ size = Len(queue) + Cardinality(Pushing) + IF At(Writer, "popped") THEN 1 ELSE 0
        /\ Len(queue) \in Nat
    BY <1>2 DEF MessagesInv, CounterExact
  <2>8. /\ Cardinality(Pushing) \in Nat /\ IsFiniteSet(Pushing')
        /\ Cardinality(Pushing') = Cardinality(Pushing) + 1
    BY Zenon, <2>6, <2>7 DEF Counting
  <2>9. ~At(Writer, "popped") /\ ~At(Writer, "popped")'
    BY Zenon, <1>1, <2>1, <2>5 DEF At, f
  <2>10. /\ size' = Len(queue') + Cardinality(Pushing')
         /\ case.capacity # 0 => size' <= case.capacity
    BY <1>3, <1>5, <2>7, <2>8, <2>9 DEF HasRoom
  <2>11. CounterExact'
    BY <1>3, <1>5, <2>7, <2>8, <2>9, <2>10 DEF CounterExact
  <2>. QED BY Zenon, <1>1, <1>3, <1>5, <2>1, <2>3, <2>4, <2>11, WriterKeeps DEF f, Leasing
<1>. QED BY Zenon, <1>4, <1>5 DEF WriteFailed, PushedAgain

\* The writer ends: stopped, with an empty queue and nothing in hand.
LEMMA WriterEndsKeeps ==
    ASSUME MessagesInv, WriterEnds
    PROVE  MessagesInv'
<1>1. /\ stopping /\ writing /\ queue = <<>> /\ thread[Writer].pc = "idle"
      /\ thread' = [thread EXCEPT ![Writer] = Gone]
  BY Zenon DEF WriterEnds, At, Goto, Gone
<1>2. Steps(Writer, Gone) /\ Gone.pc = "gone" /\ Writer \in Threads /\ ThreadsOK
  BY Zenon, <1>1, WriterAssumption DEF Steps, Gone, Threads, MessagesInv
<1>3. /\ UNCHANGED <<table, writing, stopping, queue, size, unsent, case, accepted, clients>>
      /\ writeOff' = writeOff /\ free' = free
  BY Zenon DEF WriterEnds, messageVars, writer, input, poolVars, history
<1>4. CounterExact'
  BY Zenon, <1>1, <1>2, <1>3, CountsKept
<1>5. ThreadsOK' /\ SlotsOwned'
  BY Zenon, <1>1, <1>2, <1>3, ThreadsKept, SlotsKept DEF MessagesInv, Leasing
<1>6. /\ thread'[Writer] = Gone /\ \A x \in Workers : thread'[x] = thread[x]
      /\ InHand(Writer) = {} /\ InHand(Writer)' = {}
  BY Zenon, <1>1, <1>2, WriterSteps
<1>7. \A x \in Workers : Carries(x)' <=> Carries(x)
  BY Zenon, <1>6 DEF Carries
<1>8. QueuedMsgs = {} /\ QueuedMsgs' = {}
  BY <1>1, <1>3 DEF QueuedMsgs, MsgsOf
<1>9. InOnePlace'
  BY Zenon, <1>2, <1>3, <1>6, <1>7, <1>8 DEF MessagesInv, InOnePlace, At, StoredOnce
<1>10. accepted \subseteq Range(table) \cup writeOff
  BY ZenonT(30), <1>6, <1>8, AcceptedMeans DEF MessagesInv, WriterEndsClean
<1>11. NothingForgotten'
  BY Zenon, <1>3, <1>10, AcceptedMeans
<1>12. WriterEndsClean'
  BY Zenon, <1>1, <1>2, <1>3, <1>6, <1>10, <1>11 DEF WriterEndsClean, At
<1>13. SelectionsSubscribed'
  BY Zenon, <1>3, <1>6, SelectionsApart
<1>. QED BY Zenon, <1>3, <1>4, <1>5, <1>9, <1>12, <1>13 DEF MessagesInv

\* Steps in which no thread moves.
LEMMA StopKeeps ==
    ASSUME MessagesInv, StopWriter
    PROVE  MessagesInv'
<1>1. /\ UNCHANGED <<table, thread, writing, queue, size, unsent, case, accepted, clients, free>>
      /\ writeOff' = writeOff /\ writing /\ stopping' = TRUE
  BY Zenon DEF StopWriter, input, poolVars, history
<1>2. ThreadsOK' /\ SlotsOwned' /\ InOnePlace'
  <2>1. ThreadsOK' /\ SlotsOwned'
    BY Zenon, <1>1 DEF MessagesInv, ThreadsOK, SlotsOwned
  <2>2. InOnePlace'
    BY Zenon, <1>1 DEF MessagesInv, InOnePlace, Carries, QueuedMsgs, InHand, At, StoredOnce
  <2>. QED BY Zenon, <2>1, <2>2
<1>3. WriterEndsClean'
  BY <1>1 DEF MessagesInv, WriterEndsClean, NothingForgotten, InHand, At
<1>4. CounterExact' /\ SelectionsSubscribed'
  BY Zenon, <1>1 DEF MessagesInv, CounterExact, Pushing, At, SelectionsSubscribed, clients, pages
<1>. QED BY Zenon, <1>1, <1>2, <1>3, <1>4 DEF MessagesInv

\* The writer is destroyed after its thread has ended.
LEMMA DestroyKeeps ==
    ASSUME MessagesInv, DestroyWriter
    PROVE  MessagesInv'
<1>1. /\ UNCHANGED <<table, thread, stopping, unsent, case, accepted, clients, free>>
      /\ writeOff' = writeOff /\ writing' = FALSE /\ queue' = <<>> /\ size' = 0
      /\ thread[Writer].pc = "gone"
  BY Zenon DEF DestroyWriter, input, poolVars, history, At
<1>2. ThreadsOK' /\ SlotsOwned'
  BY Zenon, <1>1 DEF MessagesInv, ThreadsOK, SlotsOwned
<1>3. QueuedMsgs' = {} /\ Distinct(queue') /\ queue' \in Seq(Items)
  BY <1>1 DEF QueuedMsgs, MsgsOf, Distinct
<1>4. InOnePlace'
  BY <1>1, <1>3 DEF MessagesInv, InOnePlace, Carries, InHand, At, StoredOnce
<1>5. stopping /\ accepted \subseteq Range(table) \cup writeOff
  BY Zenon, <1>1 DEF MessagesInv, WriterEndsClean, At
<1>6. NothingForgotten'
  BY Zenon, <1>1, <1>5, AcceptedMeans
<1>7. WriterEndsClean'
  BY Zenon, <1>1, <1>5, <1>6 DEF WriterEndsClean, At
<1>8. CounterExact' /\ SelectionsSubscribed'
  BY <1>1 DEF MessagesInv, CounterExact, Pushing, At, SelectionsSubscribed, clients, pages
<1>. QED BY Zenon, <1>1, <1>2, <1>3, <1>4, <1>7, <1>8 DEF MessagesInv

\* A client goes.
LEMMA DisconnectKeeps ==
    ASSUME MessagesInv, NEW c \in Clients, Disconnect(c)
    PROVE  MessagesInv'
<1>1. /\ UNCHANGED <<table, thread, writing, stopping, queue, size, unsent, case, accepted, free>>
      /\ writeOff' = writeOff /\ shown' = shown /\ subs' = subs \ {c} /\ synced' = synced \ {c}
      /\ \A x \in Workers : thread[x] = Idle \/ thread[x].client # c
  BY Zenon DEF Disconnect, writer, pages, input, poolVars, history
<1>2. ThreadsOK' /\ SlotsOwned' /\ InOnePlace'
  <2>1. ThreadsOK' /\ SlotsOwned'
    BY Zenon, <1>1 DEF MessagesInv, ThreadsOK, SlotsOwned
  <2>2. InOnePlace'
    BY Zenon, <1>1 DEF MessagesInv, InOnePlace, Carries, QueuedMsgs, InHand, At, StoredOnce
  <2>. QED BY Zenon, <2>1, <2>2
<1>3. WriterEndsClean' /\ CounterExact'
  BY <1>1 DEF MessagesInv, WriterEndsClean, NothingForgotten, InHand, At, CounterExact, Pushing
<1>4. SelectionsSubscribed'
  BY Zenon, <1>1 DEF MessagesInv, SelectionsSubscribed
<1>. QED BY Zenon, <1>1, <1>2, <1>3, <1>4 DEF MessagesInv

\* The database's own steps break connections; no slot moves.
LEMMA DatabaseKeeps ==
    ASSUME MessagesInv, UNCHANGED <<free, thread, messageVars>>
    PROVE  MessagesInv'
<1>1. UNCHANGED <<table, thread, writing, stopping, queue, size, unsent, case, accepted, writeOff, clients, free>>
  BY Zenon DEF messageVars, writer, input, history
<1>2. ThreadsOK' /\ SlotsOwned' /\ InOnePlace'
  <2>1. ThreadsOK' /\ SlotsOwned'
    BY ZenonT(30), <1>1 DEF MessagesInv, ThreadsOK, SlotsOwned
  <2>2. InOnePlace'
    BY Zenon, <1>1 DEF MessagesInv, InOnePlace, Carries, QueuedMsgs, InHand, At, StoredOnce
  <2>. QED BY Zenon, <2>1, <2>2
<1>3. WriterEndsClean' /\ CounterExact'
  BY <1>1 DEF MessagesInv, WriterEndsClean, NothingForgotten, InHand, At, CounterExact, Pushing
<1>4. SelectionsSubscribed'
  BY Zenon, <1>1 DEF MessagesInv, SelectionsSubscribed, clients, pages
<1>. QED BY Zenon, <1>1, <1>2, <1>3, <1>4 DEF MessagesInv

-----------------------------------------------------------------------------
(* Transactions                                                            *)

\* A move of run() is a step of its thread between proper frames of one call.
LEMMA MovesStep ==
    ASSUME ThreadsOK, SlotsOwned, NEW t \in Threads, NEW g, Moves(t, thread[t], g)
    PROVE  /\ Steps(t, g) /\ FrameOK(thread[t]) /\ FrameOK(g)
           /\ g.op = thread[t].op /\ g.msg = thread[t].msg /\ g.client = thread[t].client
           /\ g.pc \in Running \cup {Done(t), Failed(t)} /\ g.pc \notin {"idle", "gone", "push", "popped"}
<1>. DEFINE f == thread[t]
<1>1. /\ thread' = [thread EXCEPT ![t] = g] /\ f.pc \in Running /\ SameCall(g, f) /\ g.tries = f.tries
      /\ SlotMoves(f, g) /\ TableMoves(t, f, g)
  BY Zenon DEF Moves
<1>2. f.pc \notin {"idle", "gone"}
  BY Zenon, <1>1 DEF Running, Leasing
<1>3. FrameOK(f) /\ (t \in Workers => f.op # "write") /\ (t = Writer => f.op = "write")
  BY Zenon, <1>2, FrameHere
<1>4. /\ Failed(t) = IF f.op = "write" THEN "failed" ELSE "error"
      /\ f.op = "send" => Done(t) = "fan_out"
      /\ f.op = "write" => Done(t) = "stored"
      /\ f.op \in {"latest", "after", "before"} => Done(t) = "reply"
  BY Zenon, <1>1, Outcomes
<1>5. g.pc \in Running \cup {Done(t), Failed(t)}
  BY Zenon, <1>1 DEF TableMoves, Running, Leasing
<1>6. IF g.pc \in Leasing THEN g.slot \in Pools \X Slots ELSE g.slot = NoSlot
  BY Zenon, <1>1, <1>3 DEF SlotMoves, SlotsOwned, FrameOK, Running, Leasing
<1>7. f.op \in {"send", "write", "latest", "after", "before"}
  BY Zenon, <1>3 DEF FrameOK
<1>. HIDE DEF f
<1>8. FrameOK(g) /\ g.op = f.op /\ g.msg = f.msg /\ g.client = f.client
  BY Zenon, <1>1, <1>3, <1>4, <1>5, <1>6, <1>7 DEF FrameOK, SameCall
<1>9. g.pc \notin {"idle", "gone", "push", "popped"}
  BY Zenon, <1>4, <1>5, <1>7 DEF Running, Leasing
<1>. QED BY Zenon, <1>1, <1>3, <1>5, <1>8, <1>9 DEF Steps, f

\* A step of run() on the writer thread: a commit stores a message that is nowhere else.
LEMMA WriterTransacts ==
    ASSUME MessagesInv, Transact(Writer)
    PROVE  MessagesInv'
<1>. DEFINE f == thread[Writer]
<1>1. ThreadsOK /\ SlotsOwned /\ Writer \in Threads
  BY Zenon DEF MessagesInv, Threads
<1>2. PICK g : Moves(Writer, f, g)
  BY Zenon, <1>1, TransactMoves
<1>3. f.pc \in Running /\ f.pc \notin {"idle", "gone"}
  BY Zenon, <1>2 DEF Moves, Running, Leasing
<1>4. FrameOK(f) /\ IsFrame(f) /\ f.op = "write" /\ writing
  BY Zenon, <1>3, WriterHere
<1>5. /\ Steps(Writer, g) /\ FrameOK(g) /\ g.msg = f.msg
      /\ g.pc \notin {"idle", "gone", "push", "popped"}
  BY Zenon, <1>1, <1>2, MovesStep
<1>6. Done(Writer) = "stored" /\ Failed(Writer) = "failed"
  BY Zenon, <1>1, <1>3, <1>4, Outcomes
<1>7. /\ SlotMoves(f, g) /\ TableMoves(Writer, f, g)
      /\ UNCHANGED <<writing, stopping, queue, size, unsent, case, accepted, clients>>
      /\ writeOff' = writeOff
  BY Zenon, <1>2 DEF Moves, writer, input
<1>8. /\ table' = table \/ (f.pc = "commit" /\ table' = Append(table, f.msg))
      /\ g.pc = "commit" => f.msg \notin Range(table')
      /\ g.pc = "stored" => f.pc = "commit" /\ table' = Append(table, f.msg)
  BY Zenon, <1>4, <1>6, <1>7 DEF TableMoves, Apply, Refused, Running, Leasing
<1>9. g.pc = "stored" => f.msg \in Range(table')
  <2>1. f.msg \in Msgs /\ table \in Seq(Msgs)
    BY Zenon, <1>4 DEF MessagesInv, FrameOK
  <2>2. Range(Append(table, f.msg)) = Range(table) \cup {f.msg}
    BY <2>1, AppendItem
  <2>. QED BY Zenon, <1>8, <2>2
<1>10. CounterExact'
  BY Zenon, <1>1, <1>3, <1>5, <1>7, CountsKept DEF Running, Leasing
<1>11. g # Gone /\ g # Idle
  BY Zenon, <1>5, Marks
<1>. QED BY Zenon, <1>3, <1>5, <1>7, <1>8, <1>9, <1>10, <1>11, WriterKeeps

\* A step of run() on a worker: a commit stores the message the worker alone has.
LEMMA WorkerTransacts ==
    ASSUME MessagesInv, NEW t \in Workers, Transact(t)
    PROVE  MessagesInv'
<1>. DEFINE f == thread[t]
<1>1. ThreadsOK /\ SlotsOwned /\ t \in Threads
  BY Zenon DEF MessagesInv, Threads
<1>2. PICK g : Moves(t, f, g)
  BY Zenon, <1>1, TransactMoves
<1>3. f.pc \in Running /\ f.pc \notin {"idle", "gone", "push", "popped", "enqueue", "subscribe"}
  BY Zenon, <1>2 DEF Moves, Running, Leasing
<1>4. FrameOK(f) /\ f.op # "write"
  BY Zenon, <1>1, <1>3, FrameHere
<1>5. /\ Steps(t, g) /\ FrameOK(g) /\ g.op = f.op /\ g.msg = f.msg /\ g.client = f.client
      /\ g.pc \in Running \cup {Done(t), Failed(t)} /\ g.pc \notin {"idle", "gone", "push", "popped"}
  BY Zenon, <1>1, <1>2, MovesStep
<1>6. Failed(t) = "error" /\ (f.op = "send" => Done(t) = "fan_out")
  BY Zenon, <1>1, <1>3, <1>4, Outcomes
<1>7. /\ SlotMoves(f, g) /\ TableMoves(t, f, g) /\ (g.page = f.page \/ g.page \subseteq DOMAIN table)
      /\ UNCHANGED <<writing, stopping, queue, size, unsent, case, accepted, clients>>
      /\ writeOff' = writeOff /\ UNCHANGED writer
  BY Zenon, <1>2 DEF Moves, writer, input
<1>8. ThreadsOK' /\ SlotsOwned'
  BY Zenon, <1>1, <1>5, <1>7, ThreadsKept, SlotsKept
<1>9. g.page \subseteq DOMAIN table
  BY <1>3, <1>7 DEF MessagesInv, SelectionsSubscribed, Idle
<1>10. g.op \in {"latest", "after"} /\ g.pc # "subscribe" => g.client \in subs
  BY <1>3, <1>5 DEF MessagesInv, SelectionsSubscribed, Idle
<1>11. CASE f.op # "send"
  <2>1. table' = table
    BY Zenon, <1>4, <1>7, <1>11 DEF TableMoves, Apply
  <2>2. Light(f) /\ Light(g)
    BY Zenon, <1>4, <1>5, <1>11 DEF Light
  <2>3. InOnePlace' /\ WriterEndsClean' /\ CounterExact'
    BY Zenon, <1>5, <1>7, <2>1, <2>2, LightStep
  <2>4. SelectionsSubscribed'
    BY Zenon, <1>5, <1>7, <1>9, <1>10, <2>1, SelectionsKept
  <2>. QED BY Zenon, <1>7, <1>8, <2>1, <2>3, <2>4 DEF MessagesInv
<1>12. CASE f.op = "send"
  <2>1. /\ t # Writer
        /\ thread'[t] = g /\ \A x \in Workers \ {t} : thread'[x] = thread[x]
        /\ thread'[Writer] = thread[Writer] /\ InHand(Writer)' = InHand(Writer)
    BY Zenon, <1>1, <1>5, WorkerSteps
  <2>2. Carries(t) /\ f.msg \in Msgs
    BY <1>3, <1>4, <1>12 DEF Carries, Holds, Idle, FrameOK
  <2>3. f.msg \notin UNION {unsent, Range(table), QueuedMsgs, InHand(Writer)}
    BY Zenon, <2>2 DEF MessagesInv, InOnePlace
  <2>4. \/ table' = table
        \/ table' = Append(table, f.msg) /\ g.pc \in {"fan_out", "error"}
    BY Zenon, <1>6, <1>7, <1>12 DEF TableMoves, Apply
  <2>5. /\ table' \in Seq(Msgs) /\ Range(table') \subseteq Range(table) \cup {f.msg}
        /\ Range(table) \subseteq Range(table') /\ DOMAIN table \subseteq DOMAIN table' /\ StoredOnce'
    <3>1. CASE table' = table
      BY Zenon, <3>1 DEF MessagesInv, InOnePlace, StoredOnce
    <3>2. CASE table' = Append(table, f.msg)
      BY Zenon, <2>2, <2>3, <3>2, StoredKeeps
    <3>. QED BY Zenon, <2>4, <3>1, <3>2
  <2>6. /\ Carries(t)' => table' = table /\ thread'[t].msg = f.msg
        /\ \A x \in Workers \ {t} : Carries(x)' <=> Carries(x)
    BY Zenon, <1>5, <2>1, <2>4 DEF Carries, Holds, Running, Leasing
  <2>7. QueuedMsgs' = QueuedMsgs
    BY Zenon, <1>7 DEF QueuedMsgs
  <2>. HIDE DEF f
  <2>8. InOnePlace'
    <3>1. \A x \in Workers : Carries(x)' => Carries(x) /\ thread'[x].msg = thread[x].msg
      BY Zenon, <2>1, <2>2, <2>6 DEF f
    <3>2. \A x \in Workers : Carries(x)' => thread'[x].msg \notin Range(table')
      BY Zenon, <2>1, <2>2, <2>3, <2>5, <2>6, <3>1 DEF MessagesInv, InOnePlace, f
    <3>3. At(Writer, "commit")' => thread'[Writer].msg \notin Range(table')
      <4>1. At(Writer, "commit") => InHand(Writer) = {thread[Writer].msg}
        BY <1>1 DEF At, InHand, ThreadsOK, Idle, Gone
      <4>. QED BY Zenon, <2>1, <2>3, <2>5, <4>1 DEF MessagesInv, InOnePlace, At
    <3>4. \A x \in Workers : Carries(x)' =>
             thread'[x].msg \notin UNION {unsent', Range(table'), QueuedMsgs', InHand(Writer)'}
      BY ZenonT(30), <1>7, <2>1, <2>7, <3>1, <3>2 DEF MessagesInv, InOnePlace
    <3>5. \A x, y \in Workers : Carries(x)' /\ Carries(y)' /\ thread'[x].msg = thread'[y].msg => x = y
      BY Zenon, <3>1 DEF MessagesInv, InOnePlace
    <3>6. unsent' \cap UNION {Range(table'), QueuedMsgs', InHand(Writer)'} = {}
      BY <1>7, <2>1, <2>3, <2>5, <2>7 DEF MessagesInv, InOnePlace
    <3>7. Distinct(queue') /\ InHand(Writer)' \cap QueuedMsgs' = {}
      BY Zenon, <1>7, <2>1, <2>7 DEF MessagesInv, InOnePlace
    <3>. QED BY Zenon, <2>5, <3>3, <3>4, <3>5, <3>6, <3>7 DEF InOnePlace
  <2>9. NothingForgotten'
    BY Zenon, <1>7, <2>1, <2>5, <2>7, AcceptedMeans DEF MessagesInv, WriterEndsClean
  <2>10. g.pc \notin {"enqueue", "push"}
    BY Zenon, <1>5, <1>6, <1>12 DEF Running, Leasing
  <2>11. WriterEndsClean'
    BY Zenon, <1>7, <2>1, <2>5, <2>9, <2>10 DEF MessagesInv, WriterEndsClean, At
  <2>12. CounterExact'
    BY Zenon, <1>1, <1>3, <1>5, <1>7, CountsKept DEF f
  <2>13. SelectionsSubscribed'
    BY Zenon, <1>5, <1>7, <1>9, <1>10, <2>5, SelectionsKept
  <2>. QED BY Zenon, <1>7, <1>8, <2>5, <2>8, <2>11, <2>12, <2>13 DEF MessagesInv
<1>. QED BY Zenon, <1>11, <1>12

-----------------------------------------------------------------------------
(* What a worker does that hands no message on                             *)

\* Such a step keeps the invariant if it keeps the clients' part of it.
LEMMA LightKeeps ==
    ASSUME MessagesInv, NEW t \in Workers, NEW g, Steps(t, g), Light(thread[t]), Light(g),
           thread[t].pc \notin Leasing, g.pc \notin Leasing,
           UNCHANGED <<free, table, writer, unsent, case, accepted, writeOff>>,
           SelectionsSubscribed'
    PROVE  MessagesInv'
<1>1. InOnePlace' /\ WriterEndsClean' /\ CounterExact'
  BY Zenon, LightStep
<1>2. ThreadsOK' /\ SlotsOwned'
  BY Zenon, ThreadsKept, SlotsKept DEF MessagesInv, Threads
<1>. QED BY Zenon, <1>1, <1>2 DEF MessagesInv, writer

\* A worker ends its command.
LEMMA CommandEnds ==
    ASSUME MessagesInv, NEW t \in Workers, Finish(t), thread[t].pc \in {"fan_out", "error", "reply"}
    PROVE  /\ Steps(t, Idle) /\ Light(Idle) /\ Light(thread[t]) /\ FrameOK(thread[t])
           /\ thread[t].pc \notin Leasing /\ Idle.pc \notin Leasing
           /\ thread'[t] = Idle /\ \A x \in Workers \ {t} : thread'[x] = thread[x]
<1>1. Steps(t, Idle)
  BY Zenon, WriterAssumption DEF Finish, Goto, Steps
<1>2. thread'[t] = Idle /\ \A x \in Workers \ {t} : thread'[x] = thread[x]
  BY Zenon, <1>1, WorkerSteps DEF MessagesInv
<1>3. FrameOK(thread[t]) /\ thread[t].op # "write"
  BY Zenon, FrameHere DEF MessagesInv, Threads
<1>4. Light(thread[t]) /\ Light(Idle)
  BY Zenon, <1>3 DEF Light, FrameOK, Running, Leasing
<1>. QED BY Zenon, <1>1, <1>2, <1>3, <1>4 DEF Leasing, Idle

\* A live message is shown to the subscribers.
LEMMA FanOutKeeps ==
    ASSUME MessagesInv, NEW t \in Workers, FanOut(t)
    PROVE  MessagesInv'
<1>1. /\ thread[t].pc = "fan_out" /\ Finish(t) /\ subs' = subs /\ synced' = synced
      /\ shown' = [c \in Clients |-> IF c \in subs THEN shown[c] \cup {thread[t].msg} ELSE shown[c]]
      /\ UNCHANGED <<free, table, writer, unsent, case, accepted, writeOff>>
  BY Zenon DEF FanOut, At, poolVars, input, history
<1>2. /\ Steps(t, Idle) /\ Light(Idle) /\ Light(thread[t]) /\ FrameOK(thread[t])
      /\ thread[t].pc \notin Leasing /\ Idle.pc \notin Leasing
      /\ thread'[t] = Idle /\ \A x \in Workers \ {t} : thread'[x] = thread[x]
  BY Zenon, <1>1, CommandEnds
<1>3. thread[t].msg \in Msgs
  BY Zenon, <1>1, <1>2 DEF FrameOK, Running, Leasing
<1>4. SelectionsSubscribed'
  BY Zenon, <1>1, <1>2, <1>3 DEF MessagesInv, SelectionsSubscribed
<1>. QED BY Zenon, <1>1, <1>2, <1>4, LightKeeps

\* A failed command is answered.
LEMMA AnswerErrorKeeps ==
    ASSUME MessagesInv, NEW t \in Workers, AnswerError(t)
    PROVE  MessagesInv'
<1>1. /\ thread[t].pc = "error" /\ Finish(t) /\ UNCHANGED clients
      /\ UNCHANGED <<free, table, writer, unsent, case, accepted, writeOff>>
  BY Zenon DEF AnswerError, At, poolVars, messageVars, input, history
<1>2. /\ Steps(t, Idle) /\ Light(Idle) /\ Light(thread[t])
      /\ thread[t].pc \notin Leasing /\ Idle.pc \notin Leasing
  BY Zenon, <1>1, CommandEnds
<1>3. SelectionsSubscribed'
  BY Zenon, <1>1, <1>2, SelectionsKept
<1>. QED BY Zenon, <1>1, <1>2, <1>3, LightKeeps

\* A page is shown to the client that asked.
LEMMA ReplyKeeps ==
    ASSUME MessagesInv, NEW t \in Workers, Reply(t)
    PROVE  MessagesInv'
<1>. DEFINE f == thread[t]
<1>1. /\ f.pc = "reply" /\ Finish(t) /\ subs' = subs
      /\ shown' = [shown EXCEPT ![f.client] = @ \cup {table[i] : i \in f.page}]
      /\ synced' = IF f.op = "before" THEN synced ELSE synced \cup {f.client}
      /\ UNCHANGED <<free, table, writer, unsent, case, accepted, writeOff>>
  BY Zenon DEF Reply, At, poolVars, input, history
<1>2. /\ Steps(t, Idle) /\ Light(Idle) /\ Light(f) /\ FrameOK(f)
      /\ f.pc \notin Leasing /\ Idle.pc \notin Leasing
      /\ thread'[t] = Idle /\ \A x \in Workers \ {t} : thread'[x] = thread[x]
  BY Zenon, <1>1, CommandEnds
<1>3. f.op \in {"latest", "after", "before"} /\ f.client \in Clients /\ f # Idle
  BY Zenon, <1>1, <1>2, Marks DEF FrameOK, Running, Leasing
<1>4. f.page \subseteq DOMAIN table /\ (f.op # "before" => f.client \in subs)
  BY Zenon, <1>1, <1>3 DEF MessagesInv, SelectionsSubscribed
<1>5. {table[i] : i \in f.page} \subseteq Msgs
  <2>1. \A i \in DOMAIN table : table[i] \in Msgs
    BY DEF MessagesInv
  <2>. QED BY Zenon, <1>4, <2>1
<1>. HIDE DEF f
<1>6. /\ shown' = [c \in Clients |-> shown'[c]]
      /\ \A c \in Clients : shown'[c] \subseteq Msgs
  BY Zenon, <1>1, <1>3, <1>5 DEF MessagesInv, SelectionsSubscribed
<1>7. synced' \subseteq subs' /\ subs' \subseteq Clients
  BY Zenon, <1>1, <1>3, <1>4 DEF MessagesInv, SelectionsSubscribed
<1>8. SelectionsSubscribed'
  BY Zenon, <1>1, <1>2, <1>6, <1>7 DEF MessagesInv, SelectionsSubscribed
<1>. QED BY Zenon, <1>1, <1>2, <1>8, LightKeeps DEF f

\* A command that reads starts.
Reads(t, c, op, pc, seq) ==
    /\ \/ op \in {"latest", "after"} /\ pc = "subscribe"
       \/ op = "before" /\ pc = "lease"
    /\ thread[t].pc = "idle"
    /\ thread' = [thread EXCEPT ![t] = WithCursor(Frame(pc, op, "none", c), seq)]

\* A reading command starts with a frame that holds no message and no slot.
LEMMA ReadStarts ==
    ASSUME MessagesInv, NEW t \in Workers, NEW c \in Clients, NEW op, NEW pc, NEW seq,
           Reads(t, c, op, pc, seq)
    PROVE  \E g : /\ Steps(t, g) /\ Light(g) /\ Light(thread[t]) /\ g.op = op /\ g.pc = pc /\ g.page = {}
                  /\ thread[t].pc \notin Leasing /\ g.pc \notin Leasing
                  /\ thread'[t] = g /\ \A x \in Workers \ {t} : thread'[x] = thread[x]
<1>. DEFINE h == Frame(pc, op, "none", c)
            g == WithCursor(h, seq)
<1>1. /\ IsFrame(h) /\ h.pc = pc /\ h.op = op /\ h.client = c /\ h.slot = NoSlot /\ h.tries = 0
      /\ h.pool = "read" /\ h.page = {}
  <2>1. op \notin {"send", "write"}
    BY Zenon DEF Reads
  <2>. QED BY <2>1, FrameNew
<1>2. thread' = [thread EXCEPT ![t] = g]
  BY Zenon DEF Reads
<1>. HIDE DEF h
<1>3. SameCall(g, h) /\ g.pc = pc /\ g.slot = NoSlot /\ g.tries = 0 /\ g.page = {}
  BY Zenon, <1>1, WithCursorIs DEF Updates
<1>. HIDE DEF g
<1>4. FrameOK(g) /\ g.op = op
  BY <1>1, <1>3 DEF FrameOK, SameCall, Running, Leasing, Reads
<1>5. Steps(t, g)
  BY Zenon, <1>2, <1>4, WriterAssumption DEF Steps, Reads
<1>6. thread'[t] = g /\ \A x \in Workers \ {t} : thread'[x] = thread[x]
  BY Zenon, <1>5, WorkerSteps DEF MessagesInv
<1>7. Light(g) /\ Light(thread[t])
  <2>1. thread[t] = Idle \/ FrameOK(thread[t])
    BY Zenon DEF MessagesInv, ThreadsOK
  <2>2. thread[t] = Idle
    BY Zenon, <2>1, FrameKinds DEF Reads
  <2>. QED BY Zenon, <1>4, <2>2 DEF Light, Reads
<1>. QED BY Zenon, <1>3, <1>4, <1>5, <1>6, <1>7 DEF Leasing, Reads

\* SelectActiveChannel starts.
LEMMA SelectKeeps ==
    ASSUME MessagesInv, NEW t \in Workers, NEW c \in Clients, NEW op \in {"latest", "after"},
           SelectActiveChannel(t, c, op)
    PROVE  MessagesInv'
<1>1. /\ thread[t].pc = "idle" /\ subs' = subs /\ synced' = synced \ {c}
      /\ shown' = shown \/ shown' = [shown EXCEPT ![c] = {}]
      /\ UNCHANGED <<free, table, writer, unsent, case, accepted, writeOff>>
  BY Zenon DEF SelectActiveChannel, At, poolVars, history
<1>. DEFINE seq == IF op = "after" THEN KnownLatest(c) ELSE 0
<1>2. Reads(t, c, op, "subscribe", seq)
  <2>1. SelectOrder("start") = "subscribe"
    BY Zenon DEF SelectOrder
  <2>2. thread' = [thread EXCEPT ![t] = WithCursor(Frame(SelectOrder("start"), op, "none", c), seq)]
    BY Zenon DEF SelectActiveChannel, Goto, WithCursor
  <2>. HIDE DEF seq
  <2>3. thread' = [thread EXCEPT ![t] = WithCursor(Frame("subscribe", op, "none", c), seq)]
    BY Zenon, <2>1, <2>2
  <2>. QED BY Zenon, <1>1, <2>3 DEF Reads
<1>3. PICK g : /\ Steps(t, g) /\ Light(g) /\ Light(thread[t]) /\ g.op = op /\ g.pc = "subscribe" /\ g.page = {}
               /\ thread[t].pc \notin Leasing /\ g.pc \notin Leasing
               /\ thread'[t] = g /\ \A x \in Workers \ {t} : thread'[x] = thread[x]
  BY Zenon, <1>1, <1>2, ReadStarts
<1>4. /\ shown' = [d \in Clients |-> shown'[d]]
      /\ \A d \in Clients : shown'[d] \subseteq Msgs
  BY Zenon, <1>1 DEF MessagesInv, SelectionsSubscribed
<1>5. SelectionsSubscribed'
  BY Zenon, <1>1, <1>3, <1>4 DEF MessagesInv, SelectionsSubscribed
<1>. QED BY Zenon, <1>1, <1>3, <1>5, LightKeeps

\* FetchMessagesBefore starts.
LEMMA FetchKeeps ==
    ASSUME MessagesInv, NEW t \in Workers, NEW c \in Clients, FetchMessagesBefore(t, c)
    PROVE  MessagesInv'
<1>1. /\ thread[t].pc = "idle" /\ UNCHANGED clients
      /\ UNCHANGED <<free, table, writer, unsent, case, accepted, writeOff>>
      /\ Reads(t, c, "before", "lease", oldest[c])
  BY Zenon DEF FetchMessagesBefore, At, poolVars, history, Goto, WithCursor, Reads
<1>2. PICK g : /\ Steps(t, g) /\ Light(g) /\ Light(thread[t]) /\ g.op = "before" /\ g.pc = "lease" /\ g.page = {}
               /\ thread[t].pc \notin Leasing /\ g.pc \notin Leasing
               /\ thread'[t] = g /\ \A x \in Workers \ {t} : thread'[x] = thread[x]
  BY Zenon, <1>1, ReadStarts
<1>3. SelectionsSubscribed'
  BY Zenon, <1>1, <1>2, SelectionsKept
<1>. QED BY Zenon, <1>1, <1>2, <1>3, LightKeeps

\* A selection subscribes the client before it reads.
LEMMA SubscribeKeeps ==
    ASSUME MessagesInv, NEW t \in Workers, Subscribe(t)
    PROVE  MessagesInv'
<1>. DEFINE f == thread[t]
            g == WithPc(f, "lease")
<1>1. /\ f.pc = "subscribe" /\ subs' = subs \cup {f.client} /\ synced' = synced /\ shown' = shown
      /\ UNCHANGED <<free, table, writer, unsent, case, accepted, writeOff>>
      /\ thread' = [thread EXCEPT ![t] = g]
  BY Zenon DEF Subscribe, At, poolVars, pages, input, history, Proceed, Goto, WithPc, SelectOrder
<1>2. FrameOK(f) /\ IsFrame(f) /\ f.op # "write" /\ t \in Threads
  BY Zenon, <1>1, FrameHere DEF MessagesInv, Threads
<1>3. f.op \in {"latest", "after"} /\ f.client \in Clients /\ f.slot = NoSlot /\ f # Idle
  BY Zenon, <1>1, <1>2, Marks DEF FrameOK, Running, Leasing
<1>4. SameCall(g, f) /\ g.pc = "lease" /\ g.slot = f.slot /\ g.tries = f.tries /\ g.page = f.page
  BY Zenon, <1>2, WithPcIs DEF Updates
<1>. HIDE DEF g, f
<1>5. FrameOK(g) /\ g.op = f.op /\ g.client = f.client
  BY Zenon, <1>2, <1>3, <1>4 DEF FrameOK, SameCall, Running, Leasing
<1>6. Steps(t, g)
  BY Zenon, <1>1, <1>3, <1>5, WriterAssumption DEF Steps
<1>7. thread'[t] = g /\ \A x \in Workers \ {t} : thread'[x] = thread[x]
  BY Zenon, <1>6, WorkerSteps DEF MessagesInv
<1>8. Light(f) /\ Light(g)
  BY Zenon, <1>2, <1>3, <1>5 DEF Light
<1>9. f.page \subseteq DOMAIN table
  BY Zenon, <1>3 DEF MessagesInv, SelectionsSubscribed, f
<1>10. SelectionsSubscribed'
  BY <1>1, <1>3, <1>4, <1>5, <1>7, <1>9 DEF MessagesInv, SelectionsSubscribed
<1>. QED BY Zenon, <1>1, <1>4, <1>6, <1>8, <1>10, LightKeeps DEF Leasing, f

\* The facts of counting, from the library.
LEMMA Counts == Counting
BY FS_CardinalityType, FS_AddElement, FS_RemoveElement DEF Counting

-----------------------------------------------------------------------------
(* The invariant and what it means                                         *)

\* The invariant holds at the start.
LEMMA MessagesInvInit == Init => MessagesInv
<1>. SUFFICES ASSUME Init PROVE MessagesInv
  BY Zenon
<1>1. /\ thread = [t \in Threads |-> Idle] /\ Writer \in Threads /\ Workers \subseteq Threads
      /\ table = <<>> /\ queue = <<>> /\ size = 0 /\ free = Pools \X Slots
      /\ stopping = FALSE /\ subs = {} /\ shown = [c \in Clients |-> {}] /\ synced = {}
      /\ unsent \subseteq Msgs /\ case.capacity \in Nat /\ accepted = {}
  BY Zenon, CasesAssumption DEF Init, PersistenceInit, Threads
<1>2. \A t \in Threads : thread[t] = Idle /\ thread[t].pc = "idle"
  BY Zenon, <1>1 DEF Idle
<1>3. table \in Seq(Msgs) /\ queue \in Seq(Items)
  BY <1>1
<1>4. ThreadsOK /\ SlotsOwned
  BY Zenon, <1>1, <1>2 DEF ThreadsOK, SlotsOwned, Leasing
<1>5. /\ InHand(Writer) = {} /\ QueuedMsgs = {} /\ Range(table) = {} /\ Distinct(queue) /\ StoredOnce
      /\ \A x \in Workers : ~Carries(x)
  BY <1>1, <1>2 DEF InHand, QueuedMsgs, MsgsOf, Range, Distinct, StoredOnce, Carries, Holds
<1>6. InOnePlace
  BY Zenon, <1>1, <1>2, <1>5 DEF InOnePlace, At
<1>7. WriterEndsClean
  BY Zenon, <1>1, <1>2 DEF WriterEndsClean, NothingForgotten, At
<1>8. CounterExact
  <2>1. Pushing = {}
    BY Zenon, <1>2 DEF Pushing, At
  <2>2. IsFiniteSet({}) /\ Cardinality({}) = 0
    BY Zenon, FS_EmptySet
  <2>. QED BY <1>1, <1>2, <2>1, <2>2 DEF CounterExact, At
<1>9. SelectionsSubscribed
  BY Zenon, <1>1, <1>2 DEF SelectionsSubscribed
<1>. QED BY Zenon, <1>1, <1>3, <1>4, <1>6, <1>7, <1>8, <1>9 DEF MessagesInv

\* Every step keeps the invariant, by the lemma of its action.
LEMMA MessagesInvNext == MessagesInv /\ [Next]_vars => MessagesInv'
<1>. SUFFICES ASSUME MessagesInv, [Next]_vars PROVE MessagesInv'
  BY Zenon
<1>1. ASSUME NEW t \in Workers, \E m \in Msgs : SendMessage(t, m)
      PROVE  MessagesInv'
  BY Zenon, <1>1, SendKeeps
<1>2. ASSUME NEW t \in Workers, Enqueue(t) \/ FanOut(t) \/ AnswerError(t) \/ Subscribe(t) \/ Reply(t)
      PROVE  MessagesInv'
  BY Zenon, <1>2, Counts, EnqueueKeeps, FanOutKeeps, AnswerErrorKeeps, SubscribeKeeps, ReplyKeeps
<1>3. ASSUME NEW t \in Workers, NEW c \in Clients,
             FetchMessagesBefore(t, c) \/ \E op \in {"latest", "after"} : SelectActiveChannel(t, c, op)
      PROVE  MessagesInv'
  BY Zenon, <1>3, FetchKeeps, SelectKeeps
<1>4. ASSUME NEW t \in Workers \cup {Writer}, Push(t) \/ Transact(t)
      PROVE  MessagesInv'
  BY Zenon, <1>4, Counts, PushKeeps, PushAgainKeeps, WorkerTransacts, WriterTransacts
<1>5. CASE Pop \/ PopDone \/ Stored \/ WriteFailed \/ StopWriter \/ WriterEnds \/ DestroyWriter
  BY Zenon, <1>5, Counts, PopKeeps, PopDoneKeeps, WriteEndsKeep, WriteFailedKeeps, StopKeeps, WriterEndsKeeps, DestroyKeeps
<1>6. ASSUME NEW c \in Clients, Disconnect(c)
      PROVE  MessagesInv'
  BY Zenon, <1>6, DisconnectKeeps
<1>7. CASE DatabaseStep /\ UNCHANGED messageVars
  BY Zenon, <1>7, DatabaseKeeps DEF DatabaseStep, ConnectionsDrop, DatabaseDown, DatabaseUp, poolVars
<1>8. CASE UNCHANGED vars
  BY Zenon, <1>8, DatabaseKeeps DEF vars, poolVars
<1>. QED BY Zenon, <1>1, <1>2, <1>3, <1>4, <1>5, <1>6, <1>7, <1>8 DEF Next

\* The invariant always holds.
LEMMA MessagesAlways == Spec => []MessagesInv
<1>. QED BY MessagesInvInit, MessagesInvNext, PTL DEF Spec

\* MessagesTypeOK in every behaviour: the table, the clients and what they are shown are of
\* their kinds, and DbWriteQueue's counter covers its items and stays within the capacity,
\* between the steps of any number of enqueue() calls, pops and retries.
THEOREM QueueWithinCapacity == Spec => []MessagesTypeOK
<1>1. MessagesInv => MessagesTypeOK
  <2>. SUFFICES ASSUME MessagesInv PROVE MessagesTypeOK
    BY Zenon
  <2>1. Range(table) \subseteq Msgs
    BY DEF MessagesInv, Range
  <2>2. IsFiniteSet(Pushing) /\ Len(queue) \in Nat
    BY DEF MessagesInv, CounterExact
  <2>3. Cardinality(Pushing) \in Nat
    BY Zenon, <2>2, FS_CardinalityType
  <2>4. writing => Len(queue) <= size
    BY <2>2, <2>3 DEF MessagesInv, CounterExact
  <2>. QED BY Zenon, <2>1, <2>4 DEF MessagesInv, MessagesTypeOK, CounterExact, SelectionsSubscribed
<1>. QED BY <1>1, MessagesAlways, PTL

\* PoolConserved in every behaviour: however run() ends, a slot of a connection pool is free
\* or leased to exactly one thread.
THEOREM PoolsConserved == Spec => []PoolConserved
<1>1. MessagesInv => PoolConserved
  <2>. SUFFICES ASSUME MessagesInv, NEW s \in Pools \X Slots
                PROVE  Cardinality(Leased(s)) = IF s \in free THEN 0 ELSE 1
    BY Zenon DEF PoolConserved
  <2>1. /\ DOMAIN thread = Threads /\ s # NoSlot
        /\ \A t \in Threads : thread[t] = Idle \/ thread[t] = Gone \/ FrameOK(thread[t])
    BY Zenon, PoolAssumption DEF MessagesInv, ThreadsOK, Threads
  <2>2. \A t \in Threads : (thread[t] # Idle /\ thread[t].slot = s) <=> (thread[t].pc \in Leasing /\ thread[t].slot = s)
    BY Zenon, <2>1, FrameKinds DEF Leasing, Idle
  <2>3. Leased(s) = {t \in Threads : thread[t].pc \in Leasing /\ thread[t].slot = s}
    BY Zenon, <2>1, <2>2 DEF Leased
  <2>4. CASE s \in free
    <3>1. Leased(s) = {}
      BY <2>3, <2>4 DEF MessagesInv, SlotsOwned
    <3>. QED BY Zenon, <2>4, <3>1, FS_EmptySet
  <2>5. CASE s \notin free
    <3>1. PICK t \in Threads : thread[t].pc \in Leasing /\ thread[t].slot = s
      BY Zenon, <2>5 DEF MessagesInv, SlotsOwned
    <3>2. Leased(s) = {t}
      BY <2>3, <3>1 DEF MessagesInv, SlotsOwned
    <3>. QED BY Zenon, <2>5, <3>2, FS_Singleton
  <2>. QED BY Zenon, <2>4, <2>5
<1>. QED BY <1>1, MessagesAlways, PTL

\* StoredOnce in every behaviour: no retry, of the transaction runner or of the writer, stores a
\* message a second time.
THEOREM NeverStoredTwice == Spec => []StoredOnce
<1>1. MessagesInv => StoredOnce
  BY Zenon DEF MessagesInv, InOnePlace
<1>. QED BY <1>1, MessagesAlways, PTL

\* NothingForgotten in every behaviour: a message answered before stop() is stored, queued, with
\* the writer, or counted as given up, during the shutdown and after it.
THEOREM NeverForgotten == Spec => []NothingForgotten
<1>1. MessagesInv => NothingForgotten
  BY Zenon DEF MessagesInv, WriterEndsClean
<1>. QED BY <1>1, MessagesAlways, PTL

=============================================================================
