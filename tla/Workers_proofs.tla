---------------------------- MODULE Workers_proofs ----------------------------
(***************************************************************************)
(* The guard of the worker pool is exact, the audit rows logged before a   *)
(* stop are tried and hints give way, for any number of threads,           *)
(* connections and events and any capacity.                                *)
(*                                                                         *)
(* The key of a voice channel, for any users, threads, failures, restarts  *)
(* and master keys: members come to hold the live key; storage follows it  *)
(* and is never behind it; who left does not know it.                      *)
(***************************************************************************)
EXTENDS WorkerPool, ChannelKeys, TLAPS

-----------------------------------------------------------------------------
(* The worker pool.                                                        *)

Event == [conn : Conns, type : Types, n : Nat]

Queues(S) == [high : Seq(S), low : Seq(S)]

InHand == {"handle", "execute", "answer"}
Places == {"loop", "gate", "dozing", "asleep", "pop", "ended"} \cup InHand

\* A thread has no event before its first wait_pop and keeps the last one after it.
Fresh == [pc : Places \ InHand]
Used  == [pc : Places, evt : Event]

Scenario == [workers : Nat \ {0}, capacity : Nat \ {0}, events : Nat, pauses : Nat,
             conns : SUBSET Conns, types : SUBSET Types]

PoolTypeOK ==
    /\ scenario \in Scenario
    /\ pushed \in Nat
    /\ queue \in Queues(Event)
    /\ worker \in [1..scenario.workers -> Fresh \cup Used]
    /\ control \in {"up", "resuming", "audit", "flags", "queue", "join", "stopped"}
    /\ audit \in [queue : Seq(Nat), stopped : BOOLEAN, pc : {"wait", "write", "ended"}]

Rows(s) == {s[i] : i \in DOMAIN s}

\* What is owed is tried or still queued, and the thread ends only after the stop,
\* with nothing left: AuditedBeforeStop, with what the join of the thread rests on.
AuditOwes ==
    /\ control \in {"up", "resuming"} => ~audit.stopped
    /\ control \notin {"up", "resuming", "audit"} => audit.pc = "ended"
    /\ owed \subseteq tried \cup Rows(audit.queue)
    /\ audit.pc = "ended" => audit.stopped /\ owed \subseteq tried

PoolInv == PoolTypeOK /\ GuardExact /\ AuditOwes

-----------------------------------------------------------------------------
(* The queue                                                               *)

\* Appending adds an element at the end, and loses none.
LEMMA AppendRows ==
    ASSUME NEW S, NEW s \in Seq(S), NEW x \in S
    PROVE  Append(s, x) \in Seq(S) /\ Rows(Append(s, x)) = Rows(s) \cup {x}
<1>1. /\ Append(s, x) \in Seq(S) /\ Len(Append(s, x)) = Len(s) + 1
      /\ DOMAIN Append(s, x) = 1..Len(s) + 1 /\ DOMAIN s = 1..Len(s) /\ Len(s) \in Nat
  OBVIOUS
<1>2. \A i \in 1..Len(s) + 1 : Append(s, x)[i] = IF i <= Len(s) THEN s[i] ELSE x
  OBVIOUS
<1>3. \A y \in Rows(Append(s, x)) : y \in Rows(s) \cup {x}
  <2>. SUFFICES ASSUME NEW i \in 1..Len(s) + 1
                PROVE  Append(s, x)[i] \in Rows(s) \cup {x}
    BY Zenon, <1>1 DEF Rows
  <2>. QED BY <1>1, <1>2 DEF Rows
<1>4. x \in Rows(Append(s, x))
  <2>1. Len(s) + 1 \in 1..Len(s) + 1 /\ Append(s, x)[Len(s) + 1] = x
    BY <1>1, <1>2
  <2>. QED BY Zenon, <2>1, <1>1 DEF Rows
<1>5. \A y \in Rows(s) : y \in Rows(Append(s, x))
  <2>. SUFFICES ASSUME NEW i \in 1..Len(s)
                PROVE  s[i] \in Rows(Append(s, x))
    BY Zenon, <1>1 DEF Rows
  <2>1. i \in 1..Len(s) + 1 /\ Append(s, x)[i] = s[i]
    BY <1>1, <1>2
  <2>. QED BY Zenon, <2>1, <1>1 DEF Rows
<1>. QED BY Zenon, <1>1, <1>3, <1>4, <1>5

\* Popping takes the first element out, and loses no other.
LEMMA TailRows ==
    ASSUME NEW S, NEW s \in Seq(S), s # <<>>
    PROVE  /\ Head(s) \in S /\ Tail(s) \in Seq(S)
           /\ Rows(s) = Rows(Tail(s)) \cup {Head(s)}
<1>1. /\ Len(s) \in Nat /\ Len(s) >= 1 /\ DOMAIN s = 1..Len(s)
      /\ Tail(s) \in Seq(S) /\ Len(Tail(s)) = Len(s) - 1
      /\ DOMAIN Tail(s) = 1..Len(s) - 1 /\ Head(s) = s[1] /\ s[1] \in S
  OBVIOUS
<1>2. \A i \in 1..Len(s) - 1 : Tail(s)[i] = s[i + 1]
  OBVIOUS
<1>3. \A y \in Rows(s) : y \in Rows(Tail(s)) \cup {Head(s)}
  <2>. SUFFICES ASSUME NEW i \in 1..Len(s), i # 1
                PROVE  s[i] \in Rows(Tail(s))
    BY Zenon, <1>1 DEF Rows
  <2>1. i - 1 \in 1..Len(s) - 1 /\ Tail(s)[i - 1] = s[i]
    BY <1>1, <1>2
  <2>. QED BY Zenon, <2>1, <1>1 DEF Rows
<1>4. \A y \in Rows(Tail(s)) : y \in Rows(s)
  <2>. SUFFICES ASSUME NEW i \in 1..Len(s) - 1
                PROVE  Tail(s)[i] \in Rows(s)
    BY Zenon, <1>1 DEF Rows
  <2>1. i + 1 \in 1..Len(s) /\ Tail(s)[i] = s[i + 1]
    BY <1>1, <1>2
  <2>. QED BY Zenon, <2>1, <1>1 DEF Rows
<1>5. Head(s) \in Rows(s)
  BY <1>1 DEF Rows
<1>. QED BY Zenon, <1>1, <1>3, <1>4, <1>5

\* push_impl never drops a high event that is queued, and takes a new one unless
\* the queue is full of its kind.
LEMMA OfferFacts ==
    ASSUME NEW S, NEW q \in Queues(S), NEW x \in S, NEW lane \in {"high", "low"},
           NEW capacity \in Nat
    PROVE  LET r == Offer(q, x, lane, capacity)
           IN  /\ r \in Queues(S)
               /\ Rows(q.high) \subseteq Rows(r.high)
               /\ lane = "high" /\ Len(q.high) < capacity => x \in Rows(r.high)
<1>1. q.high \in Seq(S) /\ q.low \in Seq(S) /\ Len(q.high) \in Nat /\ Len(q.low) \in Nat
  BY DEF Queues
<1>2. /\ Append(q.high, x) \in Seq(S) /\ Append(q.low, x) \in Seq(S)
      /\ Rows(Append(q.high, x)) = Rows(q.high) \cup {x}
  BY <1>1, AppendRows
<1>3. CASE capacity = 0 \/ Size(q) < capacity
  <2>1. Offer(q, x, lane, capacity) = [q EXCEPT ![lane] = Append(@, x)]
    BY Zenon, <1>3 DEF Offer
  <2>2. CASE lane = "high"
    BY Zenon, <2>1, <2>2, <1>1, <1>2 DEF Queues
  <2>3. CASE lane = "low"
    BY Zenon, <2>1, <2>3, <1>1, <1>2 DEF Queues
  <2>. QED BY Zenon, <2>2, <2>3
<1>4. CASE ~(capacity = 0 \/ Size(q) < capacity) /\ lane = "high" /\ q.low # <<>>
  <2>1. Offer(q, x, lane, capacity) = [high |-> Append(q.high, x), low |-> SubSeq(q.low, 1, Len(q.low) - 1)]
    BY Zenon, <1>4 DEF Offer
  <2>2. SubSeq(q.low, 1, Len(q.low) - 1) \in Seq(S)
    BY <1>1
  <2>. QED BY <2>1, <2>2, <1>2 DEF Queues
<1>5. CASE ~(capacity = 0 \/ Size(q) < capacity) /\ ~(lane = "high" /\ q.low # <<>>)
  <2>1. Offer(q, x, lane, capacity) = q
    BY Zenon, <1>5 DEF Offer
  <2>2. lane = "high" => ~(Len(q.high) < capacity)
    <3>. SUFFICES ASSUME lane = "high" PROVE ~(Len(q.high) < capacity)
      BY Zenon
    <3>1. Len(q.low) = 0
      BY <1>5, <1>1
    <3>. QED BY <3>1, <1>5, <1>1 DEF Size
  <2>. QED BY Zenon, <2>1, <2>2
<1>. QED BY Zenon, <1>3, <1>4, <1>5

\* A pop takes one event out, and no high event but that one.
LEMMA RestFacts ==
    ASSUME NEW S, NEW q \in Queues(S), Size(q) > 0
    PROVE  /\ First(q) \in S /\ Rest(q) \in Queues(S)
           /\ Rows(q.high) \subseteq Rows(Rest(q).high) \cup {First(q)}
<1>1. q.high \in Seq(S) /\ q.low \in Seq(S) /\ Len(q.high) \in Nat /\ Len(q.low) \in Nat
  BY DEF Queues
<1>2. CASE q.high # <<>>
  <2>1. First(q) = Head(q.high) /\ Rest(q) = [q EXCEPT !.high = Tail(@)]
    BY Zenon, <1>2 DEF First, Rest, Lane
  <2>2. /\ Head(q.high) \in S /\ Tail(q.high) \in Seq(S)
        /\ Rows(q.high) = Rows(Tail(q.high)) \cup {Head(q.high)}
    BY Zenon, <1>1, <1>2, TailRows
  <2>3. Rest(q) \in Queues(S) /\ Rest(q).high = Tail(q.high)
    BY Zenon, <2>1, <2>2 DEF Queues
  <2>. QED BY Zenon, <2>1, <2>2, <2>3
<1>3. CASE q.high = <<>>
  <2>1. First(q) = Head(q.low) /\ Rest(q) = [q EXCEPT !.low = Tail(@)]
    BY Zenon, <1>3 DEF First, Rest, Lane
  <2>2. q.low # <<>>
    BY <1>1, <1>3 DEF Size
  <2>3. Head(q.low) \in S /\ Tail(q.low) \in Seq(S)
    BY Zenon, <1>1, <2>2, TailRows
  <2>4. Rest(q) \in Queues(S) /\ Rest(q).high = q.high
    BY Zenon, <2>1, <2>3 DEF Queues
  <2>. QED BY Zenon, <2>1, <2>3, <2>4
<1>. QED BY Zenon, <1>2, <1>3

-----------------------------------------------------------------------------
(* The threads                                                             *)

\* A thread that moves on keeps its event.
LEMMA FrameMoves ==
    ASSUME NEW r \in Fresh \cup Used, NEW pc \in Places, pc \in InHand => r \in Used
    PROVE  LET s == [r EXCEPT !.pc = pc]
           IN  s \in Fresh \cup Used /\ s.pc = pc /\ (r \in Used => s \in Used /\ s.evt = r.evt)
<1>1. CASE r \in Used
  BY Zenon, <1>1 DEF Used
<1>2. CASE r \in Fresh /\ r \notin Used
  BY Zenon, <1>2 DEF Fresh
<1>. QED BY Zenon, <1>1, <1>2

\* A thread with an event in hand is in a frame that has one.
LEMMA HandsHold ==
    ASSUME NEW r \in Fresh \cup Used
    PROVE  r.pc \in Places /\ (r.pc \in InHand => r \in Used /\ r.evt \in Event)
BY Zenon DEF Fresh, Used

\* GotoPc moves one thread and no other.
LEMMA GotoFacts ==
    ASSUME PoolTypeOK, NEW w \in DOMAIN worker, NEW pc \in Places, GotoPc(w, pc),
           pc \in InHand => worker[w].pc \in InHand
    PROVE  /\ worker' \in [1..scenario.workers -> Fresh \cup Used]
           /\ DOMAIN worker' = DOMAIN worker
           /\ worker'[w].pc = pc
           /\ worker[w].pc \in InHand => worker'[w].evt = worker[w].evt
           /\ \A v \in DOMAIN worker : v # w => worker'[v] = worker[v]
<1>1. worker \in [1..scenario.workers -> Fresh \cup Used] /\ DOMAIN worker = 1..scenario.workers
  BY Zenon DEF PoolTypeOK
<1>2. worker[w] \in Fresh \cup Used /\ (worker[w].pc \in InHand => worker[w] \in Used)
  BY Zenon, <1>1, HandsHold
<1>. DEFINE s == [worker[w] EXCEPT !.pc = pc]
<1>3. s \in Fresh \cup Used /\ s.pc = pc /\ (worker[w].pc \in InHand => s.evt = worker[w].evt)
  BY Zenon, <1>2, FrameMoves
<1>4. worker' = [worker EXCEPT ![w] = s]
  BY Zenon DEF GotoPc
<1>. HIDE DEF s
<1>. QED BY Zenon, <1>1, <1>3, <1>4

\* The guard stays exact when the commands in flight stay the same.
LEMMA GuardKept ==
    ASSUME GuardExact, executing' = executing, DOMAIN worker' = DOMAIN worker,
           \A v \in DOMAIN worker : /\ Executing(v)' <=> Executing(v)
                                    /\ Executing(v) => worker'[v].evt = worker[v].evt
    PROVE  GuardExact'
<1>1. \A v \in DOMAIN worker : Executing(v) => Key(worker'[v].evt) = Key(worker[v].evt)
  BY Zenon
<1>2. {v \in DOMAIN worker' : Executing(v)'} = {v \in DOMAIN worker : Executing(v)}
  BY Zenon
<1>3. {Key(worker'[w].evt) : w \in {v \in DOMAIN worker' : Executing(v)'}}
        = {Key(worker[w].evt) : w \in {v \in DOMAIN worker : Executing(v)}}
  BY Zenon, <1>1, <1>2
<1>4. executing' = {Key(worker[w].evt)' : w \in {v \in DOMAIN worker' : Executing(v)'}}
  BY Zenon, <1>3 DEF GuardExact, Key
<1>5. \A w, v \in DOMAIN worker' :
         Executing(w)' /\ Executing(v)' /\ Key(worker'[w].evt) = Key(worker'[v].evt) => w = v
  BY Zenon, <1>1 DEF GuardExact
<1>. QED BY Zenon, <1>4, <1>5 DEF GuardExact, Key

\* A thread that goes from one place outside a command to another leaves the guard alone.
LEMMA GuardPassed ==
    ASSUME PoolTypeOK, GuardExact, NEW w \in DOMAIN worker, NEW pc \in Places, GotoPc(w, pc),
           pc \in InHand => worker[w].pc \in InHand,
           ~Executing(w), pc # "execute", UNCHANGED executing
    PROVE  GuardExact'
<1>1. /\ DOMAIN worker' = DOMAIN worker /\ worker'[w].pc = pc
      /\ \A v \in DOMAIN worker : v # w => worker'[v] = worker[v]
  BY Zenon, GotoFacts
<1>2. ~Executing(w)'
  BY Zenon, <1>1 DEF Executing, AtPc
<1>3. \A v \in DOMAIN worker : v # w => (Executing(v)' <=> Executing(v)) /\ worker'[v].evt = worker[v].evt
  BY Zenon, <1>1 DEF Executing, AtPc
<1>. QED BY Zenon, <1>1, <1>2, <1>3, GuardKept

\* try_mark_executing: the command of the thread that dispatches it comes in.
LEMMA GuardTaken ==
    ASSUME PoolTypeOK, GuardExact, NEW w \in DOMAIN worker, Dispatch(w)
    PROVE  GuardExact'
<1>. DEFINE e == worker[w].evt
<1>1. /\ DOMAIN worker' = DOMAIN worker /\ worker'[w].pc = "execute" /\ worker'[w].evt = e
      /\ \A v \in DOMAIN worker : v # w => worker'[v] = worker[v]
  BY Zenon, GotoFacts DEF Dispatch, AtPc, Places, InHand
<1>2. /\ Executing(w)' <=> Guarded(e)
      /\ ~Executing(w)
      /\ \A v \in DOMAIN worker : v # w => (Executing(v)' <=> Executing(v)) /\ worker'[v].evt = worker[v].evt
  BY Zenon, <1>1 DEF Executing, AtPc, Dispatch
<1>3. CASE ~Guarded(e)
  <2>1. executing' = executing
    BY Zenon, <1>3 DEF Dispatch
  <2>. QED BY Zenon, <1>1, <1>2, <1>3, <2>1, GuardKept
<1>4. CASE Guarded(e)
  <2>1. executing' = executing \cup {Key(e)} /\ Key(e) \notin executing
    BY Zenon, <1>4 DEF Dispatch, Marked
  <2>2. /\ executing = {Key(worker[x].evt) : x \in {v \in DOMAIN worker : Executing(v)}}
        /\ \A x, v \in DOMAIN worker :
              Executing(x) /\ Executing(v) /\ Key(worker[x].evt) = Key(worker[v].evt) => x = v
    BY Zenon DEF GuardExact
  <2>3. \A v \in DOMAIN worker : v # w /\ Executing(v)' => Key(worker'[v].evt) \in executing
    BY Zenon, <1>2, <2>2
  <2>4. executing' = {Key(worker'[x].evt) : x \in {v \in DOMAIN worker' : Executing(v)'}}
    BY <1>1, <1>2, <1>4, <2>1, <2>2
  <2>5. \A x, v \in DOMAIN worker' :
           Executing(x)' /\ Executing(v)' /\ Key(worker'[x].evt) = Key(worker'[v].evt) => x = v
    BY Zenon, <1>1, <1>2, <2>1, <2>2, <2>3
  <2>. QED BY Zenon, <2>4, <2>5 DEF GuardExact, Key
<1>. QED BY Zenon, <1>3, <1>4

\* unmark_executing, after the command or its exception: the thread's own command goes
\* out, and a command that never took the guard takes nobody's away.
LEMMA GuardReleased ==
    ASSUME PoolTypeOK, GuardExact, NEW w \in DOMAIN worker, AtPc(w, "execute"),
           NEW pc \in Places, pc # "execute", GotoPc(w, pc),
           executing' = Unmarked(worker[w].evt)
    PROVE  GuardExact'
<1>. DEFINE e == worker[w].evt
<1>1. /\ DOMAIN worker' = DOMAIN worker /\ worker'[w].pc = pc
      /\ \A v \in DOMAIN worker : v # w => worker'[v] = worker[v]
  BY Zenon, GotoFacts DEF AtPc, InHand
<1>2. /\ ~Executing(w)' /\ (Executing(w) <=> Guarded(e))
      /\ \A v \in DOMAIN worker : v # w => (Executing(v)' <=> Executing(v)) /\ worker'[v].evt = worker[v].evt
  BY Zenon, <1>1 DEF Executing, AtPc
<1>3. /\ executing = {Key(worker[x].evt) : x \in {v \in DOMAIN worker : Executing(v)}}
      /\ \A x, v \in DOMAIN worker :
            Executing(x) /\ Executing(v) /\ Key(worker[x].evt) = Key(worker[v].evt) => x = v
  BY Zenon DEF GuardExact
<1>4. \A v \in DOMAIN worker : v # w /\ Executing(v) => Key(worker[v].evt) # Key(e)
  <2>1. CASE Guarded(e)
    BY Zenon, <2>1, <1>2, <1>3
  <2>2. CASE ~Guarded(e)
    <3>. SUFFICES ASSUME NEW v \in DOMAIN worker, Executing(v), Key(worker[v].evt) = Key(e)
                  PROVE  FALSE
      BY Zenon
    <3>1. worker[v].evt.type = e.type
      BY Zenon DEF Key
    <3>. QED BY Zenon, <3>1, <2>2 DEF Executing, Guarded, IsMessage
  <2>. QED BY Zenon, <2>1, <2>2
<1>5. executing' = executing \ {Key(e)}
  BY Zenon DEF Unmarked
<1>6. executing' = {Key(worker'[x].evt) : x \in {v \in DOMAIN worker' : Executing(v)'}}
  <2>1. \A k \in executing' : \E x \in DOMAIN worker : Executing(x)' /\ k = Key(worker'[x].evt)
    <3>. SUFFICES ASSUME NEW k \in executing'
                  PROVE  \E x \in DOMAIN worker : Executing(x)' /\ k = Key(worker'[x].evt)
      BY Zenon
    <3>1. PICK x \in DOMAIN worker : Executing(x) /\ k = Key(worker[x].evt)
      BY Zenon, <1>3, <1>5
    <3>2. x # w
      BY Zenon, <3>1, <1>5
    <3>. QED BY Zenon, <3>1, <3>2, <1>2
  <2>2. \A x \in DOMAIN worker : Executing(x)' => Key(worker'[x].evt) \in executing'
    BY Zenon, <1>2, <1>3, <1>4, <1>5
  <2>. QED BY Zenon, <2>1, <2>2, <1>1
<1>7. \A x, v \in DOMAIN worker' :
         Executing(x)' /\ Executing(v)' /\ Key(worker'[x].evt) = Key(worker'[v].evt) => x = v
  BY Zenon, <1>1, <1>2, <1>3
<1>. QED BY Zenon, <1>6, <1>7 DEF GuardExact, Key

\* notify_all of the pause gate wakes threads that have no command in flight.
LEMMA GateNotified ==
    ASSUME PoolTypeOK, GuardExact, NotifyGate, UNCHANGED <<scenario, executing>>
    PROVE  worker' \in [1..scenario.workers -> Fresh \cup Used] /\ GuardExact'
<1>1. worker \in [1..scenario.workers -> Fresh \cup Used] /\ DOMAIN worker = 1..scenario.workers
  BY Zenon DEF PoolTypeOK
<1>2. \A w \in DOMAIN worker :
         worker'[w] = IF worker[w].pc = "asleep" THEN [worker[w] EXCEPT !.pc = "gate"] ELSE worker[w]
  BY Zenon DEF NotifyGate, AtPc
<1>3. \A w \in DOMAIN worker : worker[w].pc = "asleep" =>
         worker'[w] \in Fresh \cup Used /\ worker'[w].pc = "gate"
  <2>. SUFFICES ASSUME NEW w \in DOMAIN worker, worker[w].pc = "asleep"
                PROVE  worker'[w] \in Fresh \cup Used /\ worker'[w].pc = "gate"
    BY Zenon
  <2>1. worker[w] \in Fresh \cup Used /\ "gate" \in Places /\ "gate" \notin InHand
    BY Zenon, <1>1 DEF Places, InHand
  <2>. DEFINE s == [worker[w] EXCEPT !.pc = "gate"]
  <2>2. s \in Fresh \cup Used /\ s.pc = "gate"
    BY Zenon, <2>1, FrameMoves
  <2>3. worker'[w] = s
    BY Zenon, <1>2
  <2>. QED BY Zenon, <2>2, <2>3
<1>4. \A w \in DOMAIN worker : worker'[w] \in Fresh \cup Used
  BY Zenon, <1>1, <1>2, <1>3
<1>5. DOMAIN worker' = DOMAIN worker /\ worker' = [w \in DOMAIN worker |-> worker'[w]]
  BY Zenon DEF NotifyGate
<1>6. \A v \in DOMAIN worker : /\ Executing(v)' <=> Executing(v)
                               /\ Executing(v) => worker'[v].evt = worker[v].evt
  <2>1. \A v \in DOMAIN worker : worker[v].pc = "asleep" => ~Executing(v) /\ ~Executing(v)'
    BY Zenon, <1>3 DEF Executing, AtPc
  <2>2. \A v \in DOMAIN worker : worker[v].pc # "asleep" => worker'[v] = worker[v]
    BY Zenon, <1>2
  <2>. QED BY Zenon, <2>1, <2>2 DEF Executing, AtPc
<1>7. GuardExact'
  BY Zenon, <1>5, <1>6, GuardKept
<1>. QED BY Zenon, <1>1, <1>4, <1>5, <1>7

-----------------------------------------------------------------------------
(* The invariant                                                           *)

\* What holds before the first event.
LEMMA PoolInvInit == PoolInit => PoolInv
<1>. SUFFICES ASSUME PoolInit PROVE PoolInv
  BY Zenon
<1>1. scenario \in Scenario
  BY Zenon, ScenarioAssumption DEF PoolInit, Scenario
<1>2. \A w \in 1..scenario.workers : [pc |-> "loop"] \in Fresh \cup Used
  BY Zenon DEF Fresh, Places, InHand
<1>3. PoolTypeOK
  <2>1. worker \in [1..scenario.workers -> Fresh \cup Used]
    BY Zenon, <1>2 DEF PoolInit
  <2>2. queue \in Queues(Event)
    BY DEF PoolInit, EmptyQueue, Queues
  <2>3. audit \in [queue : Seq(Nat), stopped : BOOLEAN, pc : {"wait", "write", "ended"}]
    BY DEF PoolInit
  <2>. QED BY Zenon, <1>1, <2>1, <2>2, <2>3 DEF PoolInit, PoolTypeOK
<1>4. GuardExact
  <2>1. \A w \in DOMAIN worker : ~Executing(w)
    BY Zenon DEF PoolInit, Executing, AtPc
  <2>. QED BY Zenon, <2>1 DEF PoolInit, GuardExact
<1>5. AuditOwes
  BY Zenon DEF PoolInit, AuditOwes
<1>. QED BY Zenon, <1>3, <1>4, <1>5 DEF PoolInv

\* A step of a worker thread, but for the audit row it may write, is no business of
\* the audit service; it keeps the types and the guard.
LEMMA WorkerStepKeeps ==
    ASSUME PoolTypeOK, GuardExact, NEW w \in DOMAIN worker, WorkerStep(w)
    PROVE  /\ worker' \in [1..scenario.workers -> Fresh \cup Used]
           /\ queue' \in Queues(Event)
           /\ GuardExact'
           /\ UNCHANGED Outside
           /\ UNCHANGED <<tried, owed>>
           /\ \/ UNCHANGED audit
              \/ \E n \in Nat : audit' = [audit EXCEPT !.queue = Append(@, n)]
<1>0. /\ worker[w] \in Fresh \cup Used /\ queue \in Queues(Event)
      /\ worker \in [1..scenario.workers -> Fresh \cup Used] /\ DOMAIN worker = 1..scenario.workers
  BY Zenon DEF PoolTypeOK
<1>1. ASSUME NEW pc \in Places \ InHand, GotoPc(w, pc), ~Executing(w), UNCHANGED executing
      PROVE  worker' \in [1..scenario.workers -> Fresh \cup Used] /\ GuardExact'
  BY Zenon, <1>1, GotoFacts, GuardPassed DEF InHand
<1>2. CASE Loop(w)
  BY Zenon, <1>0, <1>1, <1>2 DEF Loop, Executing, AtPc, Places, InHand, auditVars
<1>3. CASE Gate(w)
  BY Zenon, <1>0, <1>1, <1>3 DEF Gate, Executing, AtPc, Places, InHand, auditVars
<1>4. CASE Doze(w)
  BY Zenon, <1>0, <1>1, <1>4 DEF Doze, Executing, AtPc, Places, InHand, auditVars
<1>5. CASE WaitPop(w)
  <2>1. CASE Size(queue) > 0
    <3>1. /\ worker' = [worker EXCEPT ![w] = [pc |-> "handle", evt |-> First(queue)]]
          /\ queue' = Rest(queue) /\ worker[w].pc = "pop"
      BY Zenon, <1>5, <2>1 DEF WaitPop, AtPc
    <3>2. First(queue) \in Event /\ Rest(queue) \in Queues(Event)
      BY Zenon, <1>0, <2>1, RestFacts
    <3>3. [pc |-> "handle", evt |-> First(queue)] \in Fresh \cup Used
      BY Zenon, <3>2 DEF Used, Places, InHand
    <3>4. worker' \in [1..scenario.workers -> Fresh \cup Used]
      BY Zenon, <1>0, <3>1, <3>3
    <3>5. /\ \A v \in DOMAIN worker : v # w => worker'[v] = worker[v]
          /\ worker'[w].pc = "handle"
      BY Zenon, <1>0, <3>1
    <3>6. \A v \in DOMAIN worker : /\ Executing(v)' <=> Executing(v)
                                   /\ Executing(v) => worker'[v].evt = worker[v].evt
      BY Zenon, <3>1, <3>5 DEF Executing, AtPc
    <3>7. executing' = executing /\ DOMAIN worker' = DOMAIN worker
      BY Zenon, <1>5, <3>1 DEF WaitPop
    <3>8. GuardExact'
      BY Zenon, <3>6, <3>7, GuardKept
    <3>. QED BY Zenon, <1>5, <3>1, <3>2, <3>4, <3>8 DEF WaitPop, auditVars
  <2>2. CASE ~(Size(queue) > 0)
    <3>1. GotoPc(w, "loop") /\ UNCHANGED queue /\ ~Executing(w)
      BY Zenon, <1>5, <2>2 DEF WaitPop, AtPc, Executing
    <3>. QED BY Zenon, <1>0, <1>1, <1>5, <3>1 DEF WaitPop, Places, InHand, auditVars
  <2>. QED BY Zenon, <2>1, <2>2
<1>6. CASE Invalid(w)
  <2>1. GotoPc(w, "answer") /\ worker[w].pc = "handle" /\ ~Executing(w) /\ UNCHANGED executing
    BY Zenon, <1>6 DEF Invalid, AtPc, Executing
  <2>2. worker' \in [1..scenario.workers -> Fresh \cup Used] /\ GuardExact'
    BY Zenon, <2>1, GotoFacts, GuardPassed DEF Places, InHand
  <2>. QED BY Zenon, <1>0, <1>6, <2>2 DEF Invalid, auditVars
<1>7. CASE Duplicate(w)
  BY Zenon, <1>0, <1>1, <1>7 DEF Duplicate, Executing, AtPc, Places, InHand, auditVars
<1>8. CASE Dispatch(w)
  <2>1. worker' \in [1..scenario.workers -> Fresh \cup Used]
    BY Zenon, <1>8, GotoFacts DEF Dispatch, AtPc, Places, InHand
  <2>. QED BY Zenon, <1>0, <1>8, <2>1, GuardTaken DEF Dispatch, auditVars
<1>9. CASE Execute(w)
  <2>1. AtPc(w, "execute") /\ GotoPc(w, "answer") /\ executing' = Unmarked(worker[w].evt)
    BY Zenon, <1>9 DEF Execute
  <2>2. worker' \in [1..scenario.workers -> Fresh \cup Used] /\ GuardExact'
    BY Zenon, <2>1, GotoFacts, GuardReleased DEF AtPc, Places, InHand
  <2>3. worker[w].evt.n \in Nat
    BY Zenon, <2>1, <1>0, HandsHold DEF AtPc, InHand, Event
  <2>. QED BY Zenon, <1>0, <1>9, <2>2, <2>3 DEF Execute
<1>10. CASE Throw(w)
  <2>1. AtPc(w, "execute") /\ GotoPc(w, "loop") /\ executing' = Unmarked(worker[w].evt)
    BY Zenon, <1>10 DEF Throw
  <2>2. worker' \in [1..scenario.workers -> Fresh \cup Used] /\ GuardExact'
    BY Zenon, <2>1, GotoFacts, GuardReleased DEF AtPc, Places, InHand
  <2>. QED BY Zenon, <1>0, <1>10, <2>2 DEF Throw, auditVars
<1>11. CASE Answer(w)
  BY Zenon, <1>0, <1>1, <1>11 DEF Answer, Executing, AtPc, Places, InHand, auditVars
<1>. QED BY Zenon, <1>2, <1>3, <1>4, <1>5, <1>6, <1>7, <1>8, <1>9, <1>10, <1>11 DEF WorkerStep

\* The audit service keeps what it owes while its queue only grows and nobody stops it.
LEMMA AuditKept ==
    ASSUME PoolTypeOK, AuditOwes, UNCHANGED <<control, tried, owed>>,
           \/ UNCHANGED audit
           \/ \E n \in Nat : audit' = [audit EXCEPT !.queue = Append(@, n)]
    PROVE  /\ audit' \in [queue : Seq(Nat), stopped : BOOLEAN, pc : {"wait", "write", "ended"}]
           /\ AuditOwes'
<1>1. CASE UNCHANGED audit
  BY Zenon, <1>1 DEF PoolTypeOK, AuditOwes
<1>2. ASSUME NEW n \in Nat, audit' = [audit EXCEPT !.queue = Append(@, n)]
      PROVE  /\ audit' \in [queue : Seq(Nat), stopped : BOOLEAN, pc : {"wait", "write", "ended"}]
             /\ AuditOwes'
  <2>1. audit \in [queue : Seq(Nat), stopped : BOOLEAN, pc : {"wait", "write", "ended"}]
    BY Zenon DEF PoolTypeOK
  <2>2. Append(audit.queue, n) \in Seq(Nat) /\ Rows(audit.queue) \subseteq Rows(Append(audit.queue, n))
    BY <2>1, AppendRows
  <2>3. /\ audit'.queue = Append(audit.queue, n)
        /\ audit'.stopped = audit.stopped /\ audit'.pc = audit.pc
    BY Zenon, <1>2, <2>1
  <2>4. audit' \in [queue : Seq(Nat), stopped : BOOLEAN, pc : {"wait", "write", "ended"}]
    BY Zenon, <1>2, <2>1, <2>2
  <2>5. AuditOwes'
    BY Zenon, <2>2, <2>3 DEF AuditOwes
  <2>. QED BY Zenon, <2>4, <2>5
<1>. QED BY Zenon, <1>1, <1>2

\* A step of the audit thread: a row that leaves the queue is tried, and the thread ends
\* when nothing is left.
LEMMA AuditorKeeps ==
    ASSUME PoolInv, Auditor
    PROVE  PoolInv'
<1>1. audit \in [queue : Seq(Nat), stopped : BOOLEAN, pc : {"wait", "write", "ended"}]
  BY Zenon DEF PoolInv, PoolTypeOK
<1>2. /\ UNCHANGED <<scenario, pushed, queue, control, worker, executing, owed>>
      /\ \/ audit.pc = "wait" /\ audit.queue = <<>> /\ audit.stopped
            /\ audit' = [audit EXCEPT !.pc = "ended"] /\ tried' = tried
         \/ audit.pc = "wait" /\ audit.queue # <<>>
            /\ audit' = [audit EXCEPT !.pc = "write", !.queue = Tail(@)]
            /\ tried' = tried \cup {Head(audit.queue)}
         \/ audit.pc = "write" /\ audit' = [audit EXCEPT !.pc = "wait"] /\ tried' = tried
  BY Zenon DEF Auditor, AuditPop, AuditWrite, queueVars, poolVars
<1>3. audit' \in [queue : Seq(Nat), stopped : BOOLEAN, pc : {"wait", "write", "ended"}] /\ AuditOwes'
  <2>1. CASE audit.pc = "wait" /\ audit.queue = <<>> /\ audit.stopped
             /\ audit' = [audit EXCEPT !.pc = "ended"] /\ tried' = tried
    <3>1. Rows(audit.queue) = {}
      BY <2>1 DEF Rows
    <3>2. audit'.stopped /\ audit'.queue = audit.queue /\ audit'.pc = "ended"
      BY Zenon, <1>1, <2>1
    <3>3. owed \subseteq tried
      BY Zenon, <3>1 DEF PoolInv, AuditOwes
    <3>. QED BY Zenon, <1>1, <1>2, <2>1, <3>2, <3>3 DEF PoolInv, AuditOwes
  <2>2. CASE audit.pc = "wait" /\ audit.queue # <<>>
             /\ audit' = [audit EXCEPT !.pc = "write", !.queue = Tail(@)]
             /\ tried' = tried \cup {Head(audit.queue)}
    <3>1. Tail(audit.queue) \in Seq(Nat)
          /\ Rows(audit.queue) = Rows(Tail(audit.queue)) \cup {Head(audit.queue)}
      BY Zenon, <1>1, <2>2, TailRows
    <3>2. audit'.stopped = audit.stopped /\ audit'.queue = Tail(audit.queue) /\ audit'.pc = "write"
      BY Zenon, <1>1, <2>2
    <3>3. control \in {"up", "resuming", "audit"}
      BY Zenon, <2>2 DEF PoolInv, AuditOwes
    <3>. QED BY Zenon, <1>1, <1>2, <2>2, <3>1, <3>2, <3>3 DEF PoolInv, AuditOwes
  <2>3. CASE audit.pc = "write" /\ audit' = [audit EXCEPT !.pc = "wait"] /\ tried' = tried
    <3>1. audit'.stopped = audit.stopped /\ audit'.queue = audit.queue /\ audit'.pc = "wait"
      BY Zenon, <1>1, <2>3
    <3>2. control \in {"up", "resuming", "audit"}
      BY Zenon, <2>3 DEF PoolInv, AuditOwes
    <3>. QED BY Zenon, <1>1, <1>2, <2>3, <3>1, <3>2 DEF PoolInv, AuditOwes
  <2>. QED BY Zenon, <1>2, <2>1, <2>2, <2>3
<1>4. GuardExact'
  BY Zenon, <1>2, GuardKept DEF PoolInv, Executing, AtPc
<1>. QED BY Zenon, <1>2, <1>3, <1>4 DEF PoolInv, PoolTypeOK

\* Every step keeps the types, the guard and what the audit service owes.
LEMMA PoolInvNext == PoolInv /\ [PoolNext]_poolSpecVars => PoolInv'
<1>. SUFFICES ASSUME PoolInv, [PoolNext]_poolSpecVars PROVE PoolInv'
  BY Zenon
<1>0. /\ PoolTypeOK /\ GuardExact /\ AuditOwes
      /\ audit \in [queue : Seq(Nat), stopped : BOOLEAN, pc : {"wait", "write", "ended"}]
      /\ scenario \in Scenario
  BY Zenon DEF PoolInv, PoolTypeOK
<1>1. ASSUME UNCHANGED <<worker, executing>>
      PROVE  GuardExact'
  BY Zenon, <1>0, <1>1, GuardKept DEF Executing, AtPc
<1>2. ASSUME UNCHANGED <<control, auditVars>>
      PROVE  AuditOwes'
  BY Zenon, <1>0, <1>2 DEF AuditOwes, auditVars
<1>3. ASSUME NEW c \in Conns, NEW type \in Types, Push(c, type)
      PROVE  PoolInv'
  <2>. DEFINE e == [conn |-> c, type |-> type, n |-> pushed']
  <2>1. pushed' \in Nat /\ e \in Event /\ classify_event(type) \in {"high", "low"} /\ scenario.capacity \in Nat
    BY <1>0, <1>3 DEF Push, PoolTypeOK, Event, classify_event, Scenario
  <2>2. queue' = Offer(queue, e, classify_event(type), scenario.capacity)
    BY Zenon, <1>3 DEF Push
  <2>. HIDE DEF e
  <2>3. queue' \in Queues(Event)
    BY Zenon, <1>0, <2>1, <2>2, OfferFacts DEF PoolTypeOK
  <2>. QED BY Zenon, <1>0, <1>1, <1>2, <1>3, <2>1, <2>3 DEF Push, PoolInv, PoolTypeOK, poolVars, auditVars
<1>4. ASSUME NEW w \in DOMAIN worker, WorkerStep(w)
      PROVE  PoolInv'
  BY Zenon, <1>0, <1>4, WorkerStepKeeps, AuditKept DEF PoolInv, PoolTypeOK, Outside, poolVars
<1>5. CASE Auditor
  BY Zenon, <1>5, AuditorKeeps
<1>6. CASE Pause
  <2>1. scenario' \in Scenario /\ scenario'.workers = scenario.workers
    BY <1>0, <1>6 DEF Pause, Scenario
  <2>. QED BY Zenon, <1>0, <1>1, <1>2, <1>6, <2>1 DEF Pause, PoolInv, PoolTypeOK, queueVars, auditVars
<1>7. CASE Resume
  BY Zenon, <1>0, <1>1, <1>7 DEF Resume, Kept, PoolInv, PoolTypeOK, AuditOwes
<1>8. CASE ResumeNotify
  <2>1. worker' \in [1..scenario.workers -> Fresh \cup Used] /\ GuardExact'
    BY Zenon, <1>0, <1>8, GateNotified DEF ResumeNotify, Kept
  <2>. QED BY Zenon, <1>0, <1>8, <2>1 DEF ResumeNotify, Kept, PoolInv, PoolTypeOK, AuditOwes
<1>9. CASE Stop
  <2>1. /\ audit'.stopped = TRUE /\ audit'.queue = audit.queue /\ audit'.pc = audit.pc
        /\ audit' \in [queue : Seq(Nat), stopped : BOOLEAN, pc : {"wait", "write", "ended"}]
    BY Zenon, <1>0, <1>9 DEF Stop
  <2>2. owed' = Rows(audit.queue) /\ tried' = tried /\ control' = "audit" /\ audit.pc # "ended"
    BY Zenon, <1>0, <1>9 DEF Stop, Rows, Kept, AuditOwes
  <2>3. AuditOwes'
    BY Zenon, <2>1, <2>2 DEF AuditOwes
  <2>. QED BY Zenon, <1>0, <1>1, <1>9, <2>1, <2>3 DEF Stop, Kept, PoolInv, PoolTypeOK
<1>10. CASE Stopping
  <2>1. CASE StopPool
    BY Zenon, <1>0, <1>1, <2>1 DEF StopPool, Kept, PoolInv, PoolTypeOK, AuditOwes
  <2>2. CASE StopQueue
    BY Zenon, <1>0, <1>1, <2>2 DEF StopQueue, Kept, PoolInv, PoolTypeOK, AuditOwes
  <2>3. CASE StopNotify
    <3>1. worker' \in [1..scenario.workers -> Fresh \cup Used] /\ GuardExact'
      BY Zenon, <1>0, <2>3, GateNotified DEF StopNotify, Kept
    <3>. QED BY Zenon, <1>0, <2>3, <3>1 DEF StopNotify, Kept, PoolInv, PoolTypeOK, AuditOwes
  <2>4. CASE Join
    BY Zenon, <1>0, <1>1, <2>4 DEF Join, Kept, PoolInv, PoolTypeOK, AuditOwes
  <2>. QED BY Zenon, <1>10, <2>1, <2>2, <2>3, <2>4 DEF Stopping
<1>11. CASE UNCHANGED poolSpecVars
  BY Zenon, <1>0, <1>1, <1>2, <1>11 DEF poolSpecVars, queueVars, poolVars, auditVars, PoolInv, PoolTypeOK
<1>. QED BY Zenon, <1>3, <1>4, <1>5, <1>6, <1>7, <1>8, <1>9, <1>10, <1>11 DEF PoolNext

\* The invariant holds of every behaviour.
LEMMA PoolAlways == PoolSpec => []PoolInv
BY PoolInvInit, PoolInvNext, PTL DEF PoolSpec

\* executing_commands_ holds exactly the guarded commands in flight, each on one thread,
\* for any number of threads, connections and events: try_mark_executing lets no twin
\* in, and neither the end of a command nor its exception leaves a mark behind.
THEOREM GuardIsExact == PoolSpec => []GuardExact
<1>1. PoolInv => GuardExact
  BY Zenon DEF PoolInv
<1>. QED BY <1>1, PoolAlways, PTL

\* Every audit row logged before AppStack::stop is tried before the pool is stopped,
\* whatever the commands log meanwhile: pop() ends the audit thread only with its
\* queue empty, and stop() joins it before it goes on.
THEOREM RowsTriedBeforeStop == PoolSpec => []AuditedBeforeStop
<1>1. PoolInv => AuditedBeforeStop
  BY Zenon DEF PoolInv, AuditOwes, AuditedBeforeStop
<1>. QED BY <1>1, PoolAlways, PTL

-----------------------------------------------------------------------------
(* What a step does to the high events                                     *)

\* A high event that leaves the queue has gone to a thread.
LEMMA HighEventsKept ==
    ASSUME PoolInv, PoolNext, NEW e \in Rows(queue.high), e \notin Rows(queue.high)'
    PROVE  \E w \in DOMAIN worker' : worker'[w].pc = "handle" /\ worker'[w].evt = e
<1>0. /\ queue \in Queues(Event) /\ scenario \in Scenario /\ pushed \in Nat
      /\ worker \in [1..scenario.workers -> Fresh \cup Used]
  BY Zenon DEF PoolInv, PoolTypeOK
<1>1. queue' # queue
  BY Zenon
<1>2. ~\E c \in Conns, type \in Types : Push(c, type)
  <2>. SUFFICES ASSUME NEW c \in Conns, NEW type \in Types, Push(c, type) PROVE FALSE
    BY Zenon
  <2>. DEFINE x == [conn |-> c, type |-> type, n |-> pushed']
  <2>1. x \in Event /\ classify_event(type) \in {"high", "low"} /\ scenario.capacity \in Nat
    BY <1>0 DEF Push, Event, classify_event, Scenario
  <2>2. queue' = Offer(queue, x, classify_event(type), scenario.capacity)
    BY Zenon DEF Push
  <2>. HIDE DEF x
  <2>. QED BY Zenon, <1>0, <2>1, <2>2, OfferFacts
<1>3. PICK w \in DOMAIN worker : WorkerStep(w)
  BY Zenon, <1>1, <1>2 DEF PoolNext, Auditor, AuditPop, AuditWrite, Pause, Resume, ResumeNotify, Stop,
                    Stopping, StopPool, StopQueue, StopNotify, Join, Kept, queueVars
<1>4. WaitPop(w) /\ Size(queue) > 0
  BY Zenon, <1>1, <1>3 DEF WorkerStep, Loop, Gate, Doze, WaitPop, Invalid, Duplicate, Dispatch, Execute,
                    Throw, Answer
<1>5. /\ worker' = [worker EXCEPT ![w] = [pc |-> "handle", evt |-> First(queue)]]
      /\ queue' = Rest(queue)
  BY Zenon, <1>4 DEF WaitPop
<1>6. Rows(queue.high) \subseteq Rows(Rest(queue).high) \cup {First(queue)}
  BY Zenon, <1>0, <1>4, RestFacts
<1>7. e = First(queue)
  BY Zenon, <1>5, <1>6
<1>8. worker'[w].pc = "handle" /\ worker'[w].evt = e /\ w \in DOMAIN worker'
  BY Zenon, <1>0, <1>5, <1>7
<1>. QED BY Zenon, <1>8

\* A high event that is pushed is queued while there is a place not taken by its kind.
LEMMA HighEventsTaken ==
    ASSUME PoolInv, NEW c \in Conns, NEW type \in Types, Push(c, type),
           classify_event(type) = "high", Len(queue.high) < scenario.capacity
    PROVE  [conn |-> c, type |-> type, n |-> pushed'] \in Rows(queue.high)'
<1>. DEFINE x == [conn |-> c, type |-> type, n |-> pushed']
<1>1. x \in Event /\ scenario.capacity \in Nat /\ queue \in Queues(Event)
  BY DEF Push, Event, Scenario, PoolInv, PoolTypeOK
<1>2. queue' = Offer(queue, x, "high", scenario.capacity)
  BY Zenon DEF Push
<1>. HIDE DEF x
<1>3. x \in Rows(queue'.high)
  BY Zenon, <1>1, <1>2, OfferFacts
<1>. QED BY Zenon, <1>3 DEF x

\* "High-priority events ... must not be dropped", at any capacity: a queued one leaves
\* the queue only for a thread, and a pushed one is refused only by a queue full of
\* its kind.
THEOREM HintsAlwaysGiveWay == PoolSpec => HintsGiveWay
<1>. DEFINE Gone == \A e \in InLane("high") \ InLane("high")' :
                       \E w \in DOMAIN worker' : worker'[w].pc = "handle" /\ worker'[w].evt = e
            In == \A c \in Conns, type \in Types :
                     Push(c, type) /\ classify_event(type) = "high" /\ Len(queue.high) < scenario.capacity
                        => [conn |-> c, type |-> type, n |-> pushed'] \in InLane("high")'
<1>1. PoolInv /\ [PoolNext]_poolSpecVars => [Gone /\ In]_poolSpecVars
  <2>. SUFFICES ASSUME PoolInv, PoolNext PROVE Gone /\ In
    BY Zenon
  <2>1. InLane("high") = Rows(queue.high) /\ InLane("high")' = Rows(queue.high)'
    BY Zenon DEF InLane, Rows
  <2>2. Gone
    BY Zenon, <2>1, HighEventsKept
  <2>3. In
    BY Zenon, <2>1, HighEventsTaken
  <2>. QED BY Zenon, <2>2, <2>3
<1>. QED BY <1>1, PoolAlways, PTL DEF PoolSpec, HintsGiveWay

-----------------------------------------------------------------------------
(* The key of a voice channel.                                            *)

IsRecord(r, fields) == DOMAIN r = fields /\ r = [x \in fields |-> r[x]]

Keys        == [number : Nat, index : Nat]
FrameFields == {"at", "op", "user", "key", "empty", "then", "listed"}

-----------------------------------------------------------------------------
(* What a thread holds at each of its steps.                               *)

Loaded  == {"load_index", "touch_key", "touch_index", "adopt"}
Loading == Loaded \cup {"load_key", "no_key"}
Saving  == {"set_key", "set_index"}

Keyed   == Saving \cup Loaded \cup {"announce", "issue"}

\* The rotation mutex protects the live key until it is announced.
Announcing(f) == f.at = "announce" \/ (f.at \in Saving /\ f.then = "announce")

\* Steps that serve one kind of call only.
Serves(f) ==
    \/ f.op = "join" /\ f.at \in {"current", "reuse", "sweep", "create", "rotate", "issue", "announce"}
                                    \cup Loading \cup Saving
    \/ f.op = "left" /\ f.at \in {"rotate", "clear", "del_key", "del_index", "forget", "announce"} \cup Saving
    \/ f.op \in {"joined", "resume"} /\ f.at \in {"resync", "resend"}
    \/ f.op = "restore" /\ f.at \in Loading \cup Saving \cup {"register"}

Continues(f) ==
    f.at \in Saving => \/ f.op = "join" /\ f.then \in {"issue", "announce"}
                       \/ f.op = "left" /\ f.then = "announce"
                       \/ f.op = "restore" /\ f.then = "register"

FrameOK(f, t, holder, key, top) ==
    /\ IsRecord(f, FrameFields) /\ t \in config.threads
    /\ Serves(f) /\ Continues(f)
    /\ IF f.op = "restore" THEN f.listed \subseteq Users ELSE f.user \in Users
    /\ f.op = "join" /\ f.at \in Loading => holder = t
    /\ Announcing(f) => holder = t /\ f.key = key
    /\ f.at \in Keyed => f.key \in Keys /\ f.key.number <= top

Restores(t) == thread[t] # Idle /\ thread[t].op = "restore"

\* The recovery after a restart runs alone, before anybody is connected.
Alone(t) ==
    /\ online = {} /\ lock = NoThread /\ crashes # config.crashes
    /\ \A x \in Threads \ {t} : thread[x] = Idle

ThreadsOK ==
    /\ thread = [t \in Threads |-> thread[t]] /\ config \in Configs
    /\ \A t \in Threads : thread[t] = Idle \/ FrameOK(thread[t], t, lock, live, drawn)
    /\ \A t \in Threads : Restores(t) => Alone(t)

-----------------------------------------------------------------------------
(* The numbers of keys.                                                    *)

\* A client holds a key it was sent.
Sent(key, ns) == key = NoKey \/ (key \in Keys /\ key.number \in ns)

KeysOK ==
    /\ drawn \in Nat
    /\ live = NoKey \/ (live \in Keys /\ live.number <= drawn)
    /\ storedKey # NoKey => storedKey.number \in Nat /\ storedKey.number <= drawn
    /\ storedIndex = NoKey \/ storedIndex \in Nat
    /\ room \subseteq Users /\ tracked \subseteq Users /\ gone \subseteq Users
    /\ DOMAIN token = Users /\ DOMAIN held = Users /\ DOMAIN known = Users
    /\ \A u \in Users : /\ known[u] \subseteq 0..drawn
                        /\ Sent(token[u], known[u]) /\ Sent(held[u], known[u])
                        /\ u \in room => held[u] # NoKey

-----------------------------------------------------------------------------
(* Members converge to the live key.                                       *)

Awaits(u) == \E t \in Threads : \/ Announcing(thread[t])
                                \/ thread[t].at \in {"resync", "resend"} /\ thread[t].user = u

Converging ==
    live # NoKey =>
        \A u \in (tracked \cap room \cap online) \ (arriving \cup missed) : held[u] = live \/ Awaits(u)

-----------------------------------------------------------------------------
(* Storage, with calls one at a time and Redis working.                    *)

Expires == "ttl" \in config.faults

BlobOf(key) == storedKey = Seal(master, key.number) \/ (Expires /\ storedKey = NoKey)
SlotOf(key) == storedIndex = key.index \/ (Expires /\ storedIndex = NoKey)

Saved   == live # NoKey /\ master # NoMaster => BlobOf(live) /\ SlotOf(live)
Cleared == live = NoKey /\ NeverRestarted => storedKey = NoKey /\ storedIndex = NoKey

\* No client was ever sent a key after the n-th.
Newest(n) == \A u \in Users : \A k \in known[u] : k <= n

StepOK(f) ==
    /\ f.at \notin Saving => Saved
    /\ f.at \notin {"del_key", "del_index"} => Cleared
    /\ f.at \in Saving \cup {"announce", "issue"} => live # NoKey /\ f.key = live
    /\ f.at \in Saving => master # NoMaster
    /\ f.at = "set_index" => BlobOf(live)
    /\ f.at \in Loading \cup {"del_key", "del_index"} => live = NoKey
    /\ f.at = "del_index" => storedKey = NoKey
    /\ f.at \in Loaded => ~NeverRestarted /\ master # NoMaster /\ Newest(f.key.number)

\* The master key is the one configured for the process.
MasterOK ==
    /\ crashes \in Nat /\ crashes <= config.crashes
    /\ master = IF NeverRestarted THEN config.master[1] ELSE config.master[2]

Serial == OneThread /\ Without({"redis"})

\* No client is ahead of the live key, nor of one that can be restored, and the first
\* process finds nothing in storage that it did not seal.
LatestOK ==
    /\ live # NoKey => Newest(live.number)
    /\ CanUnseal(master, storedKey) => Newest(storedKey.number)
    /\ NeverRestarted /\ storedKey # NoKey => storedKey.master = master /\ master # NoMaster
    /\ NeverRestarted /\ storedIndex # NoKey => master # NoMaster

StorageOK == Serial => LatestOK /\ \A t \in config.threads : StepOK(thread[t])

-----------------------------------------------------------------------------
(* Those who left, with calls one at a time and neither Redis nor the      *)
(* random source failing.                                                  *)

\* The departure of u has not changed the key yet.
Owes(f, u) == f.op = "left" /\ f.at \in {"rotate", "clear"} /\ f.user = u

DeparturesOK ==
    Serial /\ Without({"random"}) /\ NeverRestarted =>
        /\ gone \cap tracked = {}
        /\ \A t \in config.threads :
              /\ thread[t] # Idle /\ thread[t].op = "join" => thread[t].user \notin gone
              /\ \A u \in gone : live # NoKey => live.number \notin known[u] \/ Owes(thread[t], u)

KeysInv == ThreadsOK /\ KeysOK /\ Converging /\ MasterOK /\ StorageOK /\ DeparturesOK

-----------------------------------------------------------------------------
(* Frames.                                                                 *)

WithAt(f, a)         == [f EXCEPT !.at = a]
WithKey(f, a, k)     == [f EXCEPT !.at = a, !.key = k]
WithSave(f, a, k, n) == [f EXCEPT !.at = a, !.key = k, !.then = n]
WithEmpty(f, a, e)   == [f EXCEPT !.at = a, !.empty = e]
WithIndex(f, a, i)   == [f EXCEPT !.at = a, !.key.index = i]
WithListed(f, us)    == [f EXCEPT !.listed = us]

Becomes(g, f, a, k, n) ==
    /\ IsRecord(g, FrameFields) /\ g.at = a /\ g.key = k /\ g.then = n
    /\ g.op = f.op /\ g.user = f.user /\ g.listed = f.listed

\* The updates of a frame leave the call it serves as it is.
LEMMA FrameUpdates ==
    ASSUME NEW f, IsRecord(f, FrameFields), NEW a, NEW k, NEW n, NEW e
    PROVE  /\ Becomes(WithAt(f, a), f, a, f.key, f.then)
           /\ Becomes(WithKey(f, a, k), f, a, k, f.then)
           /\ Becomes(WithSave(f, a, k, n), f, a, k, n)
           /\ Becomes(WithEmpty(f, a, e), f, a, f.key, f.then)
<1>1. Becomes(WithAt(f, a), f, a, f.key, f.then)
  BY Zenon DEF Becomes, IsRecord, FrameFields, WithAt
<1>2. Becomes(WithKey(f, a, k), f, a, k, f.then)
  BY Zenon DEF Becomes, IsRecord, FrameFields, WithKey
<1>3. Becomes(WithSave(f, a, k, n), f, a, k, n)
  BY Zenon DEF Becomes, IsRecord, FrameFields, WithSave
<1>4. Becomes(WithEmpty(f, a, e), f, a, f.key, f.then)
  BY Zenon DEF Becomes, IsRecord, FrameFields, WithEmpty
<1>. QED BY Zenon, <1>1, <1>2, <1>3, <1>4

\* An update of the index leaves the number of the key as it is.
LEMMA IndexUpdate ==
    ASSUME NEW f, IsRecord(f, FrameFields), f.key \in Keys, NEW a, NEW i \in Nat
    PROVE  \E k \in Keys : k.number = f.key.number /\ Becomes(WithIndex(f, a, i), f, a, k, f.then)
<1>. DEFINE k == [f.key EXCEPT !.index = i]
<1>1. k \in Keys /\ k.number = f.key.number
  BY Zenon DEF Keys
<1>2. Becomes(WithIndex(f, a, i), f, a, k, f.then)
  BY Zenon DEF Becomes, IsRecord, FrameFields, WithIndex
<1>. QED BY Zenon, <1>1, <1>2

\* A call begins.
LEMMA NewFrame ==
    ASSUME NEW a, NEW o, NEW u, NEW us
    PROVE  /\ IsRecord(Frame(a, o, u), FrameFields)
           /\ Frame(a, o, u).at = a /\ Frame(a, o, u).op = o /\ Frame(a, o, u).user = u
           /\ IsRecord(WithListed(Frame(a, o, u), us), FrameFields)
           /\ WithListed(Frame(a, o, u), us).at = a /\ WithListed(Frame(a, o, u), us).op = o
           /\ WithListed(Frame(a, o, u), us).listed = us
<1>1. /\ IsRecord(Frame(a, o, u), FrameFields)
      /\ Frame(a, o, u).at = a /\ Frame(a, o, u).op = o /\ Frame(a, o, u).user = u
  BY Zenon DEF IsRecord, FrameFields, Frame
<1>2. ASSUME NEW f, IsRecord(f, FrameFields)
      PROVE  /\ IsRecord(WithListed(f, us), FrameFields) /\ WithListed(f, us).at = f.at
             /\ WithListed(f, us).op = f.op /\ WithListed(f, us).listed = us
  BY Zenon, <1>2 DEF IsRecord, FrameFields, WithListed
<1>. QED BY Zenon, <1>1, <1>2

\* A frame is never the idle one, and an idle thread is at no step.
LEMMA IdleFacts ==
    /\ Idle.at = "idle" /\ ~IsRecord(Idle, FrameFields) /\ ~Announcing(Idle)
    /\ \A f : Serves(f) => f.at # "idle"
<1>1. Idle.at = "idle" /\ ~IsRecord(Idle, FrameFields)
  BY DEF Idle, IsRecord, FrameFields
<1>2. ~Announcing(Idle)
  BY Zenon, <1>1 DEF Announcing, Saving
<1>3. \A f : Serves(f) => f.at # "idle"
  BY Zenon DEF Serves, Saving, Loading, Loaded
<1>. QED BY Zenon, <1>1, <1>2, <1>3

\* The other threads keep what they hold while t changes the lock or the key.
LEMMA ThreadsKeep ==
    ASSUME ThreadsOK, NEW t \in Threads, NEW g, thread' = [thread EXCEPT ![t] = g],
           config' = config, crashes' = crashes, drawn \in Nat, drawn' \in Nat, drawn <= drawn',
           g = Idle \/ FrameOK(g, t, lock', live', drawn'),
           lock' = lock \/ lock \in {NoThread, t},
           live' = live \/ lock \in {NoThread, t},
           g # Idle /\ g.op = "restore" => Restores(t) /\ online' = online /\ lock' = lock,
           thread[t] # Idle \/ Up
    PROVE  /\ ThreadsOK' /\ thread'[t] = g
           /\ \A x \in Threads \ {t} : thread'[x] = thread[x]
<1>1. /\ thread' = [x \in Threads |-> thread'[x]] /\ thread'[t] = g
      /\ \A x \in Threads \ {t} : thread'[x] = thread[x]
  BY Zenon DEF ThreadsOK
<1>2. ASSUME NEW x \in Threads \ {t}, thread[x] # Idle
      PROVE  FrameOK(thread[x], x, lock', live', drawn')
  <2>1. FrameOK(thread[x], x, lock, live, drawn) /\ lock \in {NoThread, t} => lock # x
    BY Zenon, <1>2, NoneAssumption DEF ThreadsOK
  <2>2. thread[x].at \in Keyed => thread[x].key \in Keys /\ thread[x].key.number <= drawn'
    <3>1. thread[x].at \in Keyed => thread[x].key \in Keys /\ thread[x].key.number <= drawn
      BY Zenon, <1>2, <2>1 DEF FrameOK, ThreadsOK
    <3>. QED BY <3>1 DEF Keys
  <2>. QED BY Zenon, <1>2, <2>1, <2>2 DEF FrameOK, ThreadsOK
<1>3. \A x \in Threads : thread'[x] = Idle \/ FrameOK(thread'[x], x, lock', live', drawn')
  BY Zenon, <1>1, <1>2
<1>4. ASSUME NEW x \in Threads, Restores(x)' PROVE Alone(x)'
  <2>1. CASE x = t
    <3>1. Restores(t) /\ online' = online /\ lock' = lock
      BY Zenon, <1>1, <1>4, <2>1 DEF Restores
    <3>. QED BY Zenon, <1>1, <2>1, <3>1 DEF ThreadsOK, Alone
  <2>2. CASE x # t
    <3>1. Restores(x)
      BY Zenon, <1>1, <1>4, <2>2 DEF Restores
    <3>2. thread[t] = Idle
      BY Zenon, <2>2, <3>1 DEF ThreadsOK, Alone
    <3>. QED BY Zenon, <3>1, <3>2 DEF Restores, Up
  <2>. QED BY Zenon, <2>1, <2>2
<1>5. \A x \in Threads : thread'[x] = Idle \/ FrameOK(thread[x], x, lock, live, drawn)'
  BY Zenon, <1>3 DEF FrameOK
<1>. QED BY Zenon, <1>1, <1>4, <1>5 DEF ThreadsOK

-----------------------------------------------------------------------------
(* What is left to show of a step.                                         *)

\* A thread at a step holds a frame that fits the step.
LEMMA Active ==
    ASSUME ThreadsOK, NEW t \in Threads, thread[t].at # "idle"
    PROVE  /\ thread[t] # Idle /\ FrameOK(thread[t], t, lock, live, drawn)
           /\ IsRecord(thread[t], FrameFields) /\ t \in config.threads
BY Zenon, IdleFacts DEF ThreadsOK, FrameOK

\* The numbers stay in order while no key moves.
LEMMA NumbersKeep ==
    ASSUME KeysOK, UNCHANGED <<drawn, live, storedKey, storedIndex, room, tracked, gone, token, held, known>>
    PROVE  KeysOK'
BY Zenon DEF KeysOK

\* So does the master key while the process lives.
LEMMA MasterKeeps ==
    ASSUME MasterOK, UNCHANGED <<crashes, config, master>>
    PROVE  MasterOK'
BY Zenon DEF MasterOK, NeverRestarted

Going(f, g) ==
    /\ Announcing(f) => Announcing(g)
    /\ f.at \in {"resync", "resend"} => g.at \in {"resync", "resend"} /\ g.user = f.user

\* Who waits for a key keeps waiting while the thread concerned goes on.
LEMMA AwaitsKeep ==
    ASSUME NEW t \in Threads, \A x \in Threads \ {t} : thread'[x] = thread[x],
           Going(thread[t], thread'[t]), NEW u, Awaits(u)
    PROVE  Awaits(u)'
<1>1. PICK x \in Threads : \/ Announcing(thread[x])
                           \/ thread[x].at \in {"resync", "resend"} /\ thread[x].user = u
  BY Zenon DEF Awaits
<1>2. \/ Announcing(thread'[x])
      \/ thread'[x].at \in {"resync", "resend"} /\ thread'[x].user = u
  BY Zenon, <1>1 DEF Going
<1>. QED BY Zenon, <1>2 DEF Awaits, Announcing

\* Members converge as before while they and the key stay.
LEMMA ConvergingKeeps ==
    ASSUME Converging, NEW t \in Threads, \A x \in Threads \ {t} : thread'[x] = thread[x],
           Going(thread[t], thread'[t]),
           UNCHANGED <<live, tracked, room, online, arriving, missed, held>>
    PROVE  Converging'
BY Zenon, AwaitsKeep DEF Converging

\* With one thread, its own step is all there is to see to.
LEMMA StorageKeeps ==
    ASSUME StorageOK, NEW t \in config.threads, config' = config,
           Serial /\ StepOK(thread[t]) /\ LatestOK => StepOK(thread[t])' /\ LatestOK'
    PROVE  StorageOK'
<1>. SUFFICES ASSUME Serial'
              PROVE  LatestOK' /\ \A x \in config.threads : StepOK(thread[x])'
  BY Zenon DEF StorageOK
<1>1. Serial
  BY Zenon DEF Serial, OneThread, Without
<1>2. \A x \in config.threads : x = t
  BY Zenon, <1>1 DEF Serial, OneThread
<1>. QED BY Zenon, <1>1, <1>2 DEF StorageOK

\* A thread that serves f goes on for the same user, with the same debt.
Follows(f, g) ==
    /\ g # Idle /\ g.op = "join" => f # Idle /\ f.op = "join" /\ g.user = f.user
    /\ \A u : Owes(f, u) => Owes(g, u)

\* Nobody who left learns anything while no key is sent.
LEMMA DeparturesKeep ==
    ASSUME DeparturesOK, NEW t \in config.threads,
           UNCHANGED <<live, tracked, gone, known, crashes, config>>,
           Follows(thread[t], thread'[t])
    PROVE  DeparturesOK'
<1>. SUFFICES ASSUME (Serial /\ Without({"random"}) /\ NeverRestarted)'
              PROVE  /\ gone' \cap tracked' = {}
                     /\ \A x \in config.threads :
                          /\ thread'[x] # Idle /\ thread'[x].op = "join" => thread'[x].user \notin gone
                          /\ \A u \in gone : live # NoKey => live.number \notin known[u] \/ Owes(thread'[x], u)
  BY Zenon DEF DeparturesOK, Owes
<1>1. Serial /\ Without({"random"}) /\ NeverRestarted
  BY Zenon DEF Serial, OneThread, Without, NeverRestarted
<1>2. \A x \in config.threads : x = t
  BY Zenon, <1>1 DEF Serial, OneThread
<1>. QED BY Zenon, <1>1, <1>2 DEF DeparturesOK, Follows

\* A step that changes storage, what its thread holds, and the mutex.
LEMMA WriteKeeps ==
    ASSUME KeysInv, NEW t \in Threads, thread[t] # Idle,
           NEW g, thread' = [thread EXCEPT ![t] = g],
           UNCHANGED <<keys, tracked, master, clients, livekit, config, crashes>>,
           lock' = lock \/ lock \in {NoThread, t},
           g = Idle \/ (FrameOK(g, t, lock', live, drawn) /\ g.op = thread[t].op),
           g # Idle /\ g.op = "restore" => lock' = lock,
           Going(thread[t], g) \/ Converging', Follows(thread[t], g) \/ DeparturesOK',
           storedKey' # NoKey => storedKey'.number \in Nat /\ storedKey'.number <= drawn,
           storedIndex' = NoKey \/ storedIndex' \in Nat,
           thread'[t] = g /\ Serial /\ StepOK(thread[t]) /\ LatestOK => StepOK(thread[t])' /\ LatestOK'
    PROVE  KeysInv'
<1>1. /\ UNCHANGED <<live, drawn, tracked, master, online, token, gone,
                     held, known, missed, room, arriving, config, crashes>>
      /\ t \in config.threads
  <2>1. t \in config.threads
    BY Zenon DEF KeysInv, ThreadsOK, FrameOK
  <2>. QED BY Zenon, <2>1 DEF keys, clients, sent, livekit
<1>2. /\ drawn \in Nat /\ drawn <= drawn
      /\ g # Idle /\ g.op = "restore" => Restores(t)
  <2>1. drawn \in Nat
    BY Zenon DEF KeysInv, KeysOK
  <2>2. drawn <= drawn
    BY <2>1
  <2>. QED BY Zenon, <2>1, <2>2 DEF Restores
<1>3. ThreadsOK' /\ thread'[t] = g /\ \A x \in Threads \ {t} : thread'[x] = thread[x]
  <2>1. ThreadsOK
    BY Zenon DEF KeysInv
  <2>2. g = Idle \/ FrameOK(g, t, lock', live', drawn')
    BY Zenon, <1>1
  <2>3. /\ live' = live /\ drawn' = drawn /\ online' = online /\ config' = config /\ crashes' = crashes
        /\ lock' = lock \/ lock \in {NoThread, t}
    BY Zenon, <1>1
  <2>. QED BY Zenon, <1>2, <2>1, <2>2, <2>3, ThreadsKeep
<1>4. KeysOK' /\ MasterOK'
  <2>1. MasterOK'
    BY Zenon, <1>1, MasterKeeps DEF KeysInv
  <2>. QED BY Zenon, <1>1, <2>1 DEF KeysInv, KeysOK
<1>5. Converging'
  BY Zenon, <1>1, <1>3, ConvergingKeeps DEF KeysInv
<1>6. StorageOK'
  BY Zenon, <1>1, <1>3, StorageKeeps DEF KeysInv
<1>7. DeparturesOK'
  BY Zenon, <1>1, <1>3, DeparturesKeep DEF KeysInv
<1>. QED BY Zenon, <1>3, <1>4, <1>5, <1>6, <1>7 DEF KeysInv

\* A step that changes nothing but what its thread holds.
LEMMA MoveKeeps ==
    ASSUME KeysInv, NEW t \in Threads, thread[t] # Idle,
           NEW g, thread' = [thread EXCEPT ![t] = g],
           UNCHANGED <<keys, stored, lock, tracked, master, clients, livekit, config, crashes>>,
           g = Idle \/ (FrameOK(g, t, lock, live, drawn) /\ g.op = thread[t].op),
           Going(thread[t], g) \/ Converging', Follows(thread[t], g) \/ DeparturesOK',
           Serial /\ StepOK(thread[t]) /\ LatestOK => StepOK(g)
    PROVE  KeysInv'
<1>1. UNCHANGED <<storedKey, storedIndex, lock, live, known>>
  BY Zenon DEF keys, stored, clients, sent
<1>2. /\ storedIndex' = NoKey \/ storedIndex' \in Nat
      /\ storedKey' # NoKey => storedKey'.number \in Nat /\ storedKey'.number <= drawn
  BY Zenon, <1>1 DEF KeysInv, KeysOK
<1>3. ASSUME thread'[t] = g, StepOK(g) PROVE StepOK(thread[t])'
  BY Zenon, <1>1, <1>3 DEF StepOK, Saved, Cleared, BlobOf, SlotOf, Expires, Newest, NeverRestarted
<1>4. LatestOK => LatestOK'
  BY Zenon, <1>1 DEF LatestOK, Newest, NeverRestarted
<1>. QED BY Zenon, <1>1, <1>2, <1>3, <1>4, WriteKeeps

-----------------------------------------------------------------------------
(* The steps that read.                                                    *)

\* load_from_storage reads the blob.
LEMMA LoadKeyKeeps ==
    ASSUME KeysInv, NEW t \in Threads, LoadKey(t)
    PROVE  KeysInv'
<1>. DEFINE f == thread[t]
            k == [number |-> storedKey.number, index |-> 0]
<1>1. /\ f.at = "load_key" /\ f # Idle /\ FrameOK(f, t, lock, live, drawn) /\ IsRecord(f, FrameFields)
      /\ UNCHANGED <<keys, stored, lock, tracked, master, clients, livekit, config, crashes>>
  <2>1. f.at = "load_key" /\ UNCHANGED <<keys, stored, lock, tracked, master, clients, livekit, config, crashes>>
    BY Zenon DEF LoadKey, At, rest, input
  <2>. QED BY Zenon, <2>1, Active DEF KeysInv
<1>2. CASE CanUnseal(master, storedKey) /\ thread' = [thread EXCEPT ![t] = WithKey(f, "load_index", k)]
  <2>. DEFINE g == WithKey(f, "load_index", k)
  <2>1. Becomes(g, f, "load_index", k, f.then)
    BY Zenon, <1>1, FrameUpdates
  <2>2. k \in Keys /\ k.number = storedKey.number /\ k.number <= drawn
    BY Zenon, <1>2 DEF KeysInv, KeysOK, Keys, CanUnseal
  <2>. HIDE DEF g, k
  <2>3. FrameOK(g, t, lock, live, drawn) /\ g.op = f.op
    BY Zenon, <1>1, <2>1, <2>2 DEF FrameOK, Becomes, Serves, Continues, Announcing, Keyed, Loading, Loaded, Saving
  <2>4. Going(f, g) /\ Follows(f, g)
    BY Zenon, <1>1, <2>1 DEF Going, Follows, Becomes, Announcing, Saving, Owes
  <2>5. ASSUME StepOK(f), LatestOK PROVE StepOK(g)
    <3>1. Saved /\ Cleared /\ live = NoKey /\ master # NoMaster /\ ~NeverRestarted /\ Newest(k.number)
      BY Zenon, <1>1, <1>2, <2>2, <2>5 DEF StepOK, Loading, Saving, CanUnseal, Cleared, LatestOK
    <3>. QED BY Zenon, <2>1, <3>1 DEF StepOK, Becomes, Loading, Loaded, Saving
  <2>. QED BY Zenon, <1>1, <1>2, <2>3, <2>4, <2>5, MoveKeeps DEF g
<1>3. CASE thread' = [thread EXCEPT ![t] = WithAt(f, "no_key")]
  <2>. DEFINE g == WithAt(f, "no_key")
  <2>1. Becomes(g, f, "no_key", f.key, f.then)
    BY Zenon, <1>1, FrameUpdates
  <2>. HIDE DEF g
  <2>2. FrameOK(g, t, lock, live, drawn) /\ g.op = f.op
    BY Zenon, <1>1, <2>1 DEF FrameOK, Becomes, Serves, Continues, Announcing, Keyed, Loading, Loaded, Saving
  <2>3. Going(f, g) /\ Follows(f, g)
    BY Zenon, <1>1, <2>1 DEF Going, Follows, Becomes, Announcing, Saving, Owes
  <2>4. ASSUME StepOK(f), LatestOK PROVE StepOK(g)
    BY Zenon, <1>1, <2>1, <2>4 DEF StepOK, Becomes, Loading, Loaded, Saving
  <2>. QED BY Zenon, <1>1, <1>3, <2>2, <2>3, <2>4, MoveKeeps DEF g
<1>. QED BY Zenon, <1>2, <1>3 DEF LoadKey, Proceed, Goto, WithAt, WithKey

\* load_from_storage reads the index.
LEMMA LoadIndexKeeps ==
    ASSUME KeysInv, NEW t \in Threads, LoadIndex(t)
    PROVE  KeysInv'
<1>. DEFINE f == thread[t]
            i == IF storedIndex = NoKey THEN 0 ELSE storedIndex % KeyringSize
<1>1. /\ f.at = "load_index" /\ f # Idle /\ FrameOK(f, t, lock, live, drawn) /\ IsRecord(f, FrameFields)
      /\ UNCHANGED <<keys, stored, lock, tracked, master, clients, livekit, config, crashes>>
  <2>1. f.at = "load_index" /\ UNCHANGED <<keys, stored, lock, tracked, master, clients, livekit, config, crashes>>
    BY Zenon DEF LoadIndex, At, rest, input
  <2>. QED BY Zenon, <2>1, Active DEF KeysInv
<1>2. f.key \in Keys /\ f.key.number <= drawn
  BY Zenon, <1>1 DEF FrameOK, Keyed, Loaded
<1>3. i \in Nat
  BY KeyringAssumption DEF KeysInv, KeysOK
<1>4. \E k \in Keys : /\ k.number = f.key.number
                      /\ \/ Becomes(WithIndex(f, "touch_key", i), f, "touch_key", k, f.then)
                            /\ thread' = [thread EXCEPT ![t] = WithIndex(f, "touch_key", i)]
                         \/ Becomes(WithAt(f, "touch_key"), f, "touch_key", k, f.then)
                            /\ thread' = [thread EXCEPT ![t] = WithAt(f, "touch_key")]
  <2>1. CASE thread' = [thread EXCEPT ![t] = WithIndex(f, "touch_key", i)]
    <3>. HIDE DEF i
    <3>. QED BY Zenon, <1>1, <1>2, <1>3, <2>1, IndexUpdate
  <2>2. CASE thread' = [thread EXCEPT ![t] = WithAt(f, "touch_key")]
    BY Zenon, <1>1, <1>2, <2>2, FrameUpdates
  <2>. QED BY Zenon, <2>1, <2>2 DEF LoadIndex, Proceed, Goto, WithAt, WithIndex
<1>. HIDE DEF i
<1>5. PICK g : /\ \E k \in Keys : k.number = f.key.number /\ Becomes(g, f, "touch_key", k, f.then)
               /\ thread' = [thread EXCEPT ![t] = g]
  BY Zenon, <1>4
<1>6. FrameOK(g, t, lock, live, drawn) /\ g.op = f.op
  BY Zenon, <1>1, <1>2, <1>5 DEF FrameOK, Becomes, Serves, Continues, Announcing, Keyed, Loading, Loaded, Saving
<1>7. Going(f, g) /\ Follows(f, g)
  BY Zenon, <1>1, <1>5 DEF Going, Follows, Becomes, Announcing, Saving, Owes
<1>8. ASSUME StepOK(f), LatestOK PROVE StepOK(g)
  BY Zenon, <1>1, <1>5, <1>8 DEF StepOK, Becomes, Loading, Loaded, Saving
<1>. QED BY Zenon, <1>1, <1>5, <1>6, <1>7, <1>8, MoveKeeps

\* The debounced join takes the live key.
LEMMA ReuseKeyKeeps ==
    ASSUME KeysInv, NEW t \in Threads, ReuseKey(t)
    PROVE  KeysInv'
<1>. DEFINE f == thread[t]
<1>1. /\ f.at = "reuse" /\ f # Idle /\ FrameOK(f, t, lock, live, drawn) /\ IsRecord(f, FrameFields)
      /\ UNCHANGED <<keys, stored, lock, tracked, master, clients, livekit, config, crashes>>
  <2>1. f.at = "reuse" /\ UNCHANGED <<keys, stored, lock, tracked, master, clients, livekit, config, crashes>>
    BY Zenon DEF ReuseKey, At, rest, input
  <2>. QED BY Zenon, <2>1, Active DEF KeysInv
<1>2. CASE thread' = [thread EXCEPT ![t] = WithAt(f, "rotate")]
  <2>. DEFINE g == WithAt(f, "rotate")
  <2>1. Becomes(g, f, "rotate", f.key, f.then)
    BY Zenon, <1>1, FrameUpdates
  <2>. HIDE DEF g
  <2>2. FrameOK(g, t, lock, live, drawn) /\ g.op = f.op
    BY Zenon, <1>1, <2>1 DEF FrameOK, Becomes, Serves, Continues, Announcing, Keyed, Loading, Loaded, Saving
  <2>3. Going(f, g) /\ Follows(f, g)
    BY Zenon, <1>1, <2>1 DEF Going, Follows, Becomes, Announcing, Saving, Owes
  <2>4. ASSUME StepOK(f), LatestOK PROVE StepOK(g)
    BY Zenon, <1>1, <2>1, <2>4 DEF StepOK, Becomes, Loading, Loaded, Saving
  <2>. QED BY Zenon, <1>1, <1>2, <2>2, <2>3, <2>4, MoveKeeps DEF g
<1>3. CASE live # NoKey /\ thread' = [thread EXCEPT ![t] = WithKey(f, "issue", live)]
  <2>. DEFINE g == WithKey(f, "issue", live)
  <2>1. Becomes(g, f, "issue", live, f.then) /\ live \in Keys /\ live.number <= drawn
    BY Zenon, <1>1, <1>3, FrameUpdates DEF KeysInv, KeysOK
  <2>. HIDE DEF g
  <2>2. FrameOK(g, t, lock, live, drawn) /\ g.op = f.op
    BY Zenon, <1>1, <2>1 DEF FrameOK, Becomes, Serves, Continues, Announcing, Keyed, Loading, Loaded, Saving
  <2>3. Going(f, g) /\ Follows(f, g)
    BY Zenon, <1>1, <2>1 DEF Going, Follows, Becomes, Announcing, Saving, Owes
  <2>4. ASSUME StepOK(f), LatestOK PROVE StepOK(g)
    BY Zenon, <1>1, <1>3, <2>1, <2>4 DEF StepOK, Becomes, Loading, Loaded, Saving
  <2>. QED BY Zenon, <1>1, <1>3, <2>2, <2>3, <2>4, MoveKeeps DEF g
<1>. QED BY Zenon, <1>2, <1>3 DEF ReuseKey, Proceed, Goto, WithAt, WithKey

\* A rejoin saves the live key again.
LEMMA CurrentKeyKeeps ==
    ASSUME KeysInv, NEW t \in Threads, CurrentKey(t)
    PROVE  KeysInv'
<1>. DEFINE f == thread[t]
            a == IF master = NoMaster THEN "issue" ELSE "set_key"
<1>1. /\ f.at = "current" /\ f # Idle /\ FrameOK(f, t, lock, live, drawn) /\ IsRecord(f, FrameFields)
      /\ UNCHANGED <<keys, stored, lock, tracked, master, clients, livekit, config, crashes>>
  <2>1. f.at = "current" /\ UNCHANGED <<keys, stored, lock, tracked, master, clients, livekit, config, crashes>>
    BY Zenon DEF CurrentKey, At, rest, input
  <2>. QED BY Zenon, <2>1, Active DEF KeysInv
<1>2. CASE thread' = [thread EXCEPT ![t] = WithAt(f, "sweep")]
  <2>. DEFINE g == WithAt(f, "sweep")
  <2>1. Becomes(g, f, "sweep", f.key, f.then)
    BY Zenon, <1>1, FrameUpdates
  <2>. HIDE DEF g
  <2>2. FrameOK(g, t, lock, live, drawn) /\ g.op = f.op
    BY Zenon, <1>1, <2>1 DEF FrameOK, Becomes, Serves, Continues, Announcing, Keyed, Loading, Loaded, Saving
  <2>3. Going(f, g) /\ Follows(f, g)
    BY Zenon, <1>1, <2>1 DEF Going, Follows, Becomes, Announcing, Saving, Owes
  <2>4. ASSUME StepOK(f), LatestOK PROVE StepOK(g)
    BY Zenon, <1>1, <2>1, <2>4 DEF StepOK, Becomes, Loading, Loaded, Saving
  <2>. QED BY Zenon, <1>1, <1>2, <2>2, <2>3, <2>4, MoveKeeps DEF g
<1>3. CASE live # NoKey /\ thread' = [thread EXCEPT ![t] = WithSave(f, a, live, "issue")]
  <2>. DEFINE g == WithSave(f, a, live, "issue")
  <2>1. /\ Becomes(g, f, a, live, "issue") /\ live \in Keys /\ live.number <= drawn
        /\ a = "issue" \/ (a = "set_key" /\ master # NoMaster)
    BY Zenon, <1>1, <1>3, FrameUpdates DEF KeysInv, KeysOK
  <2>. HIDE DEF g, a
  <2>2. FrameOK(g, t, lock, live, drawn) /\ g.op = f.op
    BY Zenon, <1>1, <2>1 DEF FrameOK, Becomes, Serves, Continues, Announcing, Keyed, Loading, Loaded, Saving
  <2>3. Going(f, g) /\ Follows(f, g)
    BY Zenon, <1>1, <2>1 DEF Going, Follows, Becomes, Announcing, Saving, Owes
  <2>4. ASSUME StepOK(f), LatestOK PROVE StepOK(g)
    BY Zenon, <1>1, <1>3, <2>1, <2>4 DEF StepOK, Becomes, Loading, Loaded, Saving
  <2>. QED BY Zenon, <1>1, <1>3, <2>2, <2>3, <2>4, MoveKeeps DEF g
<1>. QED BY Zenon, <1>2, <1>3 DEF CurrentKey, Proceed, Persist, Goto, WithAt, WithSave

\* The nodes are asked who is in the room.
LEMMA SweepKeeps ==
    ASSUME KeysInv, NEW t \in Threads, Sweep(t)
    PROVE  KeysInv'
<1>. DEFINE f == thread[t]
<1>1. /\ f.at = "sweep" /\ f # Idle /\ FrameOK(f, t, lock, live, drawn) /\ IsRecord(f, FrameFields)
      /\ UNCHANGED <<keys, stored, lock, tracked, master, clients, livekit, config, crashes>>
  <2>1. f.at = "sweep" /\ UNCHANGED <<keys, stored, lock, tracked, master, clients, livekit, config, crashes>>
    BY Zenon DEF Sweep, At, rest, input
  <2>. QED BY Zenon, <2>1, Active DEF KeysInv
<1>2. PICK e : thread' = [thread EXCEPT ![t] = WithEmpty(f, "create", e)]
  BY Zenon DEF Sweep, Goto, WithEmpty
<1>. DEFINE g == WithEmpty(f, "create", e)
<1>3. Becomes(g, f, "create", f.key, f.then)
  BY Zenon, <1>1, FrameUpdates
<1>. HIDE DEF g
<1>4. FrameOK(g, t, lock, live, drawn) /\ g.op = f.op
  BY Zenon, <1>1, <1>3 DEF FrameOK, Becomes, Serves, Continues, Announcing, Keyed, Loading, Loaded, Saving
<1>5. Going(f, g) /\ Follows(f, g)
  BY Zenon, <1>1, <1>3 DEF Going, Follows, Becomes, Announcing, Saving, Owes
<1>6. ASSUME StepOK(f), LatestOK PROVE StepOK(g)
  BY Zenon, <1>1, <1>3, <1>6 DEF StepOK, Becomes, Loading, Loaded, Saving
<1>. QED BY Zenon, <1>1, <1>2, <1>4, <1>5, <1>6, MoveKeeps DEF g

\* resync_to_user reads the user's channel.
LEMMA FindChannelKeeps ==
    ASSUME KeysInv, NEW t \in Threads, FindChannel(t)
    PROVE  KeysInv'
<1>. DEFINE f == thread[t]
<1>1. /\ f.at = "resync" /\ f # Idle /\ FrameOK(f, t, lock, live, drawn) /\ IsRecord(f, FrameFields)
      /\ UNCHANGED <<keys, stored, lock, tracked, master, clients, livekit, config, crashes>>
  <2>1. f.at = "resync" /\ UNCHANGED <<keys, stored, lock, tracked, master, clients, livekit, config, crashes>>
    BY Zenon DEF FindChannel, At, rest, input
  <2>. QED BY Zenon, <2>1, Active DEF KeysInv
<1>2. CASE thread' = [thread EXCEPT ![t] = WithAt(f, "resend")]
  <2>. DEFINE g == WithAt(f, "resend")
  <2>1. Becomes(g, f, "resend", f.key, f.then)
    BY Zenon, <1>1, FrameUpdates
  <2>. HIDE DEF g
  <2>2. FrameOK(g, t, lock, live, drawn) /\ g.op = f.op
    BY Zenon, <1>1, <2>1 DEF FrameOK, Becomes, Serves, Continues, Announcing, Keyed, Loading, Loaded, Saving
  <2>3. Going(f, g) /\ Follows(f, g)
    BY Zenon, <1>1, <2>1 DEF Going, Follows, Becomes, Announcing, Saving, Owes
  <2>4. ASSUME StepOK(f), LatestOK PROVE StepOK(g)
    BY Zenon, <1>1, <2>1, <2>4 DEF StepOK, Becomes, Loading, Loaded, Saving
  <2>. QED BY Zenon, <1>1, <1>2, <2>2, <2>3, <2>4, MoveKeeps DEF g
<1>3. CASE f.user \notin tracked /\ thread' = [thread EXCEPT ![t] = Idle]
  <2>1. ~Announcing(f)
    BY Zenon, <1>1 DEF Announcing, Saving
  <2>2. \A x \in Threads \ {t} : thread'[x] = thread[x]
    BY Zenon, <1>3 DEF KeysInv, ThreadsOK
  <2>3. ASSUME NEW u \in tracked, Awaits(u) PROVE Awaits(u)'
    <3>1. PICK x \in Threads : \/ Announcing(thread[x])
                               \/ thread[x].at \in {"resync", "resend"} /\ thread[x].user = u
      BY Zenon, <2>3 DEF Awaits
    <3>2. x # t
      BY Zenon, <1>3, <2>1, <2>3, <3>1
    <3>. QED BY Zenon, <2>2, <3>1, <3>2 DEF Awaits, Announcing
  <2>4. Converging'
    <3>1. UNCHANGED <<live, tracked, room, online, arriving, missed, held>>
      BY Zenon, <1>1 DEF keys, livekit, clients, sent
    <3>. QED BY Zenon, <2>3, <3>1 DEF KeysInv, Converging
  <2>5. Follows(f, Idle)
    BY Zenon, <1>1 DEF Follows, Owes
  <2>6. ASSUME StepOK(f) PROVE StepOK(Idle)
    BY Zenon, <1>1, <2>6, IdleFacts DEF StepOK, Loading, Loaded, Saving
  <2>. QED BY Zenon, <1>1, <1>3, <2>4, <2>5, <2>6, MoveKeeps
<1>. QED BY Zenon, <1>2, <1>3 DEF FindChannel, Proceed, Finish, Goto, WithAt

-----------------------------------------------------------------------------
(* The steps that write to storage.                                        *)

\* persist_to_storage writes the blob.
LEMMA SetKeyKeeps ==
    ASSUME KeysInv, NEW t \in Threads, SetKey(t)
    PROVE  KeysInv'
<1>. DEFINE f == thread[t]
<1>1. /\ f.at = "set_key" /\ f # Idle /\ FrameOK(f, t, lock, live, drawn) /\ IsRecord(f, FrameFields)
      /\ f.key \in Keys /\ f.key.number <= drawn
      /\ UNCHANGED <<keys, storedIndex, lock, tracked, master, clients, livekit, config, crashes>>
  <2>1. f.at = "set_key" /\ UNCHANGED <<keys, storedIndex, lock, tracked, master, clients, livekit, config, crashes>>
    BY Zenon DEF SetKey, At, rest, input
  <2>2. f # Idle /\ FrameOK(f, t, lock, live, drawn) /\ IsRecord(f, FrameFields)
    BY Zenon, <2>1, Active DEF KeysInv
  <2>. QED BY Zenon, <2>1, <2>2 DEF FrameOK, Keyed, Saving
<1>2. UNCHANGED <<live, drawn, known>>
  BY Zenon, <1>1 DEF keys, clients, sent
<1>3. CASE storedKey' = Seal(master, f.key.number) /\ thread' = [thread EXCEPT ![t] = WithAt(f, "set_index")]
  <2>. DEFINE g == WithAt(f, "set_index")
  <2>1. Becomes(g, f, "set_index", f.key, f.then)
    BY Zenon, <1>1, FrameUpdates
  <2>2. storedKey'.number \in Nat /\ storedKey'.number <= drawn /\ storedKey'.number = f.key.number /\ storedKey'.master = master
    BY Zenon, <1>1, <1>3 DEF Seal, Keys
  <2>. HIDE DEF g
  <2>3. FrameOK(g, t, lock', live, drawn) /\ g.op = f.op
    BY Zenon, <1>1, <2>1 DEF FrameOK, Becomes, Serves, Continues, Announcing, Keyed, Loading, Loaded, Saving
  <2>4. Going(f, g) /\ Follows(f, g)
    BY Zenon, <1>1, <2>1 DEF Going, Follows, Becomes, Announcing, Saving, Owes
  <2>5. ASSUME thread'[t] = g, StepOK(f), LatestOK PROVE StepOK(thread[t])' /\ LatestOK'
    <3>1. live' # NoKey /\ f.key = live' /\ master' # NoMaster /\ BlobOf(live)'
      BY Zenon, <1>1, <1>2, <1>3, <2>5 DEF StepOK, Saving, BlobOf
    <3>2. StepOK(thread[t])'
      BY Zenon, <2>1, <2>5, <3>1 DEF StepOK, Becomes, Loading, Loaded, Saving, Cleared
    <3>3. LatestOK'
      BY Zenon, <1>1, <1>2, <2>2, <2>5, <3>1 DEF LatestOK, Newest, NeverRestarted
    <3>. QED BY Zenon, <3>2, <3>3
  <2>6. storedIndex' = NoKey \/ storedIndex' \in Nat
    BY Zenon, <1>1 DEF KeysInv, KeysOK
  <2>. QED BY Zenon, <1>1, <1>3, <2>2, <2>3, <2>4, <2>5, <2>6, WriteKeeps DEF g
<1>4. CASE Fails("redis") /\ thread' = [thread EXCEPT ![t] = WithAt(f, f.then)] /\ storedKey' = storedKey
  <2>. DEFINE g == WithAt(f, f.then)
  <2>1. Becomes(g, f, f.then, f.key, f.then)
    BY Zenon, <1>1, FrameUpdates
  <2>. HIDE DEF g
  <2>3. FrameOK(g, t, lock', live, drawn) /\ g.op = f.op
    BY Zenon, <1>1, <2>1 DEF FrameOK, Becomes, Serves, Continues, Announcing, Keyed, Loading, Loaded, Saving
  <2>4. Going(f, g) /\ Follows(f, g)
    BY Zenon, <1>1, <2>1 DEF Going, Follows, Becomes, Announcing, Saving, Owes
  <2>5. ~Serial
    BY Zenon, <1>4 DEF Serial, Without, Fails
  <2>6. /\ storedIndex' = NoKey \/ storedIndex' \in Nat
        /\ storedKey' # NoKey => storedKey'.number \in Nat /\ storedKey'.number <= drawn
    BY Zenon, <1>1, <1>4 DEF KeysInv, KeysOK
  <2>. QED BY Zenon, <1>1, <1>4, <2>3, <2>4, <2>5, <2>6, WriteKeeps DEF g
<1>. QED BY Zenon, <1>3, <1>4 DEF SetKey, Proceed, Goto, WithAt

\* persist_to_storage writes the index.
LEMMA SetIndexKeeps ==
    ASSUME KeysInv, NEW t \in Threads, SetIndex(t)
    PROVE  KeysInv'
<1>. DEFINE f == thread[t]
            g == WithAt(f, f.then)
<1>1. /\ f.at = "set_index" /\ f # Idle /\ FrameOK(f, t, lock, live, drawn) /\ IsRecord(f, FrameFields)
      /\ f.key \in Keys /\ f.key.number <= drawn
      /\ UNCHANGED <<keys, storedKey, lock, tracked, master, clients, livekit, config, crashes>>
  <2>1. f.at = "set_index" /\ UNCHANGED <<keys, storedKey, lock, tracked, master, clients, livekit, config, crashes>>
    BY Zenon DEF SetIndex, At, rest, input
  <2>2. f # Idle /\ FrameOK(f, t, lock, live, drawn) /\ IsRecord(f, FrameFields)
    BY Zenon, <2>1, Active DEF KeysInv
  <2>. QED BY Zenon, <2>1, <2>2 DEF FrameOK, Keyed, Saving
<1>2. UNCHANGED <<live, drawn, known>>
  BY Zenon, <1>1 DEF keys, clients, sent
<1>3. thread' = [thread EXCEPT ![t] = g] /\ (storedIndex' = f.key.index \/ (Fails("redis") /\ storedIndex' = storedIndex))
  BY Zenon DEF SetIndex, Proceed, Goto, WithAt
<1>4. Becomes(g, f, f.then, f.key, f.then)
  BY Zenon, <1>1, FrameUpdates
<1>. HIDE DEF g
<1>5. FrameOK(g, t, lock', live, drawn) /\ g.op = f.op
  BY Zenon, <1>1, <1>4 DEF FrameOK, Becomes, Serves, Continues, Announcing, Keyed, Loading, Loaded, Saving
<1>6. Going(f, g) /\ Follows(f, g)
  BY Zenon, <1>1, <1>4 DEF Going, Follows, Becomes, Announcing, Saving, Owes
<1>7. /\ storedIndex' = NoKey \/ storedIndex' \in Nat
      /\ storedKey' # NoKey => storedKey'.number \in Nat /\ storedKey'.number <= drawn
  <2>1. f.key.index \in Nat
    BY Zenon, <1>1 DEF Keys
  <2>. QED BY Zenon, <1>1, <1>3, <2>1 DEF KeysInv, KeysOK
<1>8. ASSUME thread'[t] = g, Serial, StepOK(f), LatestOK PROVE StepOK(thread[t])' /\ LatestOK'
  <2>1. storedIndex' = f.key.index
    BY Zenon, <1>3, <1>8 DEF Serial, Without, Fails
  <2>2. live' # NoKey /\ f.key = live' /\ master' # NoMaster /\ BlobOf(live)' /\ SlotOf(live)'
    BY Zenon, <1>1, <1>2, <2>1, <1>8 DEF StepOK, Saving, BlobOf, SlotOf, Expires
  <2>3. StepOK(thread[t])'
    BY Zenon, <1>1, <1>4, <1>8, <2>2 DEF StepOK, Becomes, Loading, Loaded, Saving, Cleared, Saved, FrameOK, Continues
  <2>4. LatestOK'
    BY Zenon, <1>1, <1>2, <1>8, <2>2 DEF LatestOK, Newest, NeverRestarted
  <2>. QED BY Zenon, <2>3, <2>4
<1>. QED BY Zenon, <1>1, <1>3, <1>5, <1>6, <1>7, <1>8, WriteKeeps

\* A loaded key is written back to renew its expiry.
LEMMA TouchKeyKeeps ==
    ASSUME KeysInv, NEW t \in Threads, TouchKey(t)
    PROVE  KeysInv'
<1>. DEFINE f == thread[t]
<1>1. /\ f.at = "touch_key" /\ f # Idle /\ FrameOK(f, t, lock, live, drawn) /\ IsRecord(f, FrameFields)
      /\ f.key \in Keys /\ f.key.number <= drawn
      /\ UNCHANGED <<keys, storedIndex, lock, tracked, master, clients, livekit, config, crashes>>
  <2>1. f.at = "touch_key" /\ UNCHANGED <<keys, storedIndex, lock, tracked, master, clients, livekit, config, crashes>>
    BY Zenon DEF TouchKey, At, rest, input
  <2>2. f # Idle /\ FrameOK(f, t, lock, live, drawn) /\ IsRecord(f, FrameFields)
    BY Zenon, <2>1, Active DEF KeysInv
  <2>. QED BY Zenon, <2>1, <2>2 DEF FrameOK, Keyed, Loaded
<1>2. UNCHANGED <<live, drawn, known>>
  BY Zenon, <1>1 DEF keys, clients, sent
<1>3. storedIndex' = NoKey \/ storedIndex' \in Nat
  BY Zenon, <1>1 DEF KeysInv, KeysOK
<1>4. CASE storedKey' = Seal(master, f.key.number) /\ thread' = [thread EXCEPT ![t] = WithAt(f, "touch_index")]
  <2>. DEFINE g == WithAt(f, "touch_index")
  <2>1. Becomes(g, f, "touch_index", f.key, f.then)
    BY Zenon, <1>1, FrameUpdates
  <2>2. storedKey'.number \in Nat /\ storedKey'.number <= drawn /\ storedKey'.number = f.key.number /\ storedKey'.master = master
    BY Zenon, <1>1, <1>4 DEF Seal, Keys
  <2>. HIDE DEF g
  <2>3. FrameOK(g, t, lock', live, drawn) /\ g.op = f.op
    BY Zenon, <1>1, <2>1 DEF FrameOK, Becomes, Serves, Continues, Announcing, Keyed, Loading, Loaded, Saving
  <2>4. Going(f, g) /\ Follows(f, g)
    BY Zenon, <1>1, <2>1 DEF Going, Follows, Becomes, Announcing, Saving, Owes
  <2>5. ASSUME thread'[t] = g, StepOK(f), LatestOK PROVE StepOK(thread[t])' /\ LatestOK'
    <3>1. live' = NoKey /\ ~NeverRestarted' /\ master' # NoMaster /\ Newest(thread[t].key.number)'
      <4>1. live = NoKey /\ ~NeverRestarted /\ master # NoMaster /\ Newest(f.key.number)
        BY Zenon, <1>1, <2>5 DEF StepOK, Loading, Loaded
      <4>. QED BY Zenon, <1>1, <1>2, <2>1, <2>5, <4>1 DEF Becomes, Newest, NeverRestarted
    <3>2. StepOK(thread[t])'
      BY Zenon, <2>1, <2>5, <3>1 DEF StepOK, Becomes, Loading, Loaded, Saving, Cleared, Saved
    <3>3. LatestOK'
      BY Zenon, <2>1, <2>2, <2>5, <3>1 DEF LatestOK, Becomes, Newest
    <3>. QED BY Zenon, <3>2, <3>3
  <2>. QED BY Zenon, <1>1, <1>3, <1>4, <2>2, <2>3, <2>4, <2>5, WriteKeeps DEF g
<1>5. CASE Fails("redis") /\ thread' = [thread EXCEPT ![t] = WithAt(f, "no_key")] /\ storedKey' = storedKey
  <2>. DEFINE g == WithAt(f, "no_key")
  <2>1. Becomes(g, f, "no_key", f.key, f.then)
    BY Zenon, <1>1, FrameUpdates
  <2>. HIDE DEF g
  <2>3. FrameOK(g, t, lock', live, drawn) /\ g.op = f.op
    BY Zenon, <1>1, <2>1 DEF FrameOK, Becomes, Serves, Continues, Announcing, Keyed, Loading, Loaded, Saving
  <2>4. Going(f, g) /\ Follows(f, g)
    BY Zenon, <1>1, <2>1 DEF Going, Follows, Becomes, Announcing, Saving, Owes
  <2>5. ~Serial
    BY Zenon, <1>5 DEF Serial, Without, Fails
  <2>6. storedKey' # NoKey => storedKey'.number \in Nat /\ storedKey'.number <= drawn
    BY Zenon, <1>1, <1>5 DEF KeysInv, KeysOK
  <2>. QED BY Zenon, <1>1, <1>3, <1>5, <2>3, <2>4, <2>5, <2>6, WriteKeeps DEF g
<1>. QED BY Zenon, <1>4, <1>5 DEF TouchKey, Proceed, Goto, WithAt

\* So is its index.
LEMMA TouchIndexKeeps ==
    ASSUME KeysInv, NEW t \in Threads, TouchIndex(t)
    PROVE  KeysInv'
<1>. DEFINE f == thread[t]
<1>1. /\ f.at = "touch_index" /\ f # Idle /\ FrameOK(f, t, lock, live, drawn) /\ IsRecord(f, FrameFields)
      /\ f.key \in Keys /\ f.key.number <= drawn
      /\ UNCHANGED <<keys, storedKey, lock, tracked, master, clients, livekit, config, crashes>>
  <2>1. f.at = "touch_index" /\ UNCHANGED <<keys, storedKey, lock, tracked, master, clients, livekit, config, crashes>>
    BY Zenon DEF TouchIndex, At, rest, input
  <2>2. f # Idle /\ FrameOK(f, t, lock, live, drawn) /\ IsRecord(f, FrameFields)
    BY Zenon, <2>1, Active DEF KeysInv
  <2>. QED BY Zenon, <2>1, <2>2 DEF FrameOK, Keyed, Loaded
<1>2. UNCHANGED <<live, drawn, known>>
  BY Zenon, <1>1 DEF keys, clients, sent
<1>3. storedKey' # NoKey => storedKey'.number \in Nat /\ storedKey'.number <= drawn
  BY Zenon, <1>1 DEF KeysInv, KeysOK
<1>4. CASE storedIndex' = f.key.index /\ thread' = [thread EXCEPT ![t] = WithAt(f, "adopt")]
  <2>. DEFINE g == WithAt(f, "adopt")
  <2>1. Becomes(g, f, "adopt", f.key, f.then)
    BY Zenon, <1>1, FrameUpdates
  <2>2. storedIndex' \in Nat
    BY Zenon, <1>1, <1>4 DEF Keys
  <2>. HIDE DEF g
  <2>3. FrameOK(g, t, lock', live, drawn) /\ g.op = f.op
    BY Zenon, <1>1, <2>1 DEF FrameOK, Becomes, Serves, Continues, Announcing, Keyed, Loading, Loaded, Saving
  <2>4. Going(f, g) /\ Follows(f, g)
    BY Zenon, <1>1, <2>1 DEF Going, Follows, Becomes, Announcing, Saving, Owes
  <2>5. ASSUME thread'[t] = g, StepOK(f), LatestOK PROVE StepOK(thread[t])' /\ LatestOK'
    <3>1. live' = NoKey /\ ~NeverRestarted' /\ master' # NoMaster /\ Newest(thread[t].key.number)'
      <4>1. live = NoKey /\ ~NeverRestarted /\ master # NoMaster /\ Newest(f.key.number)
        BY Zenon, <1>1, <2>5 DEF StepOK, Loading, Loaded
      <4>. QED BY Zenon, <1>1, <1>2, <2>1, <2>5, <4>1 DEF Becomes, Newest, NeverRestarted
    <3>2. StepOK(thread[t])'
      BY Zenon, <2>1, <2>5, <3>1 DEF StepOK, Becomes, Loading, Loaded, Saving, Cleared, Saved
    <3>3. LatestOK'
      BY Zenon, <1>1, <1>2, <2>5, <3>1 DEF LatestOK, Newest
    <3>. QED BY Zenon, <3>2, <3>3
  <2>. QED BY Zenon, <1>1, <1>3, <1>4, <2>2, <2>3, <2>4, <2>5, WriteKeeps DEF g
<1>5. CASE Fails("redis") /\ thread' = [thread EXCEPT ![t] = WithAt(f, "no_key")] /\ storedIndex' = storedIndex
  <2>. DEFINE g == WithAt(f, "no_key")
  <2>1. Becomes(g, f, "no_key", f.key, f.then)
    BY Zenon, <1>1, FrameUpdates
  <2>. HIDE DEF g
  <2>3. FrameOK(g, t, lock', live, drawn) /\ g.op = f.op
    BY Zenon, <1>1, <2>1 DEF FrameOK, Becomes, Serves, Continues, Announcing, Keyed, Loading, Loaded, Saving
  <2>4. Going(f, g) /\ Follows(f, g)
    BY Zenon, <1>1, <2>1 DEF Going, Follows, Becomes, Announcing, Saving, Owes
  <2>5. ~Serial
    BY Zenon, <1>5 DEF Serial, Without, Fails
  <2>6. storedIndex' = NoKey \/ storedIndex' \in Nat
    BY Zenon, <1>1, <1>5 DEF KeysInv, KeysOK
  <2>. QED BY Zenon, <1>1, <1>3, <1>5, <2>3, <2>4, <2>5, <2>6, WriteKeeps DEF g
<1>. QED BY Zenon, <1>4, <1>5 DEF TouchIndex, Proceed, Goto, WithAt

\* clear_storage deletes the blob.
LEMMA DelKeyKeeps ==
    ASSUME KeysInv, NEW t \in Threads, DelKey(t)
    PROVE  KeysInv'
<1>. DEFINE f == thread[t]
<1>1. /\ f.at = "del_key" /\ f # Idle /\ FrameOK(f, t, lock, live, drawn) /\ IsRecord(f, FrameFields)
      /\ UNCHANGED <<keys, storedIndex, tracked, master, clients, livekit, config, crashes>>
  <2>1. f.at = "del_key" /\ UNCHANGED <<keys, storedIndex, tracked, master, clients, livekit, config, crashes>>
    BY Zenon DEF DelKey, At, rest, input
  <2>. QED BY Zenon, <2>1, Active DEF KeysInv
<1>2. UNCHANGED <<live, drawn, known>>
  BY Zenon, <1>1 DEF keys, clients, sent
<1>3. storedIndex' = NoKey \/ storedIndex' \in Nat
  BY Zenon, <1>1 DEF KeysInv, KeysOK
<1>4. CASE storedKey' = NoKey /\ lock' = lock /\ thread' = [thread EXCEPT ![t] = WithAt(f, "del_index")]
  <2>. DEFINE g == WithAt(f, "del_index")
  <2>1. Becomes(g, f, "del_index", f.key, f.then)
    BY Zenon, <1>1, FrameUpdates
  <2>. HIDE DEF g
  <2>3. FrameOK(g, t, lock', live, drawn) /\ g.op = f.op
    BY Zenon, <1>1, <1>4, <2>1 DEF FrameOK, Becomes, Serves, Continues, Announcing, Keyed, Loading, Loaded, Saving
  <2>4. Going(f, g) /\ Follows(f, g)
    BY Zenon, <1>1, <2>1 DEF Going, Follows, Becomes, Announcing, Saving, Owes
  <2>5. ASSUME thread'[t] = g, StepOK(f), LatestOK PROVE StepOK(thread[t])' /\ LatestOK'
    <3>1. live' = NoKey
      BY Zenon, <1>1, <1>2, <2>5 DEF StepOK
    <3>2. StepOK(thread[t])'
      BY Zenon, <1>4, <2>1, <2>5, <3>1 DEF StepOK, Becomes, Loading, Loaded, Saving, Saved
    <3>3. LatestOK'
      BY Zenon, <1>1, <1>2, <1>4, <2>5, <3>1 DEF LatestOK, CanUnseal, NeverRestarted
    <3>. QED BY Zenon, <3>2, <3>3
  <2>. QED BY Zenon, <1>1, <1>3, <1>4, <2>3, <2>4, <2>5, WriteKeeps DEF g
<1>5. CASE Fails("redis") /\ thread' = [thread EXCEPT ![t] = WithAt(f, "forget")] /\ Unlock(t) /\ storedKey' = storedKey
  <2>. DEFINE g == WithAt(f, "forget")
  <2>1. Becomes(g, f, "forget", f.key, f.then)
    BY Zenon, <1>1, FrameUpdates
  <2>. HIDE DEF g
  <2>3. FrameOK(g, t, lock', live, drawn) /\ g.op = f.op /\ g.op # "restore"
    BY Zenon, <1>1, <2>1 DEF FrameOK, Becomes, Serves, Continues, Announcing, Keyed, Loading, Loaded, Saving
  <2>4. Going(f, g) /\ Follows(f, g)
    BY Zenon, <1>1, <2>1 DEF Going, Follows, Becomes, Announcing, Saving, Owes
  <2>5. ~Serial
    BY Zenon, <1>5 DEF Serial, Without, Fails
  <2>6. storedKey' # NoKey => storedKey'.number \in Nat /\ storedKey'.number <= drawn
    BY Zenon, <1>1, <1>5 DEF KeysInv, KeysOK
  <2>7. lock' = lock \/ lock = t
    BY Zenon, <1>5 DEF Unlock
  <2>. QED BY Zenon, <1>1, <1>3, <1>5, <2>3, <2>4, <2>5, <2>6, <2>7, WriteKeeps DEF g
<1>. QED BY Zenon, <1>4, <1>5 DEF DelKey, Proceed, Goto, WithAt

\* clear_storage deletes the index, and the mutex is released.
LEMMA DelIndexKeeps ==
    ASSUME KeysInv, NEW t \in Threads, DelIndex(t)
    PROVE  KeysInv'
<1>. DEFINE f == thread[t]
            g == WithAt(f, "forget")
<1>1. /\ f.at = "del_index" /\ f # Idle /\ FrameOK(f, t, lock, live, drawn) /\ IsRecord(f, FrameFields)
      /\ UNCHANGED <<keys, storedKey, tracked, master, clients, livekit, config, crashes>>
  <2>1. f.at = "del_index" /\ UNCHANGED <<keys, storedKey, tracked, master, clients, livekit, config, crashes>>
    BY Zenon DEF DelIndex, At, rest, input
  <2>. QED BY Zenon, <2>1, Active DEF KeysInv
<1>2. UNCHANGED <<live, drawn, known>>
  BY Zenon, <1>1 DEF keys, clients, sent
<1>3. /\ thread' = [thread EXCEPT ![t] = g] /\ (lock' = lock \/ lock = t)
      /\ storedIndex' = NoKey \/ (Fails("redis") /\ storedIndex' = storedIndex)
  BY Zenon DEF DelIndex, Proceed, Goto, WithAt, Unlock
<1>4. Becomes(g, f, "forget", f.key, f.then)
  BY Zenon, <1>1, FrameUpdates
<1>. HIDE DEF g
<1>5. FrameOK(g, t, lock', live, drawn) /\ g.op = f.op /\ g.op # "restore"
  BY Zenon, <1>1, <1>4 DEF FrameOK, Becomes, Serves, Continues, Announcing, Keyed, Loading, Loaded, Saving
<1>6. Going(f, g) /\ Follows(f, g)
  BY Zenon, <1>1, <1>4 DEF Going, Follows, Becomes, Announcing, Saving, Owes
<1>7. /\ storedIndex' = NoKey \/ storedIndex' \in Nat
      /\ storedKey' # NoKey => storedKey'.number \in Nat /\ storedKey'.number <= drawn
  BY Zenon, <1>1, <1>3 DEF KeysInv, KeysOK
<1>8. ASSUME thread'[t] = g, Serial, StepOK(f), LatestOK PROVE StepOK(thread[t])' /\ LatestOK'
  <2>1. storedIndex' = NoKey
    BY Zenon, <1>3, <1>8 DEF Serial, Without, Fails
  <2>2. live' = NoKey /\ storedKey' = NoKey
    BY Zenon, <1>1, <1>2, <1>8 DEF StepOK
  <2>3. StepOK(thread[t])'
    BY Zenon, <1>4, <1>8, <2>1, <2>2 DEF StepOK, Becomes, Loading, Loaded, Saving, Cleared, Saved
  <2>4. LatestOK'
    BY Zenon, <2>1, <2>2 DEF LatestOK, CanUnseal
  <2>. QED BY Zenon, <2>3, <2>4
<1>. QED BY Zenon, <1>1, <1>3, <1>5, <1>6, <1>7, <1>8, WriteKeeps

-----------------------------------------------------------------------------
(* The steps that change the key.                                          *)

\* A key that is drawn is new to everybody, and announced or marked as missed.
LEMMA DrawKeeps ==
    ASSUME KeysInv, NEW t \in Threads, NEW k \in Keys, k.number = drawn + 1, NEW n, NEW a,
           a = IF master = NoMaster THEN n ELSE "set_key",
           thread[t] # Idle, thread' = [thread EXCEPT ![t] = WithSave(thread[t], a, k, n)],
           \/ n = "announce" /\ thread[t].op \in {"join", "left"} /\ missed' = missed
           \/ n = "issue" /\ thread[t].op = "join" /\ missed' = tracked,
           live' = k, drawn' = drawn + 1, lock \in {NoThread, t}, lock' = t,
           UNCHANGED <<stored, tracked, master, online, token, gone, held, known, livekit, config, crashes>>
    PROVE  KeysInv'
<1>. DEFINE f == thread[t]
            g == WithSave(f, a, k, n)
<1>1. /\ UNCHANGED <<storedKey, storedIndex, tracked, master, online, token, gone, held, known,
                     room, arriving, config, crashes>>
      /\ FrameOK(f, t, lock, live, drawn) /\ IsRecord(f, FrameFields) /\ t \in config.threads
  <2>1. FrameOK(f, t, lock, live, drawn) /\ IsRecord(f, FrameFields) /\ t \in config.threads
    BY Zenon DEF KeysInv, ThreadsOK, FrameOK
  <2>. QED BY Zenon, <2>1 DEF stored, livekit
<1>2. Becomes(g, f, a, k, n)
  BY Zenon, <1>1, FrameUpdates
<1>3. /\ drawn \in Nat /\ drawn' \in Nat /\ drawn <= drawn' /\ k.number <= drawn' /\ k # NoKey
      /\ \A m \in 0..drawn : m \in 0..drawn' /\ m <= k.number /\ m # k.number
  <2>1. drawn \in Nat
    BY Zenon DEF KeysInv, KeysOK
  <2>2. k # NoKey
    BY Zenon, NoneAssumption DEF Keys
  <2>. QED BY <2>1, <2>2
<1>4. a = n \/ a = "set_key"
  BY Zenon
<1>. HIDE DEF g
<1>5. /\ FrameOK(g, t, lock', live', drawn') /\ g.op = f.op /\ g.op # "restore" /\ g # Idle
      /\ n = "announce" => Announcing(g)
  <2>1. /\ FrameOK(g, t, lock', live', drawn') /\ g.op = f.op /\ g.op # "restore"
        /\ n = "announce" => Announcing(g)
    BY Zenon, <1>1, <1>2, <1>3, <1>4 DEF FrameOK, Becomes, Serves, Continues, Announcing, Keyed, Loading, Loaded, Saving
  <2>. QED BY Zenon, <2>1, IdleFacts DEF FrameOK
<1>6. ThreadsOK' /\ thread'[t] = g /\ \A x \in Threads \ {t} : thread'[x] = thread[x]
  <2>1. ThreadsOK /\ thread' = [thread EXCEPT ![t] = g] /\ config' = config /\ crashes' = crashes
    BY Zenon, <1>1 DEF KeysInv, g
  <2>. QED BY Zenon, <1>3, <1>5, <2>1, ThreadsKeep
<1>7. KeysOK'
  <2>1. live' \in Keys /\ live'.number <= drawn'
    BY Zenon, <1>3
  <2>2. storedKey' # NoKey => storedKey'.number \in Nat /\ storedKey'.number <= drawn'
    <3>1. storedKey' # NoKey => storedKey'.number \in Nat /\ storedKey'.number <= drawn
      BY Zenon, <1>1 DEF KeysInv, KeysOK
    <3>. QED BY <1>3, <3>1
  <2>3. \A u \in Users : known'[u] \subseteq 0..drawn'
    BY Zenon, <1>1, <1>3 DEF KeysInv, KeysOK
  <2>. QED BY Zenon, <1>1, <1>3, <2>1, <2>2, <2>3 DEF KeysInv, KeysOK
<1>8. MasterOK'
  BY Zenon, <1>1, MasterKeeps DEF KeysInv
<1>9. Converging'
  <2>1. CASE missed' = tracked
    BY Zenon, <1>1, <2>1 DEF Converging
  <2>2. CASE n = "announce"
    <3>1. Announcing(thread[t])'
      BY Zenon, <1>5, <1>6, <2>2 DEF Announcing
    <3>. QED BY Zenon, <3>1 DEF Converging, Awaits
  <2>. QED BY Zenon, <2>1, <2>2
<1>10. StorageOK'
  <2>1. ASSUME LatestOK PROVE LatestOK'
    <3>1. Newest(live.number)'
      BY Zenon, <1>1, <1>3 DEF KeysInv, KeysOK, Newest
    <3>. QED BY Zenon, <1>1, <2>1, <3>1 DEF LatestOK, Newest, NeverRestarted
  <2>2. StepOK(thread[t])'
    <3>1. live' # NoKey /\ thread'[t] = g
      BY Zenon, <1>3, <1>6
    <3>2. (a = "set_key" /\ master' # NoMaster) \/ (a = n /\ master' = NoMaster)
      BY Zenon, <1>1
    <3>. QED BY Zenon, <1>2, <3>1, <3>2 DEF StepOK, Becomes, Saved, Cleared, Saving, Loading, Loaded
  <2>. QED BY Zenon, <1>1, <2>1, <2>2, StorageKeeps DEF KeysInv
<1>11. DeparturesOK'
  <2>. SUFFICES ASSUME (Serial /\ Without({"random"}) /\ NeverRestarted)'
                PROVE  /\ gone' \cap tracked' = {}
                       /\ \A x \in config'.threads :
                            /\ thread'[x] # Idle /\ thread'[x].op = "join" => thread'[x].user \notin gone'
                            /\ \A u \in gone' : live'.number \notin known'[u]
    BY Zenon DEF DeparturesOK
  <2>1. Serial /\ Without({"random"}) /\ NeverRestarted
    BY Zenon, <1>1 DEF Serial, OneThread, Without, NeverRestarted
  <2>2. \A x \in config.threads : x = t
    BY Zenon, <1>1, <2>1 DEF Serial, OneThread
  <2>3. \A u \in gone' : live'.number \notin known'[u]
    <3>1. \A u \in Users : live'.number \notin known'[u]
      BY Zenon, <1>1, <1>3 DEF KeysInv, KeysOK
    <3>. QED BY Zenon, <1>1, <3>1 DEF KeysInv, KeysOK
  <2>. QED BY Zenon, <1>1, <1>2, <1>6, <2>1, <2>2, <2>3 DEF KeysInv, DeparturesOK, Becomes
<1>. QED BY Zenon, <1>6, <1>7, <1>8, <1>9, <1>10, <1>11 DEF KeysInv

\* The keys that are drawn.
LEMMA DrawnKeys ==
    ASSUME KeysInv
    PROVE  /\ FirstKey \in Keys /\ FirstKey.number = drawn + 1
           /\ NextKey \in Keys /\ NextKey.number = drawn + 1
<1>1. drawn \in Nat /\ (live # NoKey => live.index \in Nat)
  BY Zenon DEF KeysInv, KeysOK, Keys
<1>. QED BY <1>1, KeyringAssumption DEF FirstKey, NextKey, Keys

\* A call that ends because there are no random bytes.
LEMMA CannotDrawKeeps ==
    ASSUME KeysInv, NEW t \in Threads, thread[t].at \in {"rotate", "create", "no_key"}, Fails("random"),
           thread' = [thread EXCEPT ![t] = Idle], lock' = lock \/ lock = t,
           UNCHANGED <<keys, stored, tracked, master, clients, livekit, config, crashes>>
    PROVE  KeysInv'
<1>. DEFINE f == thread[t]
<1>1. f # Idle
  BY Zenon, IdleFacts
<1>2. UNCHANGED <<storedKey, storedIndex, live, known>>
  BY Zenon DEF keys, stored, clients, sent
<1>3. /\ storedIndex' = NoKey \/ storedIndex' \in Nat
      /\ storedKey' # NoKey => storedKey'.number \in Nat /\ storedKey'.number <= drawn
  BY Zenon, <1>2 DEF KeysInv, KeysOK
<1>4. Going(f, Idle)
  BY Zenon DEF Going, Announcing, Saving
<1>5. DeparturesOK'
  BY Zenon DEF DeparturesOK, Without, Fails
<1>6. ASSUME thread'[t] = Idle, StepOK(f), LatestOK PROVE StepOK(thread[t])' /\ LatestOK'
  <2>1. Saved /\ Cleared
    BY Zenon, <1>6 DEF StepOK, Saving
  <2>2. StepOK(thread[t])'
    <3>1. Saved' /\ Cleared'
      BY Zenon, <1>2, <2>1 DEF Saved, Cleared, BlobOf, SlotOf, Expires, NeverRestarted
    <3>. QED BY Zenon, <1>6, <3>1, IdleFacts DEF StepOK, Saving, Loading, Loaded
  <2>3. LatestOK'
    BY Zenon, <1>2, <1>6 DEF LatestOK, Newest, NeverRestarted
  <2>. QED BY Zenon, <2>2, <2>3
<1>. QED BY Zenon, <1>1, <1>3, <1>4, <1>5, <1>6, WriteKeeps

\* rotate_and_broadcast.
LEMMA RotateKeeps ==
    ASSUME KeysInv, NEW t \in Threads, Rotate(t)
    PROVE  KeysInv'
<1>. DEFINE f == thread[t]
<1>1. /\ f.at = "rotate" /\ lock = NoThread
      /\ UNCHANGED <<stored, tracked, master, clients, livekit, config, crashes>>
  BY Zenon DEF Rotate, At, rest, input
<1>2. f # Idle /\ FrameOK(f, t, lock, live, drawn)
  BY Zenon, <1>1, Active DEF KeysInv
<1>3. CASE /\ lock' = t /\ Draw(NextKey)
           /\ thread' = [thread EXCEPT ![t] =
                 WithSave(f, IF master = NoMaster THEN "announce" ELSE "set_key", NextKey, "announce")]
  <2>1. f.op \in {"join", "left"}
    BY Zenon, <1>1, <1>2 DEF FrameOK, Serves, Saving, Loading, Loaded
  <2>2. NextKey \in Keys /\ NextKey.number = drawn + 1 /\ live' = NextKey /\ drawn' = drawn + 1
    BY Zenon, <1>3, DrawnKeys DEF Draw
  <2>3. UNCHANGED <<stored, tracked, master, online, token, gone, held, known, missed, livekit, config, crashes>>
    BY Zenon, <1>1 DEF clients, sent
  <2>. DEFINE k == NextKey
              a == IF master = NoMaster THEN "announce" ELSE "set_key"
  <2>4. thread' = [thread EXCEPT ![t] = WithSave(f, a, k, "announce")] /\ lock' = t
    BY Zenon, <1>3
  <2>5. a = IF master = NoMaster THEN "announce" ELSE "set_key"
    BY Zenon
  <2>6. k \in Keys /\ k.number = drawn + 1 /\ live' = k
    BY Zenon, <2>2
  <2>. HIDE DEF k, a
  <2>. QED BY Zenon, <1>1, <1>2, <2>1, <2>2, <2>3, <2>4, <2>5, <2>6, DrawKeeps
<1>4. CASE CannotDraw(t)
  BY Zenon, <1>1, <1>4, CannotDrawKeeps DEF CannotDraw, Finish, Goto
<1>. QED BY Zenon, <1>3, <1>4 DEF Rotate, Lock, Persist, Goto, WithSave

\* A join that finds no key in storage makes one; the recovery does without.
LEMMA NoStoredKeyKeeps ==
    ASSUME KeysInv, NEW t \in Threads, NoStoredKey(t)
    PROVE  KeysInv'
<1>. DEFINE f == thread[t]
<1>1. f.at = "no_key" /\ UNCHANGED <<stored, tracked, master, clients, livekit, config, crashes>>
  BY Zenon DEF NoStoredKey, At, rest, input
<1>2. f # Idle /\ FrameOK(f, t, lock, live, drawn) /\ IsRecord(f, FrameFields)
  BY Zenon, <1>1, Active DEF KeysInv
<1>3. CASE f.op = "restore" /\ thread' = [thread EXCEPT ![t] = WithAt(f, "register")] /\ UNCHANGED <<keys, lock>>
  <2>. DEFINE g == WithAt(f, "register")
  <2>1. Becomes(g, f, "register", f.key, f.then)
    BY Zenon, <1>2, FrameUpdates
  <2>. HIDE DEF g
  <2>2. FrameOK(g, t, lock, live, drawn) /\ g.op = f.op
    BY Zenon, <1>1, <1>2, <1>3, <2>1 DEF FrameOK, Becomes, Serves, Continues, Announcing, Keyed, Loading, Loaded, Saving
  <2>3. Going(f, g) /\ Follows(f, g)
    BY Zenon, <1>1, <1>3, <2>1 DEF Going, Follows, Becomes, Announcing, Saving, Owes
  <2>4. ASSUME StepOK(f), LatestOK PROVE StepOK(g)
    BY Zenon, <1>1, <2>1, <2>4 DEF StepOK, Becomes, Loading, Loaded, Saving
  <2>. QED BY Zenon, <1>1, <1>2, <1>3, <2>2, <2>3, <2>4, MoveKeeps DEF g
<1>4. CASE /\ f.op = "join" /\ lock' = lock /\ Draw(FirstKey)
           /\ thread' = [thread EXCEPT ![t] =
                 WithSave(f, IF master = NoMaster THEN "announce" ELSE "set_key", FirstKey, "announce")]
  <2>1. lock \in {NoThread, t} /\ lock' = t
    BY Zenon, <1>1, <1>2, <1>4 DEF FrameOK, Loading
  <2>2. FirstKey \in Keys /\ FirstKey.number = drawn + 1 /\ live' = FirstKey /\ drawn' = drawn + 1
    BY Zenon, <1>4, DrawnKeys DEF Draw
  <2>3. UNCHANGED <<stored, tracked, master, online, token, gone, held, known, missed, livekit, config, crashes>>
    BY Zenon, <1>1 DEF clients, sent
  <2>. DEFINE k == FirstKey
              a == IF master = NoMaster THEN "announce" ELSE "set_key"
  <2>4. thread' = [thread EXCEPT ![t] = WithSave(f, a, k, "announce")] /\ f.op \in {"join", "left"}
    BY Zenon, <1>4
  <2>5. a = IF master = NoMaster THEN "announce" ELSE "set_key"
    BY Zenon
  <2>6. k \in Keys /\ k.number = drawn + 1 /\ live' = k
    BY Zenon, <2>2
  <2>. HIDE DEF k, a
  <2>. QED BY Zenon, <1>2, <2>1, <2>2, <2>3, <2>4, <2>5, <2>6, DrawKeeps
<1>5. CASE Fails("random") /\ thread' = [thread EXCEPT ![t] = Idle] /\ Unlock(t) /\ UNCHANGED keys
  BY Zenon, <1>1, <1>5, CannotDrawKeeps DEF Unlock
<1>. QED BY Zenon, <1>3, <1>4, <1>5 DEF NoStoredKey, Proceed, Persist, Finish, Goto, WithSave, WithAt

\* Under the mutex a join finds a key made meanwhile, makes one, or looks in storage.
LEMMA CreateKeyKeeps ==
    ASSUME KeysInv, NEW t \in Threads, CreateKey(t)
    PROVE  KeysInv'
<1>. DEFINE f == thread[t]
<1>1. /\ f.at = "create" /\ lock = NoThread
      /\ UNCHANGED <<stored, tracked, master, online, token, gone, held, known, livekit, config, crashes>>
  BY Zenon DEF CreateKey, At, input
<1>2. f # Idle /\ FrameOK(f, t, lock, live, drawn) /\ IsRecord(f, FrameFields) /\ f.op = "join"
  <2>1. f # Idle /\ FrameOK(f, t, lock, live, drawn) /\ IsRecord(f, FrameFields)
    BY Zenon, <1>1, Active DEF KeysInv
  <2>. QED BY Zenon, <1>1, <2>1 DEF FrameOK, Serves, Saving, Loading, Loaded
<1>3. ASSUME NEW g, FrameOK(g, t, lock', live, drawn), g.op = f.op, Going(f, g), Follows(f, g),
             thread' = [thread EXCEPT ![t] = g], lock' = t, UNCHANGED <<keys, missed>>,
             StepOK(f) /\ LatestOK => StepOK(g)
      PROVE  KeysInv'
  <2>1. UNCHANGED <<storedKey, storedIndex, live, known>>
    BY Zenon, <1>1, <1>3 DEF keys, stored
  <2>2. /\ storedIndex' = NoKey \/ storedIndex' \in Nat
        /\ storedKey' # NoKey => storedKey'.number \in Nat /\ storedKey'.number <= drawn
    BY Zenon, <2>1 DEF KeysInv, KeysOK
  <2>3. UNCHANGED <<keys, tracked, master, clients, livekit, config, crashes>>
    BY Zenon, <1>1, <1>3 DEF clients, sent
  <2>4. ASSUME thread'[t] = g, StepOK(g) PROVE StepOK(thread[t])'
    BY Zenon, <1>1, <2>1, <2>4 DEF StepOK, Saved, Cleared, BlobOf, SlotOf, Expires, Newest, NeverRestarted
  <2>5. LatestOK => LatestOK'
    BY Zenon, <1>1, <2>1 DEF LatestOK, Newest, NeverRestarted
  <2>. QED BY Zenon, <1>1, <1>2, <1>3, <2>2, <2>3, <2>4, <2>5, WriteKeeps
<1>4. CASE /\ live # NoKey /\ lock' = t /\ UNCHANGED <<keys, missed>>
           /\ thread' = [thread EXCEPT ![t] =
                 WithSave(f, IF master = NoMaster THEN "issue" ELSE "set_key", live, "issue")]
  <2>. DEFINE a == IF master = NoMaster THEN "issue" ELSE "set_key"
              g == WithSave(f, a, live, "issue")
  <2>1. /\ Becomes(g, f, a, live, "issue") /\ live \in Keys /\ live.number <= drawn
        /\ a = "issue" \/ (a = "set_key" /\ master # NoMaster)
    BY Zenon, <1>2, <1>4, FrameUpdates DEF KeysInv, KeysOK
  <2>2. thread' = [thread EXCEPT ![t] = g]
    BY Zenon, <1>4
  <2>. HIDE DEF g, a
  <2>3. FrameOK(g, t, lock', live, drawn) /\ g.op = f.op
    BY Zenon, <1>1, <1>2, <2>1 DEF FrameOK, Becomes, Serves, Continues, Announcing, Keyed, Loading, Loaded, Saving
  <2>4. Going(f, g) /\ Follows(f, g)
    BY Zenon, <1>1, <1>2, <2>1 DEF Going, Follows, Becomes, Announcing, Saving, Owes
  <2>5. ASSUME StepOK(f), LatestOK PROVE StepOK(g)
    BY Zenon, <1>1, <1>4, <2>1, <2>5 DEF StepOK, Becomes, Loading, Loaded, Saving
  <2>. QED BY Zenon, <1>3, <1>4, <2>2, <2>3, <2>4, <2>5
<1>5. CASE /\ lock' = t /\ Draw(FirstKey) /\ missed' = tracked
           /\ thread' = [thread EXCEPT ![t] =
                 WithSave(f, IF master = NoMaster THEN "issue" ELSE "set_key", FirstKey, "issue")]
  <2>1. FirstKey \in Keys /\ FirstKey.number = drawn + 1 /\ live' = FirstKey /\ drawn' = drawn + 1
    BY Zenon, <1>5, DrawnKeys DEF Draw
  <2>. DEFINE k == FirstKey
              a == IF master = NoMaster THEN "issue" ELSE "set_key"
  <2>2. thread' = [thread EXCEPT ![t] = WithSave(f, a, k, "issue")] /\ lock' = t /\ missed' = tracked
    BY Zenon, <1>5
  <2>3. a = IF master = NoMaster THEN "issue" ELSE "set_key"
    BY Zenon
  <2>4. k \in Keys /\ k.number = drawn + 1 /\ live' = k
    BY Zenon, <2>1
  <2>. HIDE DEF k, a
  <2>. QED BY Zenon, <1>1, <1>2, <2>1, <2>2, <2>3, <2>4, DrawKeeps
<1>6. CASE CannotDraw(t) /\ missed' = missed
  <2>1. UNCHANGED <<keys, stored, tracked, master, clients, livekit, config, crashes>> /\ lock' = lock
    BY Zenon, <1>1, <1>6 DEF clients, sent, CannotDraw
  <2>. QED BY Zenon, <1>1, <1>6, <2>1, CannotDrawKeeps DEF CannotDraw, Finish, Goto
<1>7. CASE /\ live = NoKey /\ lock' = t /\ UNCHANGED <<keys, missed>>
           /\ thread' = [thread EXCEPT ![t] = WithAt(f, "load_key")]
  <2>. DEFINE g == WithAt(f, "load_key")
  <2>1. Becomes(g, f, "load_key", f.key, f.then)
    BY Zenon, <1>2, FrameUpdates
  <2>. HIDE DEF g
  <2>3. FrameOK(g, t, lock', live, drawn) /\ g.op = f.op
    BY Zenon, <1>1, <1>2, <1>7, <2>1 DEF FrameOK, Becomes, Serves, Continues, Announcing, Keyed, Loading, Loaded, Saving
  <2>4. Going(f, g) /\ Follows(f, g)
    BY Zenon, <1>1, <1>2, <2>1 DEF Going, Follows, Becomes, Announcing, Saving, Owes
  <2>5. ASSUME StepOK(f), LatestOK PROVE StepOK(g)
    BY Zenon, <1>1, <1>7, <2>1, <2>5 DEF StepOK, Becomes, Loading, Loaded, Saving
  <2>. QED BY Zenon, <1>3, <1>7, <2>3, <2>4, <2>5 DEF g
<1>. QED BY Zenon, <1>4, <1>5, <1>6, <1>7 DEF CreateKey, Lock, Proceed, Persist, Goto, WithSave, WithAt

\* The key that was loaded takes effect.
LEMMA AdoptKeyKeeps ==
    ASSUME KeysInv, NEW t \in Threads, AdoptKey(t)
    PROVE  KeysInv'
<1>. DEFINE f == thread[t]
            n == IF f.op = "join" THEN "issue" ELSE "register"
            a == IF master = NoMaster THEN n ELSE "set_key"
            g == WithSave(f, a, f.key, n)
<1>1. /\ f.at = "adopt" /\ live' = f.key /\ missed' = tracked
      /\ thread' = [thread EXCEPT ![t] = g]
      /\ UNCHANGED <<drawn, storedKey, storedIndex, lock, tracked, master, online, token, gone, held, known,
                     room, arriving, config, crashes>>
  BY Zenon DEF AdoptKey, At, Persist, Goto, WithSave, stored, livekit, input
<1>2. f # Idle /\ FrameOK(f, t, lock, live, drawn) /\ IsRecord(f, FrameFields) /\ t \in config.threads
  BY Zenon, <1>1, Active DEF KeysInv
<1>3. /\ f.key \in Keys /\ f.key.number <= drawn /\ f.key # NoKey /\ lock \in {NoThread, t}
      /\ drawn \in Nat /\ drawn <= drawn
  <2>1. f.key \in Keys /\ f.key.number <= drawn
    BY Zenon, <1>1, <1>2 DEF FrameOK, Keyed, Loaded
  <2>2. f.key # NoKey
    BY Zenon, <2>1, NoneAssumption DEF Keys
  <2>3. lock \in {NoThread, t}
    <3>1. f.op = "join" \/ f.op = "restore"
      BY Zenon, <1>1, <1>2 DEF FrameOK, Serves, Saving
    <3>. QED BY Zenon, <1>1, <1>2, <3>1 DEF FrameOK, Loading, Loaded, KeysInv, ThreadsOK, Restores, Alone
  <2>4. drawn \in Nat
    BY Zenon DEF KeysInv, KeysOK
  <2>5. drawn <= drawn
    BY <2>4
  <2>. QED BY Zenon, <2>1, <2>2, <2>3, <2>4, <2>5
<1>4. /\ Becomes(g, f, a, f.key, n)
      /\ (n = "issue" /\ f.op = "join") \/ (n = "register" /\ f.op # "join")
      /\ (a = n /\ master = NoMaster) \/ (a = "set_key" /\ master # NoMaster)
  <2>1. Becomes(g, f, a, f.key, n)
    BY Zenon, <1>2, FrameUpdates
  <2>2. (n = "issue" /\ f.op = "join") \/ (n = "register" /\ f.op # "join")
    BY Zenon
  <2>3. (a = n /\ master = NoMaster) \/ (a = "set_key" /\ master # NoMaster)
    BY Zenon
  <2>. QED BY Zenon, <2>1, <2>2, <2>3
<1>. HIDE DEF g, a, n
<1>5. FrameOK(g, t, lock', live', drawn') /\ g.op = f.op
  BY Zenon, <1>1, <1>2, <1>3, <1>4 DEF FrameOK, Becomes, Serves, Continues, Announcing, Keyed, Loading, Loaded, Saving
<1>6. ThreadsOK' /\ thread'[t] = g /\ \A x \in Threads \ {t} : thread'[x] = thread[x]
  <2>1. ThreadsOK /\ config' = config /\ crashes' = crashes /\ drawn' = drawn /\ lock' = lock /\ online' = online
    BY Zenon, <1>1 DEF KeysInv
  <2>2. g.op = "restore" => Restores(t)
    BY Zenon, <1>2, <1>5 DEF Restores
  <2>. QED BY Zenon, <1>1, <1>2, <1>3, <1>5, <2>1, <2>2, ThreadsKeep
<1>7. KeysOK' /\ MasterOK'
  <2>1. MasterOK'
    BY Zenon, <1>1, MasterKeeps DEF KeysInv
  <2>. QED BY Zenon, <1>1, <1>3, <2>1 DEF KeysInv, KeysOK
<1>8. Converging'
  BY Zenon, <1>1 DEF Converging
<1>9. StorageOK'
  <2>1. ASSUME StepOK(f), LatestOK PROVE StepOK(thread[t])' /\ LatestOK'
    <3>1. live' # NoKey /\ master # NoMaster /\ a = "set_key" /\ Newest(f.key.number)
      BY Zenon, <1>1, <1>3, <1>4, <2>1 DEF StepOK, Loaded
    <3>2. StepOK(thread[t])'
      BY Zenon, <1>1, <1>4, <1>6, <3>1 DEF StepOK, Becomes, Cleared, Saving, Loading, Loaded
    <3>3. LatestOK'
      BY Zenon, <1>1, <2>1, <3>1 DEF LatestOK, Newest, NeverRestarted
    <3>. QED BY Zenon, <3>2, <3>3
  <2>. QED BY Zenon, <1>1, <1>2, <2>1, StorageKeeps DEF KeysInv
<1>10. DeparturesOK'
  <2>. SUFFICES ASSUME (Serial /\ NeverRestarted)' PROVE FALSE
    BY Zenon DEF DeparturesOK
  <2>1. Serial /\ NeverRestarted
    BY Zenon, <1>1 DEF Serial, OneThread, Without, NeverRestarted
  <2>2. StepOK(f)
    BY Zenon, <1>2, <2>1 DEF KeysInv, StorageOK
  <2>. QED BY Zenon, <1>1, <2>1, <2>2 DEF StepOK, Loaded
<1>. QED BY Zenon, <1>6, <1>7, <1>8, <1>9, <1>10 DEF KeysInv

\* clear_channel drops the key from memory, then from storage.
LEMMA ClearChannelKeeps ==
    ASSUME KeysInv, NEW t \in Threads, ClearChannel(t)
    PROVE  KeysInv'
<1>. DEFINE f == thread[t]
            g == WithAt(f, "del_key")
<1>1. /\ f.at = "clear" /\ live' = NoKey /\ lock = NoThread /\ lock' = t
      /\ thread' = [thread EXCEPT ![t] = g]
      /\ UNCHANGED <<drawn, storedKey, storedIndex, tracked, master, online, token, gone, held, known, missed,
                     room, arriving, config, crashes>>
  BY Zenon DEF ClearChannel, At, Lock, Proceed, Goto, WithAt, stored, rest, livekit, input, clients, sent
<1>2. f # Idle /\ FrameOK(f, t, lock, live, drawn) /\ IsRecord(f, FrameFields) /\ t \in config.threads
  BY Zenon, <1>1, Active DEF KeysInv
<1>3. Becomes(g, f, "del_key", f.key, f.then)
  BY Zenon, <1>2, FrameUpdates
<1>. HIDE DEF g
<1>4. FrameOK(g, t, lock', live', drawn') /\ g.op = "left"
  BY Zenon, <1>1, <1>2, <1>3 DEF FrameOK, Becomes, Serves, Continues, Announcing, Keyed, Loading, Loaded, Saving
<1>5. ThreadsOK' /\ thread'[t] = g /\ \A x \in Threads \ {t} : thread'[x] = thread[x]
  <2>1. ThreadsOK /\ config' = config /\ crashes' = crashes /\ drawn' = drawn /\ drawn \in Nat
    BY Zenon, <1>1 DEF KeysInv, KeysOK
  <2>2. drawn <= drawn'
    BY <2>1
  <2>3. g.op # "restore" /\ lock \in {NoThread, t}
    BY Zenon, <1>1, <1>4
  <2>. QED BY Zenon, <1>1, <1>2, <1>4, <2>1, <2>2, <2>3, ThreadsKeep
<1>6. KeysOK' /\ MasterOK'
  <2>1. MasterOK'
    BY Zenon, <1>1, MasterKeeps DEF KeysInv
  <2>. QED BY Zenon, <1>1, <2>1 DEF KeysInv, KeysOK
<1>7. Converging'
  BY Zenon, <1>1 DEF Converging
<1>8. StorageOK'
  <2>1. StepOK(thread[t])'
    BY Zenon, <1>1, <1>3, <1>5 DEF StepOK, Becomes, Saved, Saving, Loading, Loaded
  <2>2. LatestOK => LatestOK'
    BY Zenon, <1>1 DEF LatestOK, Newest, NeverRestarted
  <2>. QED BY Zenon, <1>1, <1>2, <2>1, <2>2, StorageKeeps DEF KeysInv
<1>9. DeparturesOK'
  <2>. SUFFICES ASSUME (Serial /\ Without({"random"}) /\ NeverRestarted)'
                PROVE  /\ gone' \cap tracked' = {}
                       /\ \A x \in config'.threads : thread'[x].op # "join"
    BY Zenon, <1>1 DEF DeparturesOK
  <2>1. Serial /\ Without({"random"}) /\ NeverRestarted
    BY Zenon, <1>1 DEF Serial, OneThread, Without, NeverRestarted
  <2>2. \A x \in config.threads : x = t
    BY Zenon, <1>2, <2>1 DEF Serial, OneThread
  <2>. QED BY Zenon, <1>1, <1>4, <1>5, <2>1, <2>2 DEF KeysInv, DeparturesOK
<1>. QED BY Zenon, <1>5, <1>6, <1>7, <1>8, <1>9 DEF KeysInv

-----------------------------------------------------------------------------
(* The steps that send a key.                                              *)

\* Nobody is sent anything but the live key, and nobody who left is sent it.
Tells ==
    /\ \A u \in Users : \A k \in known'[u] : k \in known[u] \/ (live # NoKey /\ k = live.number)
    /\ Without({"random"}) /\ NeverRestarted => \A u \in gone : known'[u] = known[u]

\* What is left to show of a step that sends keys.
LEMMA TellKeeps ==
    ASSUME KeysInv, NEW t \in Threads, thread[t] # Idle,
           NEW g, thread' = [thread EXCEPT ![t] = g],
           UNCHANGED <<keys, stored, tracked, master, online, gone, config, crashes>>,
           lock' = lock \/ lock \in {NoThread, t},
           g = Idle \/ (FrameOK(g, t, lock', live, drawn) /\ g.op # "restore"),
           KeysOK', thread'[t] = g /\ (\A x \in Threads \ {t} : thread'[x] = thread[x]) => Converging',
           Serial => Tells, Follows(thread[t], g), g.at \notin Loaded,
           Serial /\ StepOK(thread[t]) => Saved /\ StepOK(g)
    PROVE  KeysInv'
<1>1. /\ UNCHANGED <<live, drawn, storedKey, storedIndex, tracked, master, online, gone, config, crashes>>
      /\ t \in config.threads
  <2>1. t \in config.threads
    BY Zenon DEF KeysInv, ThreadsOK, FrameOK
  <2>. QED BY Zenon, <2>1 DEF keys, stored
<1>2. ThreadsOK' /\ thread'[t] = g /\ \A x \in Threads \ {t} : thread'[x] = thread[x]
  <2>1. ThreadsOK /\ config' = config /\ crashes' = crashes /\ drawn \in Nat /\ drawn' = drawn /\ live' = live
    BY Zenon, <1>1 DEF KeysInv, KeysOK
  <2>2. drawn <= drawn'
    BY <2>1
  <2>3. g = Idle \/ FrameOK(g, t, lock', live', drawn')
    BY Zenon, <1>1
  <2>. QED BY Zenon, <2>1, <2>2, <2>3, ThreadsKeep
<1>3. Converging' /\ MasterOK'
  BY Zenon, <1>1, <1>2, MasterKeeps DEF KeysInv
<1>4. StorageOK'
  <2>. SUFFICES ASSUME Serial, StepOK(thread[t]), LatestOK PROVE StepOK(thread[t])' /\ LatestOK'
    BY Zenon, <1>1, StorageKeeps DEF KeysInv
  <2>1. StepOK(thread[t])'
    <3>1. StepOK(g)
      BY Zenon
    <3>. QED BY Zenon, <1>1, <1>2, <3>1 DEF StepOK, Saved, Cleared, BlobOf, SlotOf, Expires, NeverRestarted
  <2>2. ASSUME NEW n \in Nat, Newest(n), live # NoKey => live.number <= n
        PROVE  Newest(n)'
    BY Zenon, <2>2 DEF Newest, Tells
  <2>3. live # NoKey => live.number \in Nat /\ live.number <= live.number
    BY DEF KeysInv, KeysOK, Keys
  <2>4. live' # NoKey => Newest(live.number)'
    <3>1. live # NoKey => \A k : k = live.number => Newest(k)'
      BY Zenon, <2>2, <2>3 DEF LatestOK
    <3>. QED BY Zenon, <1>1, <3>1 DEF Newest
  <2>5. CanUnseal(master, storedKey)' => Newest(storedKey.number)'
    <3>1. storedKey # NoKey => storedKey.number \in Nat
      BY Zenon DEF KeysInv, KeysOK
    <3>2. CanUnseal(master, storedKey) /\ live # NoKey => storedKey.number = live.number
      <4>1. Saved
        BY Zenon
      <4>2. CanUnseal(master, storedKey) /\ live # NoKey => storedKey = Seal(master, live.number)
        BY Zenon, <4>1 DEF Saved, CanUnseal, BlobOf
      <4>. QED BY <4>2 DEF Seal
    <3>3. CanUnseal(master, storedKey) => \A k : k = storedKey.number => Newest(k)'
      BY Zenon, <2>2, <2>3, <3>1, <3>2 DEF LatestOK, CanUnseal
    <3>. QED BY Zenon, <1>1, <3>3 DEF Newest, CanUnseal
  <2>6. LatestOK'
    BY Zenon, <1>1, <2>4, <2>5 DEF LatestOK, NeverRestarted
  <2>. QED BY Zenon, <2>1, <2>6
<1>5. DeparturesOK'
  <2>. SUFFICES ASSUME (Serial /\ Without({"random"}) /\ NeverRestarted)'
                PROVE  /\ gone \cap tracked = {}
                       /\ \A x \in config.threads :
                            /\ thread'[x] # Idle /\ thread'[x].op = "join" => thread'[x].user \notin gone
                            /\ \A u \in gone : live # NoKey => live.number \notin known'[u] \/ Owes(thread'[x], u)
    BY Zenon, <1>1 DEF DeparturesOK, Owes
  <2>1. Serial /\ Without({"random"}) /\ NeverRestarted
    BY Zenon, <1>1 DEF Serial, OneThread, Without, NeverRestarted
  <2>2. \A x \in config.threads : x = t
    BY Zenon, <1>1, <2>1 DEF Serial, OneThread
  <2>. QED BY Zenon, <1>1, <1>2, <2>1, <2>2 DEF KeysInv, DeparturesOK, Follows, Tells
<1>. QED BY Zenon, <1>2, <1>3, <1>4, <1>5 DEF KeysInv

\* A key update reaches those of us who are connected.
LEMMA SendFacts ==
    ASSUME KeysInv, live # NoKey, NEW us, us \subseteq tracked, Send(us, live),
           UNCHANGED <<keys, stored, tracked, gone, token, room>>
    PROVE  /\ KeysOK'
           /\ \A u \in us \cap online \cap room : held'[u] = live
           /\ \A u \in Users \ us : held'[u] = held[u]
           /\ missed' = missed \ (us \cap online)
           /\ \A u \in Users : \A k \in known'[u] : k \in known[u] \/ k = live.number
           /\ \A u \in Users \ tracked : known'[u] = known[u]
<1>1. us \subseteq Users /\ live \in Keys /\ live.number \in 0..drawn
  <2>1. us \subseteq Users /\ live \in Keys /\ live.number <= drawn /\ drawn \in Nat
    BY Zenon DEF KeysInv, KeysOK
  <2>. QED BY <2>1 DEF Keys
<1>2. /\ held' = [u \in Users |-> IF u \in (us \cap online) \cap room THEN live ELSE held[u]]
      /\ known' = [u \in Users |-> IF u \in us \cap online THEN known[u] \cup {live.number} ELSE known[u]]
      /\ missed' = missed \ (us \cap online)
  BY Zenon DEF Send
<1>3. \A u \in Users : \/ known'[u] = known[u] \cup {live.number} /\ u \in us /\ u \in online
                       \/ known'[u] = known[u] /\ ~(u \in us /\ u \in online)
  BY Zenon, <1>2
<1>4. \A u \in Users : \/ held'[u] = live /\ u \in us /\ u \in online /\ u \in room
                       \/ held'[u] = held[u] /\ ~(u \in us /\ u \in online /\ u \in room)
  BY Zenon, <1>2
<1>5. UNCHANGED <<live, drawn, storedKey, storedIndex>> /\ DOMAIN held' = Users /\ DOMAIN known' = Users
  BY Zenon, <1>2 DEF keys, stored
<1>6. ASSUME NEW u \in Users
      PROVE  /\ known'[u] \subseteq 0..drawn /\ Sent(token[u], known'[u]) /\ Sent(held'[u], known'[u])
             /\ u \in room => held'[u] # NoKey
  <2>1. /\ known[u] \subseteq 0..drawn /\ Sent(token[u], known[u]) /\ Sent(held[u], known[u])
        /\ u \in room => held[u] # NoKey
    BY Zenon DEF KeysInv, KeysOK
  <2>2. known'[u] \subseteq 0..drawn /\ known[u] \subseteq known'[u]
    BY Zenon, <1>1, <1>3, <2>1
  <2>3. Sent(token[u], known'[u])
    BY Zenon, <2>1, <2>2 DEF Sent
  <2>4. Sent(held'[u], known'[u])
    BY Zenon, <1>1, <1>3, <1>4, <2>1, <2>2 DEF Sent
  <2>. QED BY Zenon, <1>4, <2>1, <2>2, <2>3, <2>4
<1>7. KeysOK'
  BY Zenon, <1>5, <1>6 DEF KeysInv, KeysOK
<1>8. \A u \in us \cap online \cap room : held'[u] = live
  BY Zenon, <1>1, <1>4
<1>9. \A u \in Users \ tracked : known'[u] = known[u]
  BY Zenon, <1>3
<1>10. \A u \in Users \ us : held'[u] = held[u]
  BY Zenon, <1>4
<1>11. \A u \in Users : \A k \in known'[u] : k \in known[u] \/ k = live.number
  BY Zenon, <1>3
<1>. QED BY Zenon, <1>2, <1>7, <1>8, <1>9, <1>10, <1>11

\* publish_voice_key_update at the end of a rotation or a recovery.
LEMMA AnnounceKeeps ==
    ASSUME KeysInv, NEW t \in Threads, Announce(t)
    PROVE  KeysInv'
<1>. DEFINE f == thread[t]
<1>1. /\ f.at = "announce"
      /\ UNCHANGED <<keys, stored, tracked, master, online, token, gone, room, arriving, config, crashes>>
  BY Zenon DEF Announce, At, livekit, input
<1>2. f # Idle /\ FrameOK(f, t, lock, live, drawn) /\ IsRecord(f, FrameFields) /\ t \in config.threads
  BY Zenon, <1>1, Active DEF KeysInv
<1>3. lock = t /\ f.key = live /\ live \in Keys /\ live # NoKey
  <2>1. lock = t /\ f.key = live /\ live \in Keys
    BY Zenon, <1>1, <1>2 DEF FrameOK, Announcing, Keyed
  <2>. QED BY Zenon, <2>1, NoneAssumption DEF Keys
<1>4. PICK g : /\ thread' = [thread EXCEPT ![t] = g]
               /\ \/ g = Idle /\ f.op = "left"
                  \/ f.op = "join" /\ lock' = lock /\ Becomes(g, f, "issue", f.key, f.then)
  <2>1. f.op = "join" \/ f.op = "left"
    BY Zenon, <1>1, <1>2 DEF FrameOK, Serves, Saving, Loading, Loaded
  <2>2. CASE f.op = "join"
    <3>1. thread' = [thread EXCEPT ![t] = WithAt(f, "issue")] /\ lock' = lock
      BY Zenon, <2>2 DEF Announce, Proceed, Goto, WithAt
    <3>2. Becomes(WithAt(f, "issue"), f, "issue", f.key, f.then)
      BY Zenon, <1>2, FrameUpdates
    <3>. QED BY Zenon, <2>2, <3>1, <3>2
  <2>3. CASE f.op = "left"
    <3>1. f.op # "join"
      BY Zenon, <2>3
    <3>2. thread' = [thread EXCEPT ![t] = Idle]
      BY Zenon, <3>1 DEF Announce, Finish, Goto
    <3>. QED BY Zenon, <2>3, <3>2
  <2>. QED BY Zenon, <2>1, <2>2, <2>3
<1>5. g = Idle \/ (FrameOK(g, t, lock', live, drawn) /\ g.op # "restore")
  BY Zenon, <1>1, <1>2, <1>4 DEF FrameOK, Becomes, Serves, Continues, Announcing, Keyed, Loading, Loaded, Saving
<1>6. Follows(f, g) /\ g.at \notin Loaded
  BY Zenon, <1>1, <1>2, <1>4, IdleFacts DEF Follows, Becomes, Owes, Loaded
<1>7. ASSUME StepOK(f) PROVE Saved /\ StepOK(g)
  BY Zenon, <1>1, <1>4, <1>7, IdleFacts DEF StepOK, Becomes, Loading, Loaded, Saving
<1>8. CASE Send(tracked, live)
  <2>1. /\ KeysOK'
        /\ \A u \in tracked \cap online \cap room : held'[u] = live
        /\ \A u \in Users : \A k \in known'[u] : k \in known[u] \/ k = live.number
        /\ \A u \in Users \ tracked : known'[u] = known[u]
    BY Zenon, <1>1, <1>3, <1>8, SendFacts
  <2>2. Converging'
    <3>1. live' = live
      BY Zenon, <1>1 DEF keys
    <3>. QED BY Zenon, <1>1, <2>1, <3>1 DEF Converging
  <2>3. Serial => Tells
    <3>1. Serial /\ Without({"random"}) /\ NeverRestarted => gone \subseteq Users \ tracked
      BY Zenon DEF KeysInv, KeysOK, DeparturesOK
    <3>. QED BY Zenon, <1>3, <2>1, <3>1 DEF Tells
  <2>. QED BY Zenon, <1>1, <1>2, <1>3, <1>4, <1>5, <1>6, <1>7, <2>1, <2>2, <2>3, TellKeeps
<1>9. CASE missed' = tracked /\ UNCHANGED <<held, known>>
  <2>1. UNCHANGED <<live, drawn, storedKey, storedIndex>>
    BY Zenon, <1>1 DEF keys, stored
  <2>2. KeysOK'
    BY Zenon, <1>1, <1>9, <2>1, NumbersKeep DEF KeysInv
  <2>3. Converging'
    BY Zenon, <1>1, <1>9 DEF Converging
  <2>4. Tells
    BY Zenon, <1>9 DEF Tells
  <2>. QED BY Zenon, <1>1, <1>2, <1>3, <1>4, <1>5, <1>6, <1>7, <2>2, <2>3, <2>4, TellKeeps
<1>. QED BY Zenon, <1>3, <1>8, <1>9 DEF Announce

\* resync_to_user sends the live key once more.
LEMMA ResendKeeps ==
    ASSUME KeysInv, NEW t \in Threads, Resend(t)
    PROVE  KeysInv'
<1>. DEFINE f == thread[t]
<1>1. /\ f.at = "resend" /\ lock' = lock /\ thread' = [thread EXCEPT ![t] = Idle]
      /\ UNCHANGED <<keys, stored, tracked, master, online, token, gone, room, arriving, config, crashes>>
  BY Zenon DEF Resend, At, Finish, Goto, livekit, input
<1>2. f # Idle /\ FrameOK(f, t, lock, live, drawn) /\ IsRecord(f, FrameFields) /\ t \in config.threads
  BY Zenon, <1>1, Active DEF KeysInv
<1>3. Follows(f, Idle) /\ Idle.at \notin Loaded /\ ~Announcing(f)
  BY Zenon, <1>1, IdleFacts DEF Follows, Owes, Loaded, Announcing, Saving
<1>4. ASSUME StepOK(f) PROVE Saved /\ StepOK(Idle)
  BY Zenon, <1>1, <1>4, IdleFacts DEF StepOK, Loading, Loaded, Saving
<1>5. UNCHANGED <<live, drawn, storedKey, storedIndex>>
  BY Zenon, <1>1 DEF keys, stored
<1>6. ASSUME NEW u, u # f.user, Awaits(u), \A x \in Threads \ {t} : thread'[x] = thread[x]
      PROVE  Awaits(u)'
  <2>1. PICK x \in Threads : \/ Announcing(thread[x])
                             \/ thread[x].at \in {"resync", "resend"} /\ thread[x].user = u
    BY Zenon, <1>6 DEF Awaits
  <2>2. x # t
    BY Zenon, <1>3, <1>6, <2>1
  <2>. QED BY Zenon, <1>6, <2>1, <2>2 DEF Awaits, Announcing
<1>7. CASE live = NoKey /\ UNCHANGED sent
  <2>1. KeysOK'
    BY Zenon, <1>1, <1>5, <1>7, NumbersKeep DEF KeysInv, sent
  <2>2. Converging'
    BY Zenon, <1>5, <1>7 DEF Converging
  <2>3. Tells
    BY Zenon, <1>7 DEF Tells, sent
  <2>. QED BY Zenon, <1>1, <1>2, <1>3, <1>4, <2>1, <2>2, <2>3, TellKeeps
<1>8. CASE live # NoKey /\ Send({f.user} \cap tracked, live)
  <2>. DEFINE us == {f.user} \cap tracked
  <2>1. us \subseteq tracked /\ (\A u : u \in us <=> u = f.user /\ u \in tracked) /\ Send(us, live)
    BY Zenon, <1>8
  <2>. HIDE DEF us
  <2>2. /\ KeysOK'
        /\ \A u \in us \cap online \cap room : held'[u] = live
        /\ \A u \in Users \ us : held'[u] = held[u]
        /\ missed' = missed \ (us \cap online)
        /\ \A u \in Users : \A k \in known'[u] : k \in known[u] \/ k = live.number
        /\ \A u \in Users \ tracked : known'[u] = known[u]
    BY Zenon, <1>1, <1>8, <2>1, SendFacts
  <2>3. ASSUME \A x \in Threads \ {t} : thread'[x] = thread[x]
        PROVE  Converging'
    <3>. SUFFICES ASSUME NEW u \in (tracked \cap room \cap online) \ (arriving \cup missed')
                  PROVE  held'[u] = live' \/ Awaits(u)'
      BY Zenon, <1>1 DEF Converging
    <3>1. CASE u \in us
      BY Zenon, <1>5, <2>2, <3>1
    <3>2. CASE u \notin us
      <4>1. u # f.user /\ u \notin missed /\ u \in Users
        BY Zenon, <2>1, <2>2, <3>2 DEF KeysInv, KeysOK
      <4>2. held[u] = live \/ Awaits(u)
        BY Zenon, <1>8, <4>1 DEF KeysInv, Converging
      <4>. QED BY Zenon, <1>5, <1>6, <2>2, <2>3, <3>2, <4>1, <4>2
    <3>. QED BY Zenon, <3>1, <3>2
  <2>4. Serial => Tells
    <3>1. Serial /\ Without({"random"}) /\ NeverRestarted => gone \subseteq Users \ tracked
      BY Zenon DEF KeysInv, KeysOK, DeparturesOK
    <3>. QED BY Zenon, <1>8, <2>2, <3>1 DEF Tells
  <2>. QED BY Zenon, <1>1, <1>2, <1>3, <1>4, <2>2, <2>3, <2>4, TellKeeps
<1>9. CASE missed' = missed \cup {f.user} /\ UNCHANGED <<held, known>>
  <2>1. KeysOK'
    BY Zenon, <1>1, <1>5, <1>9, NumbersKeep DEF KeysInv
  <2>2. ASSUME \A x \in Threads \ {t} : thread'[x] = thread[x]
        PROVE  Converging'
    <3>. SUFFICES ASSUME live # NoKey, NEW u \in (tracked \cap room \cap online) \ (arriving \cup missed')
                  PROVE  held'[u] = live' \/ Awaits(u)'
      BY Zenon, <1>1, <1>5 DEF Converging
    <3>1. u # f.user /\ (held[u] = live \/ Awaits(u))
      BY Zenon, <1>9 DEF KeysInv, Converging
    <3>. QED BY Zenon, <1>5, <1>6, <1>9, <2>2, <3>1
  <2>3. Tells
    BY Zenon, <1>9 DEF Tells
  <2>. QED BY Zenon, <1>1, <1>2, <1>3, <1>4, <2>1, <2>2, <2>3, TellKeeps
<1>. QED BY Zenon, <1>7, <1>8, <1>9 DEF Resend

\* The reply of the join carries the key.
LEMMA IssueTokenKeeps ==
    ASSUME KeysInv, NEW t \in Threads, IssueToken(t)
    PROVE  KeysInv'
<1>. DEFINE f == thread[t]
            w == f.user
<1>1. /\ f.at = "issue" /\ thread' = [thread EXCEPT ![t] = Idle] /\ (lock' = lock \/ lock \in {NoThread, t})
      /\ token' = [token EXCEPT ![w] = f.key]
      /\ known' = [known EXCEPT ![w] = known[w] \cup {f.key.number}]
      /\ UNCHANGED <<keys, stored, tracked, master, online, held, missed, gone, room, arriving, config, crashes>>
  BY Zenon DEF IssueToken, At, Finish, Goto, Unlock, livekit, input
<1>2. f # Idle /\ FrameOK(f, t, lock, live, drawn) /\ IsRecord(f, FrameFields) /\ t \in config.threads
  BY Zenon, <1>1, Active DEF KeysInv
<1>3. f.op = "join" /\ w \in Users /\ f.key \in Keys /\ f.key.number <= drawn
  <2>1. f.op = "join"
    BY Zenon, <1>1, <1>2 DEF FrameOK, Serves, Saving, Loading, Loaded
  <2>. QED BY Zenon, <1>1, <1>2, <2>1 DEF FrameOK, Keyed
<1>4. Follows(f, Idle) /\ Idle.at \notin Loaded
  BY Zenon, <1>1, IdleFacts DEF Follows, Owes, Loaded
<1>5. ASSUME StepOK(f) PROVE Saved /\ StepOK(Idle)
  BY Zenon, <1>1, <1>5, IdleFacts DEF StepOK, Loading, Loaded, Saving
<1>6. UNCHANGED <<live, drawn, storedKey, storedIndex>>
  BY Zenon, <1>1 DEF keys, stored
<1>7. /\ known'[w] = known[w] \cup {f.key.number} /\ token'[w] = f.key
      /\ \A u \in Users \ {w} : known'[u] = known[u] /\ token'[u] = token[u]
      /\ DOMAIN known' = Users /\ DOMAIN token' = Users
  BY Zenon, <1>1, <1>3 DEF KeysInv, KeysOK
<1>8. KeysOK'
  <2>1. f.key.number \in 0..drawn
    BY <1>3 DEF KeysInv, KeysOK, Keys
  <2>2. ASSUME NEW u \in Users
        PROVE  known'[u] \subseteq 0..drawn /\ Sent(token'[u], known'[u]) /\ Sent(held[u], known'[u])
    <3>1. known[u] \subseteq 0..drawn /\ Sent(token[u], known[u]) /\ Sent(held[u], known[u])
      BY Zenon DEF KeysInv, KeysOK
    <3>2. CASE u = w
      <4>1. known'[u] \subseteq 0..drawn /\ known[u] \subseteq known'[u] /\ f.key.number \in known'[u]
        BY Zenon, <1>7, <2>1, <3>1, <3>2
      <4>. QED BY Zenon, <1>3, <1>7, <3>1, <3>2, <4>1 DEF Sent
    <3>3. CASE u # w
      BY Zenon, <1>7, <3>1, <3>3
    <3>. QED BY Zenon, <3>2, <3>3
  <2>. QED BY Zenon, <1>1, <1>6, <1>7, <2>2 DEF KeysInv, KeysOK
<1>9. ASSUME \A x \in Threads \ {t} : thread'[x] = thread[x], thread'[t] = Idle
      PROVE  Converging'
  <2>1. Going(thread[t], thread'[t])
    BY Zenon, <1>1, <1>9 DEF Going, Announcing, Saving
  <2>. QED BY Zenon, <1>1, <1>6, <1>9, <2>1, ConvergingKeeps DEF KeysInv
<1>10. Serial => Tells
  <2>. SUFFICES ASSUME Serial PROVE Tells
    BY Zenon
  <2>1. live # NoKey /\ f.key = live
    <3>1. StepOK(f)
      BY Zenon, <1>2 DEF KeysInv, StorageOK
    <3>. QED BY Zenon, <1>1, <3>1 DEF StepOK
  <2>2. \A u \in Users : \A k \in known'[u] : k \in known[u] \/ k = live.number
    BY Zenon, <1>7, <2>1
  <2>3. Without({"random"}) /\ NeverRestarted => w \notin gone /\ gone \subseteq Users
    BY Zenon, <1>2, <1>3 DEF KeysInv, KeysOK, DeparturesOK
  <2>. QED BY Zenon, <1>7, <2>1, <2>2, <2>3 DEF Tells
<1>. QED BY Zenon, <1>1, <1>2, <1>4, <1>5, <1>8, <1>9, <1>10, TellKeeps

-----------------------------------------------------------------------------
(* The ends of calls, and their beginnings.                                *)

\* clear_join_rotation_debounce.
LEMMA ForgetJoinsKeeps ==
    ASSUME KeysInv, NEW t \in Threads, ForgetJoins(t)
    PROVE  KeysInv'
<1>. DEFINE f == thread[t]
<1>1. /\ f.at = "forget" /\ thread' = [thread EXCEPT ![t] = Idle]
      /\ UNCHANGED <<keys, stored, lock, tracked, master, clients, livekit, config, crashes>>
  BY Zenon DEF ForgetJoins, At, Finish, Goto, input
<1>2. f # Idle
  BY Zenon, <1>1, Active DEF KeysInv
<1>3. Going(f, Idle) /\ Follows(f, Idle)
  BY Zenon, <1>1 DEF Going, Follows, Announcing, Saving, Owes
<1>4. ASSUME StepOK(f) PROVE StepOK(Idle)
  BY Zenon, <1>1, <1>4, IdleFacts DEF StepOK, Loading, Loaded, Saving
<1>. QED BY Zenon, <1>1, <1>2, <1>3, <1>4, MoveKeeps

\* The recovery ends: the participants that were listed are tracked again.
LEMMA RegisterKeeps ==
    ASSUME KeysInv, NEW t \in Threads, Register(t)
    PROVE  KeysInv'
<1>. DEFINE f == thread[t]
<1>1. /\ f.at = "register" /\ thread' = [thread EXCEPT ![t] = Idle] /\ tracked' = f.listed
      /\ UNCHANGED <<live, drawn, storedKey, storedIndex, lock, master, online, token, gone, held, known, missed,
                     room, arriving, config, crashes>>
  BY Zenon DEF Register, At, Finish, Goto, keys, stored, clients, sent, livekit, input
<1>2. f # Idle /\ FrameOK(f, t, lock, live, drawn) /\ t \in config.threads
  BY Zenon, <1>1, Active DEF KeysInv
<1>3. f.op = "restore" /\ f.listed \subseteq Users /\ Alone(t)
  <2>1. f.op = "restore"
    BY Zenon, <1>1, <1>2 DEF FrameOK, Serves, Saving, Loading, Loaded
  <2>. QED BY Zenon, <1>2, <2>1 DEF FrameOK, Restores, KeysInv, ThreadsOK
<1>4. ThreadsOK' /\ thread'[t] = Idle /\ \A x \in Threads \ {t} : thread'[x] = thread[x]
  <2>1. ThreadsOK /\ drawn \in Nat /\ drawn' = drawn /\ lock' = lock /\ live' = live
    BY Zenon, <1>1 DEF KeysInv, KeysOK
  <2>2. drawn <= drawn'
    BY <2>1
  <2>. QED BY Zenon, <1>1, <1>2, <2>1, <2>2, ThreadsKeep
<1>5. KeysOK' /\ MasterOK'
  <2>1. MasterOK'
    BY Zenon, <1>1, MasterKeeps DEF KeysInv
  <2>. QED BY Zenon, <1>1, <1>3, <2>1 DEF KeysInv, KeysOK
<1>6. Converging'
  BY Zenon, <1>1, <1>3 DEF Converging, Alone
<1>7. StorageOK'
  <2>1. ASSUME StepOK(f), LatestOK PROVE StepOK(thread[t])' /\ LatestOK'
    <3>1. Saved /\ Cleared
      BY Zenon, <1>1, <2>1 DEF StepOK, Saving
    <3>2. Saved' /\ Cleared'
      BY Zenon, <1>1, <3>1 DEF Saved, Cleared, BlobOf, SlotOf, Expires, NeverRestarted
    <3>3. StepOK(thread[t])'
      BY Zenon, <1>4, <3>2, IdleFacts DEF StepOK, Saving, Loading, Loaded
    <3>. QED BY Zenon, <1>1, <2>1, <3>3 DEF LatestOK, Newest, NeverRestarted
  <2>. QED BY Zenon, <1>1, <1>2, <2>1, StorageKeeps DEF KeysInv
<1>8. DeparturesOK'
  BY Zenon, <1>1, <1>3 DEF DeparturesOK, NeverRestarted, Alone
<1>. QED BY Zenon, <1>4, <1>5, <1>6, <1>7, <1>8 DEF KeysInv

\* The debt of nobody.
LEMMA IdleOwes == \A u : ~Owes(Idle, u)
BY Zenon, IdleFacts DEF Owes

\* What is left to show of the beginning of a call.
LEMMA StartKeeps ==
    ASSUME KeysInv, NEW t \in Threads, Start(t), NEW g, thread' = [thread EXCEPT ![t] = g],
           g = Idle \/ (FrameOK(g, t, lock, live, drawn) /\ g.op # "restore" /\ ~(g.at \in Saving \cup Loading
                          \cup {"announce", "issue", "del_key", "del_index"})),
           UNCHANGED <<keys, stored, lock, master, token, held, known, room, missed, config, crashes>>,
           tracked' \subseteq Users, gone' \subseteq Users,
           thread'[t] = g /\ (\A u : Awaits(u) => Awaits(u)') => Converging',
           gone \cap tracked = {} => gone' \cap tracked' = {},
           g # Idle /\ g.op = "join" => g.user \notin gone',
           \A u \in gone' : u \in gone \/ Owes(g, u)
    PROVE  KeysInv'
<1>1. /\ UNCHANGED <<live, drawn, storedKey, storedIndex, lock, master, token, held, known, room, missed, config, crashes>>
      /\ t \in config.threads /\ Up /\ thread[t] = Idle
  <2>1. thread[t].at = "idle" /\ t \in config.threads /\ Up
    BY Zenon DEF Start, At
  <2>2. thread[t] = Idle
    BY Zenon, <2>1, IdleFacts DEF KeysInv, ThreadsOK, FrameOK
  <2>. QED BY Zenon, <2>1, <2>2 DEF keys, stored
<1>2. ThreadsOK' /\ thread'[t] = g /\ \A x \in Threads \ {t} : thread'[x] = thread[x]
  <2>1. ThreadsOK /\ drawn \in Nat /\ drawn' = drawn /\ lock' = lock /\ live' = live /\ config' = config /\ crashes' = crashes
    BY Zenon, <1>1 DEF KeysInv, KeysOK
  <2>2. drawn <= drawn'
    BY <2>1
  <2>3. g = Idle \/ FrameOK(g, t, lock', live', drawn')
    BY Zenon, <2>1
  <2>. QED BY Zenon, <1>1, <2>1, <2>2, <2>3, ThreadsKeep
<1>3. KeysOK' /\ MasterOK'
  <2>1. MasterOK'
    BY Zenon, <1>1, MasterKeeps DEF KeysInv
  <2>. QED BY Zenon, <1>1, <2>1 DEF KeysInv, KeysOK
<1>4. Converging'
  <2>1. Going(thread[t], thread'[t])
    BY Zenon, <1>1, IdleFacts DEF Going
  <2>2. \A u : Awaits(u) => Awaits(u)'
    BY Zenon, <1>2, <2>1, AwaitsKeep
  <2>. QED BY Zenon, <1>2, <2>2
<1>5. StorageOK'
  <2>1. ASSUME StepOK(thread[t]), LatestOK PROVE StepOK(thread[t])' /\ LatestOK'
    <3>1. Saved /\ Cleared
      BY Zenon, <1>1, <2>1, IdleFacts DEF StepOK, Saving
    <3>2. Saved' /\ Cleared'
      BY Zenon, <1>1, <3>1 DEF Saved, Cleared, BlobOf, SlotOf, Expires, NeverRestarted
    <3>3. StepOK(thread[t])'
      BY Zenon, <1>2, <3>2, IdleFacts DEF StepOK, Saving, Loading, Loaded
    <3>. QED BY Zenon, <1>1, <2>1, <3>3 DEF LatestOK, Newest, NeverRestarted
  <2>. QED BY Zenon, <1>1, <2>1, StorageKeeps DEF KeysInv
<1>6. DeparturesOK'
  <2>. SUFFICES ASSUME (Serial /\ Without({"random"}) /\ NeverRestarted)'
                PROVE  /\ gone' \cap tracked' = {}
                       /\ \A x \in config.threads :
                            /\ thread'[x] # Idle /\ thread'[x].op = "join" => thread'[x].user \notin gone'
                            /\ \A u \in gone' : live # NoKey => live.number \notin known[u] \/ Owes(thread'[x], u)
    BY Zenon, <1>1 DEF DeparturesOK, Owes
  <2>1. Serial /\ Without({"random"}) /\ NeverRestarted
    BY Zenon, <1>1 DEF Serial, OneThread, Without, NeverRestarted
  <2>2. \A x \in config.threads : x = t
    BY Zenon, <1>1, <2>1 DEF Serial, OneThread
  <2>3. \A u \in gone : live # NoKey => live.number \notin known[u]
    BY Zenon, <1>1, <2>1, IdleOwes DEF KeysInv, DeparturesOK
  <2>. QED BY Zenon, <1>2, <2>1, <2>2, <2>3 DEF KeysInv, DeparturesOK
<1>. QED BY Zenon, <1>2, <1>3, <1>4, <1>5, <1>6 DEF KeysInv

\* The frame a call begins with.
LEMMA NewFrameOK ==
    ASSUME NEW t, t \in config.threads, NEW u \in Users, NEW a, NEW o,
           \/ o = "join" /\ a \in {"current", "reuse", "rotate"}
           \/ o = "left" /\ a \in {"clear", "rotate"}
           \/ o \in {"joined", "resume"} /\ a = "resync"
    PROVE  /\ FrameOK(Frame(a, o, u), t, lock, live, drawn) /\ Frame(a, o, u).op # "restore"
           /\ Frame(a, o, u).op = o /\ Frame(a, o, u).at = a /\ Frame(a, o, u).user = u
           /\ ~(Frame(a, o, u).at \in Saving \cup Loading \cup {"announce", "issue", "del_key", "del_index"})
<1>. DEFINE g == Frame(a, o, u)
<1>1. IsRecord(g, FrameFields) /\ g.at = a /\ g.op = o /\ g.user = u
  <2>1. IsRecord(Frame(a, o, u), FrameFields)
        /\ Frame(a, o, u).at = a /\ Frame(a, o, u).op = o /\ Frame(a, o, u).user = u
    BY NewFrame
  <2>. QED BY Zenon, <2>1
<1>. HIDE DEF g
<1>2. /\ FrameOK(g, t, lock, live, drawn) /\ g.op # "restore"
      /\ ~(g.at \in Saving \cup Loading \cup {"announce", "issue", "del_key", "del_index"})
  BY Zenon, <1>1 DEF FrameOK, Serves, Continues, Announcing, Keyed, Loading, Loaded, Saving
<1>. QED BY Zenon, <1>1, <1>2 DEF g

\* acquire_for_join begins.
LEMMA RequestJoinKeeps ==
    ASSUME KeysInv, NEW t \in Threads, NEW u \in Users, RequestJoin(t, u)
    PROVE  KeysInv'
<1>1. PICK a \in {"current", "reuse", "rotate"} : thread' = [thread EXCEPT ![t] = Frame(a, "join", u)]
  <2>. DEFINE a == IF ~(u \notin tracked /\ tracked # {}) THEN "current" ELSE IF u \in recent THEN "reuse" ELSE "rotate"
  <2>1. thread' = [thread EXCEPT ![t] = Frame(a, "join", u)]
    BY Zenon DEF RequestJoin, Goto
  <2>2. a \in {"current", "reuse", "rotate"}
    BY Zenon
  <2>. HIDE DEF a
  <2>. QED BY Zenon, <2>1, <2>2
<1>2. /\ Start(t) /\ gone' = gone \ {u}
      /\ UNCHANGED <<keys, stored, lock, master, token, held, known, room, missed, config, crashes,
                     tracked, online, arriving>>
  BY Zenon DEF RequestJoin, sent, livekit
<1>. DEFINE g == Frame(a, "join", u)
<1>3. /\ FrameOK(g, t, lock, live, drawn) /\ g.op # "restore" /\ g.op = "join" /\ g.user = u
      /\ ~(g.at \in Saving \cup Loading \cup {"announce", "issue", "del_key", "del_index"})
  <2>1. t \in config.threads
    BY Zenon, <1>2 DEF Start
  <2>. QED BY <2>1, NewFrameOK
<1>. HIDE DEF g
<1>4. thread' = [thread EXCEPT ![t] = g]
  BY Zenon, <1>1 DEF g
<1>5. ASSUME \A v : Awaits(v) => Awaits(v)' PROVE Converging'
  BY Zenon, <1>2, <1>5 DEF KeysInv, Converging, keys
<1>6. tracked' \subseteq Users /\ gone' \subseteq Users /\ (gone \cap tracked = {} => gone' \cap tracked' = {})
      /\ g.user \notin gone' /\ (\A v \in gone' : v \in gone)
  BY Zenon, <1>2, <1>3 DEF KeysInv, KeysOK
<1>. QED BY Zenon, <1>2, <1>3, <1>4, <1>5, <1>6, StartKeeps

\* handle_participant_joined tracks the user and sends the key again.
LEMMA ParticipantJoinedKeeps ==
    ASSUME KeysInv, NEW t \in Threads, NEW u \in Users, ParticipantJoined(t, u)
    PROVE  KeysInv'
<1>. DEFINE g == Frame("resync", "joined", u)
<1>1. /\ Start(t) /\ gone' = gone \ {u} /\ tracked' = tracked \cup {u} /\ arriving' = arriving \ {u}
      /\ thread' = [thread EXCEPT ![t] = g]
      /\ UNCHANGED <<keys, stored, lock, master, token, held, known, room, missed, config, crashes, online>>
  BY Zenon DEF ParticipantJoined, Goto, sent, input
<1>2. /\ FrameOK(g, t, lock, live, drawn) /\ g.op # "restore" /\ g.op = "joined" /\ g.user = u /\ g.at = "resync"
      /\ ~(g.at \in Saving \cup Loading \cup {"announce", "issue", "del_key", "del_index"})
  <2>1. t \in config.threads
    BY Zenon, <1>1 DEF Start
  <2>. QED BY <2>1, NewFrameOK
<1>. HIDE DEF g
<1>3. ASSUME thread'[t] = g, \A v : Awaits(v) => Awaits(v)' PROVE Converging'
  <2>1. Awaits(u)'
    BY Zenon, <1>2, <1>3 DEF Awaits
  <2>. QED BY Zenon, <1>1, <1>3, <2>1 DEF KeysInv, Converging, keys
<1>4. tracked' \subseteq Users /\ gone' \subseteq Users /\ (gone \cap tracked = {} => gone' \cap tracked' = {})
      /\ (\A v \in gone' : v \in gone)
  BY Zenon, <1>1 DEF KeysInv, KeysOK
<1>. QED BY Zenon, <1>1, <1>2, <1>3, <1>4, StartKeeps

\* A new session of the user is sent the key.
LEMMA ReconnectKeeps ==
    ASSUME KeysInv, NEW t \in Threads, NEW u \in Users, Reconnect(t, u)
    PROVE  KeysInv'
<1>. DEFINE g == Frame("resync", "resume", u)
<1>1. /\ Start(t) /\ online' = online \cup {u} /\ thread' = [thread EXCEPT ![t] = g]
      /\ UNCHANGED <<keys, stored, lock, master, token, held, known, room, missed, config, crashes,
                     tracked, gone, arriving>>
  BY Zenon DEF Reconnect, Goto, sent, input, livekit
<1>2. /\ FrameOK(g, t, lock, live, drawn) /\ g.op # "restore" /\ g.op = "resume" /\ g.user = u /\ g.at = "resync"
      /\ ~(g.at \in Saving \cup Loading \cup {"announce", "issue", "del_key", "del_index"})
  <2>1. t \in config.threads
    BY Zenon, <1>1 DEF Start
  <2>. QED BY <2>1, NewFrameOK
<1>. HIDE DEF g
<1>3. ASSUME thread'[t] = g, \A v : Awaits(v) => Awaits(v)' PROVE Converging'
  <2>1. Awaits(u)'
    BY Zenon, <1>2, <1>3 DEF Awaits
  <2>. QED BY Zenon, <1>1, <1>3, <2>1 DEF KeysInv, Converging, keys
<1>4. tracked' \subseteq Users /\ gone' \subseteq Users /\ (gone \cap tracked = {} => gone' \cap tracked' = {})
      /\ (\A v \in gone' : v \in gone)
  BY Zenon, <1>1 DEF KeysInv, KeysOK
<1>. QED BY Zenon, <1>1, <1>2, <1>3, <1>4, StartKeeps

\* handle_participant_left: who left has to be locked out by the call that begins.
LEMMA ParticipantLeftKeeps ==
    ASSUME KeysInv, NEW t \in Threads, NEW u \in Users, ParticipantLeft(t, u)
    PROVE  KeysInv'
<1>1. /\ Start(t) /\ gone' = gone \cup (tracked \cap {u}) /\ tracked' = tracked \ {u}
      /\ UNCHANGED <<keys, stored, lock, master, token, held, known, room, missed, config, crashes, online, arriving>>
  BY Zenon DEF ParticipantLeft, Goto, sent, input
<1>2. t \in config.threads
  BY Zenon, <1>1 DEF Start
<1>3. tracked' \subseteq Users /\ gone' \subseteq Users /\ (gone \cap tracked = {} => gone' \cap tracked' = {})
  BY Zenon, <1>1 DEF KeysInv, KeysOK
<1>4. ASSUME \A v : Awaits(v) => Awaits(v)' PROVE Converging'
  BY Zenon, <1>1, <1>4 DEF KeysInv, Converging, keys
<1>5. CASE u \notin tracked /\ thread' = [thread EXCEPT ![t] = Idle]
  <2>1. \A v \in gone' : v \in gone
    BY Zenon, <1>1, <1>5
  <2>. QED BY Zenon, <1>1, <1>3, <1>4, <1>5, <2>1, StartKeeps
<1>6. CASE \E a \in {"clear", "rotate"} : thread' = [thread EXCEPT ![t] = Frame(a, "left", u)]
  <2>1. PICK a \in {"clear", "rotate"} : thread' = [thread EXCEPT ![t] = Frame(a, "left", u)]
    BY Zenon, <1>6
  <2>. DEFINE g == Frame(a, "left", u)
  <2>2. /\ FrameOK(g, t, lock, live, drawn) /\ g.op # "restore" /\ g.op = "left" /\ g.user = u /\ g.at = a
        /\ ~(g.at \in Saving \cup Loading \cup {"announce", "issue", "del_key", "del_index"})
    BY <1>2, NewFrameOK
  <2>3. thread' = [thread EXCEPT ![t] = g]
    BY Zenon, <2>1
  <2>. HIDE DEF g
  <2>4. \A v \in gone' : v \in gone \/ Owes(g, v)
    BY Zenon, <1>1, <2>1, <2>2 DEF Owes
  <2>5. g.op # "join"
    BY Zenon, <2>2
  <2>. QED BY Zenon, <1>1, <1>3, <1>4, <2>2, <2>3, <2>4, <2>5, StartKeeps
<1>7. \/ u \notin tracked /\ thread' = [thread EXCEPT ![t] = Idle]
      \/ thread' = [thread EXCEPT ![t] = Frame(IF tracked = {u} THEN "clear" ELSE "rotate", "left", u)]
  BY Zenon DEF ParticipantLeft, Goto
<1>8. (IF tracked = {u} THEN "clear" ELSE "rotate") \in {"clear", "rotate"}
  BY Zenon
<1>. QED BY Zenon, <1>5, <1>6, <1>7, <1>8

\* The process dies: nothing in memory survives, so nothing is owed, and whatever
\* can be read again with the configured master key is as new as it was.
LEMMA RestartKeeps ==
    ASSUME KeysInv, NEW t \in Threads, Restart(t)
    PROVE  KeysInv'
<1>1. /\ t \in config.threads /\ crashes > 0 /\ crashes' = crashes - 1
      /\ live' = NoKey /\ lock' = NoThread /\ tracked' = {} /\ online' = {} /\ master' = config.master[2]
      /\ UNCHANGED <<drawn, storedKey, storedIndex, token, held, known, gone, room, config>>
  BY Zenon DEF Restart, stored, sent, livekit
<1>2. MasterOK' /\ ~NeverRestarted' /\ crashes' # config.crashes
  <2>1. crashes \in Nat /\ config.crashes \in Nat /\ crashes <= config.crashes
    BY Zenon, ConfigsAssumption DEF KeysInv, MasterOK, ThreadsOK
  <2>2. crashes' \in Nat /\ crashes' <= config.crashes /\ crashes' # config.crashes
    BY <1>1, <2>1
  <2>. QED BY Zenon, <1>1, <2>2 DEF MasterOK, NeverRestarted
<1>3. KeysOK' /\ Converging' /\ DeparturesOK'
  BY Zenon, <1>1, <1>2 DEF KeysInv, KeysOK, Converging, DeparturesOK
<1>4. PICK listed \in {room, {}} :
        thread' = [x \in Threads |-> IF x = t /\ listed # {}
                                     THEN WithListed(Frame("load_key", "restore", NoKey), listed) ELSE Idle]
  BY Zenon DEF Restart, WithListed
<1>. DEFINE g == WithListed(Frame("load_key", "restore", NoKey), listed)
<1>5. IsRecord(g, FrameFields) /\ g.at = "load_key" /\ g.op = "restore" /\ g.listed = listed
  BY NewFrame
<1>6. thread' = [x \in Threads |-> IF x = t /\ listed # {} THEN g ELSE Idle]
  BY Zenon, <1>4
<1>. HIDE DEF g
<1>7. listed \subseteq Users
  BY Zenon DEF KeysInv, KeysOK
<1>8. FrameOK(g, t, lock', live', drawn')
  BY Zenon, <1>1, <1>5, <1>7 DEF FrameOK, Serves, Continues, Announcing, Keyed, Loading, Loaded, Saving
<1>9. /\ thread' = [x \in Threads |-> thread'[x]]
      /\ \A x \in Threads : thread'[x] = Idle \/ (x = t /\ thread'[x] = g)
  BY Zenon, <1>6
<1>10. \A x \in Threads : thread'[x] = Idle \/ FrameOK(thread'[x], x, lock', live', drawn')
  BY Zenon, <1>8, <1>9
<1>11. \A x \in Threads : Restores(x)' => Alone(x)'
  BY Zenon, <1>1, <1>2, <1>9 DEF Restores, Alone
<1>12. ThreadsOK'
  <2>1. \A x \in Threads : thread'[x] = Idle \/ FrameOK(thread[x], x, lock, live, drawn)'
    BY Zenon, <1>1, <1>10 DEF FrameOK
  <2>. QED BY Zenon, <1>1, <1>9, <1>11, <2>1 DEF ThreadsOK, KeysInv
<1>13. ASSUME LatestOK PROVE LatestOK'
  <2>1. ASSUME CanUnseal(master', storedKey) PROVE CanUnseal(master, storedKey)
    <3>1. CASE NeverRestarted
      BY Zenon, <1>13, <2>1, <3>1 DEF LatestOK, CanUnseal
    <3>2. CASE ~NeverRestarted
      BY Zenon, <1>1, <2>1, <3>2 DEF KeysInv, MasterOK
    <3>. QED BY Zenon, <3>1, <3>2
  <2>. QED BY Zenon, <1>1, <1>2, <1>13, <2>1 DEF LatestOK, Newest, CanUnseal
<1>14. \A x \in config.threads : StepOK(thread[x])'
  <2>1. config.threads \subseteq Threads
    BY Zenon, ConfigsAssumption DEF KeysInv, ThreadsOK
  <2>2. ASSUME NEW x \in config.threads PROVE thread'[x].at \in {"idle", "load_key"}
    BY Zenon, <1>5, <1>9, <2>1, IdleFacts
  <2>3. Saved' /\ Cleared' /\ live' = NoKey
    BY Zenon, <1>1, <1>2 DEF Saved, Cleared
  <2>. QED BY Zenon, <2>2, <2>3 DEF StepOK, Saving, Loaded, Loading
<1>15. StorageOK'
  <2>1. Serial' => Serial
    BY Zenon, <1>1 DEF Serial, OneThread, Without
  <2>. QED BY Zenon, <1>1, <1>13, <1>14, <2>1 DEF StorageOK, KeysInv
<1>. QED BY Zenon, <1>2, <1>3, <1>12, <1>15 DEF KeysInv

-----------------------------------------------------------------------------
(* LiveKit, the clients and Redis.                                         *)

\* The threads stand where they stood, and nobody new is connected.
LEMMA ThreadsSame ==
    ASSUME ThreadsOK, UNCHANGED <<thread, lock, live, drawn, config, crashes>>, online' \subseteq online
    PROVE  ThreadsOK' /\ \A u : Awaits(u) => Awaits(u)'
<1>1. \A t \in Threads : thread'[t] = Idle \/ FrameOK(thread[t], t, lock, live, drawn)'
  BY Zenon DEF ThreadsOK, FrameOK
<1>2. \A t \in Threads : Restores(t)' => Alone(t)'
  BY Zenon DEF ThreadsOK, Restores, Alone
<1>3. \A u : Awaits(u) => Awaits(u)'
  BY Zenon DEF Awaits
<1>. QED BY Zenon, <1>1, <1>2, <1>3 DEF ThreadsOK

\* Storage stands to the live key as it stood.
LEMMA StorageSame ==
    ASSUME StorageOK, UNCHANGED <<thread, live, storedKey, storedIndex, known, master, config, crashes>>
    PROVE  StorageOK'
<1>1. LatestOK => LatestOK'
  BY Zenon DEF LatestOK, Newest, CanUnseal, NeverRestarted
<1>2. \A t \in config.threads : StepOK(thread[t]) => StepOK(thread[t])'
  <2>1. BlobOf(live) => BlobOf(live)'
    BY Zenon DEF BlobOf, Expires
  <2>2. SlotOf(live) => SlotOf(live)'
    BY Zenon DEF SlotOf, Expires
  <2>3. (Saved => Saved') /\ (Cleared => Cleared')
    BY Zenon, <2>1, <2>2 DEF Saved, Cleared, NeverRestarted
  <2>. QED BY Zenon, <2>1, <2>3 DEF StepOK, Newest, NeverRestarted
<1>. QED BY Zenon, <1>1, <1>2 DEF StorageOK, Serial, OneThread, Without

\* So do those who left.
LEMMA DeparturesSame ==
    ASSUME DeparturesOK, UNCHANGED <<thread, live, tracked, gone, known, config, crashes>>
    PROVE  DeparturesOK'
BY Zenon DEF DeparturesOK, Serial, OneThread, Without, NeverRestarted, Owes

\* The debounce window passes.
LEMMA DebounceExpiresKeeps ==
    ASSUME KeysInv, NEW u \in Users, DebounceExpires(u)
    PROVE  KeysInv'
<1>1. UNCHANGED <<keys, stored, lock, thread, tracked, master, clients, livekit, input>>
  BY Zenon DEF DebounceExpires
<1>2. /\ UNCHANGED <<live, drawn, storedKey, storedIndex, lock, thread, tracked, master>>
      /\ UNCHANGED <<online, token, gone, held, known, missed, room, arriving, config, crashes>>
  BY Zenon, <1>1 DEF keys, stored, clients, livekit, input, sent
<1>3. Converging'
  BY Zenon, <1>2, ThreadsSame DEF KeysInv, Converging
<1>. QED BY Zenon, <1>2, <1>3, ThreadsSame, NumbersKeep, MasterKeeps, StorageSame, DeparturesSame DEF KeysInv

\* A client connects with the key of its token: it is arriving until the webhook is
\* handled, which sends the key again.
LEMMA LandKeeps ==
    ASSUME KeysInv, NEW u \in Users, Land(u)
    PROVE  KeysInv'
<1>1. /\ UNCHANGED <<live, drawn, storedKey, storedIndex, lock, thread, tracked, master>>
      /\ UNCHANGED <<online, gone, known, missed, config, crashes>>
      /\ token[u] # NoKey /\ room' = room \cup {u} /\ arriving' = arriving \cup {u}
      /\ held' = [held EXCEPT ![u] = token[u]] /\ token' = [token EXCEPT ![u] = NoKey]
  BY Zenon DEF Land, keys, stored, input
<1>2. Converging'
  BY Zenon, <1>1, ThreadsSame DEF KeysInv, Converging, KeysOK
<1>3. KeysOK'
  <2>1. KeysOK
    BY Zenon DEF KeysInv
  <2>2. /\ DOMAIN held' = Users /\ DOMAIN token' = Users /\ room' \subseteq Users
        /\ held'[u] = token[u] /\ token'[u] = NoKey
        /\ \A v \in Users \ {u} : held'[v] = held[v] /\ token'[v] = token[v] /\ (v \in room' => v \in room)
    BY Zenon, <1>1, <2>1 DEF KeysOK
  <2>3. \A v \in Users : /\ known[v] \subseteq 0..drawn
                         /\ Sent(token'[v], known[v]) /\ Sent(held'[v], known[v])
                         /\ v \in room' => held'[v] # NoKey
    BY Zenon, <1>1, <2>1, <2>2 DEF KeysOK, Sent
  <2>. QED BY Zenon, <1>1, <2>1, <2>2, <2>3 DEF KeysOK, Sent
<1>. QED BY Zenon, <1>1, <1>2, <1>3, ThreadsSame, MasterKeeps, StorageSame, DeparturesSame DEF KeysInv

\* A client leaves the room, and its key with it.
LEMMA DepartKeeps ==
    ASSUME KeysInv, NEW u \in Users, Depart(u)
    PROVE  KeysInv'
<1>1. /\ UNCHANGED <<live, drawn, storedKey, storedIndex, lock, thread, tracked, master>>
      /\ UNCHANGED <<online, token, gone, known, missed, arriving, config, crashes>>
      /\ room' = room \ {u} /\ held' = [held EXCEPT ![u] = NoKey]
  BY Zenon DEF Depart, keys, stored, input
<1>2. Converging'
  BY Zenon, <1>1, ThreadsSame DEF KeysInv, Converging, KeysOK
<1>3. KeysOK'
  <2>1. KeysOK
    BY Zenon DEF KeysInv
  <2>2. /\ DOMAIN held' = Users /\ room' \subseteq Users /\ held'[u] = NoKey /\ u \notin room'
        /\ \A v \in Users \ {u} : held'[v] = held[v] /\ (v \in room' => v \in room)
    BY Zenon, <1>1, <2>1 DEF KeysOK
  <2>3. \A v \in Users : /\ known[v] \subseteq 0..drawn
                         /\ Sent(token[v], known[v]) /\ Sent(held'[v], known[v])
                         /\ v \in room' => held'[v] # NoKey
    BY Zenon, <1>1, <2>1, <2>2 DEF KeysOK, Sent
  <2>. QED BY Zenon, <1>1, <2>1, <2>2, <2>3 DEF KeysOK, Sent
<1>. QED BY Zenon, <1>1, <1>2, <1>3, ThreadsSame, MasterKeeps, StorageSame, DeparturesSame DEF KeysInv

\* A control connection drops.
LEMMA DisconnectKeeps ==
    ASSUME KeysInv, NEW u \in Users, Disconnect(u)
    PROVE  KeysInv'
<1>1. /\ UNCHANGED <<keys, stored, lock, thread, tracked, master, token, sent, gone, livekit, input>>
      /\ online' = online \ {u}
  BY Zenon DEF Disconnect
<1>2. /\ UNCHANGED <<live, drawn, storedKey, storedIndex, lock, thread, tracked, master>>
      /\ UNCHANGED <<token, gone, held, known, missed, room, arriving, config, crashes>>
      /\ online' \subseteq online
  BY Zenon, <1>1 DEF keys, stored, livekit, input, sent
<1>3. Converging'
  BY Zenon, <1>2, ThreadsSame DEF KeysInv, Converging
<1>. QED BY Zenon, <1>2, <1>3, ThreadsSame, NumbersKeep, MasterKeeps, StorageSame, DeparturesSame DEF KeysInv

\* An entry of Redis runs out, which only a run with expiry allows.
LEMMA StorageExpiresKeeps ==
    ASSUME KeysInv, StorageExpires
    PROVE  KeysInv'
<1>1. /\ Expires /\ UNCHANGED <<keys, lock, thread, rest>>
      /\ storedKey' = storedKey \/ storedKey' = NoKey
      /\ storedIndex' = storedIndex \/ storedIndex' = NoKey
  BY Zenon DEF StorageExpires, Fails, Expires
<1>2. /\ UNCHANGED <<live, drawn, lock, thread, tracked, master>>
      /\ UNCHANGED <<online, token, gone, held, known, missed, room, arriving, config, crashes>>
      /\ online' \subseteq online
  BY Zenon, <1>1 DEF keys, rest, clients, livekit, input, sent
<1>3. Converging'
  BY Zenon, <1>2, ThreadsSame DEF KeysInv, Converging
<1>4. KeysOK'
  BY Zenon, <1>1, <1>2 DEF KeysInv, KeysOK
<1>5. LatestOK => LatestOK'
  BY Zenon, <1>1, <1>2 DEF LatestOK, Newest, CanUnseal, NeverRestarted
<1>6. ASSUME NEW t \in config.threads, StepOK(thread[t]) PROVE StepOK(thread[t])'
  <2>1. BlobOf(live) => BlobOf(live)'
    BY Zenon, <1>1, <1>2 DEF BlobOf, Expires
  <2>2. SlotOf(live) => SlotOf(live)'
    BY Zenon, <1>1, <1>2 DEF SlotOf, Expires
  <2>3. (Saved => Saved') /\ (Cleared => Cleared')
    BY Zenon, <1>1, <1>2, <2>1, <2>2 DEF Saved, Cleared, NeverRestarted
  <2>. QED BY Zenon, <1>1, <1>2, <1>6, <2>1, <2>3 DEF StepOK, Newest, NeverRestarted
<1>7. StorageOK'
  BY Zenon, <1>2, <1>5, <1>6 DEF KeysInv, StorageOK, Serial, OneThread, Without
<1>. QED BY Zenon, <1>2, <1>3, <1>4, <1>7, ThreadsSame, MasterKeeps, DeparturesSame DEF KeysInv

-----------------------------------------------------------------------------
(* The invariant.                                                          *)

\* A fresh process holds no key and has sent none.
LEMMA KeysInvInit == Init => KeysInv
<1>. SUFFICES ASSUME Init PROVE KeysInv
  BY Zenon
<1>. USE DEF Init
<1>1. ThreadsOK
  BY Zenon DEF ThreadsOK, Restores
<1>2. KeysOK
  <2>1. drawn \in Nat
    BY SMT
  <2>. QED BY Zenon, <2>1 DEF KeysOK, Sent
<1>3. Converging /\ DeparturesOK
  BY DEF Converging, DeparturesOK
<1>4. MasterOK
  <2>1. crashes \in Nat /\ crashes = config.crashes
    BY Zenon, ConfigsAssumption
  <2>2. crashes <= config.crashes
    BY <2>1
  <2>. QED BY Zenon, <2>1, <2>2 DEF MasterOK, NeverRestarted
<1>5. ASSUME NEW t \in config.threads PROVE thread[t].at = "idle"
  BY Zenon, IdleFacts, ConfigsAssumption
<1>6. Saved /\ Cleared /\ LatestOK
  BY Zenon DEF Saved, Cleared, LatestOK, CanUnseal
<1>7. StorageOK
  BY Zenon, <1>5, <1>6 DEF StorageOK, StepOK, Saving, Loaded, Loading
<1>. QED BY Zenon, <1>1, <1>2, <1>3, <1>4, <1>7 DEF KeysInv

\* No step breaks the invariant.
LEMMA KeysInvNext == KeysInv /\ [Next]_vars => KeysInv'
<1>. SUFFICES ASSUME KeysInv, [Next]_vars PROVE KeysInv'
  BY Zenon
<1>1. ASSUME NEW t \in Threads, ThreadStep(t) PROVE KeysInv'
  <2>1. CASE SetKey(t) \/ SetIndex(t)
    BY Zenon, <2>1, SetKeyKeeps, SetIndexKeeps
  <2>2. CASE LoadKey(t) \/ LoadIndex(t) \/ TouchKey(t) \/ TouchIndex(t)
    BY Zenon, <2>2, LoadKeyKeeps, LoadIndexKeeps, TouchKeyKeeps, TouchIndexKeeps
  <2>3. CASE DelKey(t) \/ DelIndex(t) \/ ClearChannel(t) \/ ForgetJoins(t)
    BY Zenon, <2>3, DelKeyKeeps, DelIndexKeeps, ClearChannelKeeps, ForgetJoinsKeeps
  <2>4. CASE Announce(t) \/ Rotate(t) \/ FindChannel(t) \/ Resend(t)
    BY Zenon, <2>4, AnnounceKeeps, RotateKeeps, FindChannelKeeps, ResendKeeps
  <2>5. CASE ReuseKey(t) \/ CurrentKey(t) \/ Sweep(t) \/ CreateKey(t)
    BY Zenon, <2>5, ReuseKeyKeeps, CurrentKeyKeeps, SweepKeeps, CreateKeyKeeps
  <2>6. CASE AdoptKey(t) \/ NoStoredKey(t) \/ IssueToken(t) \/ Register(t)
    BY Zenon, <2>6, AdoptKeyKeeps, NoStoredKeyKeeps, IssueTokenKeeps, RegisterKeeps
  <2>. QED BY Zenon, <1>1, <2>1, <2>2, <2>3, <2>4, <2>5, <2>6 DEF ThreadStep
<1>2. ASSUME NEW t \in Threads, Restart(t) PROVE KeysInv'
  BY Zenon, <1>2, RestartKeeps
<1>3. ASSUME NEW t \in Threads, NEW u \in Users,
             RequestJoin(t, u) \/ ParticipantJoined(t, u) \/ ParticipantLeft(t, u) \/ Reconnect(t, u)
      PROVE  KeysInv'
  BY Zenon, <1>3, RequestJoinKeeps, ParticipantJoinedKeeps, ParticipantLeftKeeps, ReconnectKeeps
<1>4. ASSUME NEW u \in Users, DebounceExpires(u) \/ Land(u) \/ Depart(u) \/ Disconnect(u)
      PROVE  KeysInv'
  BY Zenon, <1>4, DebounceExpiresKeeps, LandKeeps, DepartKeeps, DisconnectKeeps
<1>5. CASE StorageExpires
  BY Zenon, <1>5, StorageExpiresKeeps
<1>6. CASE UNCHANGED vars
  <2>1. UNCHANGED <<keys, stored, lock, thread, rest>>
    BY Zenon, <1>6 DEF vars
  <2>2. /\ UNCHANGED <<live, drawn, storedKey, storedIndex, lock, thread, tracked, master>>
        /\ UNCHANGED <<online, token, gone, held, known, missed, room, arriving, config, crashes>>
    BY Zenon, <2>1 DEF keys, stored, rest, clients, livekit, input, sent
  <2>3. Converging'
    BY Zenon, <2>2, ThreadsSame DEF KeysInv, Converging
  <2>. QED BY Zenon, <2>2, <2>3, ThreadsSame, NumbersKeep, MasterKeeps, StorageSame, DeparturesSame DEF KeysInv
<1>. QED BY Zenon, <1>1, <1>2, <1>3, <1>4, <1>5, <1>6 DEF Next

\* The invariant holds in every reachable state: the rotation mutex, the frames of
\* the threads, the numbers of the keys, the storage and the departures fit together.
THEOREM KeysAlways == Spec => []KeysInv
<1>1. Init => KeysInv
  BY Zenon, KeysInvInit
<1>2. KeysInv /\ [Next]_vars => KeysInv'
  BY Zenon, KeysInvNext
<1>. QED BY <1>1, <1>2, PTL DEF Spec

-----------------------------------------------------------------------------
(* What the invariant is for.                                              *)

\* With any threads, faults and restarts, once the calls are done the connected
\* members that no unannounced key passed by use the live key.
THEOREM MembersConverge == Spec => []MembersHoldLiveKey
<1>1. KeysInv => MembersHoldLiveKey
  <2>. SUFFICES ASSUME KeysInv, Quiet, live # NoKey,
                       NEW u \in (tracked \cap room \cap online) \ (arriving \cup missed)
                PROVE  held[u] = live
    BY Zenon DEF MembersHoldLiveKey
  <2>1. held[u] = live \/ Awaits(u)
    BY Zenon DEF KeysInv, Converging
  <2>2. ~Awaits(u)
    BY Zenon, IdleFacts DEF Awaits, Quiet
  <2>. QED BY Zenon, <2>1, <2>2
<1>. QED BY <1>1, KeysAlways, PTL

\* With calls one at a time and Redis working, what is stored between two calls is the
\* live key with its index, and nothing once the channel is cleared.
THEOREM StorageFollows == Spec => []StoredKeyIsLive
<1>1. KeysInv => StoredKeyIsLive
  <2>. SUFFICES ASSUME KeysInv, OneThread, Quiet, Without({"redis", "ttl"}), master # NoMaster
                PROVE  IF live # NoKey THEN storedKey = Seal(master, live.number) /\ storedIndex = live.index
                       ELSE NeverRestarted => storedKey = NoKey /\ storedIndex = NoKey
    BY Zenon DEF StoredKeyIsLive, StoredFollowsLive
  <2>1. PICK t \in Threads : config.threads = {t}
    BY Zenon DEF OneThread
  <2>2. Serial /\ ~Expires
    BY Zenon DEF Serial, Without, Expires
  <2>3. thread[t].at = "idle" /\ StepOK(thread[t])
    BY Zenon, <2>1, <2>2, IdleFacts DEF KeysInv, StorageOK, Quiet
  <2>4. Saved /\ Cleared
    BY Zenon, <2>3 DEF StepOK, Saving
  <2>. QED BY Zenon, <2>2, <2>4 DEF Saved, Cleared, BlobOf, SlotOf
<1>. QED BY <1>1, KeysAlways, PTL

\* With calls one at a time and neither Redis nor the random source failing, who left
\* was never sent the key in use between two calls, nor the one in storage.
THEOREM DepartedStayOut == Spec => []DepartedLockedOut
<1>1. KeysInv => DepartedLockedOut
  <2>. SUFFICES ASSUME KeysInv, Quiet, OneThread, Without({"redis", "random"}), NeverRestarted, NEW u \in gone
                PROVE  /\ live # NoKey => live.number \notin known[u]
                       /\ storedKey # NoKey => storedKey.number \notin known[u]
    BY Zenon DEF DepartedLockedOut
  <2>1. PICK t \in Threads : config.threads = {t}
    BY Zenon DEF OneThread
  <2>2. Serial /\ Without({"random"})
    BY Zenon DEF Serial, Without
  <2>3. thread[t] = Idle /\ ~Owes(thread[t], u)
    BY Zenon, IdleOwes DEF Quiet
  <2>4. live # NoKey => live.number \notin known[u]
    BY Zenon, <2>1, <2>2, <2>3 DEF KeysInv, DeparturesOK
  <2>5. thread[t].at = "idle" /\ StepOK(thread[t]) /\ LatestOK
    BY Zenon, <2>1, <2>2, <2>3, IdleFacts DEF KeysInv, StorageOK
  <2>6. Saved /\ Cleared
    BY Zenon, <2>5 DEF StepOK, Saving
  <2>7. ASSUME storedKey # NoKey PROVE live # NoKey /\ storedKey = Seal(master, live.number)
    BY Zenon, <2>5, <2>6, <2>7 DEF Saved, Cleared, LatestOK, BlobOf
  <2>8. Seal(master, live.number).number = live.number
    BY Zenon DEF Seal
  <2>. QED BY Zenon, <2>4, <2>7, <2>8
<1>. QED BY <1>1, KeysAlways, PTL

\* With calls one at a time and Redis working, storage is never behind a key that a
\* member uses, whatever the step at which the process dies.
THEOREM StorageNeverBehind == Spec => []StoredBeforeSent
<1>1. KeysInv => StoredBeforeSent
  <2>. SUFFICES ASSUME KeysInv, OneThread, Without({"redis"}), CanUnseal(master, storedKey),
                       NEW u \in tracked \cap room
                PROVE  held[u].number <= storedKey.number
    BY Zenon DEF StoredBeforeSent
  <2>1. Newest(storedKey.number)
    BY Zenon DEF KeysInv, StorageOK, Serial, LatestOK
  <2>2. u \in Users /\ held[u].number \in known[u]
    BY Zenon DEF KeysInv, KeysOK, Sent
  <2>. QED BY Zenon, <2>1, <2>2 DEF Newest
<1>. QED BY <1>1, KeysAlways, PTL

=============================================================================
