------------------------------ MODULE WorkerPool ------------------------------
(***************************************************************************)
(* What stands between the sockets and the commands: the EventQueue, the   *)
(* threads of the WorkerPool, the AuditService they report to, and the     *)
(* order in which AppStack::stop ends them.  What a command does to the    *)
(* rest of the server is the business of the other modules; here it runs   *)
(* for a while, then answers or throws.                                    *)
(***************************************************************************)
EXTENDS Connections, PriorityQueue, FiniteSets

CONSTANT Scenarios     \* threads, capacity of the queue, who sends which events, and
                       \* bounds on the number of events and on the calls of pause()

VARIABLES scenario,
          pushed,      \* events the sockets have pushed
          queue,       \* high_ and low_ of the EventQueue
          stopped,     \* its stopped_
          running, paused,
          worker,      \* thread -> where it is in worker_loop, and its event
          executing,   \* executing_commands_: <<connection, type>>
          control,     \* where the thread that runs AppStack is
          audit        \* the AuditService's queue_, its _stopped and its thread

\* History: events whose handling is over, whether a notify_all of the pause gate
\* came before a wait, the audit rows tried, and the ones logged before the stop.
VARIABLES done, unheard, tried, owed

queueVars == <<pushed, queue, stopped>>
poolVars  == <<running, paused, control>>
auditVars == <<audit, tried, owed>>
history   == <<done, unheard>>
poolSpecVars == <<scenario, queueVars, poolVars, worker, executing, auditVars, history>>

\* A socket's connection opening or closing, a guarded command, one of the commands
\* that bypass the guard, and a hint.
Types == {"session", "join", "send", "typing"}

ASSUME ScenarioAssumption ==
    Scenarios \subseteq [workers : Nat \ {0}, capacity : Nat \ {0}, events : Nat, pauses : Nat,
                         conns : SUBSET Conns, types : SUBSET Types]

\* The commands that report to the AuditService.
Audited == {"session", "join"}

command_uses_inflight_dedup(type) == type \notin {"send", "typing"}

classify_event(type) == IF type = "typing" THEN "low" ELSE "high"

IsMessage(e) == e.type # "session"
Key(e) == <<e.conn, e.type>>

\* try_mark_executing and unmark_executing
Marked(e)   == executing \cup {Key(e)}
Unmarked(e) == executing \ {Key(e)}

PoolInit ==
    /\ scenario \in Scenarios
    /\ pushed = 0 /\ queue = EmptyQueue /\ stopped = FALSE
    /\ running = TRUE /\ paused = FALSE /\ control = "up"
    /\ worker = [w \in 1..scenario.workers |-> [pc |-> "loop"]]
    /\ executing = {}
    /\ audit = [queue |-> <<>>, stopped |-> FALSE, pc |-> "wait"]
    /\ done = {} /\ unheard = FALSE
    /\ tried = {} /\ owed = {}

-----------------------------------------------------------------------------
(* The sockets                                                             *)

\* Variant: no room is made for a high event.
PushMakingNoRoom(c, type) ==
    /\ pushed < scenario.events /\ c \in scenario.conns /\ type \in scenario.types
    /\ pushed' = pushed + 1
    /\ queue' = IF Size(queue) < scenario.capacity
                THEN Offer(queue, [conn |-> c, type |-> type, n |-> pushed'], classify_event(type), 0)
                ELSE queue
    /\ UNCHANGED <<scenario, stopped, poolVars, worker, executing, auditVars, history>>

Push(c, type) ==
    /\ pushed < scenario.events /\ c \in scenario.conns /\ type \in scenario.types
    /\ pushed' = pushed + 1
    /\ queue' = Offer(queue, [conn |-> c, type |-> type, n |-> pushed'], classify_event(type),
                      scenario.capacity)
    /\ UNCHANGED <<scenario, stopped, poolVars, worker, executing, auditVars, history>>

-----------------------------------------------------------------------------
(* worker_loop                                                             *)

AtPc(w, pc) == worker[w].pc = pc
GotoPc(w, pc) == worker' = [worker EXCEPT ![w].pc = pc]

Outside == <<scenario, pushed, stopped, poolVars>>

\* while (running_), then the first look at paused_.
Loop(w) ==
    /\ AtPc(w, "loop")
    /\ GotoPc(w, IF ~running THEN "ended" ELSE IF paused THEN "gate" ELSE "pop")
    /\ UNCHANGED <<Outside, queue, executing, auditVars, history>>

\* wait_if_paused: under pause_mtx_ the predicate is read, and then the thread goes to
\* sleep; pause_cv_ is notified by threads that do not hold that mutex.  Past the gate
\* running_ is read again.
Gate(w) ==
    /\ AtPc(w, "gate")
    /\ GotoPc(w, IF ~running THEN "ended" ELSE IF paused THEN "dozing" ELSE "pop")
    /\ UNCHANGED <<Outside, queue, executing, auditVars, history>>

Doze(w) ==
    /\ AtPc(w, "dozing")
    /\ GotoPc(w, "asleep")
    /\ UNCHANGED <<Outside, queue, executing, auditVars, history>>

\* wait_pop: parks until there is an event or the queue is stopped.
WaitPop(w) ==
    /\ AtPc(w, "pop")
    /\ Size(queue) > 0 \/ stopped
    /\ IF Size(queue) > 0
       THEN /\ worker' = [worker EXCEPT ![w] = [pc |-> "handle", evt |-> First(queue)]]
            /\ queue' = Rest(queue)
       ELSE GotoPc(w, "loop") /\ UNCHANGED queue
    /\ UNCHANGED <<Outside, executing, auditVars, history>>

\* handle_event: an envelope that does not parse costs the connection, a command whose
\* twin is in flight is dropped, and everything else is dispatched.
Invalid(w) ==
    /\ AtPc(w, "handle")
    /\ IsMessage(worker[w].evt)
    /\ GotoPc(w, "answer")
    /\ UNCHANGED <<Outside, queue, executing, auditVars, history>>

Guarded(e) == IsMessage(e) /\ command_uses_inflight_dedup(e.type)

Duplicate(w) ==
    /\ AtPc(w, "handle")
    /\ Guarded(worker[w].evt) /\ Key(worker[w].evt) \in executing
    /\ GotoPc(w, "loop")
    /\ done' = done \cup {worker[w].evt.n}
    /\ UNCHANGED <<Outside, queue, executing, auditVars, unheard>>

Dispatch(w) ==
    LET e == worker[w].evt
    IN  /\ AtPc(w, "handle")
        /\ Guarded(e) => Key(e) \notin executing
        /\ executing' = IF Guarded(e) THEN Marked(e) ELSE executing
        /\ GotoPc(w, "execute")
        /\ UNCHANGED <<Outside, queue, auditVars, history>>

\* The command has run; it wrote an audit row or did not, and its guard is released
\* before its answers go out.
Execute(w) ==
    LET e == worker[w].evt
    IN  /\ AtPc(w, "execute")
        /\ \/ e.type \in Audited /\ audit' = [audit EXCEPT !.queue = Append(@, e.n)]
           \/ UNCHANGED audit
        /\ executing' = Unmarked(e)
        /\ GotoPc(w, "answer")
        /\ UNCHANGED <<Outside, queue, tried, owed, history>>

\* Variants: the guard stays when the command throws, and the exception ends the thread.
ThrowKeepingGuard(w) ==
    /\ AtPc(w, "execute")
    /\ GotoPc(w, "loop")
    /\ done' = done \cup {worker[w].evt.n}
    /\ UNCHANGED <<Outside, queue, executing, auditVars, unheard>>

ThrowEscaping(w) ==
    /\ AtPc(w, "execute")
    /\ executing' = Unmarked(worker[w].evt)
    /\ GotoPc(w, "ended")
    /\ done' = done \cup {worker[w].evt.n}
    /\ UNCHANGED <<Outside, queue, auditVars, unheard>>

\* "Swallow it, clear the in-flight bookkeeping for this command, and keep serving".
Throw(w) ==
    /\ AtPc(w, "execute")
    /\ executing' = Unmarked(worker[w].evt)
    /\ GotoPc(w, "loop")
    /\ done' = done \cup {worker[w].evt.n}
    /\ UNCHANGED <<Outside, queue, auditVars, unheard>>

Answer(w) ==
    /\ AtPc(w, "answer")
    /\ GotoPc(w, "loop")
    /\ done' = done \cup {worker[w].evt.n}
    /\ UNCHANGED <<Outside, queue, executing, auditVars, unheard>>

WorkerStep(w) ==
    \/ Loop(w) \/ Gate(w) \/ Doze(w) \/ WaitPop(w)
    \/ Invalid(w) \/ Duplicate(w) \/ Dispatch(w) \/ Execute(w) \/ Throw(w) \/ Answer(w)

-----------------------------------------------------------------------------
(* AuditService::run                                                       *)

\* Variant: a stopped queue ends the thread with rows still in it.
AuditPopUnlessStopped ==
    /\ audit.pc = "wait"
    /\ audit.queue # <<>> \/ audit.stopped
    /\ audit' = IF audit.stopped THEN [audit EXCEPT !.pc = "ended"]
                ELSE [audit EXCEPT !.pc = "write", !.queue = Tail(@)]
    /\ tried' = IF audit.stopped THEN tried ELSE tried \cup {Head(audit.queue)}
    /\ UNCHANGED <<scenario, queueVars, poolVars, worker, executing, owed, history>>

\* pop() ends the thread only when the queue is stopped and empty; the row is written,
\* or dropped with a log line when the database throws.
AuditPop ==
    /\ audit.pc = "wait"
    /\ audit.queue # <<>> \/ audit.stopped
    /\ audit' = IF audit.queue = <<>> THEN [audit EXCEPT !.pc = "ended"]
                ELSE [audit EXCEPT !.pc = "write", !.queue = Tail(@)]
    /\ tried' = IF audit.queue = <<>> THEN tried ELSE tried \cup {Head(audit.queue)}
    /\ UNCHANGED <<scenario, queueVars, poolVars, worker, executing, owed, history>>

AuditWrite ==
    /\ audit.pc = "write"
    /\ audit' = [audit EXCEPT !.pc = "wait"]
    /\ UNCHANGED <<scenario, queueVars, poolVars, worker, executing, tried, owed, history>>

Auditor == AuditPop \/ AuditWrite

-----------------------------------------------------------------------------
(* AppStack                                                                *)

Kept == <<scenario, pushed, queue, executing, done, tried>>

Pause ==
    /\ control = "up" /\ scenario.pauses > 0
    /\ scenario' = [scenario EXCEPT !.pauses = @ - 1]
    /\ paused' = TRUE
    /\ UNCHANGED <<queueVars, running, control, worker, executing, auditVars, history>>

Resume ==
    /\ control = "up" /\ paused
    /\ paused' = FALSE
    /\ control' = "resuming"
    /\ UNCHANGED <<Kept, stopped, running, worker, audit, owed, unheard>>

\* pause_cv_.notify_all()
NotifyGate ==
    /\ worker' = [w \in DOMAIN worker |->
                     IF AtPc(w, "asleep") THEN [worker[w] EXCEPT !.pc = "gate"] ELSE worker[w]]
    /\ unheard' = (unheard \/ \E w \in DOMAIN worker : AtPc(w, "dozing"))

ResumeNotify ==
    /\ control = "resuming"
    /\ NotifyGate
    /\ control' = "up"
    /\ UNCHANGED <<Kept, stopped, running, paused, audit, owed>>

\* AppStack::stop: the audit service first ...
Stop ==
    /\ control = "up"
    /\ audit' = [audit EXCEPT !.stopped = TRUE]
    /\ owed' = {audit.queue[i] : i \in DOMAIN audit.queue}
    /\ control' = "audit"
    /\ UNCHANGED <<Kept, stopped, running, paused, worker, unheard>>

\* ... joined, then the pool: the flags, the queue, the gate, and the threads.
StopPool ==
    /\ control = "audit" /\ audit.pc = "ended"
    /\ running' = FALSE /\ paused' = FALSE
    /\ control' = "flags"
    /\ UNCHANGED <<Kept, stopped, worker, audit, owed, unheard>>

\* Variant: the queue is not stopped.
StopQueueNot ==
    /\ control = "flags"
    /\ control' = "queue"
    /\ UNCHANGED <<Kept, stopped, running, paused, worker, audit, owed, unheard>>

StopQueue ==
    /\ control = "flags"
    /\ stopped' = TRUE
    /\ control' = "queue"
    /\ UNCHANGED <<Kept, running, paused, worker, audit, owed, unheard>>

StopNotify ==
    /\ control = "queue"
    /\ NotifyGate
    /\ control' = "join"
    /\ UNCHANGED <<Kept, stopped, running, paused, audit, owed>>

Join ==
    /\ control = "join"
    /\ \A w \in DOMAIN worker : AtPc(w, "ended")
    /\ control' = "stopped"
    /\ UNCHANGED <<Kept, stopped, running, paused, worker, audit, owed, unheard>>

Stopping == StopPool \/ StopQueue \/ StopNotify \/ Join

-----------------------------------------------------------------------------
PoolNext ==
    \/ \E c \in Conns, type \in Types : Push(c, type)
    \/ \E w \in DOMAIN worker : WorkerStep(w)
    \/ Auditor
    \/ Pause \/ Resume \/ ResumeNotify \/ Stop \/ Stopping

PoolSpec == PoolInit /\ [][PoolNext]_poolSpecVars

\* The threads run, a command ends (every call it makes has a timeout), and a call of
\* resume() or stop() goes on once made; nobody has to make one.
PoolFair ==
    /\ PoolSpec
    /\ \A w \in UNION {1..s.workers : s \in Scenarios} :
          WF_poolSpecVars(w \in DOMAIN worker /\ WorkerStep(w))
    /\ WF_poolSpecVars(Auditor) /\ WF_poolSpecVars(ResumeNotify) /\ WF_poolSpecVars(Stopping)

-----------------------------------------------------------------------------
(* Properties                                                              *)

Executing(w) == AtPc(w, "execute") /\ Guarded(worker[w].evt)

\* "stop a double-submit ... from being processed concurrently": two threads never
\* execute one guarded command of a connection, and executing_commands_ holds exactly
\* the commands in flight, so that no exception locks a connection out of a command.
GuardExact ==
    /\ executing = {Key(worker[w].evt) : w \in {v \in DOMAIN worker : Executing(v)}}
    /\ \A w, v \in DOMAIN worker :
          Executing(w) /\ Executing(v) /\ Key(worker[w].evt) = Key(worker[v].evt) => w = v

\* Every audit row logged before AppStack::stop is tried before the pool is stopped.
AuditedBeforeStop == control \notin {"up", "resuming", "audit"} => owed \subseteq tried

InLane(lane) == {queue[lane][i] : i \in DOMAIN queue[lane]}

\* "High-priority events ... must not be dropped": one that is queued leaves the queue
\* only for a worker, and one that is pushed is refused only by a queue full of its kind,
\* however many hints there are.
HintsGiveWay ==
    [][/\ \A e \in InLane("high") \ InLane("high")' :
             \E w \in DOMAIN worker' : worker'[w].pc = "handle" /\ worker'[w].evt = e
       /\ \A c \in Conns, type \in Types :
             Push(c, type) /\ classify_event(type) = "high" /\ Len(queue.high) < scenario.capacity
                => [conn |-> c, type |-> type, n |-> pushed'] \in InLane("high")']_poolSpecVars

\* A queued authoritative event is handled to its end, whatever its predecessors throw,
\* unless the pool is paused or stopped (or slept through the end of a pause).
EventsAreHandled ==
    \A n \in 1..(CHOOSE k \in {s.events : s \in Scenarios} : \A s \in Scenarios : s.events <= k) :
       (\E e \in InLane("high") : e.n = n) ~> (n \in done \/ paused \/ ~running \/ unheard)

\* stop() returns: no thread stays parked on the queue, at the gate or in a command,
\* unless a thread was between its look at paused_ and its wait when the gate was
\* notified.
StopReturns == control = "audit" ~> control = "stopped" \/ unheard

=============================================================================
