--------------------------- MODULE SessionLifecycle ---------------------------
(***************************************************************************)
(* A connection from its first AUTH to its close, through the event queue  *)
(* and the worker threads: AuthenticateCommand, BootstrapCommand,          *)
(* SelectActiveChannelCommand, DisconnectionCommand, and WorkerPool's      *)
(* guard against two commands of one type in flight.  The queue is first   *)
(* in, first out for these events, but the workers run what they take      *)
(* side by side; a step of a worker is what it does between two calls that *)
(* lock a manager.                                                         *)
(***************************************************************************)
EXTENDS SessionManager, Sequences

CONSTANTS Configs      \* threads of the pool, session limit, and a bound on the
                       \* commands a client sends

ASSUME ConfigsKnown == Configs \subseteq [workers : Nat, limit : Limits, commands : Nat]

VARIABLES sock,        \* connection -> "new", "open" or "closed"
          auth,        \* connection -> AUTH_PENDING, AUTHENTICATED or AUTH_FAILED
          left,        \* connection -> commands it may still send
          events,      \* app::queue::EventQueue
          worker,      \* thread of the pool -> what it is doing
          subs,        \* SubscriptionManager: <<connection, topic>>
          announced    \* user -> what the last presence signal said of them

lifecycleVars == <<manager, sock, auth, left, events, worker, subs, announced>>
clientVars    == <<sock, auth, left>>

Relation == INSTANCE Subscriptions WITH
    Topics <- Hubs \cup TextChannels, Readers <- {}, NoSnapshot <- NoPlace, snapshot <- EmptyMap

Waiting == [pc |-> "wait"]

-----------------------------------------------------------------------------
(* The socket layer                                                        *)

LifecycleInit ==
    /\ SessionsInit
    /\ sock = [c \in Conns |-> "new"]
    /\ auth = [c \in Conns |-> "pending"]
    /\ events = <<>>
    /\ \E f \in Configs : /\ worker = [w \in 1..f.workers |-> Waiting]
                          /\ left = [c \in Conns |-> f.commands]
                          /\ manager.max_sessions_per_user = f.limit
    /\ subs = {} /\ announced = [u \in Users |-> FALSE]

Open(c) ==
    /\ sock[c] = "new"
    /\ sock' = [sock EXCEPT ![c] = "open"]
    /\ UNCHANGED <<manager, auth, left, events, worker, subs, announced>>

\* Until it is authenticated a connection gets nothing but AUTH through.
Send(c, e) ==
    /\ sock[c] = "open" /\ left[c] > 0
    /\ auth[c] # "failed"
    /\ auth[c] = "ok" \/ e.kind = "auth"
    /\ left' = [left EXCEPT ![c] = @ - 1]
    /\ events' = Append(events, e)
    /\ UNCHANGED <<manager, sock, auth, worker, subs, announced>>

Close(c) ==
    /\ sock[c] = "open"
    /\ sock' = [sock EXCEPT ![c] = "closed"]
    /\ events' = Append(events, [kind |-> "disconnection", conn |-> c])
    /\ UNCHANGED <<manager, auth, left, worker, subs, announced>>

-----------------------------------------------------------------------------
(* The workers                                                             *)

At(w, pc) == worker[w].pc = pc
Goto(w, state) == worker' = [worker EXCEPT ![w] = state]
Proceed(w, pc) == Goto(w, [worker[w] EXCEPT !.pc = pc])
Finish(w) == Goto(w, Waiting)

\* wait_pop
Take(w) ==
    /\ At(w, "wait") /\ events # <<>>
    /\ Goto(w, [pc |-> "taken", evt |-> Head(events)])
    /\ events' = Tail(events)
    /\ UNCHANGED <<manager, clientVars, subs, announced>>

\* try_mark_executing fails: some worker is executing the same command.
InFlight(e) ==
    /\ e.kind \in {"auth", "select"}
    /\ \E v \in DOMAIN worker : /\ ~At(v, "wait") /\ ~At(v, "taken")
                                /\ worker[v].evt.kind = e.kind /\ worker[v].evt.conn = e.conn

Dispatch(w) ==
    /\ At(w, "taken")
    /\ IF InFlight(worker[w].evt) THEN Finish(w) ELSE Proceed(w, worker[w].evt.kind)
    /\ UNCHANGED <<manager, clientVars, events, subs, announced>>

\* AuthenticateCommand: a bad token, a second AUTH, or a new session.
Authenticate(w) ==
    LET c == worker[w].evt.conn
        u == worker[w].evt.user
    IN  /\ At(w, "auth")
        /\ \/ /\ auth' = [auth EXCEPT ![c] = "failed"]
              /\ Finish(w)
           \/ /\ Attached(manager, c)
              /\ auth' = [auth EXCEPT ![c] = IF manager.conn_to_session[c] = u THEN "ok" ELSE "failed"]
              /\ Finish(w)
           \/ /\ ~Attached(manager, c)
              /\ Proceed(w, "attach")
              /\ UNCHANGED auth
        /\ UNCHANGED <<manager, sock, left, events, subs, announced>>

Attach(w) ==
    LET c == worker[w].evt.conn
        u == worker[w].evt.user
    IN  /\ At(w, "attach")
        /\ manager.next_session_id + 1 \in SessionIds
        /\ manager' = AttachConnection(manager, c, u)
        /\ IF Attached(manager', c) THEN Proceed(w, "attached") ELSE Finish(w)
        /\ UNCHANGED <<clientVars, events, subs, announced>>

\* Variant: no bootstrap is asked for.
WelcomeOnly(w) ==
    /\ At(w, "attached")
    /\ auth' = [auth EXCEPT ![worker[w].evt.conn] = "ok"]
    /\ Finish(w)
    /\ UNCHANGED <<manager, sock, left, events, subs, announced>>

\* ... which the bootstrap of the connection follows as an event of its own.
Welcome(w) ==
    LET c == worker[w].evt.conn
    IN  /\ At(w, "attached")
        /\ events' = Append(events, [kind |-> "connection", conn |-> c, user |-> worker[w].evt.user])
        /\ auth' = [auth EXCEPT ![c] = "ok"]
        /\ Finish(w)
        /\ UNCHANGED <<manager, sock, left, subs, announced>>

\* BootstrapCommand: the state sync names the user's hubs.
Bootstrap(w) ==
    /\ At(w, "connection")
    /\ IF Attached(manager, worker[w].evt.conn) THEN Proceed(w, "sync") ELSE Finish(w)
    /\ UNCHANGED <<manager, clientVars, events, subs, announced>>

BootstrapSubscribe(w) ==
    /\ At(w, "sync")
    /\ \E h \in Hubs :
          /\ <<worker[w].evt.conn, h>> \notin subs
          /\ subs' = Relation!Subscribed(subs, worker[w].evt.conn, h)
          /\ IF \A g \in Hubs : <<worker[w].evt.conn, g>> \in subs'
             THEN Proceed(w, "synced") ELSE UNCHANGED worker
    /\ UNCHANGED <<manager, clientVars, events, announced>>

\* "Broadcast online presence only on the first active connection of this user."
FirstConnection(u) == Cardinality(SessionConnections(manager, u)) = 1

BootstrapCount(w) ==
    /\ At(w, "synced")
    /\ IF FirstConnection(worker[w].evt.user) THEN Proceed(w, "online") ELSE Finish(w)
    /\ UNCHANGED <<manager, clientVars, events, subs, announced>>

BootstrapAnnounce(w) ==
    /\ At(w, "online")
    /\ announced' = [announced EXCEPT ![worker[w].evt.user] = TRUE]
    /\ Finish(w)
    /\ UNCHANGED <<manager, clientVars, events, subs>>

\* SelectActiveChannelCommand
Select(w) ==
    /\ At(w, "select")
    /\ IF Attached(manager, worker[w].evt.conn)
       THEN Goto(w, [pc |-> "selecting", evt |-> worker[w].evt,
                     user |-> manager.conn_to_session[worker[w].evt.conn]])
       ELSE Finish(w)
    /\ UNCHANGED <<manager, clientVars, events, subs, announced>>

SelectSubscribe(w) ==
    /\ At(w, "selecting")
    /\ subs' = Relation!Subscribed(subs, worker[w].evt.conn, worker[w].evt.channel)
    /\ Proceed(w, "selected")
    /\ UNCHANGED <<manager, clientVars, events, announced>>

SelectFocus(w) ==
    /\ At(w, "selected")
    /\ \E h \in Hubs :
          manager' = JoinTextChannel(manager, worker[w].user, h, worker[w].evt.channel)
    /\ Finish(w)
    /\ UNCHANGED <<clientVars, events, subs, announced>>

\* DisconnectionCommand: a connection that never got a session leaves no trace.
Disconnection(w) ==
    LET c == worker[w].evt.conn
    IN  /\ At(w, "disconnection")
        /\ IF Attached(manager, c)
           THEN Goto(w, [pc |-> "leaving", evt |-> worker[w].evt,
                         user |-> manager.conn_to_session[c],
                         hubs |-> {h \in Hubs : <<c, h>> \in subs}])
           ELSE Finish(w)
        /\ UNCHANGED <<manager, clientVars, events, subs, announced>>

Detach(w) ==
    /\ At(w, "leaving")
    /\ manager' = RemoveConnection(manager, worker[w].evt.conn)
    /\ Proceed(w, "detached")
    /\ UNCHANGED <<clientVars, events, subs, announced>>

\* Variant: the subscriptions stay.
UnsubscribeNothing(w) ==
    /\ At(w, "detached")
    /\ Proceed(w, "last")
    /\ UNCHANGED <<manager, clientVars, events, subs, announced>>

UnsubscribeAll(w) ==
    /\ At(w, "detached")
    /\ subs' = Relation!WithoutConnection(subs, worker[w].evt.conn)
    /\ Proceed(w, "last")
    /\ UNCHANGED <<manager, clientVars, events, announced>>

LastSession(w) ==
    /\ At(w, "last")
    /\ IF HasSession(manager, worker[w].user) \/ worker[w].hubs = {}
       THEN Finish(w) ELSE Proceed(w, "offline")
    /\ UNCHANGED <<manager, clientVars, events, subs, announced>>

DisconnectionAnnounce(w) ==
    /\ At(w, "offline")
    /\ announced' = [announced EXCEPT ![worker[w].user] = FALSE]
    /\ Finish(w)
    /\ UNCHANGED <<manager, clientVars, events, subs>>

-----------------------------------------------------------------------------
Commands(c) ==
    {[kind |-> "auth", conn |-> c, user |-> u] : u \in Users}
      \cup {[kind |-> "select", conn |-> c, channel |-> t] : t \in TextChannels}

Client == \E c \in Conns : Open(c) \/ Close(c) \/ \E e \in Commands(c) : Send(c, e)

WorkerStep(w) ==
    \/ Take(w) \/ Dispatch(w)
    \/ Authenticate(w) \/ Attach(w) \/ Welcome(w)
    \/ Bootstrap(w) \/ BootstrapSubscribe(w) \/ BootstrapCount(w) \/ BootstrapAnnounce(w)
    \/ Select(w) \/ SelectSubscribe(w) \/ SelectFocus(w)
    \/ Disconnection(w) \/ Detach(w) \/ UnsubscribeAll(w) \/ LastSession(w)
    \/ DisconnectionAnnounce(w)

LifecycleNext == Client \/ \E w \in DOMAIN worker : WorkerStep(w)

LifecycleSpec == LifecycleInit /\ [][LifecycleNext]_lifecycleVars

\* A worker thread keeps running: it parks only on an empty queue.
LifecycleFair ==
    /\ LifecycleSpec
    /\ \A w \in UNION {1..f.workers : f \in Configs} :
          WF_lifecycleVars(w \in DOMAIN worker /\ WorkerStep(w))

-----------------------------------------------------------------------------
(* Properties                                                              *)

OneWorker == DOMAIN worker = {1}

\* With one worker, a closed connection is forgotten: its session and subscriptions
\* go for good.  (A closed connection never opens again, so this is the same as
\* that being closed leads to being forgotten for ever.)
ClosedIsForgotten ==
    \A c \in Conns :
       <>[](OneWorker /\ sock[c] = "closed" => ~Attached(manager, c) /\ \A p \in subs : p[1] # c)

\* However many workers there are, every login is bootstrapped: a connection that
\* got a session is subscribed to the user's hubs, unless it is closed first.
LoginIsBootstrapped ==
    \A c \in Conns :
       Attached(manager, c) ~> (\A h \in Hubs : <<c, h>> \in subs) \/ sock[c] = "closed"

=============================================================================
