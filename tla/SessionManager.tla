---------------------------- MODULE SessionManager ----------------------------
(***************************************************************************)
(* Which connections are logged in, as whom:                               *)
(* app/managers/session/SessionManager.cpp.  The relation between          *)
(* connections, session ids and users is kept in five maps and a gauge,    *)
(*                                                                         *)
(*   sessions             user -> [hub, channel], the text focus           *)
(*   conn_to_session      connection -> user                               *)
(*   conn_to_session_id   connection -> session id                         *)
(*   session_id_to_user   session id -> user                               *)
(*   session_id_to_conns  session id -> connections                        *)
(*   user_to_session_ids  user -> session ids                              *)
(*   active_users         the metric of that name                          *)
(*   max_sessions_per_user   from the configuration; 0 is no limit         *)
(*                                                                         *)
(* all under one shared_mutex.  A method is an operator from the manager m *)
(* (a record of the maps) to the manager it leaves behind.                 *)
(***************************************************************************)
EXTENDS Connections, Maps, Naturals, FiniteSets

CONSTANTS Users, Hubs, TextChannels,
          Limits,       \* the values max_sessions_per_user may have
          NoPlace,      \* std::nullopt of the text focus
          SessionIds    \* a bound on the counter session ids come from

ASSUME LimitsNat     == Limits \subseteq Nat
ASSUME SessionIdsNat == SessionIds \subseteq Nat

VARIABLE manager

-----------------------------------------------------------------------------
NoSessions(limit) ==
    [sessions |-> EmptyMap, conn_to_session |-> EmptyMap, conn_to_session_id |-> EmptyMap,
     session_id_to_user |-> EmptyMap, session_id_to_conns |-> EmptyMap,
     user_to_session_ids |-> EmptyMap, next_session_id |-> 0, active_users |-> 0,
     max_sessions_per_user |-> limit]

\* The value a map's operator[] or find gives, with the empty set for no entry.
SetAt(f, k) == IF k \in DOMAIN f THEN f[k] ELSE {}

\* userHasActiveSessionsLocked, hasSession
HasSession(m, u) == SetAt(m.user_to_session_ids, u) # {}

\* sessionOfConnection and sessionIdOfConnection have a value
Attached(m, c) == c \in DOMAIN m.conn_to_session

\* getSessionConnections: over all sessions of the user
SessionConnections(m, u) ==
    UNION {SetAt(m.session_id_to_conns, s) : s \in SetAt(m.user_to_session_ids, u)}

\* activeUsers
ActiveUsers(m) == {u \in DOMAIN m.user_to_session_ids : m.user_to_session_ids[u] # {}}

-----------------------------------------------------------------------------
(* attachConnection                                                        *)

\* Variant: the limit lets one session too many in.
LimitReachedLate(m, u) ==
    m.max_sessions_per_user > 0
    /\ Cardinality(SetAt(m.user_to_session_ids, u)) > m.max_sessions_per_user

LimitReached(m, u) ==
    m.max_sessions_per_user > 0
    /\ Cardinality(SetAt(m.user_to_session_ids, u)) >= m.max_sessions_per_user

\* A connection that is attached keeps its session, whoever asks; a user at the
\* limit gets none.
Refused(m, c, u) == c \in DOMAIN m.conn_to_session_id \/ LimitReached(m, u)

NewSession(m, c, u) ==
    LET s == m.next_session_id + 1
    IN  [max_sessions_per_user |-> m.max_sessions_per_user,
         sessions            |-> TryEmplace(m.sessions, u, [hub |-> NoPlace, channel |-> NoPlace]),
         conn_to_session     |-> Put(m.conn_to_session, c, u),
         conn_to_session_id  |-> Put(m.conn_to_session_id, c, s),
         session_id_to_user  |-> Put(m.session_id_to_user, s, u),
         session_id_to_conns |-> Put(m.session_id_to_conns, s, SetAt(m.session_id_to_conns, s) \cup {c}),
         user_to_session_ids |-> Put(m.user_to_session_ids, u, SetAt(m.user_to_session_ids, u) \cup {s}),
         next_session_id     |-> s,
         active_users        |-> IF HasSession(m, u) THEN m.active_users ELSE m.active_users + 1]

AttachConnection(m, c, u) == IF Refused(m, c, u) THEN m ELSE NewSession(m, c, u)

-----------------------------------------------------------------------------
(* removeConnection                                                        *)

\* Variant: a session that lost its connection stays with its user.
CloseSessionOnly(m, s, u) ==
    [m EXCEPT !.session_id_to_conns = Erase(@, s),
              !.session_id_to_user  = Erase(@, s)]

\* The session s of u has lost its last connection.
CloseSessionId(m, s, u) ==
    LET ids == SetAt(m.user_to_session_ids, u) \ {s}
        by_user == IF u \notin DOMAIN m.user_to_session_ids THEN m.user_to_session_ids
                   ELSE IF ids = {} THEN Erase(m.user_to_session_ids, u)
                   ELSE Put(m.user_to_session_ids, u, ids)
    IN  [m EXCEPT !.session_id_to_conns = Erase(@, s),
                  !.session_id_to_user  = Erase(@, s),
                  !.user_to_session_ids = by_user,
                  !.sessions     = IF ids = {} THEN Erase(@, u) ELSE @,
                  !.active_users = IF ids = {} THEN @ - 1 ELSE @]

RemoveConnection(m, c) ==
    LET n    == [m EXCEPT !.conn_to_session = Erase(@, c), !.conn_to_session_id = Erase(@, c)]
        s    == m.conn_to_session_id[c]
        rest == SetAt(m.session_id_to_conns, s) \ {c}
    IN  IF ~Attached(m, c) \/ c \notin DOMAIN m.conn_to_session_id THEN n
        ELSE IF rest # {} THEN [n EXCEPT !.session_id_to_conns = Put(@, s, rest)]
        ELSE CloseSessionId(n, s, m.conn_to_session[c])

-----------------------------------------------------------------------------
(* joinTextChannel, leaveTextChannel                                       *)

JoinTextChannel(m, u, h, t) ==
    IF u \in DOMAIN m.sessions
    THEN [m EXCEPT !.sessions = Put(@, u, [hub |-> h, channel |-> t])] ELSE m

LeaveTextChannel(m, u) ==
    IF u \in DOMAIN m.sessions
    THEN [m EXCEPT !.sessions = Put(@, u, [@[u] EXCEPT !.hub = NoPlace])] ELSE m

-----------------------------------------------------------------------------
(* The manager as a state machine: any method, in any order.               *)

SessionsInit == \E n \in Limits : manager = NoSessions(n)

DoAttach == /\ manager.next_session_id + 1 \in SessionIds
            /\ \E c \in Conns, u \in Users : manager' = AttachConnection(manager, c, u)
DoRemove == \E c \in Conns : manager' = RemoveConnection(manager, c)
DoFocus  == \E u \in Users, h \in Hubs, t \in TextChannels :
                manager' = JoinTextChannel(manager, u, h, t)
DoUnfocus == \E u \in Users : manager' = LeaveTextChannel(manager, u)

SessionsNext == DoAttach \/ DoRemove \/ DoFocus \/ DoUnfocus

SessionsSpec == SessionsInit /\ [][SessionsNext]_manager

-----------------------------------------------------------------------------
(* What the manager promises.                                              *)

Focus == [hub : Hubs \cup {NoPlace}, channel : TextChannels \cup {NoPlace}]

Fields == {"sessions", "conn_to_session", "conn_to_session_id", "session_id_to_user",
           "session_id_to_conns", "user_to_session_ids", "next_session_id", "active_users",
           "max_sessions_per_user"}

SessionsTyped(m) ==
    /\ DOMAIN m = Fields
    /\ DOMAIN m.sessions \subseteq Users /\ m.sessions \in [DOMAIN m.sessions -> Focus]
    /\ DOMAIN m.conn_to_session \subseteq Conns
    /\ m.conn_to_session \in [DOMAIN m.conn_to_session -> Users]
    /\ m.conn_to_session_id \in [DOMAIN m.conn_to_session_id -> Nat]
    /\ DOMAIN m.session_id_to_user \subseteq Nat
    /\ m.session_id_to_user \in [DOMAIN m.session_id_to_user -> Users]
    /\ m.session_id_to_conns \in [DOMAIN m.session_id_to_conns -> SUBSET Conns]
    /\ DOMAIN m.user_to_session_ids \subseteq Users
    /\ m.user_to_session_ids \in [DOMAIN m.user_to_session_ids -> SUBSET Nat]
    /\ m.next_session_id \in Nat /\ m.active_users \in Nat
    /\ m.max_sessions_per_user \in Limits

\* The maps describe one relation.
Coherent(m) ==
    /\ DOMAIN m.conn_to_session_id = DOMAIN m.conn_to_session
    /\ DOMAIN m.session_id_to_conns = DOMAIN m.session_id_to_user
    /\ \A c \in DOMAIN m.conn_to_session :
          LET s == m.conn_to_session_id[c]
          IN  /\ s \in DOMAIN m.session_id_to_user
              /\ m.session_id_to_user[s] = m.conn_to_session[c]
              /\ c \in m.session_id_to_conns[s]
    /\ \A s \in DOMAIN m.session_id_to_user :
          /\ \E c \in DOMAIN m.conn_to_session : m.session_id_to_conns[s] = {c}
          /\ \A c \in m.session_id_to_conns[s] :
                c \in DOMAIN m.conn_to_session /\ m.conn_to_session_id[c] = s
          /\ m.session_id_to_user[s] \in DOMAIN m.user_to_session_ids
          /\ s \in m.user_to_session_ids[m.session_id_to_user[s]]
    /\ \A u \in DOMAIN m.user_to_session_ids :
          /\ m.user_to_session_ids[u] # {}
          /\ \A s \in m.user_to_session_ids[u] :
                s \in DOMAIN m.session_id_to_user /\ m.session_id_to_user[s] = u

\* Type invariant of the manager.
SessionsTypeOK == SessionsTyped(manager)

\* The five maps stay one relation: a connection, its session and its user reach
\* each other by every route the code takes, and a session has one connection.
SessionsCoherent == Coherent(manager)

\* The text focus exists for exactly the users who are logged in: it neither
\* outlives the last session nor is lost with one of several.
FocusFollowsLogin == DOMAIN manager.sessions = DOMAIN manager.user_to_session_ids

\* Nobody is ever over the configured limit of sessions.
LimitHeld ==
    manager.max_sessions_per_user > 0 =>
       \A u \in DOMAIN manager.user_to_session_ids :
          Cardinality(manager.user_to_session_ids[u]) <= manager.max_sessions_per_user

\* The active_users gauge, kept by increments and decrements, is the number of
\* users that activeUsers() lists.
GaugeExact == manager.active_users = Cardinality(ActiveUsers(manager))

=============================================================================
