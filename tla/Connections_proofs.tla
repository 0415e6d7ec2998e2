-------------------------- MODULE Connections_proofs --------------------------
(***************************************************************************)
(* What the server knows of its connections, for any set of them.          *)
(*                                                                         *)
(* Every method of SessionManager keeps its maps one relation, the gauge    *)
(* exact and the limit held, for any sets of users, hubs and channels and   *)
(* any limit.  The commands on their worker threads use it as its state     *)
(* machine allows: the lifecycle implements SessionsSpec, and what holds of *)
(* every method carries over.                                               *)
(*                                                                         *)
(* Under one number a connection is only ever sent one message, numbers     *)
(* leave no gap, and a numbered frame is kept until the client has it: for  *)
(* any loads and capacities, whatever is dropped, sent again or             *)
(* acknowledged.                                                            *)
(***************************************************************************)
EXTENDS SessionLifecycle, Outbound, FiniteSetTheorems, WellFoundedInduction, TLAPS

-----------------------------------------------------------------------------
(* The sessions.                                                           *)

\* Ids are given out once: none in use is above the counter.
Minted(m) == \A s \in DOMAIN m.session_id_to_user : s <= m.next_session_id

Focused(m) == DOMAIN m.sessions = DOMAIN m.user_to_session_ids

Counted(m) ==
    /\ IsFiniteSet(DOMAIN m.user_to_session_ids)
    /\ m.active_users = Cardinality(DOMAIN m.user_to_session_ids)

Limited(m) ==
    \A u \in DOMAIN m.user_to_session_ids :
       /\ IsFiniteSet(m.user_to_session_ids[u])
       /\ m.max_sessions_per_user > 0 =>
             Cardinality(m.user_to_session_ids[u]) <= m.max_sessions_per_user

Good(m) == /\ SessionsTyped(m) /\ Coherent(m) /\ Minted(m)
           /\ Focused(m) /\ Counted(m) /\ Limited(m)

-----------------------------------------------------------------------------
(* The maps.                                                               *)

IsPut(f, k, v, g) ==
    /\ DOMAIN g = DOMAIN f \cup {k}
    /\ g[k] = v
    /\ \A x \in DOMAIN f : x # k => g[x] = f[x]
    /\ g = [x \in DOMAIN g |-> g[x]]

IsErase(f, k, g) ==
    /\ DOMAIN g = DOMAIN f \ {k}
    /\ \A x \in DOMAIN g : g[x] = f[x]
    /\ g = [x \in DOMAIN g |-> g[x]]

\* Inserting or overwriting changes one entry.
LEMMA PutFacts == \A f, k, v : IsPut(f, k, v, Put(f, k, v))
BY DEF IsPut, Put

\* Erasing removes one entry.
LEMMA EraseFacts == \A f, k : IsErase(f, k, Erase(f, k))
BY Zenon DEF IsErase, Erase, Restrict

-----------------------------------------------------------------------------
(* attachConnection                                                        *)

\* A new session enters every map under a fresh id.
LEMMA NewSessionGood ==
    ASSUME NEW m, Good(m), NEW c \in Conns, NEW u \in Users, ~Refused(m, c, u)
    PROVE  Good(NewSession(m, c, u))
<1>. DEFINE s   == m.next_session_id + 1
            ids == SetAt(m.user_to_session_ids, u) \cup {s}
            foc == TryEmplace(m.sessions, u, [hub |-> NoPlace, channel |-> NoPlace])
            cts == Put(m.conn_to_session, c, u)
            cti == Put(m.conn_to_session_id, c, s)
            stu == Put(m.session_id_to_user, s, u)
            stc == Put(m.session_id_to_conns, s, SetAt(m.session_id_to_conns, s) \cup {c})
            uts == Put(m.user_to_session_ids, u, ids)
            act == IF HasSession(m, u) THEN m.active_users ELSE m.active_users + 1
            n   == NewSession(m, c, u)
<1>1. /\ s \in Nat /\ s \notin DOMAIN m.session_id_to_user
      /\ s \notin DOMAIN m.session_id_to_conns
      /\ \A x \in DOMAIN m.user_to_session_ids : s \notin m.user_to_session_ids[x]
  <2>1. m.next_session_id \in Nat
    BY Zenon DEF Good, SessionsTyped
  <2>2. s \notin DOMAIN m.session_id_to_user
    BY <2>1 DEF Good, Minted, SessionsTyped
  <2>. QED BY <2>1, <2>2 DEF Good, Coherent
<1>2. c \notin DOMAIN m.conn_to_session /\ c \notin DOMAIN m.conn_to_session_id
  BY Zenon DEF Refused, Good, Coherent
<1>3. SetAt(m.session_id_to_conns, s) \cup {c} = {c}
  BY Zenon, <1>1 DEF SetAt
<1>4. /\ IsPut(m.conn_to_session, c, u, cts) /\ IsPut(m.conn_to_session_id, c, s, cti)
      /\ IsPut(m.session_id_to_user, s, u, stu) /\ IsPut(m.session_id_to_conns, s, {c}, stc)
      /\ IsPut(m.user_to_session_ids, u, ids, uts)
  BY Zenon, PutFacts, <1>3
<1>5. /\ DOMAIN foc = DOMAIN m.sessions \cup {u}
      /\ foc \in [DOMAIN foc -> Focus]
  <2>1. CASE u \in DOMAIN m.sessions
    BY Zenon, <2>1 DEF TryEmplace, Good, SessionsTyped
  <2>2. CASE u \notin DOMAIN m.sessions
    <3>. DEFINE none == [hub |-> NoPlace, channel |-> NoPlace]
    <3>1. none \in Focus
      BY Zenon DEF Focus
    <3>2. foc = Put(m.sessions, u, none)
      BY Zenon, <2>2 DEF TryEmplace
    <3>. HIDE DEF none, foc
    <3>3. IsPut(m.sessions, u, none, foc)
      BY Zenon, <3>2, PutFacts
    <3>. QED BY Zenon, <3>1, <3>3 DEF IsPut, Good, SessionsTyped
  <2>. QED BY Zenon, <2>1, <2>2
<1>6. /\ IsFiniteSet(ids) /\ s \in ids
      /\ m.max_sessions_per_user > 0 => Cardinality(ids) <= m.max_sessions_per_user
      /\ ids \subseteq Nat
      /\ \A x \in ids : x = s \/ (u \in DOMAIN m.user_to_session_ids /\ x \in m.user_to_session_ids[u])
      /\ u \in DOMAIN m.user_to_session_ids => m.user_to_session_ids[u] \subseteq ids
  <2>1. IsFiniteSet(SetAt(m.user_to_session_ids, u))
    BY Zenon, FS_EmptySet DEF SetAt, Good, Limited
  <2>2. /\ IsFiniteSet(ids)
        /\ Cardinality(ids) <= Cardinality(SetAt(m.user_to_session_ids, u)) + 1
        /\ Cardinality(SetAt(m.user_to_session_ids, u)) \in Nat
    BY <2>1, FS_AddElement, FS_CardinalityType
  <2>3. m.max_sessions_per_user \in Nat
    BY Zenon, LimitsNat DEF Good, SessionsTyped
  <2>4. m.max_sessions_per_user > 0 => Cardinality(ids) <= m.max_sessions_per_user
    <3>. HIDE DEF ids
    <3>1. m.max_sessions_per_user > 0 =>
             ~(Cardinality(SetAt(m.user_to_session_ids, u)) >= m.max_sessions_per_user)
      BY Zenon DEF Refused, LimitReached
    <3>2. Cardinality(ids) \in Nat
      BY Zenon, <2>2, FS_CardinalityType
    <3>. QED BY <2>2, <2>3, <3>1, <3>2
  <2>. QED BY Zenon, <1>1, <2>2, <2>4 DEF SetAt, Good, SessionsTyped
<1>7. /\ act \in Nat /\ IsFiniteSet(DOMAIN uts) /\ act = Cardinality(DOMAIN uts)
  <2>1. HasSession(m, u) <=> u \in DOMAIN m.user_to_session_ids
    BY Zenon DEF HasSession, SetAt, Good, Coherent
  <2>2. DOMAIN uts = DOMAIN m.user_to_session_ids \cup {u}
    BY Zenon, <1>4 DEF IsPut
  <2>3. /\ IsFiniteSet(DOMAIN m.user_to_session_ids)
        /\ m.active_users = Cardinality(DOMAIN m.user_to_session_ids)
        /\ m.active_users \in Nat
    BY Zenon DEF Good, Counted, SessionsTyped
  <2>. QED BY <2>1, <2>2, <2>3, FS_AddElement
<1>8. n = [max_sessions_per_user |-> m.max_sessions_per_user, sessions |-> foc,
           conn_to_session |-> cts, conn_to_session_id |-> cti, session_id_to_user |-> stu,
           session_id_to_conns |-> stc, user_to_session_ids |-> uts,
           next_session_id |-> s, active_users |-> act]
  BY Zenon DEF NewSession
<1>. HIDE DEF s, ids, foc, cts, cti, stu, stc, uts, act, n
<1>9. /\ n.max_sessions_per_user = m.max_sessions_per_user /\ n.sessions = foc
      /\ n.conn_to_session = cts /\ n.conn_to_session_id = cti /\ n.session_id_to_user = stu
      /\ n.session_id_to_conns = stc /\ n.user_to_session_ids = uts
      /\ n.next_session_id = s /\ n.active_users = act /\ DOMAIN n = Fields
  BY Zenon, <1>8 DEF Fields
<1>10. SessionsTyped(n)
  <2>1. DOMAIN cts \subseteq Conns /\ cts \in [DOMAIN cts -> Users]
    BY <1>4 DEF IsPut, Good, SessionsTyped
  <2>2. cti \in [DOMAIN cti -> Nat]
    BY Zenon, <1>1, <1>4 DEF IsPut, Good, SessionsTyped
  <2>3. DOMAIN stu \subseteq Nat /\ stu \in [DOMAIN stu -> Users]
    BY <1>1, <1>4 DEF IsPut, Good, SessionsTyped
  <2>4. stc \in [DOMAIN stc -> SUBSET Conns]
    BY ZenonT(30), <1>4 DEF IsPut, Good, SessionsTyped
  <2>5. DOMAIN uts \subseteq Users /\ uts \in [DOMAIN uts -> SUBSET Nat]
    BY Zenon, <1>4, <1>6 DEF IsPut, Good, SessionsTyped
  <2>6. DOMAIN foc \subseteq Users /\ m.max_sessions_per_user \in Limits
    BY Zenon, <1>5 DEF Good, SessionsTyped
  <2>. QED BY Zenon, <1>1, <1>5, <1>7, <1>9, <2>1, <2>2, <2>3, <2>4, <2>5, <2>6 DEF SessionsTyped
<1>11. Coherent(n)
  <2>1. DOMAIN cti = DOMAIN cts /\ DOMAIN stc = DOMAIN stu
    BY Zenon, <1>4 DEF IsPut, Good, Coherent
  <2>2. ASSUME NEW k \in DOMAIN cts
        PROVE  /\ cti[k] \in DOMAIN stu /\ stu[cti[k]] = cts[k] /\ k \in stc[cti[k]]
    <3>1. CASE k = c
      BY Zenon, <1>4, <3>1 DEF IsPut
    <3>2. CASE k # c
      <4>1. /\ k \in DOMAIN m.conn_to_session /\ k \in DOMAIN m.conn_to_session_id
            /\ cts[k] = m.conn_to_session[k] /\ cti[k] = m.conn_to_session_id[k]
        BY Zenon, <1>4, <3>2 DEF IsPut, Good, Coherent
      <4>2. /\ cti[k] \in DOMAIN m.session_id_to_user
            /\ cti[k] \in DOMAIN m.session_id_to_conns
            /\ m.session_id_to_user[cti[k]] = cts[k]
            /\ k \in m.session_id_to_conns[cti[k]]
        BY Zenon, <4>1 DEF Good, Coherent
      <4>. QED BY Zenon, <1>1, <1>4, <4>2 DEF IsPut
    <3>. QED BY Zenon, <3>1, <3>2
  <2>3. ASSUME NEW t \in DOMAIN stu
        PROVE  /\ \E k \in DOMAIN cts : stc[t] = {k}
               /\ \A k \in stc[t] : k \in DOMAIN cts /\ cti[k] = t
               /\ stu[t] \in DOMAIN uts /\ t \in uts[stu[t]]
    <3>1. CASE t = s
      BY Zenon, <1>4, <1>6, <3>1 DEF IsPut
    <3>2. CASE t # s
      <4>1. /\ t \in DOMAIN m.session_id_to_user
            /\ stu[t] = m.session_id_to_user[t]
            /\ t \in DOMAIN m.session_id_to_conns
            /\ stc[t] = m.session_id_to_conns[t]
        BY Zenon, <1>4, <3>2 DEF IsPut, Good, Coherent
      <4>2. /\ \E k \in DOMAIN cts : stc[t] = {k}
            /\ \A k \in stc[t] : k \in DOMAIN cts /\ cti[k] = t
        BY <1>2, <1>4, <4>1 DEF IsPut, Good, Coherent
      <4>3. /\ stu[t] \in DOMAIN m.user_to_session_ids
            /\ t \in m.user_to_session_ids[stu[t]]
        BY Zenon, <4>1 DEF Good, Coherent
      <4>. QED BY Zenon, <1>4, <1>6, <4>2, <4>3 DEF IsPut
    <3>. QED BY Zenon, <3>1, <3>2
  <2>4. ASSUME NEW x \in DOMAIN uts
        PROVE  /\ uts[x] # {}
               /\ \A t \in uts[x] : t \in DOMAIN stu /\ stu[t] = x
    <3>1. CASE x = u
      BY <1>1, <1>4, <1>6, <3>1 DEF IsPut, Good, Coherent
    <3>2. CASE x # u
      BY <1>1, <1>4, <3>2 DEF IsPut, Good, Coherent
    <3>. QED BY Zenon, <3>1, <3>2
  <2>. QED BY <1>9, <2>1, <2>2, <2>3, <2>4 DEF Coherent
<1>12. Minted(n)
  BY <1>4, <1>9 DEF Minted, IsPut, Good, SessionsTyped, s
<1>13. Focused(n)
  BY Zenon, <1>4, <1>5, <1>9 DEF Focused, IsPut, Good
<1>14. Counted(n)
  BY Zenon, <1>7, <1>9 DEF Counted
<1>15. Limited(n)
  BY Zenon, <1>4, <1>6, <1>9 DEF Limited, IsPut, Good
<1>. QED BY Zenon, <1>10, <1>11, <1>12, <1>13, <1>14, <1>15 DEF Good, n

\* attachConnection: refused, or a new session.
LEMMA AttachGood ==
    ASSUME NEW m, Good(m), NEW c \in Conns, NEW u \in Users
    PROVE  Good(AttachConnection(m, c, u))
BY Zenon, NewSessionGood DEF AttachConnection

-----------------------------------------------------------------------------
(* removeConnection                                                        *)

\* A session has one connection, so losing it always closes the session.
LEMMA RemoveCloses ==
    ASSUME NEW m, Good(m), NEW c \in DOMAIN m.conn_to_session
    PROVE  RemoveConnection(m, c) =
             CloseSessionId([m EXCEPT !.conn_to_session = Erase(@, c),
                                      !.conn_to_session_id = Erase(@, c)],
                            m.conn_to_session_id[c], m.conn_to_session[c])
<1>1. c \in DOMAIN m.conn_to_session_id
  BY Zenon DEF Good, Coherent
<1>2. SetAt(m.session_id_to_conns, m.conn_to_session_id[c]) \ {c} = {}
  BY DEF SetAt, Good, Coherent
<1>. QED BY Zenon, <1>1, <1>2 DEF RemoveConnection, Attached

\* Removing the connection of a session takes the session out of every map, and
\* the user with it when it was the last one.
LEMMA CloseGood ==
    ASSUME NEW m, Good(m), NEW c \in DOMAIN m.conn_to_session
    PROVE  Good(RemoveConnection(m, c))
<1>. DEFINE s   == m.conn_to_session_id[c]
            u   == m.conn_to_session[c]
            ids == m.user_to_session_ids[u] \ {s}
            cts == Erase(m.conn_to_session, c)
            cti == Erase(m.conn_to_session_id, c)
            stu == Erase(m.session_id_to_user, s)
            stc == Erase(m.session_id_to_conns, s)
            uts == IF ids = {} THEN Erase(m.user_to_session_ids, u)
                   ELSE Put(m.user_to_session_ids, u, ids)
            foc == IF ids = {} THEN Erase(m.sessions, u) ELSE m.sessions
            act == IF ids = {} THEN m.active_users - 1 ELSE m.active_users
            n   == RemoveConnection(m, c)
<1>1. /\ s \in DOMAIN m.session_id_to_user /\ m.session_id_to_user[s] = u
      /\ m.session_id_to_conns[s] = {c}
      /\ u \in DOMAIN m.user_to_session_ids /\ s \in m.user_to_session_ids[u]
      /\ u \in Users
  BY DEF Good, Coherent, SessionsTyped
<1>2. /\ IsErase(m.conn_to_session, c, cts) /\ IsErase(m.conn_to_session_id, c, cti)
      /\ IsErase(m.session_id_to_user, s, stu) /\ IsErase(m.session_id_to_conns, s, stc)
      /\ ids = {} => IsErase(m.user_to_session_ids, u, uts) /\ IsErase(m.sessions, u, foc)
      /\ ids # {} => IsPut(m.user_to_session_ids, u, ids, uts) /\ foc = m.sessions
  BY Zenon, EraseFacts, PutFacts
<1>3. /\ n.max_sessions_per_user = m.max_sessions_per_user /\ n.sessions = foc
      /\ n.conn_to_session = cts /\ n.conn_to_session_id = cti /\ n.session_id_to_user = stu
      /\ n.session_id_to_conns = stc /\ n.user_to_session_ids = uts
      /\ n.next_session_id = m.next_session_id /\ n.active_users = act /\ DOMAIN n = Fields
  <2>. DEFINE k == [m EXCEPT !.conn_to_session = Erase(@, c), !.conn_to_session_id = Erase(@, c)]
  <2>1. DOMAIN m = Fields
    BY Zenon DEF Good, SessionsTyped
  <2>2. /\ k.max_sessions_per_user = m.max_sessions_per_user /\ k.sessions = m.sessions
        /\ k.conn_to_session = cts /\ k.conn_to_session_id = cti
        /\ k.session_id_to_user = m.session_id_to_user
        /\ k.session_id_to_conns = m.session_id_to_conns
        /\ k.user_to_session_ids = m.user_to_session_ids
        /\ k.next_session_id = m.next_session_id /\ k.active_users = m.active_users
        /\ DOMAIN k = Fields
    BY Zenon, <2>1 DEF Fields
  <2>3. n = CloseSessionId(k, s, u)
    BY Zenon, RemoveCloses
  <2>. HIDE DEF k, n, s, u, cts, cti
  <2>4. SetAt(k.user_to_session_ids, u) \ {s} = ids
    BY Zenon, <1>1, <2>2 DEF SetAt
  <2>5. n = [k EXCEPT !.session_id_to_conns = stc, !.session_id_to_user = stu,
                      !.user_to_session_ids = uts, !.sessions = foc, !.active_users = act]
    BY Zenon, <1>1, <2>2, <2>3, <2>4 DEF CloseSessionId
  <2>. HIDE DEF stu, stc, uts, foc, act
  <2>. QED BY Zenon, <2>2, <2>5 DEF Fields
<1>4. /\ act \in Nat /\ IsFiniteSet(DOMAIN uts) /\ act = Cardinality(DOMAIN uts)
  <2>1. /\ IsFiniteSet(DOMAIN m.user_to_session_ids)
        /\ m.active_users = Cardinality(DOMAIN m.user_to_session_ids)
        /\ m.active_users \in Nat
    BY Zenon DEF Good, Counted, SessionsTyped
  <2>2. CASE ids = {}
    <3>1. DOMAIN uts = DOMAIN m.user_to_session_ids \ {u}
      BY Zenon, <1>2, <2>2 DEF IsErase
    <3>2. act = m.active_users - 1
      BY Zenon, <2>2
    <3>. HIDE DEF uts, act, u
    <3>3. /\ IsFiniteSet(DOMAIN uts)
          /\ Cardinality(DOMAIN uts) = m.active_users - 1
      BY <1>1, <2>1, <3>1, FS_RemoveElement
    <3>. QED BY Zenon, <3>2, <3>3, FS_CardinalityType
  <2>3. CASE ids # {}
    BY Zenon, <1>1, <1>2, <2>1, <2>3 DEF IsPut
  <2>. QED BY Zenon, <2>2, <2>3
<1>5. /\ ids \subseteq m.user_to_session_ids[u] /\ s \notin ids
      /\ \A x \in m.user_to_session_ids[u] : x # s => x \in ids
      /\ IsFiniteSet(ids)
      /\ m.max_sessions_per_user > 0 => Cardinality(ids) <= m.max_sessions_per_user
  <2>1. IsFiniteSet(m.user_to_session_ids[u]) /\ ids \subseteq m.user_to_session_ids[u]
    BY Zenon, <1>1 DEF Good, Limited
  <2>2. /\ IsFiniteSet(ids) /\ Cardinality(ids) <= Cardinality(m.user_to_session_ids[u])
        /\ Cardinality(ids) \in Nat /\ Cardinality(m.user_to_session_ids[u]) \in Nat
    BY Zenon, <2>1, FS_Subset, FS_CardinalityType
  <2>3. m.max_sessions_per_user \in Nat
    BY Zenon, LimitsNat DEF Good, SessionsTyped
  <2>4. m.max_sessions_per_user > 0 =>
           Cardinality(m.user_to_session_ids[u]) <= m.max_sessions_per_user
    BY Zenon, <1>1 DEF Good, Limited
  <2>5. m.max_sessions_per_user > 0 => Cardinality(ids) <= m.max_sessions_per_user
    <3>. HIDE DEF ids, u
    <3>. QED BY <2>2, <2>3, <2>4
  <2>. QED BY Zenon, <2>2, <2>5
<1>. HIDE DEF s, ids, foc, cts, cti, stu, stc, uts, act, n
<1>6. SessionsTyped(n)
  <2>1. DOMAIN cts \subseteq Conns /\ cts \in [DOMAIN cts -> Users]
    BY <1>2 DEF IsErase, Good, SessionsTyped
  <2>2. cti \in [DOMAIN cti -> Nat]
    BY Zenon, <1>2 DEF IsErase, Good, SessionsTyped
  <2>3. DOMAIN stu \subseteq Nat /\ stu \in [DOMAIN stu -> Users]
    BY <1>2 DEF IsErase, Good, SessionsTyped
  <2>4. stc \in [DOMAIN stc -> SUBSET Conns]
    BY Zenon, <1>2 DEF IsErase, Good, SessionsTyped
  <2>5. DOMAIN uts \subseteq Users /\ uts \in [DOMAIN uts -> SUBSET Nat]
    <3>1. CASE ids = {}
      BY <1>2, <3>1 DEF IsErase, Good, SessionsTyped
    <3>2. CASE ids # {}
      BY Zenon, <1>1, <1>2, <1>5, <3>2 DEF IsPut, Good, SessionsTyped
    <3>. QED BY Zenon, <3>1, <3>2
  <2>6. DOMAIN foc \subseteq Users /\ foc \in [DOMAIN foc -> Focus]
    BY <1>2 DEF IsErase, Good, SessionsTyped
  <2>7. m.next_session_id \in Nat /\ m.max_sessions_per_user \in Limits
    BY Zenon DEF Good, SessionsTyped
  <2>. QED BY Zenon, <1>3, <1>4, <2>1, <2>2, <2>3, <2>4, <2>5, <2>6, <2>7 DEF SessionsTyped
<1>7. Coherent(n)
  <2>1. DOMAIN cti = DOMAIN cts /\ DOMAIN stc = DOMAIN stu
    BY Zenon, <1>2 DEF IsErase, Good, Coherent
  <2>2. ASSUME NEW k \in DOMAIN cts
        PROVE  /\ cti[k] \in DOMAIN stu /\ stu[cti[k]] = cts[k] /\ k \in stc[cti[k]]
    <3>1. /\ k \in DOMAIN m.conn_to_session /\ k # c
          /\ cts[k] = m.conn_to_session[k] /\ cti[k] = m.conn_to_session_id[k]
      BY Zenon, <1>2, <2>1 DEF IsErase
    <3>2. /\ cti[k] \in DOMAIN m.session_id_to_user
          /\ m.session_id_to_user[cti[k]] = cts[k]
          /\ k \in m.session_id_to_conns[cti[k]]
      BY Zenon, <3>1 DEF Good, Coherent
    <3>3. cti[k] # s
      BY Zenon, <1>1, <3>1, <3>2
    <3>. QED BY Zenon, <1>2, <2>1, <3>2, <3>3 DEF IsErase
  <2>3. ASSUME NEW t \in DOMAIN stu
        PROVE  /\ \E k \in DOMAIN cts : stc[t] = {k}
               /\ \A k \in stc[t] : k \in DOMAIN cts /\ cti[k] = t
               /\ stu[t] \in DOMAIN uts /\ t \in uts[stu[t]]
    <3>1. /\ t \in DOMAIN m.session_id_to_user /\ t # s
          /\ stu[t] = m.session_id_to_user[t] /\ stc[t] = m.session_id_to_conns[t]
      BY Zenon, <1>2, <2>1 DEF IsErase
    <3>2. c \notin stc[t]
      BY Zenon, <3>1 DEF Good, Coherent, s
    <3>3. /\ \E k \in DOMAIN cts : stc[t] = {k}
          /\ \A k \in stc[t] : k \in DOMAIN cts /\ cti[k] = t
      BY <1>2, <2>1, <3>1, <3>2 DEF IsErase, Good, Coherent
    <3>4. /\ stu[t] \in DOMAIN m.user_to_session_ids
          /\ t \in m.user_to_session_ids[stu[t]]
      BY Zenon, <3>1 DEF Good, Coherent
    <3>5. CASE stu[t] = u
      <4>1. t \in ids
        BY Zenon, <1>5, <3>1, <3>4, <3>5
      <4>. QED BY Zenon, <1>2, <3>3, <3>5, <4>1 DEF IsPut
    <3>6. CASE stu[t] # u
      BY Zenon, <1>2, <3>3, <3>4, <3>6 DEF IsPut, IsErase
    <3>. QED BY Zenon, <3>5, <3>6
  <2>4. ASSUME NEW x \in DOMAIN uts
        PROVE  /\ uts[x] # {}
               /\ \A t \in uts[x] : t \in DOMAIN stu /\ stu[t] = x
    <3>1. CASE x = u
      <4>1. ids # {} /\ uts[x] = ids
        BY Zenon, <1>2, <3>1 DEF IsPut, IsErase
      <4>2. \A t \in ids : t \in DOMAIN m.session_id_to_user /\ m.session_id_to_user[t] = u /\ t # s
        BY <1>1, <1>5 DEF Good, Coherent
      <4>. QED BY Zenon, <1>2, <3>1, <4>1, <4>2 DEF IsErase
    <3>2. CASE x # u
      <4>1. x \in DOMAIN m.user_to_session_ids /\ uts[x] = m.user_to_session_ids[x]
        BY <1>2, <3>2 DEF IsPut, IsErase
      <4>2. /\ uts[x] # {}
            /\ \A t \in uts[x] : t \in DOMAIN m.session_id_to_user /\ m.session_id_to_user[t] = x
        BY Zenon, <4>1 DEF Good, Coherent
      <4>. QED BY ZenonT(30), <1>1, <1>2, <3>2, <4>2 DEF IsErase
    <3>. QED BY Zenon, <3>1, <3>2
  <2>. QED BY <1>3, <2>1, <2>2, <2>3, <2>4 DEF Coherent
<1>8. Minted(n)
  BY Zenon, <1>2, <1>3 DEF Minted, IsErase, Good
<1>9. Focused(n)
  BY Zenon, <1>1, <1>2, <1>3 DEF Focused, IsErase, IsPut, Good
<1>10. Counted(n)
  BY Zenon, <1>3, <1>4 DEF Counted
<1>11. Limited(n)
  <2>. SUFFICES ASSUME NEW x \in DOMAIN uts
                PROVE  /\ IsFiniteSet(uts[x])
                       /\ m.max_sessions_per_user > 0 =>
                             Cardinality(uts[x]) <= m.max_sessions_per_user
    BY Zenon, <1>3 DEF Limited
  <2>1. CASE x = u
    BY Zenon, <1>2, <1>5, <2>1 DEF IsErase, IsPut
  <2>2. CASE x # u
    <3>1. x \in DOMAIN m.user_to_session_ids /\ uts[x] = m.user_to_session_ids[x]
      BY <1>2, <2>2 DEF IsErase, IsPut
    <3>. QED BY Zenon, <3>1 DEF Good, Limited
  <2>. QED BY Zenon, <2>1, <2>2
<1>. QED BY Zenon, <1>6, <1>7, <1>8, <1>9, <1>10, <1>11 DEF Good, n

\* removeConnection: of an unknown connection, it leaves the manager as it was.
LEMMA RemoveGood ==
    ASSUME NEW m, Good(m), NEW c \in Conns
    PROVE  Good(RemoveConnection(m, c))
<1>1. CASE c \in DOMAIN m.conn_to_session
  BY Zenon, <1>1, CloseGood
<1>2. CASE c \notin DOMAIN m.conn_to_session
  <2>1. Erase(m.conn_to_session, c) = m.conn_to_session
    BY Zenon, <1>2 DEF Erase, Restrict, Good, SessionsTyped
  <2>2. Erase(m.conn_to_session_id, c) = m.conn_to_session_id
    BY <1>2 DEF Erase, Restrict, Good, SessionsTyped, Coherent
  <2>. DEFINE n == RemoveConnection(m, c)
  <2>3. n = [m EXCEPT !.conn_to_session = m.conn_to_session,
                      !.conn_to_session_id = m.conn_to_session_id]
    BY Zenon, <1>2, <2>1, <2>2 DEF RemoveConnection, Attached
  <2>. HIDE DEF n
  <2>4. /\ n.max_sessions_per_user = m.max_sessions_per_user /\ n.sessions = m.sessions
        /\ n.conn_to_session = m.conn_to_session
        /\ n.conn_to_session_id = m.conn_to_session_id
        /\ n.session_id_to_user = m.session_id_to_user
        /\ n.session_id_to_conns = m.session_id_to_conns
        /\ n.user_to_session_ids = m.user_to_session_ids
        /\ n.next_session_id = m.next_session_id /\ n.active_users = m.active_users
        /\ DOMAIN n = Fields
    BY Zenon, <2>3 DEF Fields, Good, SessionsTyped
  <2>5. SessionsTyped(n)
    BY Zenon, <2>4 DEF Good, SessionsTyped
  <2>6. Coherent(n)
    BY <2>4 DEF Good, Coherent
  <2>7. Minted(n) /\ Focused(n) /\ Counted(n) /\ Limited(n)
    BY Zenon, <2>4 DEF Good, Minted, Focused, Counted, Limited
  <2>. QED BY Zenon, <2>5, <2>6, <2>7 DEF Good, n
<1>. QED BY Zenon, <1>1, <1>2

-----------------------------------------------------------------------------
(* joinTextChannel, leaveTextChannel                                       *)

\* Moving the text focus of a user who is logged in disturbs nothing else.
LEMMA FocusGood ==
    ASSUME NEW m, Good(m), NEW u \in DOMAIN m.sessions, NEW f \in Focus
    PROVE  Good([m EXCEPT !.sessions = Put(@, u, f)])
<1>. DEFINE foc == Put(m.sessions, u, f)
            n   == [m EXCEPT !.sessions = Put(@, u, f)]
<1>1. IsPut(m.sessions, u, f, foc)
  BY Zenon, PutFacts
<1>2. n = [m EXCEPT !.sessions = foc]
  BY Zenon
<1>. HIDE DEF foc, n
<1>3. /\ n.max_sessions_per_user = m.max_sessions_per_user /\ n.sessions = foc
      /\ n.conn_to_session = m.conn_to_session
      /\ n.conn_to_session_id = m.conn_to_session_id
      /\ n.session_id_to_user = m.session_id_to_user
      /\ n.session_id_to_conns = m.session_id_to_conns
      /\ n.user_to_session_ids = m.user_to_session_ids
      /\ n.next_session_id = m.next_session_id /\ n.active_users = m.active_users
      /\ DOMAIN n = Fields
  BY Zenon, <1>2 DEF Fields, Good, SessionsTyped
<1>4. DOMAIN foc = DOMAIN m.sessions /\ foc \in [DOMAIN foc -> Focus]
  BY Zenon, <1>1 DEF IsPut, Good, SessionsTyped
<1>5. SessionsTyped(n)
  BY Zenon, <1>3, <1>4 DEF Good, SessionsTyped
<1>6. Coherent(n)
  BY <1>3 DEF Good, Coherent
<1>7. Minted(n) /\ Focused(n) /\ Counted(n) /\ Limited(n)
  BY Zenon, <1>3, <1>4 DEF Good, Minted, Focused, Counted, Limited
<1>. QED BY Zenon, <1>5, <1>6, <1>7 DEF Good, n

-----------------------------------------------------------------------------
(* The state machine.                                                      *)

\* The inductive invariant holds before the first connection ...
LEMMA InitGood == SessionsInit => Good(manager)
<1>. SUFFICES ASSUME NEW l \in Limits, manager = NoSessions(l)
              PROVE  Good(manager)
  BY Zenon DEF SessionsInit
<1>1. /\ manager.sessions = EmptyMap /\ manager.conn_to_session = EmptyMap
      /\ manager.conn_to_session_id = EmptyMap /\ manager.session_id_to_user = EmptyMap
      /\ manager.session_id_to_conns = EmptyMap /\ manager.user_to_session_ids = EmptyMap
      /\ manager.next_session_id = 0 /\ manager.active_users = 0
      /\ manager.max_sessions_per_user = l /\ DOMAIN manager = Fields
  BY Zenon DEF NoSessions, Fields
<1>2. DOMAIN EmptyMap = {} /\ \A S : EmptyMap \in [{} -> S]
  BY Zenon DEF EmptyMap
<1>3. IsFiniteSet({}) /\ Cardinality({}) = 0
  BY Zenon, FS_EmptySet
<1>4. SessionsTyped(manager)
  BY <1>1, <1>2 DEF SessionsTyped
<1>5. Coherent(manager)
  BY Zenon, <1>1, <1>2 DEF Coherent
<1>6. Minted(manager) /\ Focused(manager) /\ Counted(manager) /\ Limited(manager)
  BY Zenon, <1>1, <1>2, <1>3 DEF Minted, Focused, Counted, Limited
<1>. QED BY Zenon, <1>4, <1>5, <1>6 DEF Good

\* ... and every method keeps it.
LEMMA NextGood == Good(manager) /\ [SessionsNext]_manager => Good(manager')
<1>. SUFFICES ASSUME Good(manager), [SessionsNext]_manager
              PROVE  Good(manager')
  BY Zenon
<1>1. CASE DoAttach
  BY Zenon, <1>1, AttachGood DEF DoAttach
<1>2. CASE DoRemove
  BY Zenon, <1>2, RemoveGood DEF DoRemove
<1>3. CASE DoFocus
  <2>. PICK u \in Users, h \in Hubs, t \in TextChannels :
                manager' = JoinTextChannel(manager, u, h, t)
    BY Zenon, <1>3 DEF DoFocus
  <2>1. [hub |-> h, channel |-> t] \in Focus
    BY Zenon DEF Focus
  <2>. QED BY Zenon, <2>1, FocusGood DEF JoinTextChannel
<1>4. CASE DoUnfocus
  <2>. PICK u \in Users : manager' = LeaveTextChannel(manager, u)
    BY Zenon, <1>4 DEF DoUnfocus
  <2>1. CASE u \in DOMAIN manager.sessions
    <3>1. manager.sessions[u] \in Focus
      BY Zenon, <2>1 DEF Good, SessionsTyped
    <3>2. [manager.sessions[u] EXCEPT !.hub = NoPlace] \in Focus
      BY Zenon, <3>1 DEF Focus
    <3>. QED BY Zenon, <2>1, <3>2, FocusGood DEF LeaveTextChannel
  <2>2. CASE u \notin DOMAIN manager.sessions
    BY Zenon, <2>2 DEF LeaveTextChannel
  <2>. QED BY Zenon, <2>1, <2>2
<1>5. CASE UNCHANGED manager
  BY Zenon, <1>5
<1>. QED BY Zenon, <1>1, <1>2, <1>3, <1>4, <1>5 DEF SessionsNext

\* The inductive invariant, of the manager as it runs.
SessionsIInv == Good(manager)

\* The invariant always holds.
LEMMA AlwaysGood == SessionsSpec => []SessionsIInv
<1>1. SessionsInit => SessionsIInv
  BY Zenon, InitGood DEF SessionsIInv
<1>2. SessionsIInv /\ [SessionsNext]_manager => SessionsIInv'
  BY Zenon, NextGood DEF SessionsIInv
<1>. QED BY <1>1, <1>2, PTL DEF SessionsSpec

\* Every method leaves the manager well typed, the gauge a natural number
\* included: the decrement in removeConnection never runs below zero.
THEOREM SessionsTyping == SessionsSpec => []SessionsTypeOK
<1>1. SessionsIInv => SessionsTypeOK
  BY Zenon DEF SessionsIInv, Good, SessionsTypeOK
<1>. QED BY <1>1, AlwaysGood, PTL

\* attachConnection and removeConnection, in any order, keep the five maps one
\* relation in which a session has one connection.
THEOREM OneSessionRelation == SessionsSpec => []SessionsCoherent
<1>1. SessionsIInv => SessionsCoherent
  BY Zenon DEF SessionsIInv, Good, SessionsCoherent
<1>. QED BY <1>1, AlwaysGood, PTL

\* The text focus that attachConnection emplaces is erased with the last
\* session of its user and no earlier.
THEOREM FocusOfTheLoggedIn == SessionsSpec => []FocusFollowsLogin
<1>1. SessionsIInv => FocusFollowsLogin
  BY Zenon DEF SessionsIInv, Good, Focused, FocusFollowsLogin
<1>. QED BY <1>1, AlwaysGood, PTL

\* attachConnection never takes a user over max_sessions_per_user, whatever the
\* limit is.
THEOREM NeverOverLimit == SessionsSpec => []LimitHeld
<1>1. SessionsIInv => LimitHeld
  BY Zenon DEF SessionsIInv, Good, Limited, LimitHeld
<1>. QED BY <1>1, AlwaysGood, PTL

\* The increments and decrements of the active_users gauge count the users that
\* activeUsers() lists.
THEOREM GaugeCounts == SessionsSpec => []GaugeExact
<1>1. SessionsIInv => GaugeExact
  <2>. SUFFICES ASSUME SessionsIInv PROVE GaugeExact
    BY Zenon
  <2>1. ActiveUsers(manager) = DOMAIN manager.user_to_session_ids
    BY Zenon DEF ActiveUsers, SessionsIInv, Good, Coherent
  <2>. QED BY Zenon, <2>1 DEF GaugeExact, SessionsIInv, Good, Counted
<1>. QED BY <1>1, AlwaysGood, PTL

-----------------------------------------------------------------------------
(* The commands on their threads.                                          *)

AuthEvent   == [kind : {"auth"}, conn : Conns, user : Users]
LoginEvent  == [kind : {"connection"}, conn : Conns, user : Users]
SelectEvent == [kind : {"select"}, conn : Conns, channel : TextChannels]
CloseEvent  == [kind : {"disconnection"}, conn : Conns]
Event       == AuthEvent \cup LoginEvent \cup SelectEvent \cup CloseEvent

\* What a thread holds while it runs a command.
Authenticating == [pc : {"auth", "attach", "attached"}, evt : AuthEvent]
Bootstrapping  == [pc : {"connection", "sync", "synced", "online"}, evt : LoginEvent]
Selecting      == [pc : {"select"}, evt : SelectEvent]
                    \cup [pc : {"selecting", "selected"}, evt : SelectEvent, user : Users]
Disconnecting  == [pc : {"disconnection"}, evt : CloseEvent]
                    \cup [pc : {"leaving", "detached", "last", "offline"}, evt : CloseEvent,
                          user : Users, hubs : SUBSET Hubs]
WorkerState    == {Waiting} \cup [pc : {"taken"}, evt : Event] \cup Authenticating
                    \cup Bootstrapping \cup Selecting \cup Disconnecting

ThreadsTyped ==
    /\ events \in Seq(Event)
    /\ worker \in [DOMAIN worker -> WorkerState]

LifecycleIInv == Good(manager) /\ ThreadsTyped

-----------------------------------------------------------------------------
(* The program counter of a thread says what it holds.                     *)

\* What a thread holds, by the step it is at.
LEMMA StateOfPc ==
    ASSUME NEW x \in WorkerState
    PROVE  /\ x.pc = "taken" => x \in [pc : {"taken"}, evt : Event]
           /\ x.pc \in {"auth", "attach", "attached"} => x \in Authenticating
           /\ x.pc \in {"connection", "sync", "synced", "online"} => x \in Bootstrapping
           /\ x.pc = "select" => x \in [pc : {"select"}, evt : SelectEvent]
           /\ x.pc \in {"selecting", "selected"} =>
                 x \in [pc : {"selecting", "selected"}, evt : SelectEvent, user : Users]
           /\ x.pc = "disconnection" => x \in Disconnecting /\ x.evt \in CloseEvent
           /\ x.pc \in {"leaving", "detached", "last", "offline"} =>
                 x \in [pc : {"leaving", "detached", "last", "offline"}, evt : CloseEvent,
                        user : Users, hubs : SUBSET Hubs]
BY DEF WorkerState, Waiting, Authenticating, Bootstrapping, Selecting, Disconnecting

\* Moving on within a command keeps what the thread holds.
LEMMA ProceedTyped ==
    ASSUME NEW x \in WorkerState, NEW p,
           \/ x.pc = "taken" /\ p = x.evt.kind
           \/ x.pc \in {"auth", "attach"} /\ p \in {"attach", "attached"}
           \/ x.pc \in {"connection", "sync", "synced"} /\ p \in {"sync", "synced", "online"}
           \/ x.pc = "selecting" /\ p = "selected"
           \/ x.pc \in {"leaving", "detached", "last"} /\ p \in {"detached", "last", "offline"}
    PROVE  [x EXCEPT !.pc = p] \in WorkerState
<1>1. CASE x.pc = "taken" /\ p = x.evt.kind
  <2>1. x \in [pc : {"taken"}, evt : Event]
    BY Zenon, <1>1, StateOfPc
  <2>2. x.evt \in Event
    BY Zenon, <2>1
  <2>3. CASE x.evt \in AuthEvent
    BY Zenon, <1>1, <2>1, <2>3 DEF WorkerState, Authenticating, AuthEvent
  <2>4. CASE x.evt \in LoginEvent
    BY Zenon, <1>1, <2>1, <2>4 DEF WorkerState, Bootstrapping, LoginEvent
  <2>5. CASE x.evt \in SelectEvent
    BY Zenon, <1>1, <2>1, <2>5 DEF WorkerState, Selecting, SelectEvent
  <2>6. CASE x.evt \in CloseEvent
    BY Zenon, <1>1, <2>1, <2>6 DEF WorkerState, Disconnecting, CloseEvent
  <2>. QED BY Zenon, <2>2, <2>3, <2>4, <2>5, <2>6 DEF Event
<1>2. CASE x.pc \in {"auth", "attach"} /\ p \in {"attach", "attached"}
  <2>1. x \in Authenticating
    BY Zenon, <1>2, StateOfPc
  <2>. QED BY Zenon, <1>2, <2>1 DEF WorkerState, Authenticating
<1>3. CASE x.pc \in {"connection", "sync", "synced"} /\ p \in {"sync", "synced", "online"}
  <2>1. x \in Bootstrapping
    BY Zenon, <1>3, StateOfPc
  <2>. QED BY Zenon, <1>3, <2>1 DEF WorkerState, Bootstrapping
<1>4. CASE x.pc = "selecting" /\ p = "selected"
  <2>1. x \in [pc : {"selecting", "selected"}, evt : SelectEvent, user : Users]
    BY Zenon, <1>4, StateOfPc
  <2>. QED BY Zenon, <1>4, <2>1 DEF WorkerState, Selecting
<1>5. CASE x.pc \in {"leaving", "detached", "last"} /\ p \in {"detached", "last", "offline"}
  <2>1. x \in [pc : {"leaving", "detached", "last", "offline"}, evt : CloseEvent,
               user : Users, hubs : SUBSET Hubs]
    BY Zenon, <1>5, StateOfPc
  <2>. QED BY Zenon, <1>5, <2>1 DEF WorkerState, Disconnecting
<1>. QED BY Zenon, <1>1, <1>2, <1>3, <1>4, <1>5

\* A thread that goes to a well-typed state leaves all of them well typed.
LEMMA GotoTyped ==
    ASSUME worker \in [DOMAIN worker -> WorkerState], NEW w \in DOMAIN worker,
           NEW x \in WorkerState, Goto(w, x)
    PROVE  worker' \in [DOMAIN worker' -> WorkerState]
BY Zenon DEF Goto

\* A thread that is done holds nothing.
LEMMA FinishTyped ==
    ASSUME worker \in [DOMAIN worker -> WorkerState], NEW w \in DOMAIN worker, Finish(w)
    PROVE  worker' \in [DOMAIN worker' -> WorkerState]
<1>1. Waiting \in WorkerState
  BY Zenon DEF WorkerState
<1>. QED BY Zenon, <1>1, GotoTyped DEF Finish

-----------------------------------------------------------------------------
(* One step.                                                               *)

\* A client's step leaves the manager alone and adds a well-typed event.
LEMMA ClientStep ==
    ASSUME ThreadsTyped, Client
    PROVE  UNCHANGED manager /\ ThreadsTyped'
<1>. PICK c \in Conns : Open(c) \/ Close(c) \/ \E e \in Commands(c) : Send(c, e)
  BY Zenon DEF Client
<1>1. CASE Open(c)
  BY Zenon, <1>1 DEF Open, ThreadsTyped
<1>2. CASE Close(c)
  <2>1. [kind |-> "disconnection", conn |-> c] \in Event
    BY Zenon DEF Event, CloseEvent
  <2>. QED BY <1>2, <2>1 DEF Close, ThreadsTyped
<1>3. ASSUME NEW e \in Commands(c), Send(c, e)
      PROVE  UNCHANGED manager /\ ThreadsTyped'
  <2>1. e \in Event
    BY DEF Commands, Event, AuthEvent, SelectEvent
  <2>. QED BY <1>3, <2>1 DEF Send, ThreadsTyped
<1>. QED BY Zenon, <1>1, <1>2, <1>3

\* A worker's step calls one method of the manager or none.
LEMMA WorkerStepLemma ==
    ASSUME LifecycleIInv, NEW w \in DOMAIN worker, WorkerStep(w)
    PROVE  [SessionsNext]_manager /\ ThreadsTyped'
<1>. DEFINE x == worker[w]
<1>0. /\ x \in WorkerState /\ worker \in [DOMAIN worker -> WorkerState]
      /\ events \in Seq(Event) /\ Good(manager)
  BY Zenon DEF LifecycleIInv, ThreadsTyped
<1>1. CASE Take(w)
  <2>1. /\ events # <<>> /\ UNCHANGED manager /\ events' = Tail(events)
        /\ Goto(w, [pc |-> "taken", evt |-> Head(events)])
    BY Zenon, <1>1 DEF Take
  <2>2. Head(events) \in Event /\ events' \in Seq(Event)
    BY <1>0, <2>1
  <2>3. [pc |-> "taken", evt |-> Head(events)] \in WorkerState
    BY Zenon, <2>2 DEF WorkerState
  <2>. QED BY Zenon, <1>0, <2>1, <2>2, <2>3, GotoTyped DEF ThreadsTyped
<1>2. CASE Dispatch(w)
  <2>1. /\ x.pc = "taken" /\ UNCHANGED <<manager, events>>
        /\ Finish(w) \/ Goto(w, [x EXCEPT !.pc = x.evt.kind])
    BY Zenon, <1>2 DEF Dispatch, At, Proceed
  <2>2. [x EXCEPT !.pc = x.evt.kind] \in WorkerState
    BY Zenon, <1>0, <2>1, ProceedTyped
  <2>. QED BY Zenon, <1>0, <2>1, <2>2, GotoTyped, FinishTyped DEF ThreadsTyped
<1>3. CASE Authenticate(w)
  <2>1. /\ x.pc = "auth" /\ UNCHANGED <<manager, events>>
        /\ Finish(w) \/ Goto(w, [x EXCEPT !.pc = "attach"])
    BY Zenon, <1>3 DEF Authenticate, At, Proceed
  <2>2. [x EXCEPT !.pc = "attach"] \in WorkerState
    BY Zenon, <1>0, <2>1, ProceedTyped
  <2>. QED BY Zenon, <1>0, <2>1, <2>2, GotoTyped, FinishTyped DEF ThreadsTyped
<1>4. CASE Attach(w)
  <2>1. /\ x.pc = "attach" /\ UNCHANGED events
        /\ manager.next_session_id + 1 \in SessionIds
        /\ manager' = AttachConnection(manager, x.evt.conn, x.evt.user)
        /\ Finish(w) \/ Goto(w, [x EXCEPT !.pc = "attached"])
    BY Zenon, <1>4 DEF Attach, At, Proceed
  <2>2. [x EXCEPT !.pc = "attached"] \in WorkerState
    BY Zenon, <1>0, <2>1, ProceedTyped
  <2>3. x.evt.conn \in Conns /\ x.evt.user \in Users
    BY Zenon, <1>0, <2>1, StateOfPc DEF Authenticating, AuthEvent
  <2>4. DoAttach
    BY Zenon, <2>1, <2>3 DEF DoAttach
  <2>. QED BY Zenon, <1>0, <2>1, <2>2, <2>4, GotoTyped, FinishTyped DEF ThreadsTyped, SessionsNext
<1>5. CASE Welcome(w)
  <2>1. /\ x.pc = "attached" /\ UNCHANGED manager /\ Finish(w)
        /\ events' = Append(events, [kind |-> "connection", conn |-> x.evt.conn,
                                     user |-> x.evt.user])
    BY Zenon, <1>5 DEF Welcome, At
  <2>2. x.evt.conn \in Conns /\ x.evt.user \in Users
    BY Zenon, <1>0, <2>1, StateOfPc DEF Authenticating, AuthEvent
  <2>3. [kind |-> "connection", conn |-> x.evt.conn, user |-> x.evt.user] \in Event
    BY Zenon, <2>2 DEF Event, LoginEvent
  <2>. QED BY <1>0, <2>1, <2>3, FinishTyped DEF ThreadsTyped
<1>6. CASE Bootstrap(w) \/ BootstrapSubscribe(w) \/ BootstrapCount(w)
  <2>1. /\ x.pc \in {"connection", "sync", "synced"} /\ UNCHANGED <<manager, events>>
        /\ \/ Finish(w) \/ UNCHANGED worker
           \/ \E p \in {"sync", "synced", "online"} : Goto(w, [x EXCEPT !.pc = p])
    BY Zenon, <1>6 DEF Bootstrap, BootstrapSubscribe, BootstrapCount, At, Proceed
  <2>2. \A p \in {"sync", "synced", "online"} : [x EXCEPT !.pc = p] \in WorkerState
    BY Zenon, <1>0, <2>1, ProceedTyped
  <2>. QED BY Zenon, <1>0, <2>1, <2>2, GotoTyped, FinishTyped DEF ThreadsTyped
<1>7. CASE BootstrapAnnounce(w) \/ DisconnectionAnnounce(w)
  BY Zenon, <1>0, <1>7, FinishTyped DEF BootstrapAnnounce, DisconnectionAnnounce, ThreadsTyped
<1>8. CASE Select(w)
  <2>. DEFINE y == [pc |-> "selecting", evt |-> x.evt, user |-> manager.conn_to_session[x.evt.conn]]
  <2>1. /\ x.pc = "select" /\ UNCHANGED <<manager, events>>
        /\ Finish(w) \/ (Attached(manager, x.evt.conn) /\ Goto(w, y))
    BY Zenon, <1>8 DEF Select, At
  <2>2. x.evt \in SelectEvent
    BY Zenon, <1>0, <2>1, StateOfPc
  <2>3. Attached(manager, x.evt.conn) => y \in WorkerState
    <3>1. Attached(manager, x.evt.conn) => manager.conn_to_session[x.evt.conn] \in Users
      BY Zenon, <1>0 DEF Attached, Good, SessionsTyped
    <3>. QED BY Zenon, <2>2, <3>1 DEF WorkerState, Selecting
  <2>. QED BY Zenon, <1>0, <2>1, <2>3, GotoTyped, FinishTyped DEF ThreadsTyped
<1>9. CASE SelectSubscribe(w)
  <2>1. /\ x.pc = "selecting" /\ UNCHANGED <<manager, events>>
        /\ Goto(w, [x EXCEPT !.pc = "selected"])
    BY Zenon, <1>9 DEF SelectSubscribe, At, Proceed
  <2>2. [x EXCEPT !.pc = "selected"] \in WorkerState
    BY Zenon, <1>0, <2>1, ProceedTyped
  <2>. QED BY Zenon, <1>0, <2>1, <2>2, GotoTyped DEF ThreadsTyped
<1>10. CASE SelectFocus(w)
  <2>1. /\ x.pc = "selected" /\ UNCHANGED events /\ Finish(w)
        /\ \E h \in Hubs : manager' = JoinTextChannel(manager, x.user, h, x.evt.channel)
    BY Zenon, <1>10 DEF SelectFocus, At
  <2>2. x.user \in Users /\ x.evt.channel \in TextChannels
    BY Zenon, <1>0, <2>1, StateOfPc DEF SelectEvent
  <2>3. DoFocus
    BY Zenon, <2>1, <2>2 DEF DoFocus
  <2>. QED BY Zenon, <1>0, <2>1, <2>3, FinishTyped DEF ThreadsTyped, SessionsNext
<1>11. CASE Disconnection(w)
  <2>. DEFINE y == [pc |-> "leaving", evt |-> x.evt,
                    user |-> manager.conn_to_session[x.evt.conn],
                    hubs |-> {h \in Hubs : <<x.evt.conn, h>> \in subs}]
  <2>1. /\ x.pc = "disconnection" /\ UNCHANGED <<manager, events>>
        /\ Finish(w) \/ (Attached(manager, x.evt.conn) /\ Goto(w, y))
    BY Zenon, <1>11 DEF Disconnection, At
  <2>2. x.evt \in CloseEvent
    BY Zenon, <1>0, <2>1, StateOfPc
  <2>3. Attached(manager, x.evt.conn) => y \in WorkerState
    <3>1. Attached(manager, x.evt.conn) => manager.conn_to_session[x.evt.conn] \in Users
      BY Zenon, <1>0 DEF Attached, Good, SessionsTyped
    <3>. QED BY Zenon, <2>2, <3>1 DEF WorkerState, Disconnecting
  <2>. QED BY Zenon, <1>0, <2>1, <2>3, GotoTyped, FinishTyped DEF ThreadsTyped
<1>12. CASE Detach(w)
  <2>1. /\ x.pc = "leaving" /\ UNCHANGED events /\ Goto(w, [x EXCEPT !.pc = "detached"])
        /\ manager' = RemoveConnection(manager, x.evt.conn)
    BY Zenon, <1>12 DEF Detach, At, Proceed
  <2>2. [x EXCEPT !.pc = "detached"] \in WorkerState
    BY Zenon, <1>0, <2>1, ProceedTyped
  <2>3. x.evt.conn \in Conns
    BY Zenon, <1>0, <2>1, StateOfPc DEF CloseEvent
  <2>4. DoRemove
    BY Zenon, <2>1, <2>3 DEF DoRemove
  <2>. QED BY Zenon, <1>0, <2>1, <2>2, <2>4, GotoTyped DEF ThreadsTyped, SessionsNext
<1>13. CASE UnsubscribeAll(w) \/ LastSession(w)
  <2>1. /\ x.pc \in {"detached", "last"} /\ UNCHANGED <<manager, events>>
        /\ Finish(w) \/ \E p \in {"last", "offline"} : Goto(w, [x EXCEPT !.pc = p])
    BY Zenon, <1>13 DEF UnsubscribeAll, LastSession, At, Proceed
  <2>2. \A p \in {"last", "offline"} : [x EXCEPT !.pc = p] \in WorkerState
    BY Zenon, <1>0, <2>1, ProceedTyped
  <2>. QED BY Zenon, <1>0, <2>1, <2>2, GotoTyped, FinishTyped DEF ThreadsTyped
<1>. QED BY Zenon, <1>1, <1>2, <1>3, <1>4, <1>5, <1>6, <1>7, <1>8, <1>9, <1>10, <1>11, <1>12, <1>13
         DEF WorkerStep

\* A step of the lifecycle is a step of the manager or leaves it alone.
LEMMA LifecycleStep ==
    LifecycleIInv /\ [LifecycleNext]_lifecycleVars =>
       [SessionsNext]_manager /\ LifecycleIInv'
<1>. SUFFICES ASSUME LifecycleIInv, [LifecycleNext]_lifecycleVars
              PROVE  [SessionsNext]_manager /\ ThreadsTyped'
  BY Zenon, NextGood DEF LifecycleIInv
<1>1. CASE Client
  BY Zenon, <1>1, ClientStep DEF LifecycleIInv
<1>2. CASE \E w \in DOMAIN worker : WorkerStep(w)
  BY Zenon, <1>2, WorkerStepLemma
<1>3. CASE UNCHANGED lifecycleVars
  BY Zenon, <1>3 DEF lifecycleVars, LifecycleIInv, ThreadsTyped
<1>. QED BY Zenon, <1>1, <1>2, <1>3 DEF LifecycleNext

-----------------------------------------------------------------------------
\* Authentication, bootstrap, channel selection and disconnection, on any number
\* of worker threads in any interleaving, implement the session manager's own
\* specification: no thread calls a method with anything but a connection, a user
\* and a place of the system.
THEOREM LifecycleImplementsSessions == LifecycleSpec => SessionsSpec
<1>1. LifecycleInit => SessionsInit /\ LifecycleIInv
  BY InitGood DEF LifecycleInit, LifecycleIInv, ThreadsTyped, WorkerState
<1>. QED BY <1>1, LifecycleStep, PTL DEF LifecycleSpec, SessionsSpec

\* Hence, whatever the threads do, the manager's maps stay one relation, the text
\* focus follows the logins, nobody exceeds max_sessions_per_user and the
\* active_users gauge is exact.
THEOREM LifecycleKeepsSessions ==
    LifecycleSpec => [](SessionsTypeOK /\ SessionsCoherent /\ FocusFollowsLogin
                          /\ LimitHeld /\ GaugeExact)
BY Zenon, LifecycleImplementsSessions, SessionsTyping, OneSessionRelation, FocusOfTheLoggedIn,
   NeverOverLimit, GaugeCounts, PTL

-----------------------------------------------------------------------------
(* The outbound stack.                                                     *)

Items   == [kind : Kinds, id : Nat]
Pending == [seq : Nat, id : Nat, attempts : Nat, overdue : BOOLEAN]
Frames  == [seq : Nat, id : Nat]

-----------------------------------------------------------------------------
(* One connection: what is in its outbox and its buffer, on the wire and    *)
(* with the client, against the reliable messages its outbox took.          *)

Reliable(x) == IF x.kind = "reliable" THEN 1 ELSE 0
BeforeDrop(outbox, i) == \A j \in 1..i : outbox[j].kind # "drop"

\* pos[i] is the number the i-th item has or, if it is not reliable, the number before.
Placed(outbox, next, tk, pos) ==
    /\ pos[0] = next
    /\ \A i \in 1..Len(outbox) : pos[i] = pos[i - 1] + Reliable(outbox[i])
    /\ \A i \in 1..Len(outbox) :
          BeforeDrop(outbox, i) /\ outbox[i].kind = "reliable" =>
             pos[i] <= Len(tk) /\ tk[pos[i]] = outbox[i].id
    /\ BeforeDrop(outbox, Len(outbox)) => pos[Len(outbox)] = Len(tk)

\* What waits in the outbox, up to a drop, is what was taken and has no number yet.
OutboxOK(outbox, next, tk) ==
    /\ next <= Len(tk)
    /\ \E pos \in [0..Len(outbox) -> Nat] : Placed(outbox, next, tk, pos)

\* A number stands for the message taken under it.
WireOK(wire, next, tk) ==
    \A i \in DOMAIN wire :
       /\ wire[i].seq <= next + 1
       /\ wire[i].seq > 0 => wire[i].seq <= Len(tk) /\ wire[i].id = tk[wire[i].seq]

BufferOK(buffer, next, tk) ==
    \A i \in DOMAIN buffer : buffer[i].seq \in 1..next /\ buffer[i].id = tk[buffer[i].seq]

\* No number goes out before its predecessor, and all those given out did.
WireGrows(wire, seen, next) ==
    /\ \A i \in DOMAIN wire : \/ wire[i].seq <= 1 + seen
                              \/ \E j \in 1..(i - 1) : wire[i].seq <= 1 + wire[j].seq
    /\ next <= seen \/ \E i \in DOMAIN wire : next <= wire[i].seq
    /\ seen <= next + 1

Kept(buffer, next, seen) == \A n \in 1..next : n <= seen \/ n \in Seqs(buffer)

ContextFields == {"auth", "outbox", "slow_hits", "next_seq", "acked_seq", "buffer", "late"}

ContextOK(ctx) ==
    /\ ctx = [x \in ContextFields |-> ctx[x]]
    /\ ctx.outbox \in Seq(Items) /\ ctx.next_seq \in Nat /\ ctx.buffer \in Seq(Pending)

PeerOK(p) ==
    p = [x \in {"wire", "seen"} |-> p[x]] /\ p.wire \in Seq(Frames) /\ p.seen \in Nat

ConnectionOK(ctx, p, tk) ==
    /\ ContextOK(ctx) /\ PeerOK(p) /\ tk \in Seq(Nat)
    /\ OutboxOK(ctx.outbox, ctx.next_seq, tk)
    /\ WireOK(p.wire, ctx.next_seq, tk) /\ BufferOK(ctx.buffer, ctx.next_seq, tk)
    /\ WireGrows(p.wire, p.seen, ctx.next_seq)
    /\ Kept(ctx.buffer, ctx.next_seq, p.seen)

ConnectionsOK ==
    /\ DOMAIN peer = DOMAIN registry /\ DOMAIN taken = DOMAIN registry
    /\ \A c \in DOMAIN registry : ConnectionOK(registry[c], peer[c], taken[c])

\* What the pushes and the loop hand on.
Envelopes == [to : SUBSET Conns, item : Items]

QueueOK ==
    /\ queue = [x \in {"high", "low"} |-> queue[x]]
    /\ queue.high \in Seq(Envelopes) /\ queue.low \in Seq(Envelopes)

LoadOK ==
    /\ load = [x \in {"conns", "opened", "pushes", "kinds", "timers", "budget"} |-> load[x]]
    /\ load.conns \subseteq Conns /\ load.opened \subseteq Conns /\ load.kinds \subseteq Kinds
    /\ load.pushes \in Nat

LoopOK ==
    /\ loop.pc = "drain" => loop = [x \in {"pc", "processed", "touched"} |-> loop[x]]
    /\ loop.pc = "resend" => /\ loop = [x \in {"pc", "conn", "at", "conns"} |-> loop[x]]
                             /\ loop.at \in Nat \ {0}

OutboundInv == ConnectionsOK /\ QueueOK /\ LoadOK /\ LoopOK

-----------------------------------------------------------------------------
(* Least and greatest numbers, and a sequence without one of its elements.  *)

\* A non-empty set of naturals has a least element.
LEMMA Least ==
    ASSUME NEW S, S \subseteq Nat, S # {}
    PROVE  \E n \in S : \A k \in S : n <= k
<1>. DEFINE R == OpToRel(<, Nat)
<1>1. IsWellFoundedOn(R, Nat)
  BY Zenon, NatLessThanWellFounded
<1>2. \A x, y \in Nat : x < y => <<x, y>> \in R
  BY Zenon DEF OpToRel
<1>. HIDE DEF R
<1>3. PICK n \in S : \A k \in S : ~(<<k, n>> \in R)
  BY Zenon, <1>1, WFMin
<1>4. ASSUME NEW k \in S PROVE n <= k
  <2>1. k \in Nat /\ n \in Nat /\ ~(k < n)
    BY Zenon, <1>2, <1>3
  <2>. QED BY <2>1
<1>. QED BY Zenon, <1>4

\* A function on 1..n is a sequence of length n.
LEMMA Listed ==
    ASSUME NEW S, NEW n \in Nat, NEW b \in [1..n -> S]
    PROVE  b \in Seq(S) /\ DOMAIN b = 1..n
OBVIOUS

\* A non-empty set of naturals that is bounded has a greatest element.
LEMMA Greatest ==
    ASSUME NEW S, S \subseteq Nat, S # {}, NEW b \in Nat, \A k \in S : k <= b
    PROVE  \E n \in S : \A k \in S : k <= n
<1>. DEFINE T == {k \in 0..b : b - k \in S}
<1>0. ASSUME NEW k \in S PROVE b - k \in T
  <2>1. k \in Nat /\ k <= b
    BY Zenon, <1>0
  <2>2. b - k \in 0..b /\ b - (b - k) = k
    BY <2>1
  <2>. QED BY Zenon, <2>2
<1>1. T \subseteq Nat
  OBVIOUS
<1>2. \E k \in T : \A l \in T : k <= l
  <2>. HIDE DEF T
  <2>1. T # {}
    BY Zenon, <1>0
  <2>. QED BY Zenon, <1>1, <2>1, Least
<1>3. PICK m \in T : \A k \in T : m <= k
  BY Zenon, <1>2
<1>4. b - m \in S /\ m \in 0..b
  BY Zenon, <1>3
<1>5. ASSUME NEW k \in S PROVE k <= b - m
  <2>1. b - k \in T /\ k \in Nat
    BY Zenon, <1>0
  <2>2. m <= b - k
    BY Zenon, <1>3, <2>1
  <2>. QED BY <1>4, <2>1, <2>2
<1>. QED BY Zenon, <1>4, <1>5

\* Highest picks the greatest number there is.
LEMMA HighestIs ==
    ASSUME NEW S, S \subseteq Nat, S # {}, NEW b \in Nat, \A k \in S : k <= b
    PROVE  Highest(S) \in S /\ \A k \in S : k <= Highest(S)
<1>1. \E n \in S : \A k \in S : k <= n
  BY Zenon, Greatest
<1>. QED BY Zenon, <1>1 DEF Highest

\* Eviction takes out one item, of the low lane.
LEMMA EvictedIs ==
    ASSUME NEW outbox \in Seq(Items), LowIn(outbox) # {}
    PROVE  \E last \in LowIn(outbox) :
              /\ last \in 1..Len(outbox)
              /\ Evicted(outbox) \in Seq(Items) /\ Len(Evicted(outbox)) = Len(outbox) - 1
              /\ \A i \in 1..(Len(outbox) - 1) :
                    Evicted(outbox)[i] = outbox[IF i < last THEN i ELSE i + 1]
<1>1. LowIn(outbox) \subseteq 1..Len(outbox) /\ Len(outbox) \in Nat
  BY DEF LowIn
<1>2. \E i \in LowIn(outbox) : \A j \in LowIn(outbox) : j <= i
  <2>1. LowIn(outbox) \subseteq Nat /\ \A k \in LowIn(outbox) : k <= Len(outbox)
    BY <1>1
  <2>. QED BY Zenon, <1>1, <2>1, Greatest
<1>. DEFINE last == CHOOSE i \in LowIn(outbox) : \A j \in LowIn(outbox) : j <= i
            before == SubSeq(outbox, 1, last - 1)
            after == SubSeq(outbox, last + 1, Len(outbox))
<1>3. last \in LowIn(outbox)
  BY Zenon, <1>2
<1>4. Evicted(outbox) = before \o after
  BY Zenon DEF Evicted
<1>. HIDE DEF last
<1>5. last \in 1..Len(outbox)
  BY Zenon, <1>1, <1>3
<1>6. /\ before \in Seq(Items) /\ Len(before) = last - 1
      /\ \A i \in 1..(last - 1) : before[i] = outbox[i]
  BY <1>1, <1>5
<1>7. /\ after \in Seq(Items) /\ Len(after) = Len(outbox) - last
      /\ \A i \in 1..(Len(outbox) - last) : after[i] = outbox[last + i]
  BY <1>1, <1>5
<1>. HIDE DEF before, after
<1>8. Evicted(outbox) \in Seq(Items) /\ Len(Evicted(outbox)) = Len(outbox) - 1
  BY <1>1, <1>4, <1>5, <1>6, <1>7
<1>9. ASSUME NEW i \in 1..(Len(outbox) - 1)
      PROVE  Evicted(outbox)[i] = outbox[IF i < last THEN i ELSE i + 1]
  <2>1. CASE i < last
    <3>1. i \in 1..(last - 1)
      BY <1>5, <2>1
    <3>2. (before \o after)[i] = before[i]
      BY <3>1, <1>6, <1>7
    <3>. QED BY Zenon, <3>1, <3>2, <1>4, <1>6, <2>1
  <2>2. CASE ~(i < last)
    <3>1. i - (last - 1) \in 1..(Len(outbox) - last) /\ last + (i - (last - 1)) = i + 1
      BY <1>1, <1>5, <2>2
    <3>2. (before \o after)[i] = after[i - (last - 1)]
      BY <1>1, <1>5, <1>6, <1>7, <2>2
    <3>. QED BY Zenon, <3>1, <3>2, <1>4, <1>7, <2>2
  <2>. QED BY Zenon, <2>1, <2>2
<1>. QED BY Zenon, <1>3, <1>5, <1>8, <1>9

-----------------------------------------------------------------------------
(* The outbox.                                                              *)

\* What the outbox takes gets its place behind the rest.
LEMMA OutboxTakes ==
    ASSUME NEW outbox \in Seq(Items), NEW next \in Nat, NEW tk \in Seq(Nat), NEW item \in Items,
           OutboxOK(outbox, next, tk)
    PROVE  OutboxOK(Append(outbox, item), next,
                    IF item.kind = "reliable" THEN Append(tk, item.id) ELSE tk)
<1>. DEFINE out == Append(outbox, item)
            L == Len(outbox)
            tk2 == IF item.kind = "reliable" THEN Append(tk, item.id) ELSE tk
<1>1. PICK pos \in [0..L -> Nat] : Placed(outbox, next, tk, pos)
  BY Zenon DEF OutboxOK
<1>. DEFINE pos2 == [i \in 0..(L + 1) |-> IF i <= L THEN pos[i] ELSE pos[L] + Reliable(item)]
<1>2. /\ L \in Nat /\ out \in Seq(Items) /\ Len(out) = L + 1 /\ out[L + 1] = item
      /\ \A i \in 1..L : out[i] = outbox[i]
  OBVIOUS
<1>3. /\ tk2 \in Seq(Nat) /\ Len(tk2) = Len(tk) + Reliable(item) /\ Len(tk) \in Nat
      /\ \A i \in 1..Len(tk) : tk2[i] = tk[i]
      /\ item.kind = "reliable" => tk2[Len(tk) + 1] = item.id
  BY DEF Reliable, Items
<1>4. Reliable(item) \in {0, 1} /\ (item.kind = "reliable" => Reliable(item) = 1)
  BY Zenon DEF Reliable
<1>5. pos2 \in [0..(L + 1) -> Nat]
  BY <1>2, <1>4
<1>6. \A i \in 0..L : pos2[i] = pos[i]
  BY <1>2
<1>7. pos2[L + 1] = pos[L] + Reliable(item)
  BY <1>2
<1>8. ASSUME NEW i \in 1..L PROVE BeforeDrop(out, i) <=> BeforeDrop(outbox, i)
  <2>1. \A j \in 1..i : j \in 1..L
    BY <1>2
  <2>. HIDE DEF out, L
  <2>. QED BY Zenon, <1>2, <2>1 DEF BeforeDrop
<1>9. BeforeDrop(out, L + 1) => BeforeDrop(outbox, L)
  BY <1>2 DEF BeforeDrop
<1>. HIDE DEF out, tk2, pos2, L
<1>10. pos2[0] = next
  BY <1>1, <1>2, <1>6 DEF Placed
<1>11. ASSUME NEW i \in 1..(L + 1)
       PROVE  pos2[i] = pos2[i - 1] + Reliable(out[i])
  <2>1. CASE i = L + 1
    <3>1. i - 1 = L /\ pos2[L] = pos[L]
      BY <1>2, <1>6, <2>1
    <3>. QED BY Zenon, <1>2, <1>7, <2>1, <3>1
  <2>2. CASE i # L + 1
    <3>1. i \in 1..L /\ i \in 0..L /\ i - 1 \in 0..L
      BY <1>2, <2>2
    <3>2. pos[i] = pos[i - 1] + Reliable(outbox[i])
      BY Zenon, <1>1, <3>1 DEF Placed, L
    <3>. QED BY Zenon, <1>2, <1>6, <3>1, <3>2
  <2>. QED BY Zenon, <2>1, <2>2
<1>12. ASSUME NEW i \in 1..(L + 1), BeforeDrop(out, i), out[i].kind = "reliable"
       PROVE  pos2[i] <= Len(tk2) /\ tk2[pos2[i]] = out[i].id
  <2>1. CASE i = L + 1
    <3>1. pos[L] = Len(tk) /\ item.kind = "reliable"
      BY Zenon, <1>1, <1>2, <1>9, <1>12, <2>1 DEF Placed, L
    <3>2. pos2[i] = Len(tk) + 1 /\ Len(tk2) = Len(tk) + 1
      BY Zenon, <1>3, <1>4, <1>7, <2>1, <3>1
    <3>. QED BY <1>2, <1>3, <2>1, <3>1, <3>2
  <2>2. CASE i # L + 1
    <3>1. i \in 1..L /\ i \in 0..L /\ i - 1 \in 0..L
      BY <1>2, <2>2
    <3>2. pos[i] <= Len(tk) /\ tk[pos[i]] = outbox[i].id /\ outbox[i].kind = "reliable"
      BY Zenon, <1>1, <1>2, <1>8, <1>12, <3>1 DEF Placed, L
    <3>3. pos[i] = pos[i - 1] + 1 /\ pos[i - 1] \in Nat
      BY Zenon, <1>1, <3>1, <3>2 DEF Placed, L, Reliable
    <3>4. pos[i] \in 1..Len(tk)
      BY <1>3, <3>2, <3>3
    <3>5. pos2[i] = pos[i] /\ tk2[pos[i]] = tk[pos[i]] /\ out[i] = outbox[i]
      BY Zenon, <1>2, <1>3, <1>6, <3>1, <3>4
    <3>6. Len(tk2) >= Len(tk) /\ Len(tk2) \in Nat
      BY <1>3, <1>4
    <3>. QED BY <1>3, <3>2, <3>4, <3>5, <3>6
  <2>. QED BY Zenon, <2>1, <2>2
<1>13. BeforeDrop(out, L + 1) => pos2[L + 1] = Len(tk2)
  BY Zenon, <1>1, <1>3, <1>7, <1>9 DEF Placed, L
<1>14. Placed(out, next, tk2, pos2)
  BY Zenon, <1>2, <1>10, <1>11, <1>12, <1>13 DEF Placed
<1>15. next <= Len(tk2)
  BY <1>3, <1>4 DEF OutboxOK
<1>16. OutboxOK(out, next, tk2)
  BY Zenon, <1>2, <1>5, <1>14, <1>15 DEF OutboxOK
<1>. QED BY Zenon, <1>16 DEF out, tk2

\* The head leaves; if it is reliable its number is the next one.
LEMMA OutboxPops ==
    ASSUME NEW outbox \in Seq(Items), NEW next \in Nat, NEW tk \in Seq(Nat),
           outbox # <<>>, OutboxOK(outbox, next, tk), Head(outbox).kind # "drop"
    PROVE  /\ OutboxOK(Tail(outbox), next + Reliable(Head(outbox)), tk)
           /\ Head(outbox).kind = "reliable" =>
                 next + 1 <= Len(tk) /\ tk[next + 1] = Head(outbox).id
<1>. DEFINE out == Tail(outbox)
            L == Len(outbox)
            next2 == next + Reliable(Head(outbox))
<1>1. PICK pos \in [0..L -> Nat] : Placed(outbox, next, tk, pos)
  BY Zenon DEF OutboxOK
<1>. DEFINE pos2 == [i \in 0..(L - 1) |-> pos[i + 1]]
<1>2. /\ L \in Nat /\ L > 0 /\ out \in Seq(Items) /\ Len(out) = L - 1 /\ outbox[1] = Head(outbox)
      /\ \A i \in 1..(L - 1) : out[i] = outbox[i + 1]
  OBVIOUS
<1>3. pos2 \in [0..(L - 1) -> Nat] /\ \A i \in 0..(L - 1) : pos2[i] = pos[i + 1]
  BY <1>2
<1>4. Reliable(Head(outbox)) \in {0, 1} /\ (Head(outbox).kind = "reliable" => Reliable(Head(outbox)) = 1)
  BY Zenon DEF Reliable
<1>5. 1 \in 1..L /\ 0 \in 0..(L - 1) /\ L - 1 \in 0..(L - 1) /\ 1 - 1 = 0 /\ 0 + 1 = 1 /\ (L - 1) + 1 = L
  BY <1>2
<1>6. pos[1] = next2
  BY Zenon, <1>1, <1>2, <1>5 DEF Placed
<1>7. BeforeDrop(outbox, 1)
  BY <1>2 DEF BeforeDrop
<1>8. ASSUME NEW i \in 1..(L - 1), BeforeDrop(out, i) PROVE BeforeDrop(outbox, i + 1)
  <2>1. ASSUME NEW j \in 1..(i + 1) PROVE outbox[j].kind # "drop"
    <3>1. CASE j = 1
      BY Zenon, <1>2, <3>1
    <3>2. CASE j # 1
      <4>1. j - 1 \in 1..i /\ j - 1 \in 1..(L - 1) /\ (j - 1) + 1 = j
        BY <1>2, <3>2
      <4>. QED BY Zenon, <1>2, <1>8, <4>1 DEF BeforeDrop
    <3>. QED BY Zenon, <3>1, <3>2
  <2>. QED BY Zenon, <2>1 DEF BeforeDrop
<1>. HIDE DEF out, pos2, L, next2
<1>9. ASSUME NEW i \in 1..(L - 1)
      PROVE  /\ i + 1 \in 1..L /\ i \in 0..(L - 1) /\ i - 1 \in 0..(L - 1)
             /\ (i - 1) + 1 = i /\ (i + 1) - 1 = i
  BY <1>2
<1>10. ASSUME NEW i \in 1..(L - 1)
       PROVE  pos2[i] = pos2[i - 1] + Reliable(out[i])
  <2>1. pos[i + 1] = pos[i] + Reliable(outbox[i + 1])
    BY Zenon, <1>1, <1>9 DEF Placed, L
  <2>. QED BY <1>2, <1>3, <1>9, <2>1
<1>11. ASSUME NEW i \in 1..(L - 1), BeforeDrop(out, i), out[i].kind = "reliable"
       PROVE  pos2[i] <= Len(tk) /\ tk[pos2[i]] = out[i].id
  <2>1. BeforeDrop(outbox, i + 1) /\ outbox[i + 1].kind = "reliable"
    BY Zenon, <1>2, <1>8, <1>11
  <2>. QED BY Zenon, <1>1, <1>2, <1>3, <1>9, <2>1 DEF Placed, L
<1>12. BeforeDrop(out, L - 1) => pos2[L - 1] = Len(tk)
  <2>. SUFFICES ASSUME BeforeDrop(out, L - 1) PROVE pos2[L - 1] = Len(tk)
    BY Zenon
  <2>1. BeforeDrop(outbox, L)
    <3>1. CASE L = 1
      BY Zenon, <1>7, <3>1
    <3>2. CASE L # 1
      <4>1. L - 1 \in 1..(L - 1)
        BY <1>2, <3>2
      <4>. QED BY Zenon, <1>5, <1>8, <4>1
    <3>. QED BY Zenon, <3>1, <3>2
  <2>. QED BY Zenon, <1>1, <1>3, <1>5, <2>1 DEF Placed, L
<1>13. Head(outbox).kind = "reliable" => next + 1 <= Len(tk) /\ tk[next + 1] = Head(outbox).id
  BY Zenon, <1>1, <1>2, <1>4, <1>5, <1>6, <1>7 DEF Placed, L, next2
<1>14. pos2[0] = next2
  BY Zenon, <1>3, <1>5, <1>6
<1>15. Placed(out, next2, tk, pos2)
  BY Zenon, <1>2, <1>10, <1>11, <1>12, <1>14 DEF Placed
<1>16. next2 <= Len(tk)
  BY <1>13 DEF next2, OutboxOK, Reliable
<1>17. OutboxOK(out, next2, tk)
  BY Zenon, <1>2, <1>3, <1>15, <1>16 DEF OutboxOK
<1>. QED BY Zenon, <1>13, <1>17 DEF out, next2

\* An evicted item was not reliable: nothing moves to another number.
LEMMA OutboxEvicts ==
    ASSUME NEW outbox \in Seq(Items), NEW next \in Nat, NEW tk \in Seq(Nat),
           LowIn(outbox) # {}, OutboxOK(outbox, next, tk)
    PROVE  Evicted(outbox) \in Seq(Items) /\ OutboxOK(Evicted(outbox), next, tk)
<1>. DEFINE out == Evicted(outbox)
            L == Len(outbox)
<1>1. PICK pos \in [0..L -> Nat] : Placed(outbox, next, tk, pos)
  BY Zenon DEF OutboxOK
<1>2. PICK last \in LowIn(outbox) :
         /\ last \in 1..L /\ out \in Seq(Items) /\ Len(out) = L - 1
         /\ \A i \in 1..(L - 1) : out[i] = outbox[IF i < last THEN i ELSE i + 1]
  BY Zenon, EvictedIs
<1>3. outbox[last].kind = "typing" /\ L \in Nat
  BY <1>2 DEF LowIn, LaneOf
<1>. DEFINE pos2 == [i \in 0..(L - 1) |-> IF i < last THEN pos[i] ELSE pos[i + 1]]
            Ahead(i) == IF i < last THEN i ELSE i + 1
<1>4. ASSUME NEW i \in 0..(L - 1) PROVE Ahead(i) \in 0..L
  BY <1>2, <1>3
<1>5. pos2 \in [0..(L - 1) -> Nat] /\ \A i \in 0..(L - 1) : pos2[i] = pos[Ahead(i)]
  <2>1. \A i \in 0..(L - 1) : pos2[i] = pos[Ahead(i)]
    BY Zenon
  <2>2. \A i \in 0..(L - 1) : (IF i < last THEN pos[i] ELSE pos[i + 1]) \in Nat
    BY Zenon, <1>4
  <2>. QED BY Zenon, <2>1, <2>2
<1>6. \A i \in 1..(L - 1) : out[i] = outbox[Ahead(i)]
  BY Zenon, <1>2
<1>. HIDE DEF out, pos2, L
<1>7. ASSUME NEW i \in 1..L PROVE pos[i] = pos[i - 1] + Reliable(outbox[i])
  BY Zenon, <1>1 DEF Placed, L
<1>8. pos[last] = pos[last - 1] /\ last - 1 \in 0..L
  <2>1. Reliable(outbox[last]) = 0 /\ pos[last - 1] \in Nat /\ last - 1 \in 0..L
    BY <1>2, <1>3 DEF Reliable
  <2>. QED BY <1>2, <1>7, <2>1
<1>9. ASSUME NEW i \in 1..(L - 1)
      PROVE  /\ i \in 0..(L - 1) /\ i - 1 \in 0..(L - 1) /\ Ahead(i) \in 1..L
             /\ pos2[i - 1] = pos[Ahead(i) - 1]
  <2>1. i \in 0..(L - 1) /\ i - 1 \in 0..(L - 1) /\ Ahead(i) \in 1..L
    BY <1>2, <1>3
  <2>2. CASE i < last
    <3>1. Ahead(i - 1) = Ahead(i) - 1
      BY <2>2, <1>2, <1>3
    <3>. QED BY Zenon, <1>5, <2>1, <3>1
  <2>3. CASE i = last
    <3>1. Ahead(i - 1) = last - 1 /\ Ahead(i) - 1 = last
      BY <2>3, <1>2, <1>3
    <3>. QED BY Zenon, <1>5, <1>8, <2>1, <3>1
  <2>4. CASE i > last
    <3>1. Ahead(i - 1) = Ahead(i) - 1
      BY <2>4, <1>2, <1>3
    <3>. QED BY Zenon, <1>5, <2>1, <3>1
  <2>. QED BY <2>2, <2>3, <2>4, <1>2
<1>10. ASSUME NEW i \in 1..(L - 1), BeforeDrop(out, i) PROVE BeforeDrop(outbox, Ahead(i))
  <2>1. ASSUME NEW j \in 1..Ahead(i) PROVE outbox[j].kind # "drop"
    <3>1. CASE j < last
      <4>1. j \in 1..i /\ j \in 1..(L - 1) /\ Ahead(j) = j
        BY <1>2, <1>3, <3>1
      <4>. QED BY Zenon, <1>6, <1>10, <4>1 DEF BeforeDrop
    <3>2. CASE j = last
      BY Zenon, <1>3, <3>2
    <3>3. CASE j > last
      <4>0. ~(i < last) /\ Ahead(i) = i + 1
        BY <1>2, <3>3
      <4>1. j - 1 \in 1..i /\ j - 1 \in 1..(L - 1) /\ Ahead(j - 1) = j
        BY <1>2, <1>3, <3>3, <4>0
      <4>. QED BY Zenon, <1>6, <1>10, <4>1 DEF BeforeDrop
    <3>. QED BY <3>1, <3>2, <3>3, <1>2, <1>9
  <2>. QED BY Zenon, <2>1 DEF BeforeDrop
<1>11. ASSUME NEW i \in 1..(L - 1)
       PROVE  pos2[i] = pos2[i - 1] + Reliable(out[i])
  BY Zenon, <1>5, <1>6, <1>7, <1>9
<1>12. ASSUME NEW i \in 1..(L - 1), BeforeDrop(out, i), out[i].kind = "reliable"
       PROVE  pos2[i] <= Len(tk) /\ tk[pos2[i]] = out[i].id
  <2>1. BeforeDrop(outbox, Ahead(i)) /\ outbox[Ahead(i)].kind = "reliable"
    BY Zenon, <1>6, <1>10, <1>12
  <2>2. pos[Ahead(i)] <= Len(tk) /\ tk[pos[Ahead(i)]] = outbox[Ahead(i)].id
    BY Zenon, <1>1, <1>9, <2>1 DEF Placed, L
  <2>. QED BY Zenon, <1>5, <1>6, <1>9, <2>2
<1>13. BeforeDrop(out, L - 1) => pos2[L - 1] = Len(tk)
  <2>. SUFFICES ASSUME BeforeDrop(out, L - 1) PROVE pos2[L - 1] = Len(tk)
    BY Zenon
  <2>1. BeforeDrop(outbox, L)
    <3>1. ASSUME NEW j \in 1..L PROVE outbox[j].kind # "drop"
      <4>1. CASE j < last
        <5>1. j \in 1..(L - 1) /\ Ahead(j) = j
          BY <1>2, <1>3, <4>1
        <5>. QED BY Zenon, <1>6, <5>1 DEF BeforeDrop
      <4>2. CASE j = last
        BY Zenon, <1>3, <4>2
      <4>3. CASE j > last
        <5>1. j - 1 \in 1..(L - 1) /\ Ahead(j - 1) = j
          BY <1>2, <1>3, <4>3
        <5>. QED BY Zenon, <1>6, <5>1 DEF BeforeDrop
      <4>. QED BY <4>1, <4>2, <4>3, <1>2
    <3>. QED BY Zenon, <3>1 DEF BeforeDrop
  <2>2. pos[L] = Len(tk)
    BY Zenon, <1>1, <2>1 DEF Placed, L
  <2>3. CASE last = L
    <3>1. L - 1 \in 0..(L - 1) /\ Ahead(L - 1) = last - 1
      BY <1>2, <1>3, <2>3
    <3>. QED BY Zenon, <1>5, <1>8, <2>2, <2>3, <3>1
  <2>4. CASE last # L
    <3>1. L - 1 \in 0..(L - 1) /\ Ahead(L - 1) = L
      BY <1>2, <1>3, <2>4
    <3>. QED BY Zenon, <1>5, <2>2, <3>1
  <2>. QED BY Zenon, <2>3, <2>4
<1>14. pos2[0] = next
  <2>1. 0 \in 0..(L - 1) /\ Ahead(0) = 0
    BY <1>2, <1>3
  <2>. QED BY Zenon, <1>1, <1>5, <2>1 DEF Placed
<1>15. Placed(out, next, tk, pos2)
  BY Zenon, <1>2, <1>11, <1>12, <1>13, <1>14 DEF Placed
<1>16. OutboxOK(out, next, tk)
  BY Zenon, <1>2, <1>5, <1>15 DEF OutboxOK
<1>. QED BY Zenon, <1>2, <1>16 DEF out

\* Before a drop nothing is left to be numbered.
LEMMA OutboxDropped ==
    ASSUME NEW outbox, NEW next \in Nat, NEW tk \in Seq(Nat), OutboxOK(outbox, next, tk)
    PROVE  <<DropItem>> \in Seq(Items) /\ OutboxOK(<<DropItem>>, next, tk)
<1>. DEFINE pos == [i \in 0..1 |-> next]
<1>1. /\ DropItem \in Items /\ DropItem.kind = "drop"
      /\ Len(<<DropItem>>) = 1 /\ <<DropItem>>[1] = DropItem
  BY Zenon DEF DropItem, Items, Kinds
<1>2. \A i \in 1..1 : i = 1
  OBVIOUS
<1>3. pos \in [0..1 -> Nat] /\ pos[0] = next /\ pos[1] = next /\ 1 - 1 = 0 /\ next + 0 = next
  OBVIOUS
<1>. HIDE DEF pos
<1>4. Reliable(DropItem) = 0 /\ ~BeforeDrop(<<DropItem>>, 1)
  BY <1>1 DEF Reliable, BeforeDrop
<1>5. Placed(<<DropItem>>, next, tk, pos)
  BY Zenon, <1>1, <1>2, <1>3, <1>4 DEF Placed
<1>6. <<DropItem>> \in Seq(Items)
  BY <1>1
<1>. QED BY Zenon, <1>1, <1>3, <1>5, <1>6 DEF OutboxOK

-----------------------------------------------------------------------------
(* The connection context: what each operation changes of it.              *)

\* g is ctx but for its outbox, numbering and buffer.
Changes(g, outbox, next, buffer) ==
    ContextOK(g) /\ g.outbox = outbox /\ g.next_seq = next /\ g.buffer = buffer

WithOutbox(ctx, outbox) == [ctx EXCEPT !.outbox = outbox]
WithBuffer(ctx, buffer) == [ctx EXCEPT !.buffer = buffer]
WithNext(ctx, next)     == [ctx EXCEPT !.next_seq = next]
WithAcked(ctx, n)       == [ctx EXCEPT !.acked_seq = n]
WithHits(ctx, n)        == [ctx EXCEPT !.slow_hits = n]
WithLate(ctx, late)     == [ctx EXCEPT !.late = late]
WithAuth(ctx, state)    == [ctx EXCEPT !.auth = state]

\* An update of a context is one.
LEMMA ContextUpdates ==
    ASSUME NEW ctx, ContextOK(ctx), NEW v
    PROVE  /\ v \in Seq(Items) => Changes(WithOutbox(ctx, v), v, ctx.next_seq, ctx.buffer)
           /\ v \in Seq(Pending) => Changes(WithBuffer(ctx, v), ctx.outbox, ctx.next_seq, v)
           /\ v \in Nat => Changes(WithNext(ctx, v), ctx.outbox, v, ctx.buffer)
           /\ Changes(WithAcked(ctx, v), ctx.outbox, ctx.next_seq, ctx.buffer)
           /\ Changes(WithHits(ctx, v), ctx.outbox, ctx.next_seq, ctx.buffer)
           /\ Changes(WithLate(ctx, v), ctx.outbox, ctx.next_seq, ctx.buffer)
           /\ Changes(WithAuth(ctx, v), ctx.outbox, ctx.next_seq, ctx.buffer)
<1>1. v \in Seq(Items) => Changes(WithOutbox(ctx, v), v, ctx.next_seq, ctx.buffer)
  BY Zenon DEF ContextOK, ContextFields, Changes, WithOutbox
<1>2. v \in Seq(Pending) => Changes(WithBuffer(ctx, v), ctx.outbox, ctx.next_seq, v)
  BY Zenon DEF ContextOK, ContextFields, Changes, WithBuffer
<1>3. v \in Nat => Changes(WithNext(ctx, v), ctx.outbox, v, ctx.buffer)
  BY Zenon DEF ContextOK, ContextFields, Changes, WithNext
<1>4. Changes(WithAcked(ctx, v), ctx.outbox, ctx.next_seq, ctx.buffer)
  BY Zenon DEF ContextOK, ContextFields, Changes, WithAcked
<1>5. Changes(WithHits(ctx, v), ctx.outbox, ctx.next_seq, ctx.buffer)
  BY Zenon DEF ContextOK, ContextFields, Changes, WithHits
<1>6. Changes(WithLate(ctx, v), ctx.outbox, ctx.next_seq, ctx.buffer)
  BY Zenon DEF ContextOK, ContextFields, Changes, WithLate
<1>7. Changes(WithAuth(ctx, v), ctx.outbox, ctx.next_seq, ctx.buffer)
  BY Zenon DEF ContextOK, ContextFields, Changes, WithAuth
<1>. QED BY Zenon, <1>1, <1>2, <1>3, <1>4, <1>5, <1>6, <1>7

\* What was sent keeps its meaning when the outbox takes another message.
LEMMA TakenGrows ==
    ASSUME NEW wire \in Seq(Frames), NEW buffer \in Seq(Pending), NEW next \in Nat,
           NEW tk \in Seq(Nat), NEW x \in Nat, next <= Len(tk),
           WireOK(wire, next, tk), BufferOK(buffer, next, tk)
    PROVE  WireOK(wire, next, Append(tk, x)) /\ BufferOK(buffer, next, Append(tk, x))
<1>1. /\ Len(Append(tk, x)) = Len(tk) + 1 /\ Len(tk) \in Nat
      /\ \A n \in 1..Len(tk) : Append(tk, x)[n] = tk[n]
  OBVIOUS
<1>2. ASSUME NEW i \in DOMAIN wire PROVE wire[i].seq \in Nat
  <2>1. wire[i] \in Frames
    OBVIOUS
  <2>. QED BY Zenon, <2>1 DEF Frames
<1>3. ASSUME NEW i \in DOMAIN wire, wire[i].seq > 0
      PROVE  wire[i].seq <= Len(Append(tk, x)) /\ wire[i].id = Append(tk, x)[wire[i].seq]
  <2>1. wire[i].seq <= Len(tk) /\ wire[i].id = tk[wire[i].seq]
    BY Zenon, <1>3 DEF WireOK
  <2>2. wire[i].seq \in 1..Len(tk)
    BY <1>1, <1>2, <1>3, <2>1
  <2>. QED BY <1>1, <2>1, <2>2
<1>4. ASSUME NEW i \in DOMAIN buffer
      PROVE  buffer[i].id = Append(tk, x)[buffer[i].seq]
  <2>1. buffer[i].seq \in 1..Len(tk) /\ buffer[i].id = tk[buffer[i].seq]
    BY <1>1 DEF BufferOK
  <2>. QED BY Zenon, <1>1, <2>1
<1>. QED BY Zenon, <1>3, <1>4 DEF WireOK, BufferOK

\* A connection whose context changes as the operations below say.
LEMMA ConnectionChanges ==
    ASSUME NEW ctx, NEW g, NEW p, NEW tk, ConnectionOK(ctx, p, tk),
           Changes(g, g.outbox, ctx.next_seq, ctx.buffer), OutboxOK(g.outbox, ctx.next_seq, tk)
    PROVE  ConnectionOK(g, p, tk)
  BY Zenon DEF ConnectionOK, Changes

\* enqueue_to_outbox, whatever it does with the item.
LEMMA EnqueuedKeeps ==
    ASSUME NEW ctx, NEW p, NEW tk, ConnectionOK(ctx, p, tk), NEW item \in Items
    PROVE  ConnectionOK(Enqueued(ctx, item), p,
              IF item.kind = "reliable" /\ Takes(ctx, item) THEN Append(tk, item.id) ELSE tk)
<1>0. /\ ContextOK(ctx) /\ PeerOK(p) /\ tk \in Seq(Nat) /\ ctx.outbox \in Seq(Items)
      /\ ctx.next_seq \in Nat /\ ctx.buffer \in Seq(Pending) /\ p.wire \in Seq(Frames)
      /\ OutboxOK(ctx.outbox, ctx.next_seq, tk) /\ ctx.next_seq <= Len(tk)
  BY Zenon DEF ConnectionOK, ContextOK, PeerOK, OutboxOK
<1>. DEFINE tk2 == IF item.kind = "reliable" THEN Append(tk, item.id) ELSE tk
<1>1. /\ tk2 \in Seq(Nat)
      /\ WireOK(p.wire, ctx.next_seq, tk2) /\ BufferOK(ctx.buffer, ctx.next_seq, tk2)
  <2>1. CASE item.kind = "reliable"
    <3>1. item.id \in Nat
      BY Zenon DEF Items
    <3>. QED BY <1>0, <2>1, <3>1, TakenGrows DEF ConnectionOK
  <2>2. CASE item.kind # "reliable"
    BY Zenon, <1>0, <2>2 DEF ConnectionOK
  <2>. QED BY Zenon, <2>1, <2>2
<1>2. ASSUME NEW out \in Seq(Items), OutboxOK(out, ctx.next_seq, tk)
      PROVE  ConnectionOK(WithOutbox(ctx, Append(out, item)), p, tk2)
  <2>1. Append(out, item) \in Seq(Items) /\ OutboxOK(Append(out, item), ctx.next_seq, tk2)
    BY <1>0, <1>2, OutboxTakes
  <2>2. Changes(WithOutbox(ctx, Append(out, item)), Append(out, item), ctx.next_seq, ctx.buffer)
    BY Zenon, <1>0, <2>1, ContextUpdates
  <2>. QED BY Zenon, <1>0, <1>1, <2>1, <2>2 DEF ConnectionOK, Changes
<1>3. LaneOf(item) \in {"high", "low"} /\ (item.kind = "reliable" => LaneOf(item) = "high")
  BY Zenon DEF LaneOf
<1>4. CASE Len(ctx.outbox) < OutboxCapacity
  <2>1. Takes(ctx, item) /\ Enqueued(ctx, item) = WithOutbox(ctx, Append(ctx.outbox, item))
    BY Zenon, <1>4 DEF Takes, Enqueued, WithOutbox
  <2>. QED BY Zenon, <1>0, <1>2, <2>1
<1>5. CASE ~(Len(ctx.outbox) < OutboxCapacity) /\ LaneOf(item) = "low"
  <2>1. Enqueued(ctx, item) = ctx /\ item.kind # "reliable"
    BY Zenon, <1>3, <1>5 DEF Enqueued
  <2>. QED BY Zenon, <2>1
<1>6. CASE /\ ~(Len(ctx.outbox) < OutboxCapacity) /\ LaneOf(item) = "high"
           /\ LowIn(ctx.outbox) # {}
  <2>1. /\ Takes(ctx, item)
        /\ Enqueued(ctx, item) = WithOutbox(ctx, Append(Evicted(ctx.outbox), item))
    BY Zenon, <1>6 DEF Takes, Enqueued, WithOutbox
  <2>2. Evicted(ctx.outbox) \in Seq(Items) /\ OutboxOK(Evicted(ctx.outbox), ctx.next_seq, tk)
    BY Zenon, <1>0, <1>6, OutboxEvicts
  <2>. QED BY Zenon, <1>2, <2>1, <2>2
<1>7. CASE /\ ~(Len(ctx.outbox) < OutboxCapacity) /\ LaneOf(item) = "high"
           /\ LowIn(ctx.outbox) = {} /\ ctx.slow_hits + 1 < SlowHits
  <2>1. ~Takes(ctx, item) /\ Enqueued(ctx, item) = WithHits(ctx, ctx.slow_hits + 1)
    BY Zenon, <1>7 DEF Takes, Enqueued, WithHits
  <2>2. Changes(WithHits(ctx, ctx.slow_hits + 1), ctx.outbox, ctx.next_seq, ctx.buffer)
    BY Zenon, <1>0, ContextUpdates
  <2>. QED BY Zenon, <1>0, <2>1, <2>2, ConnectionChanges DEF Changes
<1>8. CASE /\ ~(Len(ctx.outbox) < OutboxCapacity) /\ LaneOf(item) = "high"
           /\ LowIn(ctx.outbox) = {} /\ ~(ctx.slow_hits + 1 < SlowHits)
  <2>1. ~Takes(ctx, item)
    BY Zenon, <1>8 DEF Takes
  <2>2. Enqueued(ctx, item) = WithHits(WithOutbox(ctx, <<DropItem>>), 0)
    BY Zenon, <1>8 DEF Enqueued, WithHits, WithOutbox
  <2>3. <<DropItem>> \in Seq(Items) /\ OutboxOK(<<DropItem>>, ctx.next_seq, tk)
    BY Zenon, <1>0, OutboxDropped
  <2>4. Changes(WithOutbox(ctx, <<DropItem>>), <<DropItem>>, ctx.next_seq, ctx.buffer)
    BY Zenon, <1>0, <2>3, ContextUpdates
  <2>5. Changes(WithHits(WithOutbox(ctx, <<DropItem>>), 0), <<DropItem>>, ctx.next_seq, ctx.buffer)
    <3>. DEFINE g == WithOutbox(ctx, <<DropItem>>)
    <3>1. ContextOK(g) /\ g.outbox = <<DropItem>> /\ g.next_seq = ctx.next_seq /\ g.buffer = ctx.buffer
      BY Zenon, <2>4 DEF Changes
    <3>. HIDE DEF g
    <3>2. Changes(WithHits(g, 0), g.outbox, g.next_seq, g.buffer)
      BY Zenon, <3>1, ContextUpdates
    <3>. QED BY Zenon, <3>1, <3>2 DEF g
  <2>. QED BY Zenon, <1>0, <2>1, <2>2, <2>3, <2>5, ConnectionChanges DEF Changes
<1>. QED BY Zenon, <1>3, <1>4, <1>5, <1>6, <1>7, <1>8

-----------------------------------------------------------------------------
(* The wire.                                                                *)

\* A frame of a sequence has a number.
LEMMA FrameNumbers ==
    ASSUME NEW wire \in Seq(Frames), NEW i \in DOMAIN wire
    PROVE  wire[i] \in Frames /\ wire[i].seq \in Nat /\ wire[i].id \in Nat /\ i \in 1..Len(wire)
<1>1. wire[i] \in Frames /\ i \in 1..Len(wire)
  OBVIOUS
<1>. QED BY Zenon, <1>1 DEF Frames

\* What a frame in the buffer consists of.
LEMMA PendingNumbers ==
    ASSUME NEW buffer \in Seq(Pending), NEW i \in DOMAIN buffer
    PROVE  /\ buffer[i] \in Pending /\ buffer[i].seq \in Nat /\ buffer[i].id \in Nat
           /\ i \in 1..Len(buffer)
<1>1. buffer[i] \in Pending /\ i \in 1..Len(buffer)
  OBVIOUS
<1>. QED BY Zenon, <1>1 DEF Pending

\* A frame may be written whose number is at most the next one.
LEMMA WireWritten ==
    ASSUME NEW wire \in Seq(Frames), NEW seen \in Nat, NEW next \in Nat, NEW tk \in Seq(Nat),
           NEW f \in Frames, WireOK(wire, next, tk), WireGrows(wire, seen, next),
           f.seq <= next + 1, f.seq > 0 => f.seq <= Len(tk) /\ f.id = tk[f.seq]
    PROVE  /\ Append(wire, f) \in Seq(Frames)
           /\ WireOK(Append(wire, f), next, tk) /\ WireGrows(Append(wire, f), seen, next)
<1>. DEFINE w == Append(wire, f)
            L == Len(wire)
<1>1. /\ w \in Seq(Frames) /\ L \in Nat /\ DOMAIN wire = 1..L /\ DOMAIN w = 1..(L + 1)
      /\ w[L + 1] = f /\ \A i \in 1..L : w[i] = wire[i]
  OBVIOUS
<1>2. f.seq \in Nat
  BY Zenon DEF Frames
<1>3. \A i \in 1..L : wire[i].seq \in Nat
  BY Zenon, <1>1, FrameNumbers
<1>. HIDE DEF w, L
<1>4. WireOK(w, next, tk)
  <2>1. ASSUME NEW i \in 1..(L + 1)
        PROVE  /\ w[i].seq <= next + 1
               /\ w[i].seq > 0 => w[i].seq <= Len(tk) /\ w[i].id = tk[w[i].seq]
    <3>1. CASE i = L + 1
      BY Zenon, <1>1, <3>1
    <3>2. CASE i # L + 1
      <4>1. i \in 1..L
        BY <1>1, <3>2
      <4>. QED BY Zenon, <1>1, <4>1 DEF WireOK
    <3>. QED BY Zenon, <3>1, <3>2
  <2>. QED BY Zenon, <1>1, <2>1 DEF WireOK
<1>5. \/ f.seq <= 1 + seen
      \/ \E j \in 1..L : f.seq <= 1 + wire[j].seq
  <2>1. CASE next <= seen
    BY <1>2, <2>1
  <2>2. CASE ~(next <= seen)
    <3>1. PICK j \in 1..L : next <= wire[j].seq
      BY Zenon, <1>1, <2>2 DEF WireGrows
    <3>2. f.seq <= 1 + wire[j].seq
      BY SMTT(30), <1>2, <1>3, <3>1
    <3>. QED BY Zenon, <3>2
  <2>. QED BY Zenon, <2>1, <2>2
<1>6. ASSUME NEW i \in 1..(L + 1)
      PROVE  w[i].seq <= 1 + seen \/ \E j \in 1..(i - 1) : w[i].seq <= 1 + w[j].seq
  <2>1. CASE i = L + 1
    <3>1. i - 1 = L
      BY <1>1, <2>1
    <3>. QED BY Zenon, <1>1, <1>5, <2>1, <3>1
  <2>2. CASE i # L + 1
    <3>1. i \in 1..L /\ \A j \in 1..(i - 1) : j \in 1..L
      BY <1>1, <2>2
    <3>. QED BY Zenon, <1>1, <3>1 DEF WireGrows
  <2>. QED BY Zenon, <2>1, <2>2
<1>7. next <= seen \/ \E i \in 1..(L + 1) : next <= w[i].seq
  <2>1. \A i \in 1..L : i \in 1..(L + 1)
    BY <1>1
  <2>. QED BY Zenon, <1>1, <2>1 DEF WireGrows
<1>8. WireGrows(w, seen, next)
  BY Zenon, <1>1, <1>6, <1>7 DEF WireGrows
<1>. QED BY Zenon, <1>1, <1>4, <1>8 DEF w

\* A frame the kernel takes counts: its number is given out and it is kept.
LEMMA FrameCounted ==
    ASSUME NEW wire \in Seq(Frames), NEW buffer \in Seq(Pending), NEW seen \in Nat,
           NEW next \in Nat, NEW tk \in Seq(Nat), NEW e \in Pending,
           WireOK(wire, next, tk), WireGrows(wire, seen, next), BufferOK(buffer, next, tk),
           Kept(buffer, next, seen), e.seq = next + 1, e.id = tk[next + 1],
           \E i \in DOMAIN wire : wire[i].seq = next + 1
    PROVE  /\ WireOK(wire, next + 1, tk) /\ WireGrows(wire, seen, next + 1)
           /\ Append(buffer, e) \in Seq(Pending) /\ BufferOK(Append(buffer, e), next + 1, tk)
           /\ Kept(Append(buffer, e), next + 1, seen)
<1>. DEFINE b == Append(buffer, e)
            L == Len(buffer)
<1>1. /\ b \in Seq(Pending) /\ L \in Nat /\ DOMAIN buffer = 1..L /\ DOMAIN b = 1..(L + 1)
      /\ b[L + 1] = e /\ \A i \in 1..L : b[i] = buffer[i]
  OBVIOUS
<1>. HIDE DEF b, L
<1>2. \A i \in DOMAIN wire : wire[i].seq \in Nat
  BY Zenon, FrameNumbers
<1>3. WireOK(wire, next + 1, tk)
  <2>1. ASSUME NEW i \in DOMAIN wire PROVE wire[i].seq <= (next + 1) + 1
    BY <1>2 DEF WireOK
  <2>. QED BY Zenon, <2>1 DEF WireOK
<1>4. WireGrows(wire, seen, next + 1)
  <2>1. \E i \in DOMAIN wire : next + 1 <= wire[i].seq
    OBVIOUS
  <2>2. seen <= (next + 1) + 1
    BY DEF WireGrows
  <2>. QED BY Zenon, <2>1, <2>2 DEF WireGrows
<1>5. BufferOK(b, next + 1, tk)
  <2>1. ASSUME NEW i \in 1..(L + 1)
        PROVE  b[i].seq \in 1..(next + 1) /\ b[i].id = tk[b[i].seq]
    <3>1. CASE i = L + 1
      BY <1>1, <3>1
    <3>2. CASE i # L + 1
      <4>1. i \in 1..L
        BY <1>1, <3>2
      <4>2. buffer[i].seq \in 1..next /\ buffer[i].id = tk[buffer[i].seq]
        BY Zenon, <1>1, <4>1 DEF BufferOK
      <4>3. b[i].seq \in 1..next /\ b[i].id = tk[b[i].seq]
        BY Zenon, <1>1, <4>1, <4>2
      <4>4. 1..next \subseteq 1..(next + 1)
        OBVIOUS
      <4>. QED BY Zenon, <4>3, <4>4
    <3>. QED BY Zenon, <3>1, <3>2
  <2>. QED BY Zenon, <1>1, <2>1 DEF BufferOK
<1>6. Kept(b, next + 1, seen)
  <2>1. ASSUME NEW n \in 1..(next + 1) PROVE n <= seen \/ n \in Seqs(b)
    <3>1. CASE n = next + 1
      <4>1. L + 1 \in DOMAIN b
        BY <1>1
      <4>. QED BY Zenon, <1>1, <3>1, <4>1 DEF Seqs
    <3>2. CASE n # next + 1
      <4>1. n \in 1..next
        BY <3>2
      <4>2. \A i \in 1..L : i \in DOMAIN b
        BY <1>1
      <4>3. n <= seen \/ \E i \in 1..L : n = buffer[i].seq
        BY Zenon, <1>1, <4>1 DEF Kept, Seqs
      <4>. QED BY Zenon, <1>1, <4>2, <4>3 DEF Seqs
    <3>. QED BY Zenon, <3>1, <3>2
  <2>. QED BY Zenon, <2>1 DEF Kept
<1>. QED BY Zenon, <1>1, <1>3, <1>4, <1>5, <1>6 DEF b

\* What is left of a sequence behind its first k elements.
LEMMA Suffix ==
    ASSUME NEW S, NEW s \in Seq(S), NEW k \in 0..Len(s)
    PROVE  /\ SubSeq(s, k + 1, Len(s)) \in Seq(S)
           /\ DOMAIN SubSeq(s, k + 1, Len(s)) = 1..(Len(s) - k)
           /\ \A i \in 1..(Len(s) - k) : SubSeq(s, k + 1, Len(s))[i] = s[k + i]
<1>1. Len(s) \in Nat /\ k + 1 \in 1..(Len(s) + 1) /\ Len(s) \in k..Len(s)
  OBVIOUS
<1>2. /\ SubSeq(s, k + 1, Len(s)) \in Seq(S)
      /\ Len(SubSeq(s, k + 1, Len(s))) = Len(s) - k
  BY <1>1
<1>3. ASSUME NEW i \in 1..(Len(s) - k) PROVE SubSeq(s, k + 1, Len(s))[i] = s[k + i]
  BY <1>1
<1>. QED BY <1>2, <1>3

\* The client reads the first n frames.
LEMMA WireReceived ==
    ASSUME NEW wire \in Seq(Frames), NEW buffer, NEW seen \in Nat, NEW next \in Nat,
           NEW tk \in Seq(Nat), NEW n \in DOMAIN wire,
           WireOK(wire, next, tk), WireGrows(wire, seen, next), Kept(buffer, next, seen),
           NEW seen2, seen2 = Highest({seen} \cup {wire[i].seq : i \in 1..n})
    PROVE  /\ SubSeq(wire, n + 1, Len(wire)) \in Seq(Frames) /\ seen2 \in Nat
           /\ WireOK(SubSeq(wire, n + 1, Len(wire)), next, tk)
           /\ WireGrows(SubSeq(wire, n + 1, Len(wire)), seen2, next)
           /\ Kept(buffer, next, seen2)
<1>. DEFINE L == Len(wire)
            w == SubSeq(wire, n + 1, L)
            S == {seen} \cup {wire[i].seq : i \in 1..n}
<1>1. L \in Nat /\ n \in 1..L /\ n \in 0..L /\ DOMAIN wire = 1..L
  OBVIOUS
<1>2. /\ w \in Seq(Frames) /\ DOMAIN w = 1..(L - n)
      /\ \A i \in 1..(L - n) : w[i] = wire[n + i]
  BY Zenon, <1>1, Suffix
<1>3. \A i \in 1..L : wire[i].seq \in Nat /\ wire[i].seq <= next + 1
  BY Zenon, <1>1, FrameNumbers DEF WireOK
<1>. HIDE DEF w, L
<1>4. \A i \in 1..n : i \in 1..L
  BY <1>1
<1>5. S \subseteq Nat /\ S # {} /\ \A k \in S : k <= next + 1
  BY Zenon, <1>3, <1>4 DEF WireGrows
<1>6. seen2 \in S /\ \A k \in S : k <= seen2
  <2>. HIDE DEF S
  <2>1. next + 1 \in Nat
    OBVIOUS
  <2>. QED BY Zenon, <1>5, <2>1, HighestIs DEF S
<1>7. /\ seen2 \in Nat /\ seen <= seen2 /\ seen2 <= next + 1
      /\ \A i \in 1..n : wire[i].seq <= seen2
  BY Zenon, <1>5, <1>6
<1>. HIDE DEF S
<1>8. \A i \in 1..(L - n) : n + i \in 1..L
  BY <1>1
<1>9. WireOK(w, next, tk)
  BY <1>1, <1>2, <1>8 DEF WireOK
<1>10. ASSUME NEW i \in 1..(L - n)
       PROVE  w[i].seq <= 1 + seen2 \/ \E j \in 1..(i - 1) : w[i].seq <= 1 + w[j].seq
  <2>1. n + i \in 1..L /\ w[i] = wire[n + i] /\ wire[n + i].seq \in Nat
    BY Zenon, <1>2, <1>3, <1>8
  <2>2. CASE wire[n + i].seq <= 1 + seen
    BY <1>7, <2>1, <2>2
  <2>3. CASE \E j \in 1..(n + i - 1) : wire[n + i].seq <= 1 + wire[j].seq
    <3>1. PICK j \in 1..(n + i - 1) : wire[n + i].seq <= 1 + wire[j].seq
      BY Zenon, <2>3
    <3>2. j \in 1..L /\ wire[j].seq \in Nat
      BY <1>1, <1>3, <2>1
    <3>3. CASE j <= n
      <4>1. j \in 1..n
        BY <1>1, <3>2, <3>3
      <4>2. wire[j].seq <= seen2
        BY Zenon, <1>7, <4>1
      <4>3. \A x, y, z \in Nat : x <= 1 + y /\ y <= z => x <= 1 + z
        OBVIOUS
      <4>4. wire[n + i].seq <= 1 + seen2
        BY Zenon, <1>7, <2>1, <3>1, <3>2, <4>2, <4>3
      <4>. QED BY Zenon, <2>1, <4>4
    <3>4. CASE ~(j <= n)
      <4>1. j - n \in 1..(i - 1) /\ j - n \in 1..(L - n) /\ n + (j - n) = j
        BY <1>1, <3>2, <3>4
      <4>. QED BY Zenon, <1>2, <2>1, <3>1, <4>1
    <3>. QED BY Zenon, <3>3, <3>4
  <2>. QED BY <1>1, <2>1, <2>2, <2>3 DEF WireGrows
<1>11. next <= seen2 \/ \E i \in 1..(L - n) : next <= w[i].seq
  <2>1. CASE next <= seen
    BY <1>7, <2>1
  <2>2. CASE \E i \in 1..L : next <= wire[i].seq
    <3>1. PICK i \in 1..L : next <= wire[i].seq
      BY Zenon, <2>2
    <3>2. CASE i <= n
      <4>1. wire[i].seq <= seen2 /\ wire[i].seq \in Nat
        BY <1>3, <1>7, <3>1, <3>2
      <4>. QED BY <1>7, <3>1, <4>1
    <3>3. CASE ~(i <= n)
      <4>1. i - n \in 1..(L - n) /\ n + (i - n) = i
        BY <1>1, <3>1, <3>3
      <4>. QED BY Zenon, <1>2, <3>1, <4>1
    <3>. QED BY Zenon, <3>2, <3>3
  <2>. QED BY Zenon, <1>1, <2>1, <2>2 DEF WireGrows
<1>12. WireGrows(w, seen2, next)
  BY Zenon, <1>2, <1>7, <1>10, <1>11 DEF WireGrows
<1>13. Kept(buffer, next, seen2)
  <2>1. ASSUME NEW k \in 1..next, k <= seen PROVE k <= seen2
    BY <1>7, <2>1
  <2>. QED BY Zenon, <2>1 DEF Kept
<1>. QED BY Zenon, <1>2, <1>7, <1>9, <1>12, <1>13 DEF w, L

-----------------------------------------------------------------------------
(* The retransmission buffer.                                               *)

\* on_ack pops the frames at the front that n covers, and stops at the first it does not.
LEMMA CoveredIs ==
    ASSUME NEW buffer \in Seq(Pending), NEW n \in Nat
    PROVE  /\ Covered(buffer, n) \in 0..Len(buffer)
           /\ \A i \in 1..Covered(buffer, n) : buffer[i].seq <= n
<1>. DEFINE L == Len(buffer)
            S == {k \in 0..L : k < L => buffer[k + 1].seq > n}
<1>1. L \in Nat /\ DOMAIN buffer = 1..L
  OBVIOUS
<1>2. \A i \in 1..L : buffer[i].seq \in Nat
  BY Zenon, <1>1, PendingNumbers
<1>. HIDE DEF L
<1>3. S \subseteq Nat
  BY <1>1
<1>4. L \in S
  BY <1>1
<1>5. PICK k \in S : \A l \in S : k <= l
  <2>. HIDE DEF S
  <2>1. S # {}
    BY Zenon, <1>4
  <2>. QED BY Zenon, <1>3, <2>1, Least
<1>6. ASSUME NEW i \in 1..k PROVE buffer[i].seq <= n
  <2>1. i - 1 \in 0..L /\ i - 1 < L /\ (i - 1) + 1 = i /\ i \in 1..L /\ ~(k <= i - 1)
    BY <1>1, <1>5
  <2>2. i - 1 \notin S
    BY Zenon, <1>5, <2>1
  <2>3. ~(buffer[i].seq > n)
    BY Zenon, <2>1, <2>2
  <2>. QED BY <1>2, <2>1, <2>3
<1>7. \E m \in 0..L : (\A i \in 1..m : buffer[i].seq <= n) /\ (m < L => buffer[m + 1].seq > n)
  BY Zenon, <1>5, <1>6
<1>. QED BY Zenon, <1>7 DEF Covered, L

\* An acknowledgement of what the client has seen lets go of nothing it has not.
LEMMA BufferAcked ==
    ASSUME NEW buffer \in Seq(Pending), NEW next \in Nat, NEW tk, NEW seen \in Nat,
           NEW n \in 0..seen, BufferOK(buffer, next, tk), Kept(buffer, next, seen)
    PROVE  /\ Uncovered(buffer, n) \in Seq(Pending) /\ BufferOK(Uncovered(buffer, n), next, tk)
           /\ Kept(Uncovered(buffer, n), next, seen)
<1>. DEFINE L == Len(buffer)
            k == Covered(buffer, n)
            b == SubSeq(buffer, k + 1, L)
<1>1. L \in Nat /\ DOMAIN buffer = 1..L
  OBVIOUS
<1>0. n \in Nat
  OBVIOUS
<1>2. k \in 0..L /\ \A i \in 1..k : buffer[i].seq <= n
  BY Zenon, <1>0, CoveredIs
<1>. HIDE DEF k
<1>3. /\ b \in Seq(Pending) /\ DOMAIN b = 1..(L - k)
      /\ \A i \in 1..(L - k) : b[i] = buffer[k + i]
  BY Zenon, <1>1, <1>2, Suffix
<1>. HIDE DEF b, L
<1>4. \A i \in 1..(L - k) : k + i \in 1..L
  BY <1>1, <1>2
<1>5. BufferOK(b, next, tk)
  BY <1>1, <1>3, <1>4 DEF BufferOK
<1>6. ASSUME NEW m \in 1..next PROVE m <= seen \/ m \in Seqs(b)
  <2>. SUFFICES ASSUME ~(m <= seen) PROVE m \in Seqs(b)
    BY Zenon
  <2>1. PICK i \in 1..L : m = buffer[i].seq
    BY Zenon, <1>1 DEF Kept, Seqs
  <2>2. ~(i <= k)
    BY <1>2, <2>1
  <2>3. i - k \in 1..(L - k) /\ k + (i - k) = i
    BY <1>1, <1>2, <2>1, <2>2
  <2>. QED BY Zenon, <1>3, <2>1, <2>3 DEF Seqs
<1>. QED BY Zenon, <1>3, <1>5, <1>6 DEF Kept, Uncovered, b, L, k

\* Frames that are sent again or fall due keep number and message.
LEMMA SameFrames ==
    ASSUME NEW buffer \in Seq(Pending), NEW b \in Seq(Pending), NEW next, NEW tk, NEW seen,
           DOMAIN b = DOMAIN buffer,
           \A i \in DOMAIN buffer : b[i].seq = buffer[i].seq /\ b[i].id = buffer[i].id,
           BufferOK(buffer, next, tk), Kept(buffer, next, seen)
    PROVE  BufferOK(b, next, tk) /\ Kept(b, next, seen)
<1>1. BufferOK(b, next, tk)
  BY Zenon DEF BufferOK
<1>2. \A n \in Seqs(buffer) : n \in Seqs(b)
  BY Zenon DEF Seqs
<1>. QED BY Zenon, <1>1, <1>2 DEF Kept

-----------------------------------------------------------------------------
(* One connection, through each operation.                                  *)

Writes(p2, p, f) == p2 = [p EXCEPT !.wire = Append(@, f)]

\* The parts of a connection that is in order, with their types.
LEMMA ConnectionParts ==
    ASSUME NEW ctx, NEW p, NEW tk, ConnectionOK(ctx, p, tk)
    PROVE  /\ ContextOK(ctx) /\ ctx.outbox \in Seq(Items) /\ ctx.next_seq \in Nat
           /\ ctx.buffer \in Seq(Pending) /\ p.wire \in Seq(Frames) /\ p.seen \in Nat
           /\ tk \in Seq(Nat) /\ Len(tk) \in Nat /\ ctx.next_seq <= Len(tk) /\ PeerOK(p)
           /\ OutboxOK(ctx.outbox, ctx.next_seq, tk)
           /\ WireOK(p.wire, ctx.next_seq, tk) /\ BufferOK(ctx.buffer, ctx.next_seq, tk)
           /\ WireGrows(p.wire, p.seen, ctx.next_seq)
           /\ Kept(ctx.buffer, ctx.next_seq, p.seen)
<1>1. /\ ContextOK(ctx) /\ PeerOK(p) /\ tk \in Seq(Nat) /\ Len(tk) \in Nat
      /\ OutboxOK(ctx.outbox, ctx.next_seq, tk)
      /\ WireOK(p.wire, ctx.next_seq, tk) /\ BufferOK(ctx.buffer, ctx.next_seq, tk)
      /\ WireGrows(p.wire, p.seen, ctx.next_seq)
      /\ Kept(ctx.buffer, ctx.next_seq, p.seen)
  BY DEF ConnectionOK
<1>2. ctx.outbox \in Seq(Items) /\ ctx.next_seq \in Nat /\ ctx.buffer \in Seq(Pending)
  BY Zenon, <1>1 DEF ContextOK
<1>3. p.wire \in Seq(Frames) /\ p.seen \in Nat
  BY Zenon, <1>1 DEF PeerOK
<1>4. ctx.next_seq <= Len(tk)
  BY Zenon, <1>1 DEF OutboxOK
<1>. QED BY Zenon, <1>1, <1>2, <1>3, <1>4

Names(f, ctx, tk) ==
    /\ f \in Frames /\ f.seq <= ctx.next_seq + 1
    /\ f.seq > 0 => f.seq <= Len(tk) /\ f.id = tk[f.seq]

\* A frame that names what was taken under its number may be written.
LEMMA FrameWritten ==
    ASSUME NEW ctx, NEW p, NEW tk, ConnectionOK(ctx, p, tk), NEW f, Names(f, ctx, tk),
           NEW p2, Writes(p2, p, f)
    PROVE  ConnectionOK(ctx, p2, tk) /\ p2.wire = Append(p.wire, f) /\ p2.seen = p.seen
<1>1. /\ Append(p.wire, f) \in Seq(Frames) /\ WireOK(Append(p.wire, f), ctx.next_seq, tk)
      /\ WireGrows(Append(p.wire, f), p.seen, ctx.next_seq)
  BY Zenon, ConnectionParts, WireWritten DEF Names
<1>2. PeerOK(p)
  BY Zenon, ConnectionParts
<1>3. PeerOK(p2) /\ p2.wire = Append(p.wire, f) /\ p2.seen = p.seen
  <2>. HIDE DEF Frames
  <2>. QED BY Zenon, <1>1, <1>2 DEF PeerOK, Writes
<1>. QED BY Zenon, <1>1, <1>3 DEF ConnectionOK

\* The head of the outbox is a reliable message: it goes out under the next number,
\* which is used up only if the kernel takes the frame.
LEMMA ReliableSent ==
    ASSUME NEW ctx, NEW p, NEW tk, ConnectionOK(ctx, p, tk),
           ctx.outbox # <<>>, Head(ctx.outbox).kind = "reliable",
           NEW f \in Frames, f.seq = ctx.next_seq + 1, f.id = Head(ctx.outbox).id,
           NEW p2, Writes(p2, p, f)
    PROVE  ConnectionOK(ctx, p2, tk) /\ ConnectionOK(Numbered(ctx), p2, tk)
<1>. DEFINE next == ctx.next_seq
            h == Head(ctx.outbox)
            e == [seq |-> next + 1, id |-> h.id, attempts |-> 1, overdue |-> FALSE]
<1>0. /\ ContextOK(ctx) /\ ctx.outbox \in Seq(Items) /\ next \in Nat /\ ctx.buffer \in Seq(Pending)
      /\ tk \in Seq(Nat) /\ Len(tk) \in Nat /\ next <= Len(tk)
      /\ OutboxOK(ctx.outbox, next, tk) /\ p.wire \in Seq(Frames) /\ p.seen \in Nat
      /\ BufferOK(ctx.buffer, next, tk) /\ Kept(ctx.buffer, next, p.seen)
  BY Zenon, ConnectionParts
<1>1. h \in Items /\ h.id \in Nat /\ Tail(ctx.outbox) \in Seq(Items) /\ Reliable(h) = 1
  <2>1. h \in Items /\ Tail(ctx.outbox) \in Seq(Items)
    BY <1>0
  <2>. QED BY Zenon, <2>1 DEF Items, Reliable
<1>2. OutboxOK(Tail(ctx.outbox), next + 1, tk) /\ next + 1 <= Len(tk) /\ tk[next + 1] = h.id
  BY Zenon, <1>0, <1>1, OutboxPops
<1>3. f.seq = next + 1 /\ f.id = h.id /\ e \in Pending /\ e.seq = next + 1 /\ e.id = h.id
  BY SMTT(30), <1>0, <1>1 DEF Pending
<1>. HIDE DEF e, h, next
<1>4. ConnectionOK(ctx, p2, tk) /\ p2.wire = Append(p.wire, f) /\ p2.seen = p.seen
  <2>1. Names(f, ctx, tk)
    BY <1>0, <1>2, <1>3 DEF Names, next
  <2>. QED BY <2>1, FrameWritten
<1>5. /\ p2.wire \in Seq(Frames) /\ WireOK(p2.wire, next, tk) /\ WireGrows(p2.wire, p.seen, next)
      /\ PeerOK(p2)
  BY Zenon, <1>4, ConnectionParts DEF next
<1>6. \E i \in DOMAIN p2.wire : p2.wire[i].seq = next + 1
  <2>1. Len(p.wire) + 1 \in DOMAIN Append(p.wire, f) /\ Append(p.wire, f)[Len(p.wire) + 1] = f
    BY <1>0
  <2>. QED BY Zenon, <1>3, <1>4, <2>1
<1>7. /\ WireOK(p2.wire, next + 1, tk) /\ WireGrows(p2.wire, p.seen, next + 1)
      /\ Append(ctx.buffer, e) \in Seq(Pending) /\ BufferOK(Append(ctx.buffer, e), next + 1, tk)
      /\ Kept(Append(ctx.buffer, e), next + 1, p.seen)
  BY Zenon, <1>0, <1>2, <1>3, <1>5, <1>6, FrameCounted
<1>8. Changes(Numbered(ctx), Tail(ctx.outbox), next + 1, Append(ctx.buffer, e))
  <2>. DEFINE g1 == WithOutbox(ctx, Tail(ctx.outbox))
              g2 == WithNext(g1, next + 1)
              g3 == WithBuffer(g2, Append(ctx.buffer, e))
  <2>1. Changes(g1, Tail(ctx.outbox), next, ctx.buffer)
    BY Zenon, <1>0, <1>1, ContextUpdates DEF next
  <2>2. Numbered(ctx) = WithBuffer(WithNext(g1, next + 1), Append(WithNext(g1, next + 1).buffer, e))
    BY Zenon DEF Numbered, Popped, WithOutbox, WithNext, WithBuffer, e, h, next
  <2>. HIDE DEF g1
  <2>3. Changes(g2, Tail(ctx.outbox), next + 1, ctx.buffer)
    <3>1. ContextOK(g1) /\ g1.outbox = Tail(ctx.outbox) /\ g1.buffer = ctx.buffer /\ next + 1 \in Nat
      BY <1>0, <2>1 DEF Changes
    <3>2. Changes(g2, g1.outbox, next + 1, g1.buffer)
      BY Zenon, <3>1, ContextUpdates
    <3>. QED BY Zenon, <3>1, <3>2
  <2>4. Numbered(ctx) = g3
    BY Zenon, <2>2, <2>3 DEF Changes
  <2>. HIDE DEF g2
  <2>5. Changes(g3, Tail(ctx.outbox), next + 1, Append(ctx.buffer, e))
    <3>1. ContextOK(g2) /\ g2.outbox = Tail(ctx.outbox) /\ g2.next_seq = next + 1
      BY Zenon, <2>3 DEF Changes
    <3>2. Changes(g3, g2.outbox, g2.next_seq, Append(ctx.buffer, e))
      BY Zenon, <1>7, <3>1, ContextUpdates
    <3>. QED BY Zenon, <3>1, <3>2
  <2>. QED BY Zenon, <2>4, <2>5
<1>9. ConnectionOK(Numbered(ctx), p2, tk)
  BY Zenon, <1>0, <1>2, <1>4, <1>5, <1>7, <1>8 DEF Changes, ConnectionOK
<1>. QED BY Zenon, <1>4, <1>9

\* Another item leaves the outbox without a number.
LEMMA PoppedKeeps ==
    ASSUME NEW ctx, NEW p, NEW tk, ConnectionOK(ctx, p, tk),
           ctx.outbox # <<>>, Head(ctx.outbox).kind \notin {"drop", "reliable"}
    PROVE  ConnectionOK(Popped(ctx), p, tk)
<1>0. /\ ContextOK(ctx) /\ ctx.outbox \in Seq(Items) /\ ctx.next_seq \in Nat /\ tk \in Seq(Nat)
      /\ OutboxOK(ctx.outbox, ctx.next_seq, tk)
  BY Zenon, ConnectionParts
<1>1. Reliable(Head(ctx.outbox)) = 0 /\ ctx.next_seq + 0 = ctx.next_seq /\ Tail(ctx.outbox) \in Seq(Items)
  BY <1>0 DEF Reliable
<1>2. OutboxOK(Tail(ctx.outbox), ctx.next_seq, tk)
  BY Zenon, <1>0, <1>1, OutboxPops
<1>3. Changes(Popped(ctx), Tail(ctx.outbox), ctx.next_seq, ctx.buffer)
  BY Zenon, <1>0, <1>1, ContextUpdates DEF Popped, WithOutbox
<1>. QED BY Zenon, <1>2, <1>3, ConnectionChanges DEF Changes

\* The state of the authentication is no part of the numbering.
LEMMA UpdatedKeeps ==
    ASSUME NEW ctx, NEW p, NEW tk, ConnectionOK(ctx, p, tk), NEW state
    PROVE  ConnectionOK(Updated(ctx, state), p, tk) /\ Updated(ctx, state).outbox = ctx.outbox
<1>0. ContextOK(ctx) /\ OutboxOK(ctx.outbox, ctx.next_seq, tk)
  BY Zenon, ConnectionParts
<1>1. CASE ctx.auth = "failed"
  BY Zenon, <1>1 DEF Updated
<1>2. CASE ctx.auth # "failed"
  <2>. DEFINE g == WithAuth(ctx, state)
  <2>1. Changes(g, ctx.outbox, ctx.next_seq, ctx.buffer)
    BY Zenon, <1>0, ContextUpdates
  <2>2. Updated(ctx, state) = WithLate(g, g.late \ {"token"})
    BY Zenon, <1>2 DEF Updated, WithAuth, WithLate
  <2>. HIDE DEF g
  <2>3. Changes(WithLate(g, g.late \ {"token"}), ctx.outbox, ctx.next_seq, ctx.buffer)
    BY <2>1, ContextUpdates DEF Changes
  <2>. QED BY Zenon, <1>0, <2>2, <2>3, ConnectionChanges DEF Changes
<1>. QED BY Zenon, <1>1, <1>2

\* The retransmission buffer changes and keeps what the client has not seen.
LEMMA BufferChanges ==
    ASSUME NEW ctx, NEW p, NEW tk, ConnectionOK(ctx, p, tk), NEW g,
           Changes(g, ctx.outbox, ctx.next_seq, g.buffer),
           BufferOK(g.buffer, ctx.next_seq, tk), Kept(g.buffer, ctx.next_seq, p.seen)
    PROVE  ConnectionOK(g, p, tk)
  BY Zenon DEF ConnectionOK, Changes

\* on_ack of a number the client has seen.
LEMMA AckedKeeps ==
    ASSUME NEW ctx, NEW p, NEW tk, ConnectionOK(ctx, p, tk), NEW n \in 0..p.seen
    PROVE  ConnectionOK(AckedBy(ctx, n), p, tk)
<1>0. /\ ContextOK(ctx) /\ ctx.buffer \in Seq(Pending) /\ ctx.next_seq \in Nat /\ p.seen \in Nat
      /\ BufferOK(ctx.buffer, ctx.next_seq, tk) /\ Kept(ctx.buffer, ctx.next_seq, p.seen)
  BY Zenon, ConnectionParts
<1>. DEFINE b == Uncovered(ctx.buffer, n)
            a == IF n > ctx.acked_seq THEN n ELSE ctx.acked_seq
            g == WithAcked(ctx, a)
<1>1. b \in Seq(Pending) /\ BufferOK(b, ctx.next_seq, tk) /\ Kept(b, ctx.next_seq, p.seen)
  BY Zenon, <1>0, BufferAcked
<1>2. AckedBy(ctx, n) = WithBuffer(g, Uncovered(g.buffer, n))
  BY Zenon DEF AckedBy, WithBuffer, WithAcked
<1>. HIDE DEF b, a
<1>3. Changes(g, ctx.outbox, ctx.next_seq, ctx.buffer)
  BY Zenon, <1>0, ContextUpdates
<1>. HIDE DEF g
<1>4. AckedBy(ctx, n) = WithBuffer(g, b) /\ ContextOK(g) /\ g.outbox = ctx.outbox /\ g.next_seq = ctx.next_seq
  BY Zenon, <1>2, <1>3 DEF Changes, b
<1>5. Changes(WithBuffer(g, b), g.outbox, g.next_seq, b)
  BY Zenon, <1>1, <1>4, ContextUpdates
<1>. QED BY Zenon, <1>1, <1>4, <1>5, BufferChanges DEF Changes

\* A frame is sent again: under its number, with its message.
LEMMA RetriedKeeps ==
    ASSUME NEW ctx, NEW p, NEW tk, ConnectionOK(ctx, p, tk), NEW at \in 1..Len(ctx.buffer)
    PROVE  /\ ConnectionOK(WithBuffer(ctx, [ctx.buffer EXCEPT ![at] = Retried(ctx.buffer[at])]), p, tk)
           /\ Names([seq |-> ctx.buffer[at].seq, id |-> ctx.buffer[at].id], ctx, tk)
<1>0. /\ ContextOK(ctx) /\ ctx.buffer \in Seq(Pending) /\ ctx.next_seq \in Nat
      /\ Len(tk) \in Nat /\ ctx.next_seq <= Len(tk)
      /\ BufferOK(ctx.buffer, ctx.next_seq, tk) /\ Kept(ctx.buffer, ctx.next_seq, p.seen)
  BY Zenon, ConnectionParts
<1>. DEFINE q == ctx.buffer[at]
            b == [ctx.buffer EXCEPT ![at] = Retried(q)]
<1>1. at \in DOMAIN ctx.buffer /\ q \in Pending /\ q.seq \in Nat /\ q.id \in Nat
  BY <1>0, PendingNumbers
<1>2. Retried(q) \in Pending /\ Retried(q).seq = q.seq /\ Retried(q).id = q.id
  <2>. DEFINE y == [q EXCEPT !.overdue = FALSE]
              z == [y EXCEPT !.attempts = @ + 1]
  <2>1. Retried(q) = z
    BY Zenon DEF Retried
  <2>2. y \in Pending /\ y.seq = q.seq /\ y.id = q.id
    BY Zenon, <1>1 DEF Pending
  <2>. HIDE DEF y
  <2>3. z \in Pending /\ z.seq = y.seq /\ z.id = y.id
    BY <2>2 DEF Pending
  <2>. HIDE DEF z
  <2>. QED BY Zenon, <2>1, <2>2, <2>3
<1>3. b \in Seq(Pending) /\ DOMAIN b = DOMAIN ctx.buffer
  BY <1>0, <1>2
<1>4. \A i \in DOMAIN ctx.buffer : b[i].seq = ctx.buffer[i].seq /\ b[i].id = ctx.buffer[i].id
  BY Zenon, <1>0, <1>2
<1>5. q.seq \in 1..ctx.next_seq /\ q.id = tk[q.seq]
  BY Zenon, <1>0, <1>1 DEF BufferOK
<1>. HIDE DEF b
<1>6. BufferOK(b, ctx.next_seq, tk) /\ Kept(b, ctx.next_seq, p.seen)
  BY Zenon, <1>0, <1>3, <1>4, SameFrames
<1>7. Changes(WithBuffer(ctx, b), ctx.outbox, ctx.next_seq, b)
  BY Zenon, <1>0, <1>3, ContextUpdates
<1>8. ConnectionOK(WithBuffer(ctx, b), p, tk)
  BY Zenon, <1>6, <1>7, BufferChanges DEF Changes
<1>9. Names([seq |-> q.seq, id |-> q.id], ctx, tk)
  BY <1>0, <1>1, <1>5 DEF Names, Frames
<1>. QED BY Zenon, <1>8, <1>9 DEF b

\* Time passes: frames fall due, and timers.
LEMMA WaitedKeeps ==
    ASSUME NEW ctx, NEW p, NEW tk, ConnectionOK(ctx, p, tk), NEW late
    PROVE  /\ ConnectionOK([ctx EXCEPT !.buffer = [i \in DOMAIN @ |-> [@[i] EXCEPT !.overdue = TRUE]]], p, tk)
           /\ ConnectionOK(WithLate(ctx, late), p, tk)
<1>0. /\ ContextOK(ctx) /\ ctx.buffer \in Seq(Pending) /\ OutboxOK(ctx.outbox, ctx.next_seq, tk)
      /\ BufferOK(ctx.buffer, ctx.next_seq, tk) /\ Kept(ctx.buffer, ctx.next_seq, p.seen)
  BY Zenon, ConnectionParts
<1>. DEFINE Due(x) == [x EXCEPT !.overdue = TRUE]
            b == [i \in DOMAIN ctx.buffer |-> Due(ctx.buffer[i])]
<1>1. \A x \in Pending : Due(x) \in Pending /\ Due(x).seq = x.seq /\ Due(x).id = x.id
  BY Zenon DEF Pending
<1>2. \A i \in DOMAIN ctx.buffer : ctx.buffer[i] \in Pending
  BY Zenon, <1>0, PendingNumbers
<1>. HIDE DEF Due
<1>3. b \in Seq(Pending) /\ DOMAIN b = DOMAIN ctx.buffer
  <2>1. DOMAIN ctx.buffer = 1..Len(ctx.buffer) /\ Len(ctx.buffer) \in Nat
    BY <1>0
  <2>2. \A i \in 1..Len(ctx.buffer) : Due(ctx.buffer[i]) \in Pending
    BY Zenon, <1>1, <1>2, <2>1
  <2>3. b = [i \in 1..Len(ctx.buffer) |-> Due(ctx.buffer[i])]
    BY Zenon, <2>1
  <2>4. b \in [1..Len(ctx.buffer) -> Pending]
    BY Zenon, <2>2, <2>3
  <2>. HIDE DEF b
  <2>. QED BY Zenon, <2>1, <2>4, Listed
<1>4. \A i \in DOMAIN ctx.buffer : b[i].seq = ctx.buffer[i].seq /\ b[i].id = ctx.buffer[i].id
  BY Zenon, <1>1, <1>2
<1>5. [ctx EXCEPT !.buffer = [i \in DOMAIN @ |-> [@[i] EXCEPT !.overdue = TRUE]]] = WithBuffer(ctx, b)
  BY Zenon DEF WithBuffer, Due
<1>. HIDE DEF b
<1>6. BufferOK(b, ctx.next_seq, tk) /\ Kept(b, ctx.next_seq, p.seen)
  BY Zenon, <1>0, <1>3, <1>4, SameFrames
<1>7. /\ Changes(WithBuffer(ctx, b), ctx.outbox, ctx.next_seq, b)
      /\ Changes(WithLate(ctx, late), ctx.outbox, ctx.next_seq, ctx.buffer)
  BY Zenon, <1>0, <1>3, ContextUpdates
<1>8. ConnectionOK(WithBuffer(ctx, b), p, tk)
  BY Zenon, <1>6, <1>7, BufferChanges DEF Changes
<1>9. ConnectionOK(WithLate(ctx, late), p, tk)
  BY Zenon, <1>0, <1>7, ConnectionChanges DEF Changes
<1>. QED BY Zenon, <1>5, <1>8, <1>9

\* The client reads.
LEMMA ReceivedKeeps ==
    ASSUME NEW ctx, NEW p, NEW tk, ConnectionOK(ctx, p, tk), NEW n \in DOMAIN p.wire
    PROVE  ConnectionOK(ctx, [wire |-> SubSeq(p.wire, n + 1, Len(p.wire)),
                              seen |-> Highest({p.seen} \cup {p.wire[i].seq : i \in 1..n})], tk)
<1>. DEFINE seen2 == Highest({p.seen} \cup {p.wire[i].seq : i \in 1..n})
            w == SubSeq(p.wire, n + 1, Len(p.wire))
            p2 == [wire |-> w, seen |-> seen2]
<1>0. /\ p.wire \in Seq(Frames) /\ p.seen \in Nat /\ ctx.next_seq \in Nat /\ tk \in Seq(Nat)
      /\ WireOK(p.wire, ctx.next_seq, tk) /\ WireGrows(p.wire, p.seen, ctx.next_seq)
      /\ Kept(ctx.buffer, ctx.next_seq, p.seen)
  BY Zenon, ConnectionParts
<1>1. /\ w \in Seq(Frames) /\ seen2 \in Nat /\ WireOK(w, ctx.next_seq, tk)
      /\ WireGrows(w, seen2, ctx.next_seq) /\ Kept(ctx.buffer, ctx.next_seq, seen2)
  BY ZenonT(30), <1>0, WireReceived
<1>. HIDE DEF w, seen2
<1>2. PeerOK(p2) /\ p2.wire = w /\ p2.seen = seen2
  BY Zenon, <1>1 DEF PeerOK
<1>. HIDE DEF p2
<1>3. ConnectionOK(ctx, p2, tk)
  BY Zenon, <1>1, <1>2 DEF ConnectionOK
<1>. QED BY Zenon, <1>3 DEF p2, w, seen2

\* A connection starts with nothing.
LEMMA NewConnection ==
    ConnectionOK(NewContext, [wire |-> <<>>, seen |-> 0], <<>>)
<1>1. /\ <<>> \in Seq(Items) /\ <<>> \in Seq(Pending) /\ <<>> \in Seq(Frames) /\ <<>> \in Seq(Nat)
      /\ Len(<<>>) = 0 /\ DOMAIN <<>> = {}
  OBVIOUS
<1>2. /\ ContextOK(NewContext) /\ NewContext.outbox = <<>> /\ NewContext.next_seq = 0
      /\ NewContext.buffer = <<>>
  BY <1>1 DEF ContextOK, ContextFields, NewContext
<1>3. PeerOK([wire |-> <<>>, seen |-> 0])
  BY <1>1 DEF PeerOK
<1>4. OutboxOK(<<>>, 0, <<>>)
  <2>. DEFINE pos == [i \in 0..0 |-> 0]
  <2>1. pos \in [0..0 -> Nat] /\ pos[0] = 0
    OBVIOUS
  <2>. HIDE DEF pos
  <2>2. Placed(<<>>, 0, <<>>, pos)
    BY <1>1, <2>1 DEF Placed
  <2>. QED BY <1>1, <2>1, <2>2 DEF OutboxOK
<1>5. WireOK(<<>>, 0, <<>>) /\ BufferOK(<<>>, 0, <<>>) /\ WireGrows(<<>>, 0, 0) /\ Kept(<<>>, 0, 0)
  BY <1>1 DEF WireOK, BufferOK, WireGrows, Kept
<1>. QED BY Zenon, <1>1, <1>2, <1>3, <1>4, <1>5 DEF ConnectionOK

-----------------------------------------------------------------------------
(* All connections: a step changes one of them, closes some, or adds one.   *)

Moves(c) ==
    /\ DOMAIN registry' = DOMAIN registry /\ DOMAIN peer' = DOMAIN peer
    /\ DOMAIN taken' = DOMAIN taken
    /\ \A d \in DOMAIN registry \ {c} :
          registry'[d] = registry[d] /\ peer'[d] = peer[d] /\ taken'[d] = taken[d]

\* A step that concerns one connection keeps the others as they are.
LEMMA OneMoves ==
    ASSUME ConnectionsOK, NEW c, Moves(c),
           c \in DOMAIN registry => ConnectionOK(registry'[c], peer'[c], taken'[c])
    PROVE  ConnectionsOK'
<1>1. ASSUME NEW d \in DOMAIN registry PROVE ConnectionOK(registry'[d], peer'[d], taken'[d])
  <2>1. CASE d = c
    BY Zenon, <2>1
  <2>2. CASE d # c
    <3>1. d \in DOMAIN registry \ {c}
      BY Zenon, <2>2
    <3>. QED BY Zenon, <3>1 DEF Moves, ConnectionsOK
  <2>. QED BY Zenon, <2>1, <2>2
<1>. QED BY Zenon, <1>1 DEF ConnectionsOK, Moves

\* The connections do not change at all.
LEMMA NoneMoves ==
    ASSUME ConnectionsOK, UNCHANGED <<registry, peer, taken>>
    PROVE  ConnectionsOK'
  BY Zenon DEF ConnectionsOK

\* The close callback forgets a connection altogether.
LEMMA ClosedKeeps ==
    ASSUME ConnectionsOK, NEW gone, Closed(gone)
    PROVE  ConnectionsOK'
  BY Zenon DEF ConnectionsOK, Closed, Restrict

-----------------------------------------------------------------------------
(* The queue and the load.                                                  *)

\* What is offered is well-formed, and so is the queue after it.
LEMMA OfferKeeps ==
    ASSUME QueueOK, NEW x \in Envelopes, NEW lane \in {"high", "low"},
           queue' = Offer(queue, x, lane, QueueCapacity)
    PROVE  QueueOK'
<1>1. queue.high \in Seq(Envelopes) /\ queue.low \in Seq(Envelopes)
  BY Zenon DEF QueueOK
<1>2. Append(queue.high, x) \in Seq(Envelopes) /\ Append(queue.low, x) \in Seq(Envelopes)
  BY <1>1
<1>3. SubSeq(queue.low, 1, Len(queue.low) - 1) \in Seq(Envelopes)
  BY <1>1
<1>4. CASE queue' = [queue EXCEPT ![lane] = Append(@, x)]
  <2>1. CASE lane = "high"
    BY Zenon, <1>1, <1>2, <1>4, <2>1 DEF QueueOK
  <2>2. CASE lane = "low"
    BY Zenon, <1>1, <1>2, <1>4, <2>2 DEF QueueOK
  <2>. QED BY Zenon, <2>1, <2>2
<1>5. CASE queue' = [high |-> Append(queue.high, x), low |-> SubSeq(queue.low, 1, Len(queue.low) - 1)]
  <2>. DEFINE h == Append(queue.high, x)
              l == SubSeq(queue.low, 1, Len(queue.low) - 1)
  <2>1. queue' = [high |-> h, low |-> l] /\ h \in Seq(Envelopes) /\ l \in Seq(Envelopes)
    BY Zenon, <1>2, <1>3, <1>5
  <2>. HIDE DEF h, l
  <2>. QED BY <2>1 DEF QueueOK
<1>6. CASE queue' = queue
  BY Zenon, <1>6 DEF QueueOK
<1>. QED BY Zenon, <1>4, <1>5, <1>6 DEF Offer

\* A message that is popped is one that was pushed.
LEMMA RestKeeps ==
    ASSUME QueueOK, Size(queue) > 0
    PROVE  First(queue) \in Envelopes /\ (queue' = Rest(queue) => QueueOK')
<1>1. queue.high \in Seq(Envelopes) /\ queue.low \in Seq(Envelopes)
  BY Zenon DEF QueueOK
<1>2. CASE queue.high # <<>>
  <2>1. Lane(queue) = "high" /\ Head(queue.high) \in Envelopes /\ Tail(queue.high) \in Seq(Envelopes)
    BY <1>1, <1>2 DEF Lane
  <2>. QED BY Zenon, <1>1, <2>1 DEF First, Rest, QueueOK
<1>3. CASE queue.high = <<>>
  <2>1. Lane(queue) = "low" /\ queue.low # <<>>
    <3>1. Len(queue.high) = 0 /\ Len(queue.low) > 0
      BY <1>1, <1>3 DEF Size
    <3>. QED BY <1>1, <1>3, <3>1 DEF Lane
  <2>2. Head(queue.low) \in Envelopes /\ Tail(queue.low) \in Seq(Envelopes)
    BY <1>1, <2>1
  <2>. QED BY Zenon, <1>1, <2>1, <2>2 DEF First, Rest, QueueOK
<1>. QED BY Zenon, <1>2, <1>3

\* A worker's push.
LEMMA PushKeeps ==
    ASSUME OutboundInv, NEW kind \in load.kinds, NEW to \in SUBSET load.opened \ {{}}, Push(kind, to)
    PROVE  OutboundInv'
<1>. DEFINE item == [kind |-> kind, id |-> IF kind = "reliable" THEN load.pushes ELSE 0]
            x == [to |-> to, item |-> item]
<1>1. item \in Items
  BY Zenon DEF OutboundInv, LoadOK, Items
<1>2. LaneOf(item) \in {"high", "low"}
  BY Zenon DEF LaneOf
<1>3. queue' = Offer(queue, x, LaneOf(item), QueueCapacity)
  BY Zenon DEF Push
<1>. HIDE DEF item
<1>4. x \in Envelopes
  BY Zenon, <1>1 DEF OutboundInv, LoadOK, Envelopes
<1>. HIDE DEF x
<1>5. QueueOK'
  BY Zenon, <1>2, <1>3, <1>4, OfferKeeps DEF OutboundInv
<1>6. LoadOK'
  BY DEF OutboundInv, LoadOK, Push
<1>. QED BY Zenon, <1>5, <1>6, NoneMoves DEF OutboundInv, Push, LoopOK

\* A connection opens.
LEMMA OpenKeeps ==
    ASSUME OutboundInv, NEW c \in Conns, Opened(c)
    PROVE  OutboundInv'
<1>1. LoadOK'
  BY Zenon DEF OutboundInv, LoadOK, Opened
<1>2. ConnectionsOK'
  <2>1. /\ DOMAIN registry' = DOMAIN registry \cup {c} /\ DOMAIN peer' = DOMAIN registry'
        /\ DOMAIN taken' = DOMAIN registry'
    BY Zenon DEF OutboundInv, ConnectionsOK, Opened, Put
  <2>2. /\ registry'[c] = NewContext /\ peer'[c] = [wire |-> <<>>, seen |-> 0] /\ taken'[c] = <<>>
        /\ \A d \in DOMAIN registry \ {c} :
              registry'[d] = registry[d] /\ peer'[d] = peer[d] /\ taken'[d] = taken[d]
    BY Zenon DEF OutboundInv, ConnectionsOK, Opened, Put
  <2>3. ConnectionOK(registry'[c], peer'[c], taken'[c])
    BY Zenon, <2>2, NewConnection
  <2>4. \A d \in DOMAIN registry \ {c} : ConnectionOK(registry'[d], peer'[d], taken'[d])
    BY Zenon, <2>2 DEF OutboundInv, ConnectionsOK
  <2>. QED BY Zenon, <2>1, <2>3, <2>4 DEF ConnectionsOK
<1>. QED BY Zenon, <1>1, <1>2 DEF OutboundInv, Opened, QueueOK, LoopOK

-----------------------------------------------------------------------------
(* The event loop.                                                          *)

\* drain_queue hands one message to the outboxes.
LEMMA DrainKeeps ==
    ASSUME OutboundInv, Drain
    PROVE  OutboundInv'
<1>. DEFINE msg == First(queue)
            here == msg.to \cap DOMAIN registry
<1>1. msg \in Envelopes /\ msg.item \in Items /\ QueueOK'
  <2>1. First(queue) \in Envelopes /\ QueueOK'
    BY Zenon, RestKeeps DEF OutboundInv, Drain
  <2>. QED BY Zenon, <2>1 DEF Envelopes
<1>2. /\ registry' = [c \in DOMAIN registry |->
                        IF c \in here THEN Enqueued(registry[c], msg.item) ELSE registry[c]]
      /\ taken' = [c \in DOMAIN taken |->
                     IF c \in here /\ msg.item.kind = "reliable" /\ Takes(registry[c], msg.item)
                     THEN Append(taken[c], msg.item.id) ELSE taken[c]]
      /\ peer' = peer
  BY Zenon DEF Drain
<1>. HIDE DEF msg, here
<1>3. DOMAIN peer = DOMAIN registry /\ DOMAIN taken = DOMAIN registry
  BY Zenon DEF OutboundInv, ConnectionsOK
<1>4. ASSUME NEW c \in DOMAIN registry PROVE ConnectionOK(registry'[c], peer'[c], taken'[c])
  <2>0. ConnectionOK(registry[c], peer[c], taken[c])
    BY Zenon DEF OutboundInv, ConnectionsOK
  <2>1. CASE c \in here
    <3>1. registry'[c] = Enqueued(registry[c], msg.item)
      BY Zenon, <1>2, <2>1
    <3>2. taken'[c] = IF msg.item.kind = "reliable" /\ Takes(registry[c], msg.item)
                      THEN Append(taken[c], msg.item.id) ELSE taken[c]
      BY Zenon, <1>2, <1>3, <2>1
    <3>. QED BY <1>1, <1>2, <2>0, <3>1, <3>2, EnqueuedKeeps
  <2>2. CASE c \notin here
    BY Zenon, <1>2, <1>3, <2>0, <2>2
  <2>. QED BY Zenon, <2>1, <2>2
<1>5. ConnectionsOK'
  BY Zenon, <1>2, <1>3, <1>4 DEF ConnectionsOK
<1>6. LoopOK'
  BY Zenon DEF OutboundInv, LoopOK, Drain
<1>. QED BY Zenon, <1>1, <1>5, <1>6 DEF OutboundInv, LoadOK, Drain

\* Writing changes what is on one wire.
LEMMA WrittenIs ==
    ASSUME NEW c, NEW f, peer' = Written(c, f)
    PROVE  /\ DOMAIN peer' = DOMAIN peer /\ \A d \in DOMAIN peer \ {c} : peer'[d] = peer[d]
           /\ c \in DOMAIN peer => Writes(peer'[c], peer[c], f)
  BY Zenon DEF Written, Writes

\* flush_connection_outbox: a reliable message.
LEMMA SendReliableKeeps ==
    ASSUME ConnectionsOK, NEW c, registry[c].outbox # <<>>, SendReliable(c)
    PROVE  ConnectionsOK'
<1>. DEFINE f == [seq |-> registry[c].next_seq + 1, id |-> Head(registry[c].outbox).id]
<1>0. DOMAIN peer = DOMAIN registry /\ DOMAIN taken = DOMAIN registry
  BY Zenon DEF ConnectionsOK
<1>1. /\ DOMAIN peer' = DOMAIN peer /\ \A d \in DOMAIN peer \ {c} : peer'[d] = peer[d]
      /\ c \in DOMAIN peer => Writes(peer'[c], peer[c], f)
  BY Zenon, WrittenIs DEF SendReliable
<1>2. /\ DOMAIN registry' = DOMAIN registry
      /\ \A d \in DOMAIN registry \ {c} : registry'[d] = registry[d]
      /\ c \in DOMAIN registry => registry'[c] = registry[c] \/ registry'[c] = Numbered(registry[c])
  BY Zenon DEF SendReliable
<1>3. taken' = taken
  BY Zenon DEF SendReliable
<1>4. Moves(c)
  BY Zenon, <1>0, <1>1, <1>2, <1>3 DEF Moves
<1>5. ASSUME c \in DOMAIN registry PROVE ConnectionOK(registry'[c], peer'[c], taken'[c])
  <2>1. ConnectionOK(registry[c], peer[c], taken[c])
    BY Zenon, <1>5 DEF ConnectionsOK
  <2>2. f \in Frames /\ f.seq = registry[c].next_seq + 1 /\ f.id = Head(registry[c].outbox).id
    <3>1. registry[c].outbox \in Seq(Items) /\ registry[c].next_seq \in Nat
      BY Zenon, <2>1, ConnectionParts
    <3>2. Head(registry[c].outbox) \in Items
      BY <3>1
    <3>. QED BY <3>1, <3>2 DEF Items, Frames
  <2>. HIDE DEF f
  <2>3. Writes(peer'[c], peer[c], f) /\ Head(registry[c].outbox).kind = "reliable"
    BY Zenon, <1>0, <1>1, <1>5 DEF SendReliable
  <2>4. ConnectionOK(registry[c], peer'[c], taken[c]) /\ ConnectionOK(Numbered(registry[c]), peer'[c], taken[c])
    BY Zenon, <2>1, <2>2, <2>3, ReliableSent
  <2>. QED BY Zenon, <1>2, <1>3, <1>5, <2>4
<1>. QED BY Zenon, <1>4, <1>5, OneMoves

\* flush_connection_outbox: a message without a number.
LEMMA SendPlainKeeps ==
    ASSUME ConnectionsOK, NEW c, registry[c].outbox # <<>>, SendPlain(c)
    PROVE  ConnectionsOK'
<1>. DEFINE f == [seq |-> 0, id |-> 0]
<1>0. DOMAIN peer = DOMAIN registry /\ DOMAIN taken = DOMAIN registry
  BY Zenon DEF ConnectionsOK
<1>1. /\ DOMAIN peer' = DOMAIN peer /\ \A d \in DOMAIN peer \ {c} : peer'[d] = peer[d]
      /\ c \in DOMAIN peer => Writes(peer'[c], peer[c], f)
  BY Zenon, WrittenIs DEF SendPlain
<1>2. /\ DOMAIN registry' = DOMAIN registry
      /\ \A d \in DOMAIN registry \ {c} : registry'[d] = registry[d]
      /\ c \in DOMAIN registry => registry'[c] = registry[c] \/ registry'[c] = Popped(registry[c])
  BY Zenon DEF SendPlain
<1>3. taken' = taken
  BY Zenon DEF SendPlain
<1>4. Moves(c)
  BY Zenon, <1>0, <1>1, <1>2, <1>3 DEF Moves
<1>5. ASSUME c \in DOMAIN registry PROVE ConnectionOK(registry'[c], peer'[c], taken'[c])
  <2>1. ConnectionOK(registry[c], peer[c], taken[c])
    BY Zenon, <1>5 DEF ConnectionsOK
  <2>2. Names(f, registry[c], taken[c])
    <3>1. registry[c].next_seq \in Nat
      BY Zenon, <2>1, ConnectionParts
    <3>. QED BY <3>1 DEF Names, Frames
  <2>. HIDE DEF f
  <2>3. Writes(peer'[c], peer[c], f) /\ Head(registry[c].outbox).kind \notin {"drop", "reliable"}
    BY Zenon, <1>0, <1>1, <1>5 DEF SendPlain
  <2>4. ConnectionOK(registry[c], peer'[c], taken[c])
    BY Zenon, <2>1, <2>2, <2>3, FrameWritten
  <2>5. ConnectionOK(Popped(registry[c]), peer'[c], taken[c])
    BY Zenon, <2>3, <2>4, PoppedKeeps
  <2>. QED BY Zenon, <1>2, <1>3, <1>5, <2>4, <2>5
<1>. QED BY Zenon, <1>4, <1>5, OneMoves

\* flush_connection_outbox: an update of the authentication.
LEMMA UpdateAuthStateKeeps ==
    ASSUME ConnectionsOK, NEW c, registry[c].outbox # <<>>, UpdateAuthState(c)
    PROVE  ConnectionsOK'
<1>. DEFINE g == Updated(registry[c], Head(registry[c].outbox).kind)
<1>1. /\ registry' = [registry EXCEPT ![c] = Popped(g)] /\ peer' = peer /\ taken' = taken
      /\ Head(registry[c].outbox).kind \notin {"drop", "reliable"}
  BY Zenon DEF UpdateAuthState
<1>2. Moves(c)
  BY Zenon, <1>1 DEF Moves, ConnectionsOK
<1>3. ASSUME c \in DOMAIN registry PROVE ConnectionOK(registry'[c], peer'[c], taken'[c])
  <2>1. ConnectionOK(registry[c], peer[c], taken[c])
    BY Zenon, <1>3 DEF ConnectionsOK
  <2>2. ConnectionOK(g, peer[c], taken[c]) /\ g.outbox = registry[c].outbox
    BY Zenon, <2>1, UpdatedKeeps
  <2>3. registry'[c] = Popped(g)
    BY Zenon, <1>1, <1>3
  <2>. HIDE DEF g
  <2>4. ConnectionOK(Popped(g), peer[c], taken[c])
    BY Zenon, <1>1, <2>2, PoppedKeeps
  <2>. QED BY Zenon, <1>1, <2>3, <2>4
<1>. QED BY Zenon, <1>2, <1>3, OneMoves

\* flush_connection_outbox, whatever its next item is.
LEMMA SendKeeps ==
    ASSUME OutboundInv, SendStep
    PROVE  OutboundInv'
<1>. DEFINE c == loop.conn
<1>0. ConnectionsOK /\ loop.pc = "send" /\ UNCHANGED <<load, queue>>
  BY Zenon DEF OutboundInv, SendStep
<1>1. \/ Stop(c)
      \/ /\ registry[c].outbox # <<>>
         /\ SendReliable(c) \/ SendPlain(c) \/ UpdateAuthState(c) \/ DropConnection(c)
  BY Zenon DEF SendStep
<1>2. loop' = loop \/ NextConnection
  BY Zenon, <1>1 DEF Stop, SendReliable, SendPlain, UpdateAuthState, DropConnection
<1>. HIDE DEF c
<1>3. ConnectionsOK'
  <2>1. CASE Stop(c)
    BY Zenon, <1>0, <2>1, NoneMoves DEF Stop
  <2>2. CASE registry[c].outbox # <<>> /\ SendReliable(c)
    BY Zenon, <1>0, <2>2, SendReliableKeeps
  <2>3. CASE registry[c].outbox # <<>> /\ SendPlain(c)
    BY Zenon, <1>0, <2>3, SendPlainKeeps
  <2>4. CASE registry[c].outbox # <<>> /\ UpdateAuthState(c)
    BY Zenon, <1>0, <2>4, UpdateAuthStateKeeps
  <2>5. CASE DropConnection(c)
    BY Zenon, <1>0, <2>5, ClosedKeeps DEF DropConnection
  <2>. QED BY Zenon, <1>1, <2>1, <2>2, <2>3, <2>4, <2>5
<1>4. LoopOK'
  <2>1. CASE loop' = loop
    BY Zenon, <2>1 DEF OutboundInv, LoopOK
  <2>2. CASE NextConnection
    BY Zenon, <2>2 DEF NextConnection, LoopOK
  <2>. QED BY Zenon, <1>2, <2>1, <2>2
<1>. QED BY Zenon, <1>0, <1>3, <1>4 DEF OutboundInv, QueueOK, LoadOK

\* retransmit_sweep reaches a connection.
LEMMA SweepKeeps ==
    ASSUME OutboundInv, NEW c, Sweep(c)
    PROVE  OutboundInv'
<1>1. ConnectionsOK'
  <2>1. CASE UNCHANGED <<registry, peer, taken>>
    BY Zenon, <2>1, NoneMoves DEF OutboundInv
  <2>2. CASE Closed({c})
    BY Zenon, <2>2, ClosedKeeps DEF OutboundInv
  <2>. QED BY Zenon, <2>1, <2>2 DEF Sweep
<1>2. LoopOK'
  <2>1. CASE loop' = SweepOn(c)
    BY Zenon, <2>1 DEF LoopOK, SweepOn
  <2>2. CASE loop' = [pc |-> "resend", conn |-> c, at |-> 1, conns |-> loop.conns \ {c}]
    BY <2>2 DEF LoopOK
  <2>. QED BY Zenon, <2>1, <2>2 DEF Sweep
<1>. QED BY Zenon, <1>1, <1>2 DEF OutboundInv, QueueOK, LoadOK, Sweep

\* A frame is sent again and counted if the kernel takes it.
LEMMA ResentKeeps ==
    ASSUME ConnectionsOK, NEW c, NEW at \in 1..Len(registry[c].buffer),
           peer' = Written(c, [seq |-> registry[c].buffer[at].seq, id |-> registry[c].buffer[at].id]),
           \/ registry' = registry
           \/ registry' = [registry EXCEPT ![c].buffer[at] = Retried(@)],
           taken' = taken
    PROVE  ConnectionsOK'
<1>. DEFINE f == [seq |-> registry[c].buffer[at].seq, id |-> registry[c].buffer[at].id]
            g == WithBuffer(registry[c], [registry[c].buffer EXCEPT ![at] = Retried(registry[c].buffer[at])])
<1>0. DOMAIN peer = DOMAIN registry /\ DOMAIN taken = DOMAIN registry
  BY Zenon DEF ConnectionsOK
<1>1. /\ DOMAIN peer' = DOMAIN peer /\ \A d \in DOMAIN peer \ {c} : peer'[d] = peer[d]
      /\ c \in DOMAIN peer => Writes(peer'[c], peer[c], f)
  BY Zenon, WrittenIs
<1>2. registry' = registry \/ registry' = [registry EXCEPT ![c] = g]
  BY Zenon DEF WithBuffer
<1>3. ASSUME c \in DOMAIN registry
      PROVE  /\ ConnectionOK(registry[c], peer[c], taken[c]) /\ ConnectionOK(g, peer[c], taken[c])
             /\ Names(f, registry[c], taken[c]) /\ Names(f, g, taken[c])
  <2>1. ConnectionOK(registry[c], peer[c], taken[c])
    BY Zenon, <1>3 DEF ConnectionsOK
  <2>2. ConnectionOK(g, peer[c], taken[c]) /\ Names(f, registry[c], taken[c])
    BY Zenon, <2>1, RetriedKeeps
  <2>3. g.next_seq = registry[c].next_seq
    <3>1. ContextOK(registry[c])
      BY Zenon, <2>1, ConnectionParts
    <3>. QED BY Zenon, <3>1 DEF WithBuffer, ContextOK, ContextFields
  <2>. HIDE DEF f, g
  <2>. QED BY Zenon, <2>1, <2>2, <2>3 DEF Names
<1>. HIDE DEF f, g
<1>4. /\ DOMAIN registry' = DOMAIN registry
      /\ \A d \in DOMAIN registry \ {c} : registry'[d] = registry[d]
      /\ c \in DOMAIN registry => registry'[c] = registry[c] \/ registry'[c] = g
  BY Zenon, <1>2
<1>5. Moves(c)
  BY Zenon, <1>0, <1>1, <1>4 DEF Moves
<1>6. ASSUME c \in DOMAIN registry PROVE ConnectionOK(registry'[c], peer'[c], taken'[c])
  <2>1. Writes(peer'[c], peer[c], f)
    BY Zenon, <1>0, <1>1, <1>6
  <2>2. ConnectionOK(registry[c], peer'[c], taken[c]) /\ ConnectionOK(g, peer'[c], taken[c])
    BY Zenon, <1>3, <1>6, <2>1, FrameWritten
  <2>. QED BY Zenon, <1>4, <1>6, <2>2
<1>. QED BY Zenon, <1>5, <1>6, OneMoves

\* retransmit_sweep looks at a frame.
LEMMA ResendKeeps ==
    ASSUME OutboundInv, Resend
    PROVE  OutboundInv'
<1>. DEFINE c == loop.conn
            at == loop.at
<1>0. /\ ConnectionsOK /\ at \in Nat \ {0} /\ at <= Len(registry[c].buffer)
      /\ loop = [x \in {"pc", "conn", "at", "conns"} |-> loop[x]] /\ UNCHANGED <<load, queue>>
  BY Zenon DEF OutboundInv, LoopOK, Resend
<1>1. \/ UNCHANGED <<registry, peer, taken>>
      \/ Closed({c})
      \/ /\ peer' = Written(c, [seq |-> registry[c].buffer[at].seq, id |-> registry[c].buffer[at].id])
         /\ \/ registry' = registry
            \/ registry' = [registry EXCEPT ![c].buffer[at] = Retried(@)]
         /\ taken' = taken
  BY Zenon DEF Resend
<1>2. loop' = NextFrame \/ loop' = SweepOn(c)
  BY Zenon DEF Resend
<1>3. ConnectionsOK'
  <2>1. CASE UNCHANGED <<registry, peer, taken>>
    BY Zenon, <1>0, <2>1, NoneMoves
  <2>2. CASE Closed({c})
    BY Zenon, <1>0, <2>2, ClosedKeeps
  <2>3. ASSUME peer' = Written(c, [seq |-> registry[c].buffer[at].seq, id |-> registry[c].buffer[at].id]),
               registry' = registry \/ registry' = [registry EXCEPT ![c].buffer[at] = Retried(@)],
               taken' = taken
        PROVE  ConnectionsOK'
    <3>1. CASE c \in DOMAIN registry
      <4>1. ConnectionOK(registry[c], peer[c], taken[c])
        BY Zenon, <1>0, <3>1 DEF ConnectionsOK
      <4>2. Len(registry[c].buffer) \in Nat
        BY <4>1, ConnectionParts
      <4>3. at \in 1..Len(registry[c].buffer)
        BY <1>0, <4>2
      <4>. HIDE DEF c, at
      <4>. QED BY Zenon, <1>0, <2>3, <4>3, ResentKeeps
    <3>2. CASE c \notin DOMAIN registry
      <4>1. DOMAIN peer' = DOMAIN peer /\ \A d \in DOMAIN peer \ {c} : peer'[d] = peer[d]
        BY Zenon, <2>3, WrittenIs
      <4>2. DOMAIN registry' = DOMAIN registry /\ \A d \in DOMAIN registry \ {c} : registry'[d] = registry[d]
        BY Zenon, <2>3
      <4>3. Moves(c)
        BY Zenon, <1>0, <2>3, <4>1, <4>2 DEF Moves, ConnectionsOK
      <4>. HIDE DEF c, at
      <4>. QED BY Zenon, <1>0, <3>2, <4>3, OneMoves
    <3>. QED BY Zenon, <3>1, <3>2
  <2>. QED BY Zenon, <1>1, <2>1, <2>2, <2>3
<1>4. LoopOK'
  <2>1. CASE loop' = NextFrame
    <3>1. loop' = [loop EXCEPT !.at = loop.at + 1] /\ loop.pc = "resend"
      BY Zenon, <2>1 DEF NextFrame, Resend
    <3>2. /\ loop' = [x \in {"pc", "conn", "at", "conns"} |-> loop'[x]]
          /\ loop'.pc = "resend" /\ loop'.at = loop.at + 1
      BY Zenon, <1>0, <3>1
    <3>. QED BY <1>0, <3>2 DEF LoopOK
  <2>2. CASE loop' = SweepOn(c)
    BY Zenon, <2>2 DEF LoopOK, SweepOn
  <2>. QED BY Zenon, <1>2, <2>1, <2>2
<1>. QED BY Zenon, <1>0, <1>3, <1>4 DEF OutboundInv, QueueOK, LoadOK

-----------------------------------------------------------------------------
(* The other callbacks, the client and the clock.                           *)

\* An ACK, or the number a PING carries.
LEMMA AckKeeps ==
    ASSUME ConnectionsOK, NEW c \in DOMAIN peer, NEW n \in 0..peer[c].seen, NEW ping \in BOOLEAN,
           Ack(c, n, ping)
    PROVE  ConnectionsOK'
<1>. DEFINE g == AckedBy(registry[c], n)
            h == WithLate(g, g.late \ {"silent"})
<1>1. /\ c \in DOMAIN registry /\ peer' = peer /\ taken' = taken
      /\ registry' = [registry EXCEPT ![c] = h] \/ registry' = [registry EXCEPT ![c] = g]
  BY Zenon DEF Ack, Alive, WithLate
<1>2. ConnectionOK(registry[c], peer[c], taken[c])
  BY Zenon, <1>1 DEF ConnectionsOK
<1>3. ConnectionOK(g, peer[c], taken[c])
  BY Zenon, <1>2, AckedKeeps
<1>. HIDE DEF g
<1>4. ConnectionOK(h, peer[c], taken[c])
  BY Zenon, <1>3, WaitedKeeps
<1>. HIDE DEF h
<1>5. registry'[c] = g \/ registry'[c] = h
  BY Zenon, <1>1
<1>6. Moves(c)
  BY Zenon, <1>1 DEF Moves
<1>. QED BY Zenon, <1>1, <1>3, <1>4, <1>5, <1>6, OneMoves

\* The client reads what is on the wire.
LEMMA ReceiveKeeps ==
    ASSUME ConnectionsOK, NEW c, NEW n, Receive(c, n)
    PROVE  ConnectionsOK'
<1>. DEFINE p2 == [wire |-> SubSeq(peer[c].wire, n + 1, Len(peer[c].wire)),
                   seen |-> Highest({peer[c].seen} \cup {peer[c].wire[i].seq : i \in 1..n})]
<1>1. /\ c \in DOMAIN peer /\ n \in DOMAIN peer[c].wire /\ registry' = registry /\ taken' = taken
      /\ peer' = [peer EXCEPT ![c] = p2]
  BY Zenon DEF Receive
<1>2. ConnectionOK(registry[c], peer[c], taken[c])
  BY Zenon, <1>1 DEF ConnectionsOK
<1>3. ConnectionOK(registry[c], p2, taken[c])
  BY ZenonT(30), <1>1, <1>2, ReceivedKeeps
<1>. HIDE DEF p2
<1>4. Moves(c) /\ peer'[c] = p2
  BY Zenon, <1>1 DEF Moves, ConnectionsOK
<1>. QED BY Zenon, <1>1, <1>3, <1>4, OneMoves

\* Time passes for one connection.
LEMMA ClockKeeps ==
    ASSUME ConnectionsOK, NEW c, NEW t, Wait(c) \/ Elapse(c, t)
    PROVE  ConnectionsOK'
<1>. DEFINE g == [registry[c] EXCEPT !.buffer = [i \in DOMAIN @ |-> [@[i] EXCEPT !.overdue = TRUE]]]
            h == WithLate(registry[c], registry[c].late \cup {t})
<1>1. c \in DOMAIN registry /\ peer' = peer /\ taken' = taken
  BY Zenon DEF Wait, Elapse
<1>2. registry' = [registry EXCEPT ![c] = g] \/ registry' = [registry EXCEPT ![c] = h]
  BY Zenon DEF Wait, Elapse, WithLate
<1>3. ConnectionOK(registry[c], peer[c], taken[c])
  BY Zenon, <1>1 DEF ConnectionsOK
<1>4. ConnectionOK(g, peer[c], taken[c]) /\ ConnectionOK(h, peer[c], taken[c])
  BY Zenon, <1>3, WaitedKeeps
<1>. HIDE DEF g, h
<1>5. Moves(c) /\ (registry'[c] = g \/ registry'[c] = h)
  BY Zenon, <1>1, <1>2 DEF Moves
<1>. QED BY Zenon, <1>1, <1>4, <1>5, OneMoves

-----------------------------------------------------------------------------
(* The inductive invariant.                                                 *)

\* The invariant holds at the start.
LEMMA OutboundInvInit == OutboundInit => OutboundInv
<1>. SUFFICES ASSUME OutboundInit PROVE OutboundInv
  BY Zenon
<1>1. ConnectionsOK
  BY Zenon DEF OutboundInit, EmptyMap, ConnectionsOK
<1>2. QueueOK
  <2>1. <<>> \in Seq(Envelopes)
    OBVIOUS
  <2>. QED BY Zenon, <2>1 DEF OutboundInit, EmptyQueue, QueueOK
<1>3. LoadOK
  <2>1. load \in Load
    BY Zenon, LoadsKnown DEF OutboundInit
  <2>. QED BY Zenon, <2>1 DEF Load, LoadOK
<1>4. LoopOK
  BY Zenon DEF OutboundInit, Idle, LoopOK
<1>. QED BY Zenon, <1>1, <1>2, <1>3, <1>4 DEF OutboundInv

\* Every step keeps the invariant.
LEMMA OutboundInvNext == OutboundInv /\ [OutboundNext]_outboundVars => OutboundInv'
<1>. SUFFICES ASSUME OutboundInv, [OutboundNext]_outboundVars PROVE OutboundInv'
  BY Zenon
<1>0. ConnectionsOK /\ QueueOK /\ LoadOK /\ LoopOK
  BY Zenon DEF OutboundInv
<1>1. ASSUME NEW kind \in load.kinds, NEW to \in SUBSET load.opened \ {{}}, Push(kind, to)
      PROVE  OutboundInv'
  BY Zenon, <1>1, PushKeeps
<1>2. ASSUME ConnectionsOK', UNCHANGED <<load, queue>>, LoopOK' PROVE OutboundInv'
  BY Zenon, <1>0, <1>2 DEF OutboundInv, QueueOK, LoadOK
<1>3. loop' = loop => LoopOK'
  BY Zenon, <1>0 DEF LoopOK
<1>4. CASE Tick
  <2>1. LoopOK' /\ UNCHANGED <<load, queue, registry, peer, taken>>
    BY Zenon, <1>4 DEF Tick, LoopOK
  <2>. QED BY Zenon, <1>0, <1>2, <2>1, NoneMoves
<1>5. CASE TickStep
  <2>1. CASE Drain
    BY Zenon, <2>1, DrainKeeps
  <2>2. CASE Drained
    <3>1. LoopOK' /\ UNCHANGED <<load, queue, registry, peer, taken>>
      BY Zenon, <2>2 DEF Drained, LoopOK
    <3>. QED BY Zenon, <1>0, <1>2, <3>1, NoneMoves
  <2>3. ASSUME NEW c \in Conns, Flush(c) PROVE OutboundInv'
    <3>1. LoopOK' /\ UNCHANGED <<load, queue, registry, peer, taken>>
      BY Zenon, <2>3 DEF Flush, LoopOK
    <3>. QED BY Zenon, <1>0, <1>2, <3>1, NoneMoves
  <2>4. ASSUME NEW c \in Conns, Sweep(c) PROVE OutboundInv'
    BY Zenon, <2>4, SweepKeeps
  <2>5. CASE Flushed
    <3>1. LoopOK' /\ UNCHANGED <<load, queue, registry, peer, taken>>
      BY Zenon, <2>5 DEF Flushed, LoopOK
    <3>. QED BY Zenon, <1>0, <1>2, <3>1, NoneMoves
  <2>6. CASE SendStep
    BY Zenon, <2>6, SendKeeps
  <2>7. CASE Resend
    BY Zenon, <2>7, ResendKeeps
  <2>8. CASE Resent \/ Swept
    <3>1. LoopOK' /\ UNCHANGED <<load, queue, registry, peer, taken>>
      BY <2>8 DEF Resent, Swept, SweepOn, Idle, LoopOK
    <3>. QED BY Zenon, <1>0, <1>2, <3>1, NoneMoves
  <2>. QED BY Zenon, <1>5, <2>1, <2>2, <2>3, <2>4, <2>5, <2>6, <2>7, <2>8 DEF TickStep
<1>6. CASE Heartbeat
  <2>1. ConnectionsOK' /\ UNCHANGED <<load, queue, loop>>
    BY Zenon, <1>0, <1>6, ClosedKeeps DEF Heartbeat
  <2>. QED BY Zenon, <1>2, <1>3, <2>1
<1>7. ASSUME NEW c \in Conns, Opened(c) PROVE OutboundInv'
  BY Zenon, <1>7, OpenKeeps
<1>8. ASSUME NEW c \in Conns, Leave(c) PROVE OutboundInv'
  <2>1. ConnectionsOK' /\ UNCHANGED <<load, queue, loop>>
    BY Zenon, <1>0, <1>8, ClosedKeeps DEF Leave
  <2>. QED BY Zenon, <1>2, <1>3, <2>1
<1>9. ASSUME NEW c \in Conns, NEW t, Wait(c) \/ Elapse(c, t) PROVE OutboundInv'
  <2>1. ConnectionsOK' /\ UNCHANGED <<load, queue, loop>>
    BY Zenon, <1>0, <1>9, ClockKeeps DEF Wait, Elapse
  <2>. QED BY Zenon, <1>2, <1>3, <2>1
<1>10. ASSUME NEW c \in Conns, NEW n \in 1..SocketLimit, Receive(c, n) PROVE OutboundInv'
  <2>1. ConnectionsOK' /\ UNCHANGED <<load, queue, loop>>
    BY Zenon, <1>0, <1>10, ReceiveKeeps DEF Receive
  <2>. QED BY Zenon, <1>2, <1>3, <2>1
<1>11. ASSUME NEW c \in DOMAIN peer, NEW n \in 0..peer[c].seen, NEW ping \in BOOLEAN, Ack(c, n, ping)
       PROVE  OutboundInv'
  <2>1. ConnectionsOK' /\ UNCHANGED <<load, queue, loop>>
    BY Zenon, <1>0, <1>11, AckKeeps DEF Ack
  <2>. QED BY Zenon, <1>2, <1>3, <2>1
<1>12. CASE UNCHANGED outboundVars
  <2>1. ConnectionsOK' /\ UNCHANGED <<load, queue, loop>>
    BY Zenon, <1>0, <1>12, NoneMoves DEF outboundVars
  <2>. QED BY Zenon, <1>2, <1>3, <2>1
<1>. QED BY Zenon, <1>1, <1>4, <1>5, <1>6, <1>7, <1>8, <1>9, <1>10, <1>11, <1>12 DEF OutboundNext

\* The invariant always holds.
LEMMA OutboundAlways == OutboundSpec => []OutboundInv
  BY OutboundInvInit, OutboundInvNext, PTL DEF OutboundSpec

-----------------------------------------------------------------------------
(* The theorems.                                                            *)

\* SeqNamesMessage, for any connections, load and capacities: whatever is sent under
\* number n is the n-th reliable message the outbox took, through overflow, eviction,
\* backpressure, retransmission and acknowledgement.
THEOREM NumbersNameMessages == OutboundSpec => []SeqNamesMessage
<1>1. OutboundInv => SeqNamesMessage
  <2>. SUFFICES ASSUME OutboundInv, NEW c \in DOMAIN registry
                PROVE  /\ \A i \in DOMAIN peer[c].wire :
                             peer[c].wire[i].seq > 0 =>
                                /\ peer[c].wire[i].seq <= Len(taken[c])
                                /\ peer[c].wire[i].id = taken[c][peer[c].wire[i].seq]
                       /\ \A i \in DOMAIN registry[c].buffer :
                             /\ registry[c].buffer[i].seq <= Len(taken[c])
                             /\ registry[c].buffer[i].id = taken[c][registry[c].buffer[i].seq]
    BY Zenon DEF SeqNamesMessage
  <2>1. ConnectionOK(registry[c], peer[c], taken[c])
    BY Zenon DEF OutboundInv, ConnectionsOK
  <2>. DEFINE ctx == registry[c]
              w == peer[c].wire
              tk == taken[c]
  <2>2. /\ WireOK(w, ctx.next_seq, tk) /\ BufferOK(ctx.buffer, ctx.next_seq, tk)
        /\ ctx.next_seq \in Nat /\ Len(tk) \in Nat /\ ctx.next_seq <= Len(tk)
    BY Zenon, <2>1, ConnectionParts
  <2>. HIDE DEF ctx, w, tk
  <2>3. \A i \in DOMAIN w : w[i].seq > 0 => w[i].seq <= Len(tk) /\ w[i].id = tk[w[i].seq]
    BY Zenon, <2>2 DEF WireOK
  <2>4. ASSUME NEW i \in DOMAIN ctx.buffer
        PROVE  ctx.buffer[i].seq <= Len(tk) /\ ctx.buffer[i].id = tk[ctx.buffer[i].seq]
    <3>1. ctx.buffer[i].seq \in 1..ctx.next_seq /\ ctx.buffer[i].id = tk[ctx.buffer[i].seq]
      BY Zenon, <2>2 DEF BufferOK
    <3>. QED BY <2>2, <3>1
  <2>. QED BY Zenon, <2>3, <2>4 DEF ctx, w, tk
<1>. QED BY <1>1, OutboundAlways, PTL

\* NoGap, for any connections, load and capacities: a number goes out only behind the
\* one before it, because a frame the kernel did not take leaves its number unused and
\* all numbers given out are on the wire or with the client.
THEOREM NumbersLeaveNoGap == OutboundSpec => []NoGap
<1>1. OutboundInv => NoGap
  <2>. SUFFICES ASSUME OutboundInv, NEW c \in DOMAIN registry, NEW i \in DOMAIN peer[c].wire
                PROVE  peer[c].wire[i].seq <=
                          1 + Highest({peer[c].seen} \cup {peer[c].wire[j].seq : j \in 1..(i - 1)})
    BY Zenon DEF NoGap
  <2>1. ConnectionOK(registry[c], peer[c], taken[c])
    BY Zenon DEF OutboundInv, ConnectionsOK
  <2>. DEFINE next == registry[c].next_seq
              w == peer[c].wire
              seen == peer[c].seen
              S == {seen} \cup {w[j].seq : j \in 1..(i - 1)}
  <2>2. /\ w \in Seq(Frames) /\ seen \in Nat /\ next \in Nat
        /\ WireOK(w, next, taken[c]) /\ WireGrows(w, seen, next)
    BY Zenon, <2>1, ConnectionParts
  <2>. HIDE DEF next, w, seen
  <2>3. \A j \in DOMAIN w : w[j].seq \in Nat /\ w[j].seq <= next + 1
    BY Zenon, <2>2, FrameNumbers DEF WireOK
  <2>4. i \in DOMAIN w /\ \A j \in 1..(i - 1) : j \in DOMAIN w
    <3>1. i \in DOMAIN w
      BY Zenon DEF w
    <3>2. DOMAIN w = 1..Len(w) /\ Len(w) \in Nat
      BY <2>2
    <3>. QED BY <3>1, <3>2
  <2>5. S \subseteq Nat /\ S # {} /\ \A k \in S : k <= next + 1
    BY Zenon, <2>2, <2>3, <2>4 DEF WireGrows
  <2>6. Highest(S) \in Nat /\ \A k \in S : k <= Highest(S)
    <3>. HIDE DEF S
    <3>1. next + 1 \in Nat
      BY <2>2
    <3>2. Highest(S) \in S /\ \A k \in S : k <= Highest(S)
      BY Zenon, <2>5, <3>1, HighestIs
    <3>. QED BY Zenon, <2>5, <3>2
  <2>7. \E k \in S : w[i].seq <= 1 + k
    BY Zenon, <2>2, <2>4 DEF WireGrows
  <2>8. w[i].seq <= 1 + Highest(S)
    <3>. HIDE DEF S
    <3>1. PICK k \in S : w[i].seq <= 1 + k
      BY Zenon, <2>7
    <3>. QED BY <2>3, <2>4, <2>5, <2>6, <3>1
  <2>. QED BY Zenon, <2>8 DEF w, seen
<1>. QED BY <1>1, OutboundAlways, PTL

\* KeptUntilSeen, for any connections, load and capacities: a numbered frame stays in
\* the buffer until the client has it, whatever is acknowledged and in what order.
THEOREM FramesKeptUntilSeen == OutboundSpec => []KeptUntilSeen
<1>1. OutboundInv => KeptUntilSeen
  <2>. SUFFICES ASSUME OutboundInv, NEW c \in DOMAIN registry
                PROVE  Kept(registry[c].buffer, registry[c].next_seq, peer[c].seen)
    BY Zenon DEF KeptUntilSeen, Kept
  <2>1. ConnectionOK(registry[c], peer[c], taken[c])
    BY Zenon DEF OutboundInv, ConnectionsOK
  <2>. QED BY Zenon, <2>1, ConnectionParts
<1>. QED BY <1>1, OutboundAlways, PTL

================================================================================
