------------------------------ MODULE Hubs_proofs ------------------------------
(***************************************************************************)
(* Hubs for any users, channels, threads, commands and failures: the owner *)
(* keeps the hub, and a cache may be old but holds nothing made up.        *)
(***************************************************************************)
EXTENDS HubsInvariants, TLAPS

USE Zenon

-----------------------------------------------------------------------------
(* Maps and frames.                                                        *)

\* The entries of the maps that the model builds.
LEMMA MapFacts ==
    /\ DOMAIN EmptyMap = {} /\ IsMap(EmptyMap)
    /\ \A m, k, v : /\ IsMap(Put(m, k, v)) /\ DOMAIN Put(m, k, v) = DOMAIN m \cup {k}
                    /\ Put(m, k, v)[k] = v
                    /\ \A x \in DOMAIN m : x # k => Put(m, k, v)[x] = m[x]
    /\ \A m, k : /\ IsMap(Erase(m, k)) /\ DOMAIN Erase(m, k) = DOMAIN m \ {k}
                 /\ \A x \in DOMAIN m \ {k} : Erase(m, k)[x] = m[x]
    /\ \A m, n : /\ IsMap(PutAll(m, n)) /\ DOMAIN PutAll(m, n) = DOMAIN m \cup DOMAIN n
                 /\ \A x \in DOMAIN n : PutAll(m, n)[x] = n[x]
                 /\ \A x \in DOMAIN m \ DOMAIN n : PutAll(m, n)[x] = m[x]
    /\ \A m, S : /\ IsMap(Restrict(m, S)) /\ DOMAIN Restrict(m, S) = S
                 /\ \A x \in S : Restrict(m, S)[x] = m[x]
<1>1. DOMAIN EmptyMap = {} /\ IsMap(EmptyMap)
  BY DEF EmptyMap, IsMap
<1>2. ASSUME NEW m, NEW k, NEW v
      PROVE  /\ IsMap(Put(m, k, v)) /\ DOMAIN Put(m, k, v) = DOMAIN m \cup {k}
             /\ Put(m, k, v)[k] = v
             /\ \A x \in DOMAIN m : x # k => Put(m, k, v)[x] = m[x]
  BY DEF Put, IsMap
<1>3. ASSUME NEW m, NEW S
      PROVE  /\ IsMap(Restrict(m, S)) /\ DOMAIN Restrict(m, S) = S
             /\ \A x \in S : Restrict(m, S)[x] = m[x]
  BY DEF Restrict, IsMap
<1>4. ASSUME NEW m, NEW k
      PROVE  /\ IsMap(Erase(m, k)) /\ DOMAIN Erase(m, k) = DOMAIN m \ {k}
             /\ \A x \in DOMAIN m \ {k} : Erase(m, k)[x] = m[x]
  BY <1>3 DEF Erase
<1>5. ASSUME NEW m, NEW n
      PROVE  /\ IsMap(PutAll(m, n)) /\ DOMAIN PutAll(m, n) = DOMAIN m \cup DOMAIN n
             /\ \A x \in DOMAIN n : PutAll(m, n)[x] = n[x]
             /\ \A x \in DOMAIN m \ DOMAIN n : PutAll(m, n)[x] = m[x]
  BY DEF PutAll, IsMap
<1>. QED BY <1>1, <1>2, <1>3, <1>4, <1>5

\* The steps that ask something of the frame.
Demanding == LoadPcs \cup LookPcs \cup EditPcs
             \cup {"idle", "invalidate", "voice", "remove_member", "add_member", "member", "get_active", "ttl",
                   "set_token", "count_hubs", "insert_hub", "resolve"}

\* A frame that goes on with what it holds to a step that asks for nothing.
LEMMA GoesOn ==
    ASSUME NEW d, NEW p, NEW f, FrameOK(f, d, p), f.pc \notin LoadPcs,
           NEW g, IsRecord(g, FrameFields), g.cmd = f.cmd, g.hub = f.hub, g.snap \in {f.snap, NoSnapshot},
           g.rows \in {f.rows, EmptyMap}, g.pend \in {f.pend, EmptyMap},
           g.pc \notin Demanding, g.ret = f.ret \/ g.ret \notin {"voice", "member"}
    PROVE  FrameOK(g, d, p)
<1>1. Returns(g) /\ g.pc # "idle"
  BY DEF Returns, Demanding
<1>2. RowsOK(g, d, p) /\ PendOK(g, p)
  BY MapFacts DEF RowsOK, PendOK, FrameOK, Demanding, EditPcs, LoadPcs, Reading
<1>3. HoldsSnap(g, d, p) /\ MayWrite(g, d)
  BY DEF HoldsSnap, MayWrite, FrameOK, Demanding, EditPcs
<1>. QED BY <1>1, <1>2, <1>3 DEF FrameOK

\* A call of loadSnapshot.
LEMMA Loads ==
    ASSUME NEW d, NEW p, NEW f, FrameOK(f, d, p), NEW g, IsRecord(g, FrameFields), g.cmd = f.cmd,
           g.rows \in {f.rows, EmptyMap}, g.pend \in {f.pend, EmptyMap},
           g.pc = "load", g.ret \in LoadRets, g.ret = "member" => g.hub \in d.issued /\ f.cmd.op = "join"
    PROVE  FrameOK(g, d, p)
<1>1. Returns(g) /\ g.pc # "idle"
  BY DEF Returns, LoadPcs, LookPcs, EditPcs, Reading, Putting
<1>2. RowsOK(g, d, p) /\ PendOK(g, p)
  BY MapFacts DEF RowsOK, PendOK, FrameOK, EditPcs, Reading, Putting
<1>3. HoldsSnap(g, d, p) /\ MayWrite(g, d)
  BY DEF HoldsSnap, MayWrite, LoadPcs, LoadRets
<1>. QED BY <1>1, <1>2, <1>3 DEF FrameOK

\* A call of getChannelsByIds.
LEMMA Looks ==
    ASSUME NEW d, NEW p, NEW f, FrameOK(f, d, p), f.pc \notin LoadPcs,
           NEW g, IsRecord(g, FrameFields), g.cmd = f.cmd, g.hub = f.hub, g.snap = f.snap,
           g.rows = f.rows, \A c \in DOMAIN g.pend : c \in Channels /\ <<c, g.pend[c]>> \in p,
           g.pc \in LookPcs, g.ret \in LookRets, g.ret = "voice" => f.ret = "voice" \/ Safe(f.hub, f.cmd.who, d)
    PROVE  FrameOK(g, d, p)
<1>1. Returns(g) /\ g.pc # "idle"
  BY DEF Returns, LoadPcs, LookPcs, EditPcs, Reading, Putting
<1>2. RowsOK(g, d, p) /\ PendOK(g, p)
  BY DEF RowsOK, PendOK, FrameOK, EditPcs, LookPcs, Reading, Putting
<1>3. HoldsSnap(g, d, p) /\ MayWrite(g, d)
  BY DEF HoldsSnap, MayWrite, LoadPcs, LookPcs, LookRets, FrameOK
<1>. QED BY <1>1, <1>2, <1>3 DEF FrameOK

\* A method of the service returns.
LEMMA ReturnsOK ==
    ASSUME NEW d, NEW p, NEW f, FrameOK(f, d, p), f.pc \in LoadPcs \cup LookPcs \cup EditPcs,
           NEW g, IsRecord(g, FrameFields), g.cmd = f.cmd, g.hub = f.hub, g.ret = f.ret, g.pc = f.ret,
           DOMAIN g.rows = {}, DOMAIN g.pend = {}, g.snap = NoSnapshot \/ SnapOK(g.hub, g.snap, d, p),
           g.pc = "member" /\ g.snap = NoSnapshot => g.hub \notin DOMAIN d.hubs, g.pc # "idle"
    PROVE  FrameOK(g, d, p)
<1>1. g.pc \in LoadRets \cup LookRets \cup EditRets
  BY DEF FrameOK, Returns
<1>2. Returns(g)
  BY <1>1 DEF Returns, LoadRets, LookRets, EditRets, LoadPcs, LookPcs, EditPcs, Reading, Putting
<1>3. RowsOK(g, d, p) /\ PendOK(g, p)
  BY <1>1 DEF RowsOK, PendOK, LoadRets, LookRets, EditRets, EditPcs, Reading, Putting
<1>4. HoldsSnap(g, d, p) /\ MayWrite(g, d)
  BY <1>1 DEF HoldsSnap, MayWrite, FrameOK, LoadRets, LookRets, EditRets
<1>. QED BY <1>2, <1>3, <1>4 DEF FrameOK

-----------------------------------------------------------------------------
(* What is left to show of a step.                                         *)

\* A thread at a step has a frame.
LEMMA Active ==
    ASSUME HubsInv, NEW w \in DOMAIN worker, worker[w].pc # "idle"
    PROVE  /\ FrameOK(worker[w], db, past) /\ IsRecord(worker[w], FrameFields)
           /\ worker[w].cmd \in Commands
<1>1. Idle.pc = "idle"
  BY SMT DEF Idle
<1>2. FrameOK(worker[w], db, past)
  BY <1>1 DEF HubsInv, WorkersOK
<1>. QED BY <1>2 DEF FrameOK

\* A step of one thread that changes neither tables nor caches nor invites.
LEMMA GotoKeeps ==
    ASSUME HubsInv, NEW w \in DOMAIN worker, NEW g, Goto(w, g), g.pc = "idle" \/ FrameOK(g, db, past),
           UNCHANGED <<tables, caches>>, LinksOK(links', db)
    PROVE  HubsInv'
<1>1. WorkersOK(worker', db, past)
  BY DEF HubsInv, WorkersOK, Goto, IsMap
<1>. QED BY <1>1 DEF HubsInv, tables, caches

\* A step of one thread that puts something into a cache, or drops it.
LEMMA CacheKeeps ==
    ASSUME HubsInv, NEW w \in DOMAIN worker, NEW g, Goto(w, g), g.pc = "idle" \/ FrameOK(g, db, past),
           CachesOK(hubCache', channelCache', db, past), UNCHANGED <<tables, links>>
    PROVE  HubsInv'
<1>1. WorkersOK(worker', db, past)
  BY DEF HubsInv, WorkersOK, Goto, IsMap
<1>. QED BY <1>1 DEF HubsInv, tables

\* Nothing that is held grows wrong by a change of the tables.
LEMMA LaterKeeps ==
    ASSUME NEW d, NEW p, NEW e, NEW q, Later(d, p, e, q)
    PROVE  /\ \A h, s : SnapOK(h, s, d, p) => SnapOK(h, s, e, q)
           /\ \A h, u : Safe(h, u, d) => Safe(h, u, e)
           /\ \A f : FrameOK(f, d, p) => FrameOK(f, e, q)
<1>1. \A h, s : SnapOK(h, s, d, p) => SnapOK(h, s, e, q)
  BY DEF Later, SnapOK
<1>2. \A h, u : Safe(h, u, d) => Safe(h, u, e)
  BY DEF Later, Safe
<1>3. ASSUME NEW f, FrameOK(f, d, p) PROVE FrameOK(f, e, q)
  <2>1. RowsOK(f, e, q)
    BY <1>1, <1>3 DEF FrameOK, RowsOK, Later
  <2>2. PendOK(f, q)
    BY <1>3 DEF FrameOK, PendOK, Later
  <2>3. MayWrite(f, e)
    BY <1>2, <1>3 DEF FrameOK, MayWrite, Later
  <2>4. HoldsSnap(f, e, q)
    <3>1. f.pc = "member" /\ f.snap = NoSnapshot => f.hub \notin DOMAIN e.hubs
      BY <1>3 DEF FrameOK, HoldsSnap, MayWrite, Later
    <3>. QED BY <1>1, <1>3, <3>1 DEF FrameOK, HoldsSnap
  <2>. QED BY <1>3, <2>1, <2>2, <2>3, <2>4 DEF FrameOK
<1>. QED BY <1>1, <1>2, <1>3

\* All rows of a channel that there ever were agree.
LEMMA PastGrows ==
    ASSUME NEW d, NEW p, PastOK(d, p), NEW e, Changes(d, e)
    PROVE  PastOK(e, p \cup Rows(e))
<1>. DEFINE q == p \cup Rows(e)
<1>1. ASSUME NEW c \in Channels, NEW r, <<c, r>> \in Rows(e) PROVE c \in DOMAIN e.channels /\ r = e.channels[c]
  <2>1. ASSUME NEW m \in DOMAIN e.members, <<c, r>> = <<m, e.members[m]>> PROVE FALSE
    <3>1. c = m
      BY SMT, <2>1
    <3>2. m \in Hubs \X Users
      BY DEF TablesOK, Changes
    <3>. QED BY <3>1, <3>2, IdsAssumption
  <2>2. PICK b \in DOMAIN e.channels : <<c, r>> = <<b, e.channels[b]>>
    BY <1>1, <2>1 DEF Rows
  <2>3. c = b /\ r = e.channels[b]
    BY SMT, <2>2
  <2>. QED BY <2>3
<1>2. ASSUME NEW c \in DOMAIN d.channels PROVE <<c, d.channels[c]>> \in p
  BY DEF PastOK, Rows
<1>3. ASSUME NEW c \in Channels, NEW r, <<c, r>> \in q PROVE c \in e.issued /\ r \in ChannelType
  <2>1. CASE <<c, r>> \in p
    BY <2>1 DEF PastOK, Changes
  <2>2. CASE <<c, r>> \in Rows(e)
    <3>1. c \in DOMAIN e.channels /\ r = e.channels[c]
      BY <1>1, <2>2
    <3>. QED BY <3>1 DEF TablesOK, Changes
  <2>. QED BY <1>3, <2>1, <2>2
<1>4. ASSUME NEW c \in Channels, NEW r, <<c, r>> \in p, c \in DOMAIN e.channels
      PROVE  r.hub = e.channels[c].hub /\ r.type = e.channels[c].type
  <2>1. c \in DOMAIN d.channels /\ e.channels[c].hub = d.channels[c].hub /\ e.channels[c].type = d.channels[c].type
    BY <1>4 DEF PastOK, Changes
  <2>. QED BY <1>2, <1>4, <2>1 DEF PastOK
<1>5. ASSUME NEW c \in Channels, NEW r, NEW s, <<c, r>> \in q, <<c, s>> \in q
      PROVE  r.hub = s.hub /\ r.type = s.type
  <2>1. CASE <<c, r>> \in p /\ <<c, s>> \in p
    BY <2>1 DEF PastOK
  <2>2. CASE <<c, r>> \in p /\ <<c, s>> \in Rows(e)
    BY <1>1, <1>4, <2>2
  <2>3. CASE <<c, r>> \in Rows(e) /\ <<c, s>> \in p
    BY ZenonT(30), <1>1, <1>4, <2>3
  <2>4. CASE <<c, r>> \in Rows(e) /\ <<c, s>> \in Rows(e)
    <3>1. r = e.channels[c] /\ s = e.channels[c]
      BY <1>1, <2>4
    <3>. QED BY <3>1
  <2>. QED BY <1>5, <2>1, <2>2, <2>3, <2>4
<1>6. Rows(e) \subseteq q
  OBVIOUS
<1>. HIDE DEF q
<1>7. PastOK(e, q)
  BY SMT, <1>3, <1>5, <1>6 DEF PastOK
<1>. QED BY <1>7 DEF q

\* A statement.  When its answer is lost the command ends, or creates no default channel.
LEMMA WriteKeeps ==
    ASSUME HubsInv, NEW w \in DOMAIN worker, worker[w].pc # "idle", worker[w].pc \notin LoadPcs,
           NEW e, NEW g, Write(w, e, g), UNCHANGED links,
           Changes(db, e), g.pc = "idle" \/ FrameOK(g, e, past \cup Rows(e))
    PROVE  HubsInv'
<1>. DEFINE q == past \cup Rows(e)
<1>1. db' = e /\ past' = q /\ UNCHANGED caches /\ (Goto(w, g) \/ AfterFailure(w))
  BY DEF Write
<1>. HIDE DEF q
<1>. TablesOK(e) /\ Later(db, past, e, q)
  BY DEF Changes, Later, q
<1>2. FrameOK(worker[w], e, q) /\ IsRecord(worker[w], FrameFields)
  BY Active, LaterKeeps
<1>3. \E k : Goto(w, k) /\ (k.pc = "idle" \/ FrameOK(k, e, q))
  <2>1. CASE Goto(w, g)
    BY <2>1 DEF q
  <2>2. CASE AfterFailure(w)
    <3>. DEFINE k == [worker[w] EXCEPT !.pc = "subscribe"]
    <3>1. IsRecord(k, FrameFields) /\ k.pc = "subscribe" /\ k.cmd = worker[w].cmd /\ k.hub = worker[w].hub
          /\ k.snap = worker[w].snap /\ k.rows = worker[w].rows /\ k.pend = worker[w].pend /\ k.ret = worker[w].ret
      BY <1>2 DEF IsRecord, FrameFields
    <3>2. Goto(w, k) \/ Goto(w, Idle)
      BY <2>2 DEF AfterFailure, Proceed, Finish
    <3>. HIDE DEF k
    <3>3. k.pc \notin Demanding
      BY <3>1 DEF Demanding, LoadPcs, LookPcs, EditPcs, Reading, Putting
    <3>4. FrameOK(k, e, q)
      BY <1>2, <3>1, <3>3, GoesOn
    <3>5. Idle.pc = "idle"
      BY DEF Idle
    <3>. QED BY <3>2, <3>4, <3>5
  <2>. QED BY <1>1, <2>1, <2>2
<1>4. WorkersOK(worker', e, q)
  <2>1. \A x \in DOMAIN worker : worker[x] = Idle \/ FrameOK(worker[x], e, q)
    BY LaterKeeps DEF HubsInv, WorkersOK
  <2>. QED BY <1>3, <2>1 DEF HubsInv, WorkersOK, Goto, IsMap
<1>5. PastOK(e, q)
  BY PastGrows DEF HubsInv, q
<1>6. CachesOK(hubCache, channelCache, e, q) /\ LinksOK(links, e)
  BY LaterKeeps DEF HubsInv, CachesOK, LinksOK, Later
<1>. QED BY <1>1, <1>4, <1>5, <1>6 DEF HubsInv, caches

-----------------------------------------------------------------------------
(* The statements.                                                         *)

\* The row of a new hub, and its owner's.
LEMMA CreateHubChanges ==
    ASSUME NEW d, TablesOK(d), NEW h \in Hubs \ d.issued, NEW u \in Users, NEW n \in Names
    PROVE  Changes(d, CreateHubRow(d, h, u, n)) /\ h \in CreateHubRow(d, h, u, n).issued
<1>. DEFINE e   == CreateHubRow(d, h, u, n)
            row == [owner |-> u, name |-> n, seed |-> "Felix"]
<1>1. IsRecord(e, {"hubs", "channels", "members", "issued"})
      /\ e.hubs = Put(d.hubs, h, row) /\ e.channels = d.channels /\ e.members = Put(d.members, <<h, u>>, "OWNER")
      /\ e.issued = d.issued \cup {h}
  BY DEF CreateHubRow, WithOwnerMembership, TablesOK, IsRecord
<1>2. row \in HubType /\ row.owner = u
  BY SMT, NamesAssumption DEF HubType
<1>. HIDE DEF e, row
<1>3. DOMAIN e.hubs = DOMAIN d.hubs \cup {h} /\ e.hubs[h] = row /\ h \notin DOMAIN d.hubs
      /\ \A g \in DOMAIN d.hubs : e.hubs[g] = d.hubs[g]
  BY <1>1 DEF TablesOK, Put, IsMap
<1>4. /\ DOMAIN e.members = DOMAIN d.members \cup {<<h, u>>} /\ e.members[<<h, u>>] = "OWNER"
      /\ \A p \in DOMAIN d.members : e.members[p] = d.members[p]
  <2>1. <<h, u>> \notin DOMAIN d.members
    BY SMT, <1>3 DEF TablesOK
  <2>. QED BY <1>1, <2>1 DEF Put
<1>5. ASSUME NEW g \in DOMAIN e.hubs PROVE Owned(e, g)
  <2>1. CASE g = h
    <3>1. ASSUME NEW v \in Users, <<g, v>> \in DOMAIN e.members PROVE v = u
      BY SMT, <1>3, <1>4, <2>1, <3>1 DEF TablesOK
    <3>. QED BY <1>2, <1>3, <1>4, <2>1, <3>1 DEF Owned
  <2>2. CASE g # h
    <3>1. g \in DOMAIN d.hubs /\ Owned(d, g) /\ e.hubs[g] = d.hubs[g]
      BY <1>3, <1>5, <2>2 DEF TablesOK
    <3>2. ASSUME NEW v \in Users, <<g, v>> \in DOMAIN e.members PROVE <<g, v>> \in DOMAIN d.members
      BY SMT, <1>4, <2>2, <3>2
    <3>. QED BY <1>4, <3>1, <3>2 DEF Owned
  <2>. QED BY <2>1, <2>2
<1>6. ASSUME NEW p \in DOMAIN e.members PROVE p \in (DOMAIN e.hubs) \X Users /\ e.members[p] \in Roles
  BY SMT, <1>3, <1>4 DEF TablesOK, Roles
<1>7. IsMap(e.hubs) /\ IsMap(e.channels) /\ IsMap(e.members)
  BY <1>1 DEF TablesOK, Put, IsMap
<1>8. \A g \in DOMAIN e.hubs : g \in Hubs /\ g \in e.issued /\ e.hubs[g] \in HubType
  BY <1>1, <1>2, <1>3 DEF TablesOK
<1>9. TablesOK(e)
  BY <1>1, <1>5, <1>6, <1>7, <1>8 DEF TablesOK
<1>10. Changes(d, e)
  BY <1>1, <1>3, <1>9 DEF Changes
<1>11. h \in e.issued
  BY <1>1
<1>. QED BY <1>10, <1>11 DEF e

\* Only the members change, and not the row of an owner.
LEMMA MembersChange ==
    ASSUME NEW d, TablesOK(d), NEW e, IsRecord(e, {"hubs", "channels", "members", "issued"}),
           e.hubs = d.hubs, e.channels = d.channels, e.issued = d.issued, IsMap(e.members),
           NEW h, NEW u, h \in DOMAIN d.hubs => d.hubs[h].owner # u,
           \A g \in Hubs, v \in Users : g # h \/ v # u =>
              /\ <<g, v>> \in DOMAIN e.members <=> <<g, v>> \in DOMAIN d.members
              /\ <<g, v>> \in DOMAIN d.members => e.members[<<g, v>>] = d.members[<<g, v>>],
           <<h, u>> \in DOMAIN e.members => e.members[<<h, u>>] # "OWNER",
           \A p \in DOMAIN e.members : p \in (DOMAIN d.hubs) \X Users /\ e.members[p] \in Roles
    PROVE  Changes(d, e)
<1>1. ASSUME NEW g \in DOMAIN e.hubs PROVE Owned(e, g)
  <2>1. g \in Hubs /\ d.hubs[g].owner \in Users /\ Owned(d, g)
    BY <1>1 DEF TablesOK, HubType
  <2>2. ASSUME NEW v \in Users, <<g, v>> \in DOMAIN e.members
        PROVE  e.members[<<g, v>>] = "OWNER" <=> v = d.hubs[g].owner
    <3>1. CASE g # h \/ v # u
      BY <2>1, <2>2, <3>1 DEF Owned
    <3>2. CASE g = h /\ v = u
      BY <1>1, <2>2, <3>2
    <3>. QED BY <3>1, <3>2
  <2>3. <<g, d.hubs[g].owner>> \in DOMAIN e.members
    BY <1>1, <2>1 DEF Owned
  <2>. QED BY <2>2, <2>3 DEF Owned
<1>2. TablesOK(e)
  BY <1>1 DEF TablesOK
<1>. QED BY <1>2 DEF Changes

\* A member's row is written or goes, and the owner's stays.
LEMMA MemberRowChanges ==
    ASSUME NEW d, TablesOK(d), NEW h, NEW u \in Users, h \in DOMAIN d.hubs => d.hubs[h].owner # u
    PROVE  /\ \A r \in {"ADMIN", "USER"} : h \in DOMAIN d.hubs => Changes(d, AddMemberRow(d, h, u, r))
           /\ Changes(d, RemoveMemberRow(d, h, u))
<1>1. ASSUME NEW r \in {"ADMIN", "USER"}, h \in DOMAIN d.hubs PROVE Changes(d, AddMemberRow(d, h, u, r))
  <2>. DEFINE e == AddMemberRow(d, h, u, r)
  <2>1. IsRecord(e, {"hubs", "channels", "members", "issued"})
        /\ e.hubs = d.hubs /\ e.channels = d.channels /\ e.members = Put(d.members, <<h, u>>, r)
        /\ e.issued = d.issued
    BY DEF AddMemberRow, TablesOK, IsRecord
  <2>. HIDE DEF e
  <2>2. /\ DOMAIN e.members = DOMAIN d.members \cup {<<h, u>>} /\ e.members[<<h, u>>] = r /\ IsMap(e.members)
        /\ \A p \in DOMAIN d.members : p # <<h, u>> => e.members[p] = d.members[p]
    BY <2>1 DEF Put, IsMap
  <2>3. \A p \in DOMAIN e.members : p \in (DOMAIN d.hubs) \X Users /\ e.members[p] \in Roles
    BY SMT, <1>1, <2>2 DEF TablesOK, Roles
  <2>4. \A g \in Hubs, v \in Users : g # h \/ v # u =>
              /\ <<g, v>> \in DOMAIN e.members <=> <<g, v>> \in DOMAIN d.members
              /\ <<g, v>> \in DOMAIN d.members => e.members[<<g, v>>] = d.members[<<g, v>>]
    BY SMT, <2>2
  <2>5. e.members[<<h, u>>] # "OWNER"
    BY SMT, <2>2
  <2>6. Changes(d, e)
    BY SMT, <2>1, <2>2, <2>3, <2>4, <2>5, MembersChange
  <2>. QED BY <2>6 DEF e
<1>2. Changes(d, RemoveMemberRow(d, h, u))
  <2>. DEFINE e == RemoveMemberRow(d, h, u)
  <2>1. IsRecord(e, {"hubs", "channels", "members", "issued"})
        /\ e.hubs = d.hubs /\ e.channels = d.channels /\ e.members = Erase(d.members, <<h, u>>)
        /\ e.issued = d.issued
    BY DEF RemoveMemberRow, TablesOK, IsRecord
  <2>. HIDE DEF e
  <2>2. /\ DOMAIN e.members = DOMAIN d.members \ {<<h, u>>} /\ IsMap(e.members)
        /\ \A p \in DOMAIN d.members \ {<<h, u>>} : e.members[p] = d.members[p]
    BY <2>1 DEF Erase, Restrict, IsMap
  <2>3. \A p \in DOMAIN e.members : p \in (DOMAIN d.hubs) \X Users /\ e.members[p] \in Roles
    BY SMT, <2>2 DEF TablesOK
  <2>4. \A g \in Hubs, v \in Users : g # h \/ v # u =>
              /\ <<g, v>> \in DOMAIN e.members <=> <<g, v>> \in DOMAIN d.members
              /\ <<g, v>> \in DOMAIN d.members => e.members[<<g, v>>] = d.members[<<g, v>>]
    BY SMT, <2>2
  <2>5. <<h, u>> \notin DOMAIN e.members
    BY SMT, <2>2
  <2>6. Changes(d, e)
    BY SMT, <2>1, <2>2, <2>3, <2>4, <2>5, MembersChange
  <2>. QED BY <2>6 DEF e
<1>. QED BY <1>1, <1>2

\* Only the hubs' names and seeds change.
LEMMA HubRowChanges ==
    ASSUME NEW d, TablesOK(d), NEW h \in DOMAIN d.hubs, NEW n \in Names
    PROVE  Changes(d, RenameHubRow(d, h, n)) /\ Changes(d, UpdateHubSeedRow(d, h, n))
<1>1. ASSUME NEW e, IsRecord(e, {"hubs", "channels", "members", "issued"}), IsMap(e.hubs),
             e.channels = d.channels, e.members = d.members, e.issued = d.issued,
             DOMAIN e.hubs = DOMAIN d.hubs,
             \A g \in DOMAIN d.hubs : e.hubs[g] \in HubType /\ e.hubs[g].owner = d.hubs[g].owner
      PROVE  Changes(d, e)
  <2>1. ASSUME NEW g \in DOMAIN e.hubs PROVE Owned(e, g)
    <3>1. Owned(d, g) /\ e.hubs[g].owner = d.hubs[g].owner
      BY <1>1, <2>1 DEF TablesOK
    <3>. QED BY <1>1, <3>1 DEF Owned
  <2>2. TablesOK(e)
    BY <1>1, <2>1 DEF TablesOK
  <2>. QED BY <1>1, <2>2 DEF Changes
<1>2. ASSUME NEW e, NEW row \in HubType, row.owner = d.hubs[h].owner,
             e = [d EXCEPT !.hubs = [d.hubs EXCEPT ![h] = row]]
      PROVE  Changes(d, e)
  <2>1. IsRecord(e, {"hubs", "channels", "members", "issued"})
        /\ e.hubs = [d.hubs EXCEPT ![h] = row] /\ e.channels = d.channels /\ e.members = d.members
        /\ e.issued = d.issued
    BY <1>2 DEF TablesOK, IsRecord
  <2>2. IsMap(e.hubs) /\ DOMAIN e.hubs = DOMAIN d.hubs
    BY <2>1 DEF IsMap
  <2>3. \A g \in DOMAIN d.hubs : e.hubs[g] \in HubType /\ e.hubs[g].owner = d.hubs[g].owner
    BY ZenonT(30), <1>2, <2>1 DEF TablesOK
  <2>. QED BY <1>1, <2>1, <2>2, <2>3
<1>3. d.hubs[h] \in HubType
  BY DEF TablesOK
<1>4. /\ [d.hubs[h] EXCEPT !.name = n] \in HubType /\ [d.hubs[h] EXCEPT !.name = n].owner = d.hubs[h].owner
      /\ [d.hubs[h] EXCEPT !.seed = n] \in HubType /\ [d.hubs[h] EXCEPT !.seed = n].owner = d.hubs[h].owner
  BY SMT, <1>3 DEF HubType
<1>5. RenameHubRow(d, h, n) = [d EXCEPT !.hubs = [d.hubs EXCEPT ![h] = [d.hubs[h] EXCEPT !.name = n]]]
  BY DEF RenameHubRow
<1>6. UpdateHubSeedRow(d, h, n) = [d EXCEPT !.hubs = [d.hubs EXCEPT ![h] = [d.hubs[h] EXCEPT !.seed = n]]]
  BY DEF UpdateHubSeedRow
<1>. QED BY <1>2, <1>4, <1>5, <1>6

\* ON DELETE CASCADE leaves the other hubs as they are.
LEMMA DeleteHubChanges ==
    ASSUME NEW d, TablesOK(d), NEW h
    PROVE  Changes(d, DeleteHubRow(d, h))
<1>. DEFINE e == DeleteHubRow(d, h)
<1>1. IsRecord(e, {"hubs", "channels", "members", "issued"})
      /\ e.hubs = Erase(d.hubs, h) /\ e.channels = Restrict(d.channels, DOMAIN d.channels \ ChannelsOf(d, h))
      /\ e.members = Restrict(d.members, {p \in DOMAIN d.members : p[1] # h}) /\ e.issued = d.issued
  BY DEF DeleteHubRow, TablesOK, IsRecord
<1>. HIDE DEF e
<1>2. DOMAIN e.hubs = DOMAIN d.hubs \ {h} /\ IsMap(e.hubs) /\ \A g \in DOMAIN e.hubs : e.hubs[g] = d.hubs[g]
  BY <1>1 DEF Erase, Restrict, IsMap
<1>3. DOMAIN e.channels \subseteq DOMAIN d.channels /\ IsMap(e.channels)
      /\ \A c \in DOMAIN e.channels : e.channels[c] = d.channels[c]
  BY <1>1 DEF Restrict, IsMap
<1>4. /\ DOMAIN e.members = {p \in DOMAIN d.members : p[1] # h} /\ IsMap(e.members)
      /\ \A p \in DOMAIN e.members : e.members[p] = d.members[p]
  BY <1>1 DEF Restrict, IsMap
<1>5. \A p \in DOMAIN e.members : p \in (DOMAIN e.hubs) \X Users /\ e.members[p] \in Roles
  BY SMT, <1>2, <1>4 DEF TablesOK
<1>6. ASSUME NEW g \in DOMAIN e.hubs PROVE Owned(e, g)
  <2>1. g \in DOMAIN d.hubs /\ g # h /\ e.hubs[g] = d.hubs[g] /\ Owned(d, g)
    BY <1>2, <1>6 DEF TablesOK
  <2>2. \A v : <<g, v>> \in DOMAIN e.members <=> <<g, v>> \in DOMAIN d.members
    BY SMT, <1>4, <2>1
  <2>. QED BY <1>4, <2>1, <2>2 DEF Owned
<1>7. TablesOK(e)
  BY <1>1, <1>2, <1>3, <1>4, <1>5, <1>6 DEF TablesOK
<1>8. Changes(d, e)
  BY <1>1, <1>2, <1>3, <1>7 DEF Changes
<1>. QED BY <1>8 DEF e

\* Only channels change, each keeping its hub and type, or come, under a new id.
LEMMA ChannelsChange ==
    ASSUME NEW d, TablesOK(d), NEW e, IsRecord(e, {"hubs", "channels", "members", "issued"}),
           e.hubs = d.hubs, e.members = d.members, IsMap(e.channels), d.issued \subseteq e.issued,
           \A g \in e.issued : g \in d.issued \/ g \notin DOMAIN d.hubs,
           \A c \in DOMAIN e.channels :
              /\ c \in Channels /\ c \in e.issued /\ e.channels[c] \in ChannelType
              /\ \/ c \notin d.issued
                 \/ c \in DOMAIN d.channels /\ e.channels[c].hub = d.channels[c].hub
                    /\ e.channels[c].type = d.channels[c].type
    PROVE  Changes(d, e)
<1>1. \A g \in DOMAIN d.hubs : Owned(d, g)
  BY DEF TablesOK
<1>2. \A g \in DOMAIN e.hubs : Owned(e, g)
  BY ZenonT(30), <1>1 DEF Owned
<1>3. TablesOK(e)
  BY <1>2 DEF TablesOK
<1>. QED BY <1>3 DEF Changes

\* A new channel.
LEMMA CreateChannelChanges ==
    ASSUME NEW d, TablesOK(d), NEW c \in Channels \ d.issued, NEW h \in Hubs, NEW n \in Names, NEW t \in Names
    PROVE  /\ Changes(d, CreateChannelRow(d, c, h, n, t))
           /\ <<c, [hub |-> h, name |-> n, type |-> t]>> \in Rows(CreateChannelRow(d, c, h, n, t))
<1>. DEFINE e   == CreateChannelRow(d, c, h, n, t)
            row == [hub |-> h, name |-> n, type |-> t]
<1>1. IsRecord(e, {"hubs", "channels", "members", "issued"})
      /\ e.hubs = d.hubs /\ e.channels = Put(d.channels, c, row) /\ e.members = d.members
      /\ e.issued = d.issued \cup {c}
  BY DEF CreateChannelRow, TablesOK, IsRecord
<1>2. row \in ChannelType
  BY SMT DEF ChannelType
<1>. HIDE DEF e, row
<1>3. DOMAIN e.channels = DOMAIN d.channels \cup {c} /\ e.channels[c] = row /\ IsMap(e.channels)
      /\ \A b \in DOMAIN d.channels : b # c => e.channels[b] = d.channels[b]
  BY <1>1 DEF Put, IsMap
<1>4. ASSUME NEW b \in DOMAIN e.channels
      PROVE  /\ b \in Channels /\ b \in e.issued /\ e.channels[b] \in ChannelType
             /\ \/ b \notin d.issued
                \/ b \in DOMAIN d.channels /\ e.channels[b].hub = d.channels[b].hub
                   /\ e.channels[b].type = d.channels[b].type
  BY <1>1, <1>2, <1>3 DEF TablesOK
<1>5. \A g \in e.issued : g \in d.issued \/ g \notin DOMAIN d.hubs
  BY <1>1 DEF TablesOK
<1>6. d.issued \subseteq e.issued
  BY <1>1
<1>7. Changes(d, e)
  BY <1>1, <1>3, <1>4, <1>5, <1>6, ChannelsChange
<1>8. <<c, row>> \in Rows(e)
  BY <1>3 DEF Rows
<1>. QED BY <1>7, <1>8 DEF e, row

\* A channel gets another name, or goes.
LEMMA ChannelRowChanges ==
    ASSUME NEW d, TablesOK(d), NEW c \in DOMAIN d.channels, NEW n \in Names
    PROVE  /\ Changes(d, RenameChannelRow(d, c, n)) /\ Changes(d, DeleteChannelRow(d, c))
           /\ \E r : <<c, r>> \in Rows(RenameChannelRow(d, c, n)) /\ r.name = n
<1>1. \A g \in d.issued : g \in d.issued \/ g \notin DOMAIN d.hubs
  BY DEF TablesOK
<1>2. /\ Changes(d, RenameChannelRow(d, c, n))
      /\ \E r : <<c, r>> \in Rows(RenameChannelRow(d, c, n)) /\ r.name = n
  <2>. DEFINE e   == RenameChannelRow(d, c, n)
              row == [d.channels[c] EXCEPT !.name = n]
  <2>1. IsRecord(e, {"hubs", "channels", "members", "issued"})
        /\ e.hubs = d.hubs /\ e.channels = [d.channels EXCEPT ![c] = row] /\ e.members = d.members
        /\ e.issued = d.issued
    BY DEF RenameChannelRow, TablesOK, IsRecord
  <2>2. d.channels[c] \in ChannelType
    BY DEF TablesOK
  <2>3. row \in ChannelType /\ row.hub = d.channels[c].hub /\ row.type = d.channels[c].type /\ row.name = n
    BY SMT, <2>2 DEF ChannelType
  <2>. HIDE DEF e, row
  <2>4. DOMAIN e.channels = DOMAIN d.channels /\ e.channels[c] = row /\ IsMap(e.channels)
        /\ \A b \in DOMAIN d.channels : b # c => e.channels[b] = d.channels[b]
    BY <2>1 DEF IsMap
  <2>5. ASSUME NEW b \in DOMAIN e.channels
        PROVE  /\ b \in Channels /\ b \in e.issued /\ e.channels[b] \in ChannelType
               /\ b \in DOMAIN d.channels /\ e.channels[b].hub = d.channels[b].hub
               /\ e.channels[b].type = d.channels[b].type
    BY <2>1, <2>3, <2>4 DEF TablesOK
  <2>6. Changes(d, e)
    BY <1>1, <2>1, <2>4, <2>5, ChannelsChange
  <2>7. <<c, row>> \in Rows(e)
    BY <2>4 DEF Rows
  <2>. QED BY <2>3, <2>6, <2>7 DEF e
<1>3. Changes(d, DeleteChannelRow(d, c))
  <2>. DEFINE e == DeleteChannelRow(d, c)
  <2>1. IsRecord(e, {"hubs", "channels", "members", "issued"})
        /\ e.hubs = d.hubs /\ e.channels = Erase(d.channels, c) /\ e.members = d.members
        /\ e.issued = d.issued
    BY DEF DeleteChannelRow, TablesOK, IsRecord
  <2>. HIDE DEF e
  <2>2. DOMAIN e.channels = DOMAIN d.channels \ {c} /\ IsMap(e.channels)
        /\ \A b \in DOMAIN e.channels : e.channels[b] = d.channels[b]
    BY <2>1 DEF Erase, Restrict, IsMap
  <2>3. ASSUME NEW b \in DOMAIN e.channels
        PROVE  /\ b \in Channels /\ b \in e.issued /\ e.channels[b] \in ChannelType
               /\ b \in DOMAIN d.channels /\ e.channels[b].hub = d.channels[b].hub
               /\ e.channels[b].type = d.channels[b].type
    BY <2>1, <2>2 DEF TablesOK
  <2>4. Changes(d, e)
    BY <1>1, <2>1, <2>2, <2>3, ChannelsChange
  <2>. QED BY <2>4 DEF e
<1>. QED BY <1>2, <1>3

-----------------------------------------------------------------------------
(* The steps that only go on.                                              *)

\* Steps that a command goes on to and that ask for nothing.
Plain == {"insert_channel", "subscribe", "topology", "count_channels", "rename_hub", "seed_hub", "rename_channel",
          "delete_channel", "cut", "set_active", "del_token", "del_active", "drop_topics", "revoke",
          "invalidate_channels", "drop_topic"}

\* The frame g is f at another step, with what the methods hold.
Kept(g, f) == /\ IsRecord(g, FrameFields) /\ g.cmd = f.cmd /\ g.hub = f.hub
              /\ g.snap = f.snap /\ g.rows = f.rows /\ g.pend = f.pend

\* The ways a thread goes on, with the frame it goes on with.
Goes(f, g) ==
    \/ g.pc = "idle"
    \/ Kept(g, f) /\ g.pc \in Plain /\ g.ret = f.ret
    \/ Kept(g, f) /\ g.pc = "load" /\ g.ret \in LoadRets \ {"member"}
    \/ Kept(g, f) /\ g.pc = "look_up" /\ g.ret \in LookRets \ {"voice"}

GoOn(w) == \E g : Goto(w, g) /\ Goes(worker[w], g)

\* Such a frame is in order.
LEMMA GoesOK ==
    ASSUME NEW d, NEW p, NEW f, FrameOK(f, d, p), f.pc \notin LoadPcs, NEW g, Goes(f, g)
    PROVE  g.pc = "idle" \/ FrameOK(g, d, p)
<1>1. CASE Kept(g, f) /\ g.pc \in Plain /\ g.ret = f.ret
  <2>1. g.pc \notin Demanding
    BY <1>1 DEF Plain, Demanding, LoadPcs, LookPcs, EditPcs, Reading, Putting
  <2>. QED BY <1>1, <2>1, GoesOn DEF Kept
<1>2. CASE Kept(g, f) /\ g.pc = "load" /\ g.ret \in LoadRets \ {"member"}
  BY <1>2, Loads DEF Kept
<1>3. CASE Kept(g, f) /\ g.pc = "look_up" /\ g.ret \in LookRets \ {"voice"}
  <2>1. \A c \in DOMAIN g.pend : c \in Channels /\ <<c, g.pend[c]>> \in p
    BY <1>3 DEF FrameOK, PendOK, Kept
  <2>2. g.pc \in LookPcs /\ g.ret # "voice"
    BY <1>3 DEF LookPcs
  <2>. QED BY <1>3, <2>1, <2>2, Looks DEF Kept
<1>. QED BY <1>1, <1>2, <1>3 DEF Goes

\* A step that only goes on.
LEMMA GoesKeeps ==
    ASSUME HubsInv, NEW w \in DOMAIN worker, worker[w].pc # "idle", worker[w].pc \notin LoadPcs,
           GoOn(w), UNCHANGED <<tables, caches, links>>
    PROVE  HubsInv'
<1>1. PICK g : Goto(w, g) /\ Goes(worker[w], g)
  BY DEF GoOn
<1>2. g.pc = "idle" \/ FrameOK(g, db, past)
  BY <1>1, Active, GoesOK
<1>3. LinksOK(links', db)
  BY DEF HubsInv
<1>. QED BY <1>1, <1>2, <1>3, GotoKeeps

\* The abbreviations for going on.
LEMMA GoingOn ==
    ASSUME HubsInv, NEW w \in DOMAIN worker, worker[w].pc # "idle"
    PROVE  /\ Finish(w) => GoOn(w)
           /\ \A pc \in Plain : Proceed(w, pc) => GoOn(w)
           /\ \A ret \in LoadRets \ {"member"} : Load(w, ret) \/ LoadFull(w, ret) => GoOn(w)
           /\ LoadTarget(w) => GoOn(w)
           /\ \A cs : \A ret \in LookRets \ {"voice"} : LookUp(w, cs, ret) => GoOn(w)
           /\ AfterFailure(w) => GoOn(w)
<1>. DEFINE f == worker[w]
            Done == \E g : Goto(w, g) /\ Goes(f, g)
<1>1. IsRecord(f, FrameFields)
  BY Active
<1>2. ASSUME Finish(w) PROVE Done
  <2>1. Idle.pc = "idle"
    BY DEF Idle
  <2>2. Goes(f, Idle)
    BY <2>1 DEF Goes
  <2>. QED BY <1>2, <2>2 DEF Finish
<1>3. ASSUME NEW pc \in Plain, Proceed(w, pc) PROVE Done
  <2>. DEFINE g == [f EXCEPT !.pc = pc]
  <2>1. Goto(w, g)
    BY <1>3 DEF Proceed
  <2>. HIDE DEF f
  <2>2. Kept(g, f)
    BY <1>1 DEF Kept, IsRecord, FrameFields
  <2>3. g.pc = pc /\ g.ret = f.ret
    BY <1>1 DEF IsRecord, FrameFields
  <2>. HIDE DEF g
  <2>. QED BY <1>3, <2>1, <2>2, <2>3 DEF Goes
<1>4. ASSUME NEW ret \in LoadRets \ {"member"}, Load(w, ret) \/ LoadFull(w, ret) PROVE Done
  <2>1. ASSUME NEW b, Goto(w, [f EXCEPT !.pc = "load", !.ret = ret, !.full = b]) PROVE Done
    <3>. DEFINE g == [f EXCEPT !.pc = "load", !.ret = ret, !.full = b]
    <3>1. Goto(w, g)
      BY <2>1
    <3>. HIDE DEF f
    <3>2. Kept(g, f)
      BY <1>1 DEF Kept, IsRecord, FrameFields
    <3>3. g.pc = "load" /\ g.ret = ret
      BY <1>1 DEF IsRecord, FrameFields
    <3>. HIDE DEF g
    <3>. QED BY <1>4, <3>1, <3>2, <3>3 DEF Goes
  <2>. QED BY <1>4, <2>1 DEF Load, LoadFull
<1>5. ASSUME LoadTarget(w) PROVE Done
  <2>. DEFINE g == [f EXCEPT !.pc = "load", !.ret = "target", !.full = FALSE, !.role = ActorRole(w)]
  <2>1. Goto(w, g)
    BY <1>5 DEF LoadTarget
  <2>. HIDE DEF f
  <2>2. Kept(g, f)
    BY <1>1 DEF Kept, IsRecord, FrameFields
  <2>3. g.pc = "load" /\ g.ret = "target"
    BY <1>1 DEF IsRecord, FrameFields
  <2>. HIDE DEF g
  <2>4. "target" \in LoadRets \ {"member"}
    BY DEF LoadRets
  <2>. QED BY <2>1, <2>2, <2>3, <2>4 DEF Goes
<1>6. ASSUME NEW cs, NEW ret \in LookRets \ {"voice"}, LookUp(w, cs, ret) PROVE Done
  <2>. DEFINE g == [f EXCEPT !.pc = "look_up", !.ids = cs, !.ret = ret]
  <2>1. Goto(w, g)
    BY <1>6 DEF LookUp
  <2>. HIDE DEF f
  <2>2. Kept(g, f)
    BY <1>1 DEF Kept, IsRecord, FrameFields
  <2>3. g.pc = "look_up" /\ g.ret = ret
    BY <1>1 DEF IsRecord, FrameFields
  <2>. HIDE DEF g
  <2>. QED BY <1>6, <2>1, <2>2, <2>3 DEF Goes
<1>7. ASSUME AfterFailure(w) PROVE Done
  <2>1. "subscribe" \in Plain
    BY DEF Plain
  <2>. HIDE DEF Done
  <2>. QED BY <1>2, <1>3, <1>7, <2>1 DEF AfterFailure
<1>. QED BY <1>2, <1>3, <1>4, <1>5, <1>6, <1>7 DEF GoOn

\* Steps that decide, subscribe, unsubscribe or send, and go on.
PlainStep(w) ==
    \/ CountChannels(w) \/ Subscribe(w) \/ Filter(w) \/ Synced(w) \/ AuthoriseDelete(w) \/ DropTopics(w)
    \/ AuthoriseKick(w) \/ CutOff(w) \/ Unsubscribe(w) \/ AuthoriseSetRole(w) \/ AuthoriseUpdate(w)
    \/ AuthoriseCreateChannel(w) \/ CheckLimit(w) \/ CheckName(w) \/ FoundForRename(w) \/ AuthoriseRename(w)
    \/ GetSiblings(w) \/ FoundForRemove(w) \/ AuthoriseRemove(w) \/ DropChannelTopic(w) \/ FoundForSelect(w)
    \/ SelectActiveChannel(w) \/ SetActiveLink(w) \/ DeleteActiveLink(w)

LEMMA PlainKeeps ==
    ASSUME HubsInv, NEW w \in DOMAIN worker, PlainStep(w)
    PROVE  HubsInv'
<1>. DEFINE ok == worker[w].pc # "idle" /\ worker[w].pc \notin LoadPcs
<1>1. SUFFICES ok /\ (ok => GoOn(w)) /\ UNCHANGED <<tables, caches, links>>
  BY GoesKeeps
<1>2. ASSUME ok
      PROVE  /\ Finish(w) => GoOn(w)
             /\ \A pc \in Plain : Proceed(w, pc) => GoOn(w)
             /\ \A ret \in LoadRets \ {"member"} : Load(w, ret) \/ LoadFull(w, ret) => GoOn(w)
             /\ LoadTarget(w) => GoOn(w)
             /\ \A cs : \A ret \in LookRets \ {"voice"} : LookUp(w, cs, ret) => GoOn(w)
             /\ AfterFailure(w) => GoOn(w)
  BY <1>2, GoingOn
<1>3. CASE CountChannels(w)
  <2>1. worker[w].pc = "count_channels" /\ UNCHANGED <<tables, caches, links>>
    BY <1>3 DEF CountChannels, redis, At
  <2>2. ok
    BY <2>1 DEF LoadPcs, Reading, Putting
  <2>3. GoOn(w)
    BY <1>2, <1>3, <2>2 DEF CountChannels, LoadRets, LookRets, Plain
  <2>. QED BY <2>1, <2>2, <2>3
<1>4. CASE Subscribe(w)
  <2>1. worker[w].pc = "subscribe" /\ UNCHANGED <<tables, caches, links>>
    BY <1>4 DEF Subscribe, redis, At
  <2>2. ok
    BY <2>1 DEF LoadPcs, Reading, Putting
  <2>3. GoOn(w)
    BY <1>2, <1>4, <2>2 DEF Subscribe, LoadRets, LookRets, Plain
  <2>. QED BY <2>1, <2>2, <2>3
<1>5. CASE Filter(w)
  <2>1. worker[w].pc = "filter" /\ UNCHANGED <<tables, caches, links>>
    BY <1>5 DEF Filter, redis, At
  <2>2. ok
    BY <2>1 DEF LoadPcs, Reading, Putting
  <2>3. GoOn(w)
    BY <1>2, <1>5, <2>2 DEF Filter, LoadRets, LookRets, Plain
  <2>. QED BY <2>1, <2>2, <2>3
<1>6. CASE Synced(w)
  <2>1. worker[w].pc = "synced" /\ UNCHANGED <<tables, caches, links>>
    BY <1>6 DEF Synced, redis, At
  <2>2. ok
    BY <2>1 DEF LoadPcs, Reading, Putting
  <2>3. GoOn(w)
    BY <1>2, <1>6, <2>2 DEF Synced, LoadRets, LookRets, Plain
  <2>. QED BY <2>1, <2>2, <2>3
<1>7. CASE AuthoriseDelete(w)
  <2>1. worker[w].pc = "authorise" /\ UNCHANGED <<tables, caches, links>>
    BY <1>7 DEF AuthoriseDelete, redis, On, At
  <2>2. ok
    BY <2>1 DEF LoadPcs, Reading, Putting
  <2>3. GoOn(w)
    BY <1>2, <1>7, <2>2 DEF AuthoriseDelete, LoadRets, LookRets, Plain
  <2>. QED BY <2>1, <2>2, <2>3
<1>8. CASE DropTopics(w)
  <2>1. worker[w].pc = "drop_topics" /\ UNCHANGED <<tables, caches, links>>
    BY <1>8 DEF DropTopics, redis, At
  <2>2. ok
    BY <2>1 DEF LoadPcs, Reading, Putting
  <2>3. GoOn(w)
    BY <1>2, <1>8, <2>2 DEF DropTopics, LoadRets, LookRets, Plain
  <2>. QED BY <2>1, <2>2, <2>3
<1>9. CASE AuthoriseKick(w)
  <2>1. worker[w].pc = "authorise" /\ UNCHANGED <<tables, caches, links>>
    BY <1>9 DEF AuthoriseKick, redis, On, At
  <2>2. ok
    BY <2>1 DEF LoadPcs, Reading, Putting
  <2>3. GoOn(w)
    BY <1>2, <1>9, <2>2 DEF AuthoriseKick, LoadRets, LookRets, Plain
  <2>. QED BY <2>1, <2>2, <2>3
<1>10. CASE CutOff(w)
  <2>1. worker[w].pc = "cut" /\ UNCHANGED <<tables, caches, links>>
    BY <1>10 DEF CutOff, redis, At
  <2>2. ok
    BY <2>1 DEF LoadPcs, Reading, Putting
  <2>3. GoOn(w)
    BY <1>2, <1>10, <2>2 DEF CutOff, LoadRets, LookRets, Plain
  <2>. QED BY <2>1, <2>2, <2>3
<1>11. CASE Unsubscribe(w)
  <2>1. worker[w].pc = "unsubscribe" /\ UNCHANGED <<tables, caches, links>>
    BY <1>11 DEF Unsubscribe, redis, At
  <2>2. ok
    BY <2>1 DEF LoadPcs, Reading, Putting
  <2>3. GoOn(w)
    BY <1>2, <1>11, <2>2 DEF Unsubscribe, LoadRets, LookRets, Plain
  <2>. QED BY <2>1, <2>2, <2>3
<1>12. CASE AuthoriseSetRole(w)
  <2>1. worker[w].pc = "authorise" /\ UNCHANGED <<tables, caches, links>>
    BY <1>12 DEF AuthoriseSetRole, redis, On, At
  <2>2. ok
    BY <2>1 DEF LoadPcs, Reading, Putting
  <2>3. GoOn(w)
    BY <1>2, <1>12, <2>2 DEF AuthoriseSetRole, LoadRets, LookRets, Plain
  <2>. QED BY <2>1, <2>2, <2>3
<1>13. CASE AuthoriseUpdate(w)
  <2>1. worker[w].pc = "authorise" /\ UNCHANGED <<tables, caches, links>>
    BY <1>13 DEF AuthoriseUpdate, redis, On, At
  <2>2. ok
    BY <2>1 DEF LoadPcs, Reading, Putting
  <2>3. GoOn(w)
    BY <1>2, <1>13, <2>2 DEF AuthoriseUpdate, LoadRets, LookRets, Plain
  <2>. QED BY <2>1, <2>2, <2>3
<1>14. CASE AuthoriseCreateChannel(w)
  <2>1. worker[w].pc = "authorise" /\ UNCHANGED <<tables, caches, links>>
    BY <1>14 DEF AuthoriseCreateChannel, redis, On, At
  <2>2. ok
    BY <2>1 DEF LoadPcs, Reading, Putting
  <2>3. GoOn(w)
    BY <1>2, <1>14, <2>2 DEF AuthoriseCreateChannel, LoadRets, LookRets, Plain
  <2>. QED BY <2>1, <2>2, <2>3
<1>15. CASE CheckLimit(w)
  <2>1. worker[w].pc = "check_limit" /\ UNCHANGED <<tables, caches, links>>
    BY <1>15 DEF CheckLimit, redis, At
  <2>2. ok
    BY <2>1 DEF LoadPcs, Reading, Putting
  <2>3. GoOn(w)
    BY <1>2, <1>15, <2>2 DEF CheckLimit, LoadRets, LookRets, Plain
  <2>. QED BY <2>1, <2>2, <2>3
<1>16. CASE CheckName(w)
  <2>1. worker[w].pc = "check_name" /\ UNCHANGED <<tables, caches, links>>
    BY <1>16 DEF CheckName, redis, At
  <2>2. ok
    BY <2>1 DEF LoadPcs, Reading, Putting
  <2>3. GoOn(w)
    BY <1>2, <1>16, <2>2 DEF CheckName, LoadRets, LookRets, Plain
  <2>. QED BY <2>1, <2>2, <2>3
<1>17. CASE FoundForRename(w)
  <2>1. worker[w].pc = "found" /\ UNCHANGED <<tables, caches, links>>
    BY <1>17 DEF FoundForRename, redis, On, At
  <2>2. ok
    BY <2>1 DEF LoadPcs, Reading, Putting
  <2>3. GoOn(w)
    BY <1>2, <1>17, <2>2 DEF FoundForRename, LoadRets, LookRets, Plain
  <2>. QED BY <2>1, <2>2, <2>3
<1>18. CASE AuthoriseRename(w)
  <2>1. worker[w].pc = "authorise" /\ UNCHANGED <<tables, caches, links>>
    BY <1>18 DEF AuthoriseRename, redis, On, At
  <2>2. ok
    BY <2>1 DEF LoadPcs, Reading, Putting
  <2>3. GoOn(w)
    BY <1>2, <1>18, <2>2 DEF AuthoriseRename, LoadRets, LookRets, Plain
  <2>. QED BY <2>1, <2>2, <2>3
<1>19. CASE GetSiblings(w)
  <2>1. worker[w].pc = "siblings" /\ UNCHANGED <<tables, caches, links>>
    BY <1>19 DEF GetSiblings, redis, At
  <2>2. ok
    BY <2>1 DEF LoadPcs, Reading, Putting
  <2>3. GoOn(w)
    BY <1>2, <1>19, <2>2 DEF GetSiblings, LoadRets, LookRets, Plain
  <2>. QED BY <2>1, <2>2, <2>3
<1>20. CASE FoundForRemove(w)
  <2>1. worker[w].pc = "found" /\ UNCHANGED <<tables, caches, links>>
    BY <1>20 DEF FoundForRemove, redis, On, At
  <2>2. ok
    BY <2>1 DEF LoadPcs, Reading, Putting
  <2>3. GoOn(w)
    BY <1>2, <1>20, <2>2 DEF FoundForRemove, LoadRets, LookRets, Plain
  <2>. QED BY <2>1, <2>2, <2>3
<1>21. CASE AuthoriseRemove(w)
  <2>1. worker[w].pc = "authorise" /\ UNCHANGED <<tables, caches, links>>
    BY <1>21 DEF AuthoriseRemove, redis, On, At
  <2>2. ok
    BY <2>1 DEF LoadPcs, Reading, Putting
  <2>3. GoOn(w)
    BY <1>2, <1>21, <2>2 DEF AuthoriseRemove, LoadRets, LookRets, Plain
  <2>. QED BY <2>1, <2>2, <2>3
<1>22. CASE DropChannelTopic(w)
  <2>1. worker[w].pc = "drop_topic" /\ UNCHANGED <<tables, caches, links>>
    BY <1>22 DEF DropChannelTopic, redis, At
  <2>2. ok
    BY <2>1 DEF LoadPcs, Reading, Putting
  <2>3. GoOn(w)
    BY <1>2, <1>22, <2>2 DEF DropChannelTopic, LoadRets, LookRets, Plain
  <2>. QED BY <2>1, <2>2, <2>3
<1>23. CASE FoundForSelect(w)
  <2>1. worker[w].pc = "found" /\ UNCHANGED <<tables, caches, links>>
    BY <1>23 DEF FoundForSelect, redis, On, At
  <2>2. ok
    BY <2>1 DEF LoadPcs, Reading, Putting
  <2>3. GoOn(w)
    BY <1>2, <1>23, <2>2 DEF FoundForSelect, LoadRets, LookRets, Plain
  <2>. QED BY <2>1, <2>2, <2>3
<1>24. CASE SelectActiveChannel(w)
  <2>1. worker[w].pc = "authorise" /\ UNCHANGED <<tables, caches, links>>
    BY <1>24 DEF SelectActiveChannel, redis, On, At
  <2>2. ok
    BY <2>1 DEF LoadPcs, Reading, Putting
  <2>3. GoOn(w)
    BY <1>2, <1>24, <2>2 DEF SelectActiveChannel, LoadRets, LookRets, Plain
  <2>. QED BY <2>1, <2>2, <2>3
<1>25. CASE SetActiveLink(w)
  <2>1. worker[w].pc = "set_active" /\ UNCHANGED <<tables, caches, links>>
    BY <1>25 DEF SetActiveLink, At
  <2>2. ok
    BY <2>1 DEF LoadPcs, Reading, Putting
  <2>3. GoOn(w)
    BY <1>2, <1>25, <2>2 DEF SetActiveLink, LoadRets, LookRets, Plain
  <2>. QED BY <2>1, <2>2, <2>3
<1>26. CASE DeleteActiveLink(w)
  <2>1. worker[w].pc = "del_active" /\ UNCHANGED <<tables, caches, links>>
    BY <1>26 DEF DeleteActiveLink, At
  <2>2. ok
    BY <2>1 DEF LoadPcs, Reading, Putting
  <2>3. GoOn(w)
    BY <1>2, <1>26, <2>2 DEF DeleteActiveLink, LoadRets, LookRets, Plain
  <2>. QED BY <2>1, <2>2, <2>3
<1>. QED BY <1>3, <1>4, <1>5, <1>6, <1>7, <1>8, <1>9, <1>10, <1>11, <1>12, <1>13, <1>14, <1>15,
         <1>16, <1>17, <1>18, <1>19, <1>20, <1>21, <1>22, <1>23, <1>24, <1>25, <1>26 DEF PlainStep

-----------------------------------------------------------------------------
(* The steps that decide on a snapshot.                                    *)

\* Whoever a snapshot does not call the owner is not.
LEMMA NotOwner ==
    ASSUME NEW d, NEW p, NEW h, NEW s, SnapOK(h, s, d, p), NEW u, RoleIn(s, u) # "OWNER"
    PROVE  Safe(h, u, d)
<1>1. s # NoSnapshot
  BY SnapshotAssumption DEF SnapOK
<1>. QED BY <1>1 DEF SnapOK, Safe, RoleIn

\* Only a snapshot gives a role.
LEMMA RoleGiven ==
    ASSUME NEW d, NEW p, NEW f, FrameOK(f, d, p), f.pc \notin LoadPcs, NEW u, RoleIn(f.snap, u) # "NONE"
    PROVE  SnapOK(f.hub, f.snap, d, p)
BY DEF RoleIn, FrameOK, HoldsSnap

\* What such a step goes on to.
Asking == {"voice", "remove_member", "add_member", "get_active", "ttl", "set_token"}

LEMMA AsksOK ==
    ASSUME NEW d, NEW p, NEW f, FrameOK(f, d, p), f.pc \notin LoadPcs,
           NEW g, Kept(g, f), g.ret = f.ret, g.pc \in Asking, f.hub \in d.issued,
           g.pc \in {"voice", "remove_member", "add_member"} => Safe(f.hub, f.cmd.who, d),
           g.pc = "add_member" => f.cmd.role \in {"ADMIN", "USER"}
    PROVE  FrameOK(g, d, p)
<1>1. Returns(g) /\ g.pc # "idle"
  BY DEF Returns, Asking, LoadPcs, LookPcs, EditPcs, Reading, Putting
<1>2. RowsOK(g, d, p) /\ PendOK(g, p)
  BY DEF RowsOK, PendOK, FrameOK, Kept, Asking, Reading, Putting
<1>3. HoldsSnap(g, d, p)
  BY DEF HoldsSnap, FrameOK, Kept, Asking
<1>4. MayWrite(g, d)
  BY DEF MayWrite, FrameOK, Kept, Asking
<1>. QED BY <1>1, <1>2, <1>3, <1>4 DEF FrameOK, Kept

\* The same as a step.
LEMMA AskKeeps ==
    ASSUME HubsInv, NEW w \in DOMAIN worker, worker[w].pc # "idle", worker[w].pc \notin LoadPcs,
           NEW pc \in Asking, Proceed(w, pc), worker[w].hub \in db.issued,
           pc \in {"voice", "remove_member", "add_member"} => Safe(worker[w].hub, worker[w].cmd.who, db),
           pc = "add_member" => worker[w].cmd.role \in {"ADMIN", "USER"},
           UNCHANGED <<tables, caches, links>>
    PROVE  HubsInv'
<1>. DEFINE f == worker[w]
            g == [f EXCEPT !.pc = pc]
<1>1. Goto(w, g)
  BY DEF Proceed
<1>2. FrameOK(f, db, past) /\ IsRecord(f, FrameFields)
  BY Active
<1>. HIDE DEF f
<1>3. Kept(g, f)
  BY <1>2 DEF Kept, IsRecord, FrameFields
<1>4. g.pc = pc /\ g.ret = f.ret
  BY <1>2 DEF IsRecord, FrameFields
<1>. HIDE DEF g
<1>5. FrameOK(g, db, past)
  BY <1>2, <1>3, <1>4, AsksOK DEF f
<1>6. LinksOK(links', db)
  BY DEF HubsInv
<1>. QED BY <1>1, <1>5, <1>6, GotoKeeps

\* LeaveHub, KickHubMember and UpdateHubMemberRole go on only against a
\* member who is not the owner, JoinHubByInvite only for a newcomer.
LEMMA MembershipKeeps ==
    ASSUME HubsInv, NEW w \in DOMAIN worker,
           \/ AuthoriseLeave(w) \/ KickFromVoice(w) \/ VoiceKicked(w) \/ CheckSetRole(w) \/ JoinHub(w)
    PROVE  HubsInv'
<1>. DEFINE f == worker[w]
            ok == f.pc # "idle" /\ f.pc \notin LoadPcs
<1>1. ok
  BY DEF AuthoriseLeave, KickFromVoice, VoiceKicked, CheckSetRole, JoinHub, On, At, LoadPcs, Reading, Putting
<1>2. UNCHANGED <<tables, caches, links>>
  BY DEF AuthoriseLeave, KickFromVoice, VoiceKicked, CheckSetRole, JoinHub, redis
<1>3. FrameOK(f, db, past) /\ IsRecord(f, FrameFields) /\ f.cmd \in Commands
  BY <1>1, Active
<1>4. Finish(w) \/ Proceed(w, "subscribe") => HubsInv'
  <2>1. "subscribe" \in Plain
    BY DEF Plain
  <2>2. Finish(w) \/ Proceed(w, "subscribe") => GoOn(w)
    BY <1>1, <2>1, GoingOn
  <2>. QED BY <1>1, <1>2, <2>2, GoesKeeps
<1>5. Safe(f.hub, f.cmd.who, db) => f.hub \in db.issued
  BY DEF Safe
<1>6. ASSUME Safe(f.hub, f.cmd.who, db), Proceed(w, "remove_member") PROVE HubsInv'
  <2>1. "remove_member" \in Asking /\ "remove_member" # "add_member"
    BY DEF Asking
  <2>. QED BY <1>1, <1>2, <1>5, <1>6, <2>1, AskKeeps
<1>7. ASSUME Safe(f.hub, f.cmd.who, db), f.cmd.role \in {"ADMIN", "USER"}, Proceed(w, "add_member") PROVE HubsInv'
  <2>1. "add_member" \in Asking
    BY DEF Asking
  <2>. QED BY <1>1, <1>2, <1>5, <1>7, <2>1, AskKeeps
<1>8. ASSUME NEW cs, Safe(f.hub, f.cmd.who, db), LookUp(w, cs, "voice") PROVE HubsInv'
  <2>. DEFINE g == [f EXCEPT !.pc = "look_up", !.ids = cs, !.ret = "voice"]
  <2>1. Goto(w, g)
    BY <1>8 DEF LookUp
  <2>. HIDE DEF f
  <2>2. Kept(g, f)
    BY <1>3 DEF Kept, IsRecord, FrameFields
  <2>3. g.pc = "look_up" /\ g.ret = "voice"
    BY <1>3 DEF IsRecord, FrameFields
  <2>. HIDE DEF g
  <2>4. g.pc \in LookPcs /\ g.ret \in LookRets
    BY <2>3 DEF LookPcs, LookRets
  <2>5. \A c \in DOMAIN g.pend : c \in Channels /\ <<c, g.pend[c]>> \in past
    BY <1>3, <2>2 DEF FrameOK, PendOK, Kept
  <2>6. FrameOK(g, db, past)
    BY <1>1, <1>3, <1>8, <2>2, <2>4, <2>5, Looks DEF Kept
  <2>7. LinksOK(links', db)
    BY <1>2 DEF HubsInv
  <2>. QED BY <1>2, <2>1, <2>6, <2>7, GotoKeeps
<1>. HIDE DEF ok
<1>9. CASE AuthoriseLeave(w)
  <2>1. ASSUME RoleIn(f.snap, f.cmd.by) \notin {"NONE", "OWNER"}, f.cmd.op = "leave" PROVE Safe(f.hub, f.cmd.who, db)
    <3>1. f.cmd.who = f.cmd.by
      BY <1>3, <2>1, CommandsAssumption
    <3>2. SnapOK(f.hub, f.snap, db, past)
      BY <1>1, <1>3, <2>1, RoleGiven DEF ok
    <3>. QED BY <2>1, <3>1, <3>2, NotOwner
  <2>. QED BY <1>4, <1>6, <1>9, <2>1 DEF AuthoriseLeave, On, ActorRole, Actor
<1>10. CASE KickFromVoice(w)
  <2>1. ASSUME RoleIn(f.snap, f.cmd.who) \in {"ADMIN", "USER"} PROVE Safe(f.hub, f.cmd.who, db)
    <3>1. RoleIn(f.snap, f.cmd.who) \notin {"NONE", "OWNER"}
      BY <2>1
    <3>2. SnapOK(f.hub, f.snap, db, past)
      BY <1>1, <1>3, <3>1, RoleGiven DEF ok
    <3>. QED BY <3>1, <3>2, NotOwner
  <2>2. CanKickHubMember(f.role, RoleIn(f.snap, f.cmd.who), f.cmd.by, f.cmd.who)
        => RoleIn(f.snap, f.cmd.who) \in {"ADMIN", "USER"}
    BY DEF CanKickHubMember
  <2>. QED BY <1>4, <1>6, <1>8, <1>10, <2>1, <2>2 DEF KickFromVoice
<1>11. CASE VoiceKicked(w)
  <2>1. Safe(f.hub, f.cmd.who, db)
    BY <1>3, <1>11 DEF VoiceKicked, At, FrameOK, MayWrite
  <2>. QED BY <1>4, <1>6, <1>11, <2>1 DEF VoiceKicked
<1>12. CASE CheckSetRole(w)
  <2>1. ASSUME RoleIn(f.snap, f.cmd.who) \in {"ADMIN", "USER"} PROVE Safe(f.hub, f.cmd.who, db)
    <3>1. RoleIn(f.snap, f.cmd.who) \notin {"NONE", "OWNER"}
      BY <2>1
    <3>2. SnapOK(f.hub, f.snap, db, past)
      BY <1>1, <1>3, <3>1, RoleGiven DEF ok
    <3>. QED BY <3>1, <3>2, NotOwner
  <2>2. CanChangeMemberRole(f.role, RoleIn(f.snap, f.cmd.who), f.cmd.role, f.cmd.by, f.cmd.who)
        => RoleIn(f.snap, f.cmd.who) \in {"ADMIN", "USER"} /\ f.cmd.role \in {"ADMIN", "USER"}
    BY DEF CanChangeMemberRole
  <2>. QED BY <1>4, <1>7, <1>12, <2>1, <2>2 DEF CheckSetRole
<1>13. CASE JoinHub(w)
  <2>1. f.hub \in db.issued /\ f.cmd.op = "join" /\ f.pc = "member"
    BY <1>3, <1>13 DEF JoinHub, At, FrameOK, MayWrite
  <2>2. f.cmd.who = f.cmd.by /\ f.cmd.role \in {"ADMIN", "USER"}
    BY <1>3, <2>1, CommandsAssumption
  <2>3. ASSUME RoleIn(f.snap, f.cmd.by) = "NONE" PROVE Safe(f.hub, f.cmd.who, db)
    <3>1. CASE f.snap = NoSnapshot
      BY <1>3, <2>1, <3>1 DEF FrameOK, HoldsSnap, Safe
    <3>2. CASE f.snap # NoSnapshot
      <4>1. SnapOK(f.hub, f.snap, db, past) /\ RoleIn(f.snap, f.cmd.by) # "OWNER"
        BY <1>1, <1>3, <2>3, <3>2 DEF FrameOK, HoldsSnap, ok
      <4>. QED BY <2>2, <4>1, NotOwner
    <3>. QED BY <3>1, <3>2
  <2>. QED BY <1>4, <1>7, <1>13, <2>2, <2>3 DEF JoinHub, ActorRole, Actor
<1>. QED BY <1>9, <1>10, <1>11, <1>12, <1>13

-----------------------------------------------------------------------------
(* Invites, state syncs and the rest of the commands' own steps.           *)

\* A frame that goes on and changes what no one relies on.
LEMMA GotoGoes ==
    ASSUME HubsInv, NEW w \in DOMAIN worker, worker[w].pc # "idle", worker[w].pc \notin LoadPcs,
           NEW g, Goto(w, g), Kept(g, worker[w]),
           \/ g.pc \in Plain /\ g.ret = worker[w].ret
           \/ g.pc = "load" /\ g.ret \in LoadRets \ {"member"},
           UNCHANGED <<tables, caches>>, LinksOK(links', db)
    PROVE  HubsInv'
<1>1. Goes(worker[w], g)
  BY DEF Goes
<1>2. g.pc = "idle" \/ FrameOK(g, db, past)
  BY <1>1, Active, GoesOK
<1>. QED BY <1>2, GotoKeeps

\* createInvite keeps the hub that the command was allowed for, and every
\* token leads to a hub there was.
LEMMA InviteKeeps ==
    ASSUME HubsInv, NEW w \in DOMAIN worker,
           \/ AuthoriseInvite(w) \/ GetActiveLink(w) \/ CheckTtl(w) \/ SetToken(w) \/ RevokeInvites(w)
           \/ DeleteToken(w) \/ ResolveInvite(w)
    PROVE  HubsInv'
<1>. DEFINE f == worker[w]
            ok == f.pc # "idle" /\ f.pc \notin LoadPcs
<1>1. ok
  BY DEF AuthoriseInvite, GetActiveLink, CheckTtl, SetToken, RevokeInvites, DeleteToken, ResolveInvite,
         On, At, LoadPcs, Reading, Putting
<1>2. UNCHANGED <<tables, caches>>
  BY DEF AuthoriseInvite, GetActiveLink, CheckTtl, SetToken, RevokeInvites, DeleteToken, ResolveInvite
<1>3. FrameOK(f, db, past) /\ IsRecord(f, FrameFields) /\ f.cmd \in Commands
  BY <1>1, Active
<1>4. LinksOK(links, db)
  BY DEF HubsInv
<1>5. ASSUME Finish(w), UNCHANGED links PROVE HubsInv'
  BY <1>1, <1>2, <1>5, GoingOn, GoesKeeps
<1>6. ASSUME NEW pc \in Asking, pc \notin {"voice", "remove_member", "add_member"}, Proceed(w, pc),
             f.hub \in db.issued, UNCHANGED links
      PROVE  HubsInv'
  <2>1. pc # "add_member"
    BY <1>6
  <2>. QED BY <1>1, <1>2, <1>6, <2>1, AskKeeps
<1>7. CASE AuthoriseInvite(w)
  <2>1. UNCHANGED links
    BY <1>7 DEF AuthoriseInvite, redis
  <2>2. ASSUME RoleIn(f.snap, f.cmd.by) \in Manages PROVE f.hub \in db.issued
    <3>1. RoleIn(f.snap, f.cmd.by) # "NONE"
      BY <2>2 DEF Manages
    <3>. QED BY <1>1, <1>3, <3>1, RoleGiven DEF SnapOK
  <2>3. "get_active" \in Asking /\ "get_active" \notin {"voice", "remove_member", "add_member"}
    BY DEF Asking
  <2>. HIDE DEF ok
  <2>. QED BY <1>5, <1>6, <1>7, <2>1, <2>2, <2>3 DEF AuthoriseInvite, ActorRole, Actor
<1>8. CASE GetActiveLink(w)
  <2>1. UNCHANGED links
    BY <1>8 DEF GetActiveLink, redis
  <2>2. f.hub \in db.issued
    BY <1>3, <1>8 DEF GetActiveLink, At, FrameOK, MayWrite
  <2>3. ASSUME NEW t, Goto(w, [f EXCEPT !.pc = "ttl", !.link = t]) PROVE HubsInv'
    <3>. DEFINE g == [f EXCEPT !.pc = "ttl", !.link = t]
    <3>. HIDE DEF f, ok
    <3>1. Kept(g, f)
      BY <1>3 DEF Kept, IsRecord, FrameFields
    <3>2. g.pc = "ttl" /\ g.ret = f.ret
      BY <1>3 DEF IsRecord, FrameFields
    <3>3. Goto(w, g)
      BY <2>3
    <3>. HIDE DEF g
    <3>4. g.pc \in Asking /\ g.pc \notin {"voice", "remove_member", "add_member"} /\ g.pc # "add_member"
      BY <3>2 DEF Asking
    <3>5. f.pc \notin LoadPcs
      BY <1>1 DEF ok
    <3>6. FrameOK(g, db, past)
      BY <1>3, <2>2, <3>1, <3>2, <3>4, <3>5, AsksOK
    <3>. QED BY <1>2, <1>4, <2>1, <3>3, <3>6, GotoKeeps
  <2>4. "set_token" \in Asking /\ "set_token" \notin {"voice", "remove_member", "add_member"}
    BY DEF Asking
  <2>. HIDE DEF ok
  <2>. QED BY <1>6, <1>8, <2>1, <2>2, <2>3, <2>4 DEF GetActiveLink
<1>9. CASE CheckTtl(w)
  <2>1. UNCHANGED links
    BY <1>9 DEF CheckTtl, redis
  <2>2. f.hub \in db.issued
    BY <1>3, <1>9 DEF CheckTtl, At, FrameOK, MayWrite
  <2>3. "set_token" \in Asking /\ "set_token" \notin {"voice", "remove_member", "add_member"}
    BY DEF Asking
  <2>. HIDE DEF ok
  <2>. QED BY <1>5, <1>6, <1>9, <2>1, <2>2, <2>3 DEF CheckTtl
<1>10. CASE SetToken(w)
  <2>1. f.hub \in db.issued
    BY <1>3, <1>10 DEF SetToken, At, FrameOK, MayWrite
  <2>2. PICK t : links' = Put(links, t, [hub |-> f.hub, ttl |-> "long"])
                 /\ Goto(w, [f EXCEPT !.pc = "set_active", !.link = t])
    BY <1>10 DEF SetToken
  <2>. DEFINE g == [f EXCEPT !.pc = "set_active", !.link = t]
  <2>3. LinksOK(links', db)
    <3>. DEFINE r == [hub |-> f.hub, ttl |-> "long"]
    <3>1. IsRecord(r, {"hub", "ttl"}) /\ r.hub = f.hub
      BY DEF IsRecord
    <3>. HIDE DEF r
    <3>2. links' = Put(links, t, r)
      BY <2>2 DEF r
    <3>. QED BY <1>4, <2>1, <3>1, <3>2 DEF LinksOK, Put
  <2>. HIDE DEF f
  <2>4. Kept(g, f)
    BY <1>3 DEF Kept, IsRecord, FrameFields
  <2>5. g.pc = "set_active" /\ g.ret = f.ret
    BY <1>3 DEF IsRecord, FrameFields
  <2>6. Goto(w, g)
    BY <2>2
  <2>. HIDE DEF g
  <2>7. g.pc \in Plain
    BY <2>5 DEF Plain
  <2>. QED BY <1>1, <1>2, <2>3, <2>4, <2>5, <2>6, <2>7, GotoGoes DEF f
<1>11. CASE RevokeInvites(w)
  <2>1. UNCHANGED links
    BY <1>11 DEF RevokeInvites, redis
  <2>2. ASSUME NEW t, Goto(w, [f EXCEPT !.pc = "del_token", !.link = t]) PROVE HubsInv'
    <3>. DEFINE g == [f EXCEPT !.pc = "del_token", !.link = t]
    <3>. HIDE DEF f
    <3>1. Kept(g, f)
      BY <1>3 DEF Kept, IsRecord, FrameFields
    <3>2. g.pc = "del_token" /\ g.ret = f.ret
      BY <1>3 DEF IsRecord, FrameFields
    <3>3. Goto(w, g)
      BY <2>2
    <3>. HIDE DEF g
    <3>4. g.pc \in Plain
      BY <3>2 DEF Plain
    <3>. QED BY <1>1, <1>2, <1>4, <2>1, <3>1, <3>2, <3>3, <3>4, GotoGoes DEF f
  <2>3. Proceed(w, "del_active") => HubsInv'
    <3>1. "del_active" \in Plain
      BY DEF Plain
    <3>. QED BY <1>1, <1>2, <2>1, <3>1, GoingOn, GoesKeeps
  <2>. QED BY <1>11, <2>2, <2>3 DEF RevokeInvites
<1>12. CASE DeleteToken(w)
  <2>1. LinksOK(links', db)
    BY <1>4, <1>12 DEF DeleteToken, LinksOK, Erase, Restrict
  <2>. DEFINE g == [f EXCEPT !.pc = "del_active"]
  <2>2. Goto(w, g)
    BY <1>12 DEF DeleteToken, Proceed
  <2>. HIDE DEF f
  <2>3. Kept(g, f)
    BY <1>3 DEF Kept, IsRecord, FrameFields
  <2>4. g.pc = "del_active" /\ g.ret = f.ret
    BY <1>3 DEF IsRecord, FrameFields
  <2>. HIDE DEF g
  <2>5. g.pc \in Plain
    BY <2>4 DEF Plain
  <2>. QED BY <1>1, <1>2, <2>1, <2>2, <2>3, <2>4, <2>5, GotoGoes DEF f
<1>13. CASE ResolveInvite(w)
  <2>1. UNCHANGED links
    BY <1>13 DEF ResolveInvite, redis
  <2>2. ASSUME NEW t \in DOMAIN links, Goto(w, [f EXCEPT !.pc = "load", !.ret = "member", !.hub = links[t].hub])
        PROVE  HubsInv'
    <3>. DEFINE h == links[t].hub
                g == [f EXCEPT !.pc = "load", !.ret = "member", !.hub = h]
    <3>1. f.cmd.op = "join"
      BY <1>3, <1>13 DEF ResolveInvite, At, FrameOK, MayWrite
    <3>2. h \in db.issued
      BY <1>4 DEF LinksOK
    <3>3. Goto(w, g)
      BY <2>2
    <3>. HIDE DEF f, h
    <3>4. IsRecord(g, FrameFields) /\ g.cmd = f.cmd
      BY <1>3 DEF IsRecord, FrameFields
    <3>5. g.rows = f.rows /\ g.pend = f.pend
      BY <1>3 DEF IsRecord, FrameFields
    <3>6. g.pc = "load" /\ g.ret = "member" /\ g.hub = h
      BY <1>3 DEF IsRecord, FrameFields
    <3>. HIDE DEF g
    <3>7. g.ret \in LoadRets
      BY <3>6 DEF LoadRets
    <3>8. FrameOK(g, db, past)
      BY <1>3, <3>1, <3>2, <3>4, <3>5, <3>6, <3>7, Loads
    <3>. QED BY <1>2, <1>4, <2>1, <3>3, <3>8, GotoKeeps
  <2>. QED BY <1>5, <1>13, <2>1, <2>2 DEF ResolveInvite
<1>. QED BY <1>7, <1>8, <1>9, <1>10, <1>11, <1>12, <1>13

\* Time takes tokens away.
LEMMA AgesKeeps ==
    ASSUME HubsInv, InviteAges
    PROVE  HubsInv'
<1>1. UNCHANGED <<db, past, hubCache, channelCache, worker>>
  BY DEF InviteAges, serviceVars
<1>2. LinksOK(links, db)
  BY DEF HubsInv
<1>3. LinksOK(links', db)
  <2>1. ASSUME NEW t \in DOMAIN links, links' = [links EXCEPT ![t].ttl = "short"] PROVE LinksOK(links', db)
    <3>1. links' = [links EXCEPT ![t] = [links[t] EXCEPT !.ttl = "short"]]
      BY <2>1
    <3>. DEFINE r == [links[t] EXCEPT !.ttl = "short"]
    <3>2. IsRecord(r, {"hub", "ttl"}) /\ r.hub = links[t].hub
      BY <1>2 DEF LinksOK, IsRecord
    <3>. HIDE DEF r
    <3>3. links' = [links EXCEPT ![t] = r]
      BY <3>1 DEF r
    <3>. QED BY <1>2, <3>2, <3>3 DEF LinksOK
  <2>2. ASSUME NEW t, links' = Erase(links, t) PROVE LinksOK(links', db)
    BY <1>2, <2>2 DEF LinksOK, Erase, Restrict
  <2>. QED BY <1>2, <2>1, <2>2 DEF InviteAges
<1>. QED BY <1>1, <1>3 DEF HubsInv

\* The roles of a snapshot.
LEMMA RolesType ==
    ASSUME NEW m, IsMap(m), DOMAIN m \subseteq Users, \A u \in DOMAIN m : m[u] \in Roles
    PROVE  m \in UNION {[us -> Roles] : us \in SUBSET Users}
<1>1. m \in [DOMAIN m -> Roles]
  BY DEF IsMap
<1>. QED BY <1>1

\* A snapshot without channels and members yet.
LEMMA BlankOK ==
    ASSUME NEW row, row.owner \in Users, row.name \in Names, row.seed \in Names
    PROVE  BlankSnapshot(row) \in Snapshots
<1>1. EmptyMap \in UNION {[us -> Roles] : us \in SUBSET Users}
  BY MapFacts, RolesType
<1>. HIDE DEF EmptyMap
<1>. QED BY SMT, <1>1 DEF BlankSnapshot, Snapshots

\* A state sync starts from the hub rows of the user, or from the snapshot.
LEMMA SyncKeeps ==
    ASSUME HubsInv, NEW w \in DOMAIN worker,
           \/ CountHubs(w) \/ GetUserHubs(w) \/ WarmSnapshots(w) \/ Topology(w) \/ Gather(w) \/ KeepTopics(w)
    PROVE  HubsInv'
<1>. DEFINE f == worker[w]
            ok == f.pc # "idle" /\ f.pc \notin LoadPcs
<1>1. ok
  BY DEF CountHubs, GetUserHubs, WarmSnapshots, Topology, Gather, KeepTopics, At, LoadPcs, Reading, Putting
<1>2. UNCHANGED <<tables, caches, links>>
  BY DEF CountHubs, GetUserHubs, WarmSnapshots, Topology, Gather, KeepTopics, redis
<1>3. FrameOK(f, db, past) /\ IsRecord(f, FrameFields) /\ f.cmd \in Commands
  BY <1>1, Active
<1>4. LinksOK(links', db)
  BY <1>2 DEF HubsInv
<1>5. GoOn(w) => HubsInv'
  BY <1>1, <1>2, GoesKeeps
<1>6. CASE CountHubs(w)
  <2>1. ASSUME Proceed(w, "insert_hub") PROVE HubsInv'
    <3>. DEFINE g == [f EXCEPT !.pc = "insert_hub"]
    <3>1. Goto(w, g)
      BY <2>1 DEF Proceed
    <3>2. f.pc = "count_hubs"
      BY <1>6 DEF CountHubs, At
    <3>. HIDE DEF f
    <3>3. Kept(g, f)
      BY <1>3 DEF Kept, IsRecord, FrameFields
    <3>4. g.pc = "insert_hub" /\ g.ret = f.ret
      BY <1>3 DEF IsRecord, FrameFields
    <3>. HIDE DEF g
    <3>5. Returns(g) /\ RowsOK(g, db, past) /\ PendOK(g, past)
      BY <1>3, <3>3, <3>4 DEF FrameOK, Returns, RowsOK, PendOK, Kept, LoadPcs, LookPcs, EditPcs, Reading, Putting
    <3>6. HoldsSnap(g, db, past) /\ MayWrite(g, db)
      BY <1>3, <3>2, <3>3, <3>4 DEF FrameOK, HoldsSnap, MayWrite, Kept
    <3>7. FrameOK(g, db, past)
      BY <1>3, <3>3, <3>4, <3>5, <3>6 DEF FrameOK, Kept
    <3>. QED BY <1>2, <1>4, <3>1, <3>7, GotoKeeps
  <2>2. Finish(w) => HubsInv'
    BY <1>1, <1>5, GoingOn
  <2>. QED BY <1>6, <2>1, <2>2 DEF CountHubs
<1>7. CASE GetUserHubs(w)
  <2>. DEFINE hs == HubsOfUser(db, Actor(w))
              rows == BlankSnapshots(RowsOf(db, hs))
              g == [f EXCEPT !.pc = "warm", !.rows = rows]
  <2>1. Goto(w, g)
    BY <1>7 DEF GetUserHubs
  <2>2. \A h \in DOMAIN rows : rows[h] \in Snapshots /\ h \in db.issued
    <3>1. TablesOK(db)
      BY DEF HubsInv
    <3>2. DOMAIN RowsOf(db, hs) = hs \cap DOMAIN db.hubs
          /\ \A h \in hs \cap DOMAIN db.hubs : RowsOf(db, hs)[h] = db.hubs[h]
      BY DEF RowsOf, Restrict
    <3>3. DOMAIN rows = DOMAIN RowsOf(db, hs) /\ \A h \in DOMAIN rows : rows[h] = BlankSnapshot(RowsOf(db, hs)[h])
      BY DEF BlankSnapshots
    <3>. HIDE DEF rows, hs
    <3>4. ASSUME NEW h \in DOMAIN rows PROVE rows[h] = BlankSnapshot(db.hubs[h]) /\ h \in DOMAIN db.hubs
      BY <3>2, <3>3
    <3>5. ASSUME NEW h \in DOMAIN db.hubs
          PROVE  h \in db.issued /\ db.hubs[h].owner \in Users /\ db.hubs[h].name \in Names /\ db.hubs[h].seed \in Names
      BY SMT, <3>1 DEF TablesOK, HubType
    <3>. QED BY <3>4, <3>5, BlankOK
  <2>. HIDE DEF f, rows
  <2>3. IsRecord(g, FrameFields) /\ g.cmd = f.cmd /\ g.hub = f.hub
    BY <1>3 DEF IsRecord, FrameFields
  <2>4. g.snap = f.snap /\ g.rows = rows /\ g.pend = f.pend /\ g.pc = "warm" /\ g.ret = f.ret
    BY <1>3 DEF IsRecord, FrameFields
  <2>. HIDE DEF g
  <2>5. Returns(g) /\ RowsOK(g, db, past) /\ PendOK(g, past)
    BY <1>3, <2>2, <2>3, <2>4 DEF FrameOK, Returns, RowsOK, PendOK, LoadPcs, LookPcs, EditPcs, Reading, Putting
  <2>6. HoldsSnap(g, db, past) /\ MayWrite(g, db)
    BY <1>1, <1>3, <2>3, <2>4 DEF FrameOK, HoldsSnap, MayWrite
  <2>7. FrameOK(g, db, past)
    BY <1>3, <2>3, <2>4, <2>5, <2>6 DEF FrameOK
  <2>. QED BY <1>2, <1>4, <2>1, <2>7, GotoKeeps
<1>8. CASE WarmSnapshots(w)
  <2>. DEFINE rows == IF f.cmd.op = "sync" THEN f.rows
                      ELSE IF f.snap = NoSnapshot THEN EmptyMap ELSE Put(EmptyMap, f.hub, f.snap)
              blank == BlankSnapshots(rows)
  <2>1. Goto(w, [Warm(f, rows, "topology") EXCEPT !.list = DOMAIN rows, !.hubs = DOMAIN rows])
    BY <1>8 DEF WarmSnapshots
  <2>2. \A h \in DOMAIN rows : rows[h] \in Snapshots /\ h \in db.issued
    <3>1. \A h \in DOMAIN f.rows : f.rows[h] \in Snapshots /\ h \in db.issued
      BY <1>3 DEF FrameOK, RowsOK
    <3>2. f.snap # NoSnapshot => f.snap \in Snapshots /\ f.hub \in db.issued
      BY <1>1, <1>3 DEF FrameOK, HoldsSnap, SnapOK
    <3>3. ASSUME f.snap # NoSnapshot, NEW h \in DOMAIN Put(EmptyMap, f.hub, f.snap)
          PROVE  h = f.hub /\ Put(EmptyMap, f.hub, f.snap)[h] = f.snap
      BY <3>3 DEF Put, EmptyMap
    <3>4. DOMAIN EmptyMap = {}
      BY MapFacts
    <3>. HIDE DEF f
    <3>. QED BY <3>1, <3>2, <3>3, <3>4
  <2>3. \A h \in DOMAIN blank : blank[h] \in Snapshots /\ h \in db.issued
    <3>. HIDE DEF rows
    <3>1. DOMAIN blank = DOMAIN rows /\ \A h \in DOMAIN rows : blank[h] = BlankSnapshot(rows[h])
      BY DEF BlankSnapshots
    <3>2. ASSUME NEW h \in DOMAIN rows
          PROVE  rows[h].owner \in Users /\ rows[h].name \in Names /\ rows[h].seed \in Names
      BY SMT, <2>2 DEF Snapshots
    <3>. HIDE DEF blank
    <3>. QED BY <2>2, <3>1, <3>2, BlankOK
  <2>. HIDE DEF f, blank, ok
  <2>4. ASSUME NEW l, Goto(w, [[f EXCEPT !.pc = "topology", !.rows = EmptyMap] EXCEPT !.list = l, !.hubs = l])
        PROVE  HubsInv'
    <3>. DEFINE k == [f EXCEPT !.pc = "topology", !.rows = EmptyMap]
                g == [k EXCEPT !.list = l, !.hubs = l]
    <3>1. IsRecord(k, FrameFields) /\ k.cmd = f.cmd /\ k.hub = f.hub /\ k.snap = f.snap
      BY <1>3 DEF IsRecord, FrameFields
    <3>2. k.rows = EmptyMap /\ k.pend = f.pend /\ k.pc = "topology" /\ k.ret = f.ret
      BY <1>3 DEF IsRecord, FrameFields
    <3>3. Goto(w, g)
      BY <2>4
    <3>. HIDE DEF k
    <3>4. IsRecord(g, FrameFields) /\ g.cmd = k.cmd /\ g.hub = k.hub /\ g.snap = k.snap
      BY <3>1 DEF IsRecord, FrameFields
    <3>5. g.rows = k.rows /\ g.pend = k.pend /\ g.pc = k.pc /\ g.ret = k.ret
      BY <3>1 DEF IsRecord, FrameFields
    <3>. HIDE DEF g
    <3>6. g.pc \notin Demanding
      BY <3>2, <3>5 DEF Demanding, LoadPcs, LookPcs, EditPcs, Reading, Putting
    <3>7. /\ g.cmd = f.cmd /\ g.hub = f.hub /\ g.snap \in {f.snap, NoSnapshot} /\ g.rows \in {f.rows, EmptyMap}
          /\ g.pend \in {f.pend, EmptyMap} /\ g.ret = f.ret
      BY <3>1, <3>2, <3>4, <3>5
    <3>8. FrameOK(g, db, past)
      BY <1>1, <1>3, <3>4, <3>6, <3>7, GoesOn DEF ok
    <3>. QED BY <1>2, <1>4, <3>3, <3>8, GotoKeeps
  <2>5. ASSUME NEW l, Goto(w, [[f EXCEPT !.pc = "get_channels", !.ret = "topology", !.full = TRUE,
                                         !.rows = blank] EXCEPT !.list = l, !.hubs = l])
        PROVE  HubsInv'
    <3>. DEFINE k == [f EXCEPT !.pc = "get_channels", !.ret = "topology", !.full = TRUE, !.rows = blank]
                g == [k EXCEPT !.list = l, !.hubs = l]
    <3>1. IsRecord(k, FrameFields) /\ k.cmd = f.cmd /\ k.pend = f.pend
      BY <1>3 DEF IsRecord, FrameFields
    <3>2. k.rows = blank /\ k.pc = "get_channels" /\ k.ret = "topology"
      BY <1>3 DEF IsRecord, FrameFields
    <3>3. Goto(w, g)
      BY <2>5
    <3>. HIDE DEF k
    <3>4. IsRecord(g, FrameFields) /\ g.cmd = f.cmd /\ g.pend = f.pend
      BY <3>1 DEF IsRecord, FrameFields
    <3>5. g.rows = blank /\ g.pc = "get_channels" /\ g.ret = "topology"
      BY <3>1, <3>2 DEF IsRecord, FrameFields
    <3>. HIDE DEF g
    <3>6. Returns(g)
      BY <3>5 DEF Returns, LoadRets, LookPcs, EditPcs
    <3>7. RowsOK(g, db, past) /\ PendOK(g, past)
      BY <1>3, <2>3, <3>4, <3>5 DEF FrameOK, RowsOK, PendOK, Putting
    <3>8. HoldsSnap(g, db, past) /\ MayWrite(g, db)
      BY <3>5 DEF HoldsSnap, MayWrite, LoadPcs, Reading
    <3>9. FrameOK(g, db, past)
      BY <1>3, <3>4, <3>5, <3>6, <3>7, <3>8 DEF FrameOK
    <3>. QED BY <1>2, <1>4, <3>3, <3>9, GotoKeeps
  <2>. HIDE DEF rows
  <2>. QED BY <2>1, <2>4, <2>5 DEF Warm, blank
<1>9. CASE Topology(w)
  <2>1. ASSUME LookUp(w, f.ids, "synced") PROVE HubsInv'
    <3>1. "synced" \in LookRets \ {"voice"}
      BY DEF LookRets
    <3>. QED BY <1>1, <1>5, <2>1, <3>1, GoingOn
  <2>2. ASSUME NEW h, NEW l, Goto(w, [f EXCEPT !.pc = "load", !.ret = "gather", !.full = FALSE, !.hub = h, !.list = l])
        PROVE  HubsInv'
    <3>. DEFINE g == [f EXCEPT !.pc = "load", !.ret = "gather", !.full = FALSE, !.hub = h, !.list = l]
    <3>1. Goto(w, g)
      BY <2>2
    <3>. HIDE DEF f
    <3>2. IsRecord(g, FrameFields) /\ g.cmd = f.cmd /\ g.rows = f.rows /\ g.pend = f.pend
      BY <1>3 DEF IsRecord, FrameFields
    <3>3. g.pc = "load" /\ g.ret = "gather"
      BY <1>3 DEF IsRecord, FrameFields
    <3>. HIDE DEF g
    <3>4. g.ret \in LoadRets /\ g.ret # "member"
      BY <3>3 DEF LoadRets
    <3>5. FrameOK(g, db, past)
      BY <1>3, <3>2, <3>3, <3>4, Loads
    <3>. QED BY <1>2, <1>4, <3>1, <3>5, GotoKeeps
  <2>. QED BY <1>9, <2>1, <2>2 DEF Topology
<1>10. CASE Gather(w)
  <2>1. PICK cs : Goto(w, [f EXCEPT !.pc = "topology", !.ids = cs])
    BY <1>10 DEF Gather
  <2>. DEFINE g == [f EXCEPT !.pc = "topology", !.ids = cs]
  <2>2. Goto(w, g)
    BY <2>1
  <2>. HIDE DEF f
  <2>3. Kept(g, f)
    BY <1>3 DEF Kept, IsRecord, FrameFields
  <2>4. g.pc = "topology" /\ g.ret = f.ret
    BY <1>3 DEF IsRecord, FrameFields
  <2>. HIDE DEF g
  <2>5. g.pc \in Plain
    BY <2>4 DEF Plain
  <2>. QED BY <1>1, <1>2, <1>4, <2>2, <2>3, <2>4, <2>5, GotoGoes DEF f
<1>11. CASE KeepTopics(w)
  <2>1. PICK cs : Goto(w, [f EXCEPT !.pc = "load", !.ret = "service_ids", !.topics = cs])
    BY <1>11 DEF KeepTopics
  <2>. DEFINE g == [f EXCEPT !.pc = "load", !.ret = "service_ids", !.topics = cs]
  <2>2. Goto(w, g)
    BY <2>1
  <2>. HIDE DEF f
  <2>3. Kept(g, f)
    BY <1>3 DEF Kept, IsRecord, FrameFields
  <2>4. g.pc = "load" /\ g.ret = "service_ids"
    BY <1>3 DEF IsRecord, FrameFields
  <2>. HIDE DEF g
  <2>5. g.ret \in LoadRets \ {"member"}
    BY <2>4 DEF LoadRets
  <2>. QED BY <1>1, <1>2, <1>4, <2>2, <2>3, <2>4, <2>5, GotoGoes DEF f
<1>. QED BY <1>6, <1>7, <1>8, <1>9, <1>10, <1>11

-----------------------------------------------------------------------------
(* The statements of the commands.                                         *)

\* The frame with which a command goes on after its statement.
LEMMA WrittenOK ==
    ASSUME NEW e, NEW q, NEW f, FrameOK(f, e, q), f.pc \notin LoadPcs,
           NEW g, IsRecord(g, FrameFields), g.cmd = f.cmd, g.rows = f.rows, g.snap = f.snap,
           g.hub = f.hub \/ f.snap = NoSnapshot,
           \A c \in DOMAIN g.pend : c \in Channels /\ <<c, g.pend[c]>> \in q,
           \/ g.pc = "invalidate" /\ g.ret \in HubRets
           \/ g.pc = "cache_channel" /\ g.ret \in EditRets
           \/ /\ g.pc = "copy_channel" /\ g.ret \in EditRets
              /\ f.cmd.ch \in Channels /\ \E r : <<f.cmd.ch, r>> \in q /\ r.name = f.cmd.name
    PROVE  FrameOK(g, e, q)
<1>1. Returns(g) /\ g.pc # "idle" /\ g.ret \notin {"voice", "member"}
  BY DEF Returns, HubRets, EditRets, LoadPcs, LookPcs, EditPcs, Reading, Putting
<1>2. RowsOK(g, e, q)
  BY DEF RowsOK, FrameOK, Reading, Putting
<1>3. PendOK(g, q)
  BY DEF PendOK
<1>4. HoldsSnap(g, e, q)
  BY DEF HoldsSnap, FrameOK
<1>5. MayWrite(g, e)
  BY <1>1 DEF MayWrite
<1>. QED BY <1>1, <1>2, <1>3, <1>4, <1>5 DEF FrameOK

\* Each statement, when the schema takes it, leaves the tables in order.
LEMMA StatementKeeps ==
    ASSUME HubsInv, NEW w \in DOMAIN worker, worker[w].pc # "idle", worker[w].pc \notin LoadPcs,
           NEW e, NEW g, Write(w, e, g), UNCHANGED links, Changes(db, e),
           IsRecord(g, FrameFields), g.cmd = worker[w].cmd, g.rows = worker[w].rows, g.snap = worker[w].snap,
           g.hub = worker[w].hub \/ worker[w].snap = NoSnapshot,
           \/ g.pend = worker[w].pend
           \/ \A c \in DOMAIN g.pend : c \in Channels /\ <<c, g.pend[c]>> \in Rows(e),
           \/ g.pc = "invalidate" /\ g.ret \in HubRets
           \/ g.pc = "cache_channel" /\ g.ret \in EditRets
           \/ /\ g.pc = "copy_channel" /\ g.ret \in EditRets
              /\ worker[w].cmd.ch \in Channels
              /\ \E r : <<worker[w].cmd.ch, r>> \in Rows(e) /\ r.name = worker[w].cmd.name
    PROVE  HubsInv'
<1>. DEFINE q == past \cup Rows(e)
<1>1. Later(db, past, e, q)
  BY DEF Changes, Later
<1>2. Rows(e) \subseteq q
  OBVIOUS
<1>. HIDE DEF q
<1>3. FrameOK(worker[w], e, q)
  BY <1>1, Active, LaterKeeps
<1>4. \A c \in DOMAIN g.pend : c \in Channels /\ <<c, g.pend[c]>> \in q
  BY <1>2, <1>3 DEF FrameOK, PendOK
<1>5. FrameOK(g, e, q)
  BY <1>2, <1>3, <1>4, WrittenOK
<1>. QED BY <1>5, WriteKeeps DEF q

\* A statement that is refused.
LEMMA RefusedKeeps ==
    ASSUME HubsInv, NEW w \in DOMAIN worker, worker[w].pc # "idle", worker[w].pc \notin LoadPcs,
           Finish(w) \/ AfterFailure(w), UNCHANGED <<tables, caches, links>>
    PROVE  HubsInv'
BY GoingOn, GoesKeeps

\* The statements on members and hubs, and their invalidation.
LEMMA HubWrites ==
    ASSUME HubsInv, NEW w \in DOMAIN worker,
           \/ CreateHub(w) \/ DeleteHub(w) \/ RemoveMember(w) \/ AddMember(w) \/ RenameHub(w) \/ UpdateHubAvatarSeed(w)
    PROVE  HubsInv'
<1>. DEFINE f == worker[w]
            ok == f.pc # "idle" /\ f.pc \notin LoadPcs
<1>1. ok
  BY DEF CreateHub, DeleteHub, RemoveMember, AddMember, RenameHub, UpdateHubAvatarSeed, At,
         LoadPcs, Reading, Putting
<1>2. UNCHANGED links
  BY DEF CreateHub, DeleteHub, RemoveMember, AddMember, RenameHub, UpdateHubAvatarSeed, redis
<1>3. FrameOK(f, db, past) /\ IsRecord(f, FrameFields) /\ f.cmd \in Commands
  BY <1>1, Active
<1>4. TablesOK(db)
  BY DEF HubsInv
<1>5. f.cmd.by \in Users /\ f.cmd.who \in Users /\ f.cmd.name \in Names /\ f.cmd.seed \in Names
  BY <1>3, CommandsAssumption
<1>6. ASSUME Finish(w), UNCHANGED <<tables, caches>> PROVE HubsInv'
  BY <1>1, <1>2, <1>6, RefusedKeeps
<1>. HIDE DEF f
<1>7. ASSUME NEW e, Changes(db, e), NEW ret \in HubRets, Write(w, e, Onward(w, "invalidate", ret)) PROVE HubsInv'
  <2>. DEFINE g == [f EXCEPT !.pc = "invalidate", !.ret = ret]
  <2>1. Write(w, e, g)
    BY <1>7 DEF Onward, f
  <2>2. Kept(g, f)
    BY <1>3 DEF Kept, IsRecord, FrameFields
  <2>3. g.pc = "invalidate" /\ g.ret = ret
    BY <1>3 DEF IsRecord, FrameFields
  <2>. HIDE DEF g
  <2>. QED BY <1>1, <1>2, <1>7, <2>1, <2>2, <2>3, StatementKeeps DEF Kept, f
<1>8. CASE CreateHub(w)
  <2>1. ASSUME NEW h \in Hubs \ db.issued,
               Write(w, CreateHubRow(db, h, f.cmd.by, f.cmd.name),
                     [Onward(w, "invalidate", "count_channels") EXCEPT !.hub = h])
        PROVE  HubsInv'
    <3>. DEFINE k == [f EXCEPT !.pc = "invalidate", !.ret = "count_channels"]
                g == [k EXCEPT !.hub = h]
                e == CreateHubRow(db, h, f.cmd.by, f.cmd.name)
    <3>1. Write(w, e, g)
      BY <2>1 DEF Onward, f
    <3>2. Kept(k, f)
      BY <1>3 DEF Kept, IsRecord, FrameFields
    <3>3. k.pc = "invalidate" /\ k.ret = "count_channels"
      BY <1>3 DEF IsRecord, FrameFields
    <3>4. f.snap = NoSnapshot
      BY <1>3, <1>8 DEF CreateHub, At, FrameOK, HoldsSnap, f
    <3>5. Changes(db, e)
      BY <1>4, <1>5, CreateHubChanges
    <3>. HIDE DEF k, e
    <3>6. IsRecord(g, FrameFields) /\ g.cmd = k.cmd /\ g.rows = k.rows /\ g.snap = k.snap /\ g.pend = k.pend
      BY <3>2 DEF Kept, IsRecord, FrameFields
    <3>7. g.pc = k.pc /\ g.ret = k.ret
      BY <3>2 DEF Kept, IsRecord, FrameFields
    <3>. HIDE DEF g
    <3>8. g.pc = "invalidate" /\ g.ret \in HubRets
      BY <3>3, <3>7 DEF HubRets
    <3>9. g.cmd = f.cmd /\ g.rows = f.rows /\ g.snap = f.snap /\ g.pend = f.pend
      BY <3>2, <3>6 DEF Kept
    <3>. QED BY <1>1, <1>2, <3>1, <3>4, <3>5, <3>6, <3>8, <3>9, StatementKeeps DEF f
  <2>. QED BY <1>6, <1>8, <2>1 DEF CreateHub, Actor, f
<1>9. CASE DeleteHub(w)
  <2>1. ASSUME NEW cs, Write(w, DeleteHubRow(db, f.hub), [Onward(w, "invalidate", "invalidate_channels") EXCEPT !.ids = cs])
        PROVE  HubsInv'
    <3>. DEFINE k == [f EXCEPT !.pc = "invalidate", !.ret = "invalidate_channels"]
                g == [k EXCEPT !.ids = cs]
    <3>1. Write(w, DeleteHubRow(db, f.hub), g)
      BY <2>1 DEF Onward, f
    <3>2. Kept(k, f)
      BY <1>3 DEF Kept, IsRecord, FrameFields
    <3>3. k.pc = "invalidate" /\ k.ret = "invalidate_channels"
      BY <1>3 DEF IsRecord, FrameFields
    <3>4. Changes(db, DeleteHubRow(db, f.hub))
      BY <1>4, DeleteHubChanges
    <3>. HIDE DEF k
    <3>5. Kept(g, k)
      BY <3>2 DEF Kept, IsRecord, FrameFields
    <3>6. g.pc = k.pc /\ g.ret = k.ret
      BY <3>2 DEF Kept, IsRecord, FrameFields
    <3>. HIDE DEF g
    <3>7. g.pc = "invalidate" /\ g.ret \in HubRets
      BY <3>3, <3>6 DEF HubRets
    <3>8. Kept(g, f)
      BY <3>2, <3>5 DEF Kept
    <3>. QED BY <1>1, <1>2, <3>1, <3>4, <3>7, <3>8, StatementKeeps DEF f, Kept
  <2>. QED BY <1>6, <1>9, <2>1 DEF DeleteHub, f
<1>10. CASE RemoveMember(w)
  <2>1. Changes(db, RemoveMemberRow(db, f.hub, f.cmd.who))
    <3>1. Safe(f.hub, f.cmd.who, db)
      BY <1>3, <1>10 DEF RemoveMember, At, FrameOK, MayWrite, f
    <3>. QED BY <1>4, <1>5, <3>1, MemberRowChanges DEF Safe
  <2>2. "revoke" \in HubRets /\ "cut" \in HubRets
    BY DEF HubRets
  <2>. QED BY <1>7, <1>10, <2>1, <2>2 DEF RemoveMember, f
<1>11. CASE AddMember(w)
  <2>1. ASSUME CanAddMember(db, f.hub, f.cmd.who, f.cmd.role) PROVE Changes(db, AddMemberRow(db, f.hub, f.cmd.who, f.cmd.role))
    <3>1. Safe(f.hub, f.cmd.who, db) /\ f.cmd.role \in {"ADMIN", "USER"}
      BY <1>3, <1>11 DEF AddMember, At, FrameOK, MayWrite, f
    <3>. QED BY <1>4, <1>5, <2>1, <3>1, MemberRowChanges DEF Safe, CanAddMember
  <2>2. "subscribe" \in HubRets /\ "idle" \in HubRets
    BY DEF HubRets
  <2>. QED BY <1>6, <1>7, <1>11, <2>1, <2>2 DEF AddMember, f
<1>12. CASE RenameHub(w)
  <2>1. f.hub \in DOMAIN db.hubs => Changes(db, RenameHubRow(db, f.hub, f.cmd.name))
    BY <1>4, <1>5, HubRowChanges
  <2>2. "seed_hub" \in HubRets /\ "idle" \in HubRets
    BY DEF HubRets
  <2>. QED BY <1>6, <1>7, <1>12, <2>1, <2>2 DEF RenameHub, f
<1>13. CASE UpdateHubAvatarSeed(w)
  <2>1. f.hub \in DOMAIN db.hubs => Changes(db, UpdateHubSeedRow(db, f.hub, f.cmd.seed))
    BY <1>4, <1>5, HubRowChanges
  <2>2. "idle" \in HubRets
    BY DEF HubRets
  <2>. QED BY <1>6, <1>7, <1>13, <2>1, <2>2 DEF UpdateHubAvatarSeed, f
<1>. QED BY <1>8, <1>9, <1>10, <1>11, <1>12, <1>13

\* The statements on channels.
LEMMA ChannelWrites ==
    ASSUME HubsInv, NEW w \in DOMAIN worker, InsertChannel(w) \/ RenameChannel(w) \/ RemoveChannel(w)
    PROVE  HubsInv'
<1>. DEFINE f == worker[w]
            ok == f.pc # "idle" /\ f.pc \notin LoadPcs
<1>1. ok
  BY DEF InsertChannel, RenameChannel, RemoveChannel, At, LoadPcs, Reading, Putting
<1>2. UNCHANGED links
  BY DEF InsertChannel, RenameChannel, RemoveChannel, redis
<1>3. FrameOK(f, db, past) /\ IsRecord(f, FrameFields) /\ f.cmd \in Commands
  BY <1>1, Active
<1>4. TablesOK(db)
  BY DEF HubsInv
<1>5. f.cmd.name \in Names /\ f.cmd.type \in Names
  BY <1>3, CommandsAssumption
<1>6. ASSUME Finish(w) \/ AfterFailure(w), UNCHANGED <<tables, caches>> PROVE HubsInv'
  BY <1>1, <1>2, <1>6, RefusedKeeps
<1>. HIDE DEF f
<1>7. CASE InsertChannel(w)
  <2>. DEFINE default == f.cmd.op = "create_hub"
              n   == IF default THEN "general" ELSE f.cmd.name
              t   == IF default THEN "text" ELSE f.cmd.type
              row == [hub |-> f.hub, name |-> n, type |-> t]
              r   == IF default THEN "subscribe" ELSE "idle"
  <2>1. n \in Names /\ t \in Names
    BY <1>5, NamesAssumption
  <2>2. r \in EditRets
    BY DEF EditRets
  <2>. HIDE DEF n, t, r
  <2>3. row.hub = f.hub /\ row.name = n /\ row.type = t
    OBVIOUS
  <2>4. ASSUME f.hub \in DOMAIN db.hubs, NEW c \in Channels \ db.issued,
               Write(w, CreateChannelRow(db, c, f.hub, n, t), [Onward(w, "cache_channel", r) EXCEPT !.pend = Put(EmptyMap, c, row)])
        PROVE  HubsInv'
    <3>. DEFINE e == CreateChannelRow(db, c, f.hub, n, t)
                pend == Put(EmptyMap, c, row)
                k == [f EXCEPT !.pc = "cache_channel", !.ret = r]
                g == [k EXCEPT !.pend = pend]
    <3>1. Write(w, e, g)
      BY <2>4 DEF Onward, f
    <3>2. f.hub \in Hubs
      BY <1>4, <2>4 DEF TablesOK
    <3>3. Changes(db, e) /\ <<c, row>> \in Rows(e)
      BY <1>4, <2>1, <3>2, CreateChannelChanges
    <3>. HIDE DEF row, e
    <3>4. DOMAIN pend = {c} /\ pend[c] = row
      BY DEF Put, EmptyMap
    <3>5. Kept(k, f)
      BY <1>3 DEF Kept, IsRecord, FrameFields
    <3>6. k.pc = "cache_channel" /\ k.ret = r
      BY <1>3 DEF IsRecord, FrameFields
    <3>. HIDE DEF k, pend
    <3>7. IsRecord(g, FrameFields) /\ g.cmd = k.cmd /\ g.rows = k.rows /\ g.snap = k.snap /\ g.hub = k.hub
      BY <3>5 DEF Kept, IsRecord, FrameFields
    <3>8. g.pend = pend /\ g.pc = k.pc /\ g.ret = k.ret
      BY <3>5 DEF Kept, IsRecord, FrameFields
    <3>. HIDE DEF g
    <3>9. g.cmd = f.cmd /\ g.rows = f.rows /\ g.snap = f.snap /\ g.hub = f.hub
      BY <3>5, <3>7 DEF Kept
    <3>10. g.pc = "cache_channel" /\ g.ret \in EditRets
      BY <2>2, <3>6, <3>8
    <3>11. \A b \in DOMAIN g.pend : b \in Channels /\ <<b, g.pend[b]>> \in Rows(e)
      BY <3>3, <3>4, <3>8
    <3>. QED BY <1>1, <1>2, <3>1, <3>3, <3>7, <3>9, <3>10, <3>11, StatementKeeps DEF f
  <2>5. \/ f.hub \in DOMAIN db.hubs /\ \E c \in Channels \ db.issued :
              Write(w, CreateChannelRow(db, c, row.hub, row.name, row.type),
                    [Onward(w, "cache_channel", r) EXCEPT !.pend = Put(EmptyMap, c, row)])
        \/ AfterFailure(w) /\ UNCHANGED <<tables, caches>>
    BY <1>7 DEF InsertChannel, f, n, t, r
  <2>. HIDE DEF row
  <2>. QED BY <1>6, <2>3, <2>4, <2>5
<1>8. CASE RenameChannel(w)
  <2>1. ASSUME f.cmd.ch \in DOMAIN db.channels,
               Write(w, RenameChannelRow(db, f.cmd.ch, f.cmd.name), Onward(w, "copy_channel", "idle"))
        PROVE  HubsInv'
    <3>. DEFINE e == RenameChannelRow(db, f.cmd.ch, f.cmd.name)
                g == [f EXCEPT !.pc = "copy_channel", !.ret = "idle"]
    <3>1. Write(w, e, g)
      BY <2>1 DEF Onward, f
    <3>2. f.cmd.ch \in Channels
      BY <1>4, <2>1 DEF TablesOK
    <3>3. Changes(db, e) /\ \E r : <<f.cmd.ch, r>> \in Rows(e) /\ r.name = f.cmd.name
      BY <1>4, <1>5, <2>1, ChannelRowChanges
    <3>. HIDE DEF e
    <3>4. Kept(g, f)
      BY <1>3 DEF Kept, IsRecord, FrameFields
    <3>5. g.pc = "copy_channel" /\ g.ret = "idle"
      BY <1>3 DEF IsRecord, FrameFields
    <3>. HIDE DEF g
    <3>6. g.ret \in EditRets
      BY <3>5 DEF EditRets
    <3>. QED BY <1>1, <1>2, <3>1, <3>2, <3>3, <3>4, <3>5, <3>6, StatementKeeps DEF f, Kept
  <2>. QED BY <1>6, <1>8, <2>1 DEF RenameChannel, f
<1>9. CASE RemoveChannel(w)
  <2>1. ASSUME DeletesChannel(db, f.cmd.ch, f.hub),
               Write(w, DeleteChannelRow(db, f.cmd.ch), Onward(w, "cache_channel", "drop_topic"))
        PROVE  HubsInv'
    <3>. DEFINE e == DeleteChannelRow(db, f.cmd.ch)
                g == [f EXCEPT !.pc = "cache_channel", !.ret = "drop_topic"]
    <3>1. Write(w, e, g)
      BY <2>1 DEF Onward, f
    <3>2. f.cmd.ch \in DOMAIN db.channels
      BY <2>1 DEF DeletesChannel, ChannelsOf
    <3>3. Changes(db, e)
      BY <1>4, <1>5, <3>2, ChannelRowChanges
    <3>. HIDE DEF e
    <3>4. Kept(g, f)
      BY <1>3 DEF Kept, IsRecord, FrameFields
    <3>5. g.pc = "cache_channel" /\ g.ret = "drop_topic"
      BY <1>3 DEF IsRecord, FrameFields
    <3>. HIDE DEF g
    <3>6. g.ret \in EditRets
      BY <3>5 DEF EditRets
    <3>. QED BY <1>1, <1>2, <3>1, <3>3, <3>4, <3>5, <3>6, StatementKeeps DEF f, Kept
  <2>. QED BY <1>6, <1>9, <2>1 DEF RemoveChannel, f
<1>. QED BY <1>7, <1>8, <1>9

-----------------------------------------------------------------------------
(* The service.                                                            *)

\* A method returns, and may have changed a cache.
LEMMA ReturnKeeps ==
    ASSUME HubsInv, NEW w \in DOMAIN worker, worker[w].pc \in LoadPcs \cup LookPcs \cup EditPcs,
           NEW s, NEW found, Return(w, s, found),
           s = NoSnapshot \/ SnapOK(worker[w].hub, s, db, past),
           worker[w].ret = "member" /\ s = NoSnapshot => worker[w].hub \notin DOMAIN db.hubs,
           CachesOK(hubCache', channelCache', db, past), UNCHANGED <<tables, links>>
    PROVE  HubsInv'
<1>. DEFINE f == worker[w]
            g == [f EXCEPT !.pc = f.ret, !.snap = s, !.found = found, !.rows = EmptyMap, !.pend = EmptyMap]
<1>1. worker[w].pc # "idle"
  BY DEF LoadPcs, LookPcs, EditPcs, Reading, Putting
<1>2. FrameOK(f, db, past) /\ IsRecord(f, FrameFields)
  BY <1>1, Active
<1>3. Goto(w, g)
  BY DEF Return
<1>. HIDE DEF f
<1>4. IsRecord(g, FrameFields) /\ g.cmd = f.cmd /\ g.hub = f.hub
  BY <1>2 DEF IsRecord, FrameFields
<1>5. g.ret = f.ret /\ g.pc = f.ret /\ g.snap = s
  BY <1>2 DEF IsRecord, FrameFields
<1>6. g.rows = EmptyMap /\ g.pend = EmptyMap
  BY <1>2 DEF IsRecord, FrameFields
<1>. HIDE DEF g
<1>7. DOMAIN g.rows = {} /\ DOMAIN g.pend = {}
  BY <1>6, MapFacts
<1>8. g.snap = NoSnapshot \/ SnapOK(g.hub, g.snap, db, past)
  BY <1>4, <1>5 DEF f
<1>9. g.pc = "member" /\ g.snap = NoSnapshot => g.hub \notin DOMAIN db.hubs
  BY <1>4, <1>5 DEF f
<1>10. f.pc \in LoadPcs \cup LookPcs \cup EditPcs
  BY DEF f
<1>11. g.pc = "idle" \/ FrameOK(g, db, past)
  BY <1>2, <1>4, <1>5, <1>7, <1>8, <1>9, <1>10, ReturnsOK
<1>. QED BY <1>3, <1>11, CacheKeeps

\* loadSnapshot answers what is cached, and nothing only when the hub is gone.
LEMMA LoadKeeps ==
    ASSUME HubsInv, NEW w \in DOMAIN worker, LoadSnapshot(w) \/ GetHub(w), UNCHANGED redis
    PROVE  HubsInv'
<1>. DEFINE f == worker[w]
<1>1. f.pc \in LoadPcs /\ f.pc # "idle"
  BY DEF LoadSnapshot, GetHub, At, LoadPcs
<1>2. UNCHANGED <<tables, caches, links>>
  BY DEF LoadSnapshot, GetHub, redis
<1>3. FrameOK(f, db, past) /\ IsRecord(f, FrameFields)
  BY <1>1, Active
<1>4. LinksOK(links', db) /\ CachesOK(hubCache, channelCache, db, past)
      /\ CachesOK(hubCache', channelCache', db, past) /\ TablesOK(db)
  BY <1>2 DEF HubsInv, caches
<1>5. CASE LoadSnapshot(w)
  <2>1. ASSUME f.hub \in DOMAIN hubCache, Return(w, hubCache[f.hub], EmptyMap) PROVE HubsInv'
    <3>1. SnapOK(f.hub, hubCache[f.hub], db, past)
      BY <1>4, <2>1 DEF CachesOK
    <3>2. hubCache[f.hub] # NoSnapshot
      BY <3>1, SnapshotAssumption DEF SnapOK
    <3>. QED BY <1>1, <1>2, <1>4, <2>1, <3>1, <3>2, ReturnKeeps
  <2>2. ASSUME Proceed(w, "get_hub") PROVE HubsInv'
    <3>. DEFINE g == [f EXCEPT !.pc = "get_hub"]
    <3>1. Goto(w, g)
      BY <2>2 DEF Proceed
    <3>2. f.pc = "load"
      BY <1>5 DEF LoadSnapshot, At
    <3>. HIDE DEF f
    <3>3. Kept(g, f)
      BY <1>3 DEF Kept, IsRecord, FrameFields
    <3>4. g.pc = "get_hub" /\ g.ret = f.ret
      BY <1>3 DEF IsRecord, FrameFields
    <3>. HIDE DEF g
    <3>5. Returns(g)
      BY <1>1, <1>3, <3>4 DEF FrameOK, Returns, LoadPcs, LookPcs, EditPcs
    <3>6. RowsOK(g, db, past) /\ PendOK(g, past)
      BY <1>3, <3>3, <3>4 DEF FrameOK, RowsOK, PendOK, Kept, Reading, Putting
    <3>7. HoldsSnap(g, db, past) /\ MayWrite(g, db)
      BY <1>3, <3>3, <3>4 DEF FrameOK, HoldsSnap, MayWrite, Kept, LoadPcs
    <3>8. FrameOK(g, db, past)
      BY <1>3, <3>3, <3>4, <3>5, <3>6, <3>7 DEF FrameOK, Kept
    <3>. QED BY <1>2, <1>4, <3>1, <3>8, GotoKeeps
  <2>. QED BY <1>5, <2>1, <2>2 DEF LoadSnapshot
<1>6. CASE GetHub(w)
  <2>1. ASSUME f.hub \notin DOMAIN db.hubs, Return(w, NoSnapshot, EmptyMap) PROVE HubsInv'
    BY <1>1, <1>2, <1>4, <2>1, ReturnKeeps
  <2>2. ASSUME f.hub \in DOMAIN db.hubs,
               Goto(w, [f EXCEPT !.pc = "get_channels", !.rows = BlankSnapshots(RowsOf(db, {f.hub}))])
        PROVE  HubsInv'
    <3>. DEFINE rows == BlankSnapshots(RowsOf(db, {f.hub}))
                g == [f EXCEPT !.pc = "get_channels", !.rows = rows]
    <3>1. Goto(w, g)
      BY <2>2
    <3>. HIDE DEF f
    <3>2. DOMAIN rows = {f.hub} /\ rows[f.hub] = BlankSnapshot(db.hubs[f.hub])
      <4>1. DOMAIN RowsOf(db, {f.hub}) = {f.hub} /\ RowsOf(db, {f.hub})[f.hub] = db.hubs[f.hub]
        BY <2>2 DEF RowsOf, Restrict
      <4>. QED BY <4>1 DEF BlankSnapshots
    <3>3. /\ f.hub \in db.issued /\ db.hubs[f.hub].owner \in Users
          /\ db.hubs[f.hub].name \in Names /\ db.hubs[f.hub].seed \in Names
      BY SMT, <1>4, <2>2 DEF TablesOK, HubType
    <3>4. rows[f.hub] \in Snapshots
      BY <3>2, <3>3, BlankOK
    <3>. HIDE DEF rows
    <3>5. IsRecord(g, FrameFields) /\ g.cmd = f.cmd /\ g.hub = f.hub /\ g.pend = f.pend
      BY <1>3 DEF IsRecord, FrameFields
    <3>6. g.pc = "get_channels" /\ g.ret = f.ret /\ g.rows = rows
      BY <1>3 DEF IsRecord, FrameFields
    <3>. HIDE DEF g
    <3>7. Returns(g)
      BY <1>1, <1>3, <3>6 DEF FrameOK, Returns, LoadPcs, Reading, LookPcs, EditPcs
    <3>8. RowsOK(g, db, past) /\ PendOK(g, past)
      BY <1>3, <3>2, <3>3, <3>4, <3>5, <3>6 DEF FrameOK, RowsOK, PendOK, Putting
    <3>9. HoldsSnap(g, db, past) /\ MayWrite(g, db)
      BY <1>3, <3>5, <3>6 DEF FrameOK, HoldsSnap, MayWrite, LoadPcs, Reading
    <3>10. FrameOK(g, db, past)
      BY <1>3, <3>5, <3>6, <3>7, <3>8, <3>9 DEF FrameOK
    <3>. QED BY <1>2, <1>4, <3>1, <3>10, GotoKeeps
  <2>. QED BY <1>6, <2>1, <2>2 DEF GetHub
<1>. QED BY <1>5, <1>6

\* The rows that a query answers were in the tables.
LEMMA ReadOK ==
    ASSUME TablesOK(db), PastOK(db, past), NEW cs
    PROVE  \A c \in DOMAIN ChannelRows(db, cs) : c \in Channels /\ <<c, ChannelRows(db, cs)[c]>> \in past
<1>1. DOMAIN ChannelRows(db, cs) = cs \cap DOMAIN db.channels
      /\ \A c \in cs \cap DOMAIN db.channels : ChannelRows(db, cs)[c] = db.channels[c]
  BY DEF ChannelRows, Restrict
<1>2. \A c \in DOMAIN db.channels : c \in Channels /\ <<c, db.channels[c]>> \in past
  BY DEF TablesOK, PastOK, Rows
<1>. QED BY <1>1, <1>2

\* Roles as they are in the tables name the owner.
LEMMA RolesOK ==
    ASSUME TablesOK(db), PastOK(db, past), NEW h \in db.issued, NEW s, s \in Snapshots, s.roles = RolesIn(db, h)
    PROVE  SnapOK(h, s, db, past)
<1>1. DOMAIN s.roles = MembersOf(db, h) /\ \A u \in MembersOf(db, h) : s.roles[u] = db.members[<<h, u>>]
  BY DEF RolesIn
<1>2. ASSUME NEW u \in DOMAIN s.roles PROVE <<<<h, u>>, s.roles[u]>> \in past
  <2>1. <<h, u>> \in DOMAIN db.members /\ s.roles[u] = db.members[<<h, u>>]
    BY <1>1, <1>2 DEF MembersOf
  <2>2. <<<<h, u>>, db.members[<<h, u>>]>> \in past
    BY <2>1 DEF PastOK, Rows
  <2>. QED BY <2>1, <2>2
<1>3. ASSUME h \in DOMAIN db.hubs
      PROVE  db.hubs[h].owner \in DOMAIN s.roles /\ s.roles[db.hubs[h].owner] = "OWNER"
  <2>1. Owned(db, h) /\ db.hubs[h].owner \in Users
    BY <1>3 DEF TablesOK, HubType
  <2>. QED BY <1>1, <2>1 DEF Owned, MembersOf
<1>. QED BY <1>2, <1>3 DEF SnapOK

\* Reading channels and roles for the snapshots that are built.
LEMMA ReadKeeps ==
    ASSUME HubsInv, NEW w \in DOMAIN worker, GetChannels(w) \/ GetRoles(w), UNCHANGED redis
    PROVE  HubsInv'
<1>. DEFINE f == worker[w]
<1>1. f.pc \in {"get_channels", "get_roles"} /\ f.pc # "idle"
  BY DEF GetChannels, GetRoles, At
<1>2. UNCHANGED <<tables, caches, links>>
  BY DEF GetChannels, GetRoles, redis
<1>3. FrameOK(f, db, past) /\ IsRecord(f, FrameFields)
  BY <1>1, Active
<1>4. LinksOK(links', db) /\ TablesOK(db) /\ PastOK(db, past)
  BY <1>2 DEF HubsInv
<1>5. f.ret \in LoadRets /\ (f.ret # "topology" => f.hub \in DOMAIN f.rows)
  BY <1>1, <1>3 DEF FrameOK, Returns, RowsOK, LoadPcs, Reading
<1>6. ASSUME NEW g, Goto(w, g), IsRecord(g, FrameFields), g.cmd = f.cmd, g.hub = f.hub, g.ret = f.ret,
             g.pc \in {"get_roles", "put_channels", "put_snapshots"}, DOMAIN g.rows = DOMAIN f.rows,
             \A h \in DOMAIN g.rows : /\ g.rows[h] \in Snapshots /\ h \in db.issued
                                      /\ g.pc \in Putting => SnapOK(h, g.rows[h], db, past),
             \A c \in DOMAIN g.pend : c \in Channels /\ <<c, g.pend[c]>> \in past
      PROVE  HubsInv'
  <2>. HIDE DEF f
  <2>1. g.pc \in LoadPcs /\ g.pc \notin LookPcs \cup EditPcs /\ g.pc # "idle" /\ g.pc # "invalidate"
    BY <1>6 DEF LoadPcs, Reading, Putting, LookPcs, EditPcs
  <2>2. Returns(g) /\ RowsOK(g, db, past)
    BY <1>5, <1>6, <2>1 DEF Returns, RowsOK
  <2>3. PendOK(g, past)
    BY <1>6 DEF PendOK
  <2>4. HoldsSnap(g, db, past) /\ MayWrite(g, db)
    BY <1>3, <1>6, <2>1 DEF FrameOK, HoldsSnap, MayWrite
  <2>5. FrameOK(g, db, past)
    BY <1>3, <1>6, <2>1, <2>2, <2>3, <2>4 DEF FrameOK
  <2>. QED BY <1>2, <1>4, <1>6, <2>5, GotoKeeps
<1>7. CASE GetChannels(w)
  <2>. DEFINE rows == [h \in DOMAIN f.rows |-> [f.rows[h] EXCEPT !.channels = ChannelsOf(db, h)]]
              cs   == UNION {ChannelsOf(db, h) : h \in DOMAIN f.rows}
              pend == IF f.full THEN ChannelRows(db, cs) ELSE EmptyMap
              g    == [f EXCEPT !.pc = "get_roles", !.rows = rows, !.pend = pend]
  <2>1. Goto(w, g)
    BY <1>7 DEF GetChannels
  <2>2. \A h \in DOMAIN f.rows : f.rows[h] \in Snapshots /\ h \in db.issued
    BY <1>3 DEF FrameOK, RowsOK
  <2>. HIDE DEF f, cs
  <2>3. \A h : ChannelsOf(db, h) \subseteq Channels
    BY <1>4 DEF ChannelsOf, TablesOK
  <2>4. ASSUME NEW h \in DOMAIN f.rows PROVE [f.rows[h] EXCEPT !.channels = ChannelsOf(db, h)] \in Snapshots
    <3>1. f.rows[h] \in Snapshots /\ ChannelsOf(db, h) \in SUBSET Channels
      BY <2>2, <2>3
    <3>. QED BY SMT, <3>1 DEF Snapshots
  <2>5. DOMAIN rows = DOMAIN f.rows /\ \A h \in DOMAIN rows : rows[h] \in Snapshots /\ h \in db.issued
    BY <2>2, <2>4
  <2>6. \A c \in DOMAIN pend : c \in Channels /\ <<c, pend[c]>> \in past
    BY <1>4, ReadOK, MapFacts
  <2>. HIDE DEF rows, pend
  <2>7. IsRecord(g, FrameFields) /\ g.cmd = f.cmd /\ g.hub = f.hub /\ g.ret = f.ret
    BY <1>3 DEF IsRecord, FrameFields
  <2>8. g.pc = "get_roles" /\ g.rows = rows /\ g.pend = pend
    BY <1>3 DEF IsRecord, FrameFields
  <2>. HIDE DEF g
  <2>9. g.pc \in {"get_roles", "put_channels", "put_snapshots"} /\ g.pc \notin Putting
    BY <2>8 DEF Putting
  <2>. QED BY <1>6, <2>1, <2>5, <2>6, <2>7, <2>8, <2>9
<1>8. CASE GetRoles(w)
  <2>. DEFINE rows == [h \in DOMAIN f.rows |-> [f.rows[h] EXCEPT !.roles = RolesIn(db, h)]]
              pc   == IF f.full THEN "put_channels" ELSE "put_snapshots"
              g    == [f EXCEPT !.pc = pc, !.rows = rows]
  <2>1. Goto(w, g)
    BY <1>8 DEF GetRoles
  <2>2. \A h \in DOMAIN f.rows : f.rows[h] \in Snapshots /\ h \in db.issued
    BY <1>3 DEF FrameOK, RowsOK
  <2>. HIDE DEF f
  <2>3. ASSUME NEW h PROVE RolesIn(db, h) \in UNION {[us -> Roles] : us \in SUBSET Users}
    <3>1. IsMap(RolesIn(db, h)) /\ DOMAIN RolesIn(db, h) \subseteq Users
      BY DEF IsMap, RolesIn, MembersOf
    <3>2. \A u \in DOMAIN RolesIn(db, h) : RolesIn(db, h)[u] \in Roles
      BY <1>4 DEF RolesIn, MembersOf, TablesOK
    <3>. QED BY <3>1, <3>2, RolesType
  <2>4. ASSUME NEW h \in DOMAIN f.rows
        PROVE  LET s == [f.rows[h] EXCEPT !.roles = RolesIn(db, h)]
               IN  s \in Snapshots /\ s.roles = RolesIn(db, h)
    <3>1. f.rows[h] \in Snapshots
      BY <2>2
    <3>. QED BY SMT, <2>3, <3>1 DEF Snapshots
  <2>5. DOMAIN rows = DOMAIN f.rows
        /\ \A h \in DOMAIN rows : rows[h] \in Snapshots /\ h \in db.issued /\ SnapOK(h, rows[h], db, past)
    BY <1>4, <2>2, <2>4, RolesOK
  <2>6. pc \in {"get_roles", "put_channels", "put_snapshots"}
    OBVIOUS
  <2>. HIDE DEF rows, pc
  <2>7. IsRecord(g, FrameFields) /\ g.cmd = f.cmd /\ g.hub = f.hub /\ g.ret = f.ret
    BY <1>3 DEF IsRecord, FrameFields
  <2>8. g.pc = pc /\ g.rows = rows /\ g.pend = f.pend
    BY <1>3 DEF IsRecord, FrameFields
  <2>. HIDE DEF g
  <2>9. \A c \in DOMAIN g.pend : c \in Channels /\ <<c, g.pend[c]>> \in past
    BY <1>3, <2>8 DEF FrameOK, PendOK
  <2>. QED BY <1>6, <2>1, <2>5, <2>6, <2>7, <2>8, <2>9
<1>. QED BY <1>7, <1>8

\* What is put into a cache is in order there.
LEMMA CachesPut ==
    ASSUME CachesOK(hubCache, channelCache, db, past)
    PROVE  /\ \A m : (\A c \in DOMAIN m : c \in Channels /\ <<c, m[c]>> \in past) =>
                     CachesOK(hubCache, PutAll(channelCache, m), db, past)
           /\ \A m : (\A h \in DOMAIN m : SnapOK(h, m[h], db, past)) =>
                     CachesOK(PutAll(hubCache, m), channelCache, db, past)
           /\ \A h, s : SnapOK(h, s, db, past) => CachesOK(Put(hubCache, h, s), channelCache, db, past)
           /\ \A h : CachesOK(Erase(hubCache, h), channelCache, db, past)
           /\ \A c : CachesOK(hubCache, Erase(channelCache, c), db, past)
           /\ \A S : CachesOK(hubCache, Restrict(channelCache, DOMAIN channelCache \ S), db, past)
<1>1. ASSUME NEW m, \A c \in DOMAIN m : c \in Channels /\ <<c, m[c]>> \in past
      PROVE  CachesOK(hubCache, PutAll(channelCache, m), db, past)
  BY <1>1 DEF CachesOK, PutAll
<1>2. ASSUME NEW m, \A h \in DOMAIN m : SnapOK(h, m[h], db, past)
      PROVE  CachesOK(PutAll(hubCache, m), channelCache, db, past)
  BY <1>2 DEF CachesOK, PutAll
<1>3. ASSUME NEW h, NEW s, SnapOK(h, s, db, past) PROVE CachesOK(Put(hubCache, h, s), channelCache, db, past)
  BY <1>3 DEF CachesOK, Put
<1>4. ASSUME NEW h PROVE CachesOK(Erase(hubCache, h), channelCache, db, past)
  BY DEF CachesOK, Erase, Restrict
<1>5. ASSUME NEW c PROVE CachesOK(hubCache, Erase(channelCache, c), db, past)
  BY DEF CachesOK, Erase, Restrict
<1>6. ASSUME NEW S PROVE CachesOK(hubCache, Restrict(channelCache, DOMAIN channelCache \ S), db, past)
  BY DEF CachesOK, Restrict
<1>. QED BY <1>1, <1>2, <1>3, <1>4, <1>5, <1>6

\* What was read goes into the caches.
LEMMA PutKeeps ==
    ASSUME HubsInv, NEW w \in DOMAIN worker, PutChannels(w) \/ PutSnapshots(w), UNCHANGED redis
    PROVE  HubsInv'
<1>. DEFINE f == worker[w]
<1>1. f.pc \in Putting /\ f.pc \in LoadPcs /\ f.pc # "idle"
  BY DEF PutChannels, PutSnapshots, At, Putting, LoadPcs, Reading
<1>2. UNCHANGED <<tables, links>>
  BY DEF PutChannels, PutSnapshots, redis
<1>3. FrameOK(f, db, past) /\ IsRecord(f, FrameFields)
  BY <1>1, Active
<1>4. CachesOK(hubCache, channelCache, db, past)
  BY DEF HubsInv
<1>5. CASE PutChannels(w)
  <2>. DEFINE g == [f EXCEPT !.pc = "put_snapshots"]
  <2>1. Goto(w, g) /\ channelCache' = PutAll(channelCache, f.pend) /\ hubCache' = hubCache
    BY <1>5 DEF PutChannels, Proceed
  <2>2. CachesOK(hubCache', channelCache', db, past)
    <3>1. \A c \in DOMAIN f.pend : c \in Channels /\ <<c, f.pend[c]>> \in past
      BY <1>3 DEF FrameOK, PendOK
    <3>2. CachesOK(hubCache, PutAll(channelCache, f.pend), db, past)
      BY <1>4, <3>1, CachesPut
    <3>. QED BY <2>1, <3>2
  <2>. HIDE DEF f
  <2>3. Kept(g, f)
    BY <1>3 DEF Kept, IsRecord, FrameFields
  <2>4. g.pc = "put_snapshots" /\ g.ret = f.ret
    BY <1>3 DEF IsRecord, FrameFields
  <2>. HIDE DEF g
  <2>5. g.pc \in Putting /\ g.pc \in LoadPcs /\ g.pc \in Reading /\ f.pc \in Reading
    BY <1>1, <2>4 DEF Putting, LoadPcs, Reading
  <2>6. Returns(g)
    BY <1>1, <1>3, <2>4 DEF FrameOK, Returns, LookPcs, EditPcs
  <2>7. RowsOK(g, db, past) /\ PendOK(g, past)
    BY <1>1, <1>3, <2>3, <2>4, <2>5 DEF FrameOK, RowsOK, PendOK, Kept
  <2>8. HoldsSnap(g, db, past) /\ MayWrite(g, db)
    BY <1>3, <2>3, <2>4, <2>5 DEF FrameOK, HoldsSnap, MayWrite, Kept
  <2>9. FrameOK(g, db, past)
    BY <1>3, <2>3, <2>4, <2>6, <2>7, <2>8 DEF FrameOK, Kept
  <2>. QED BY <1>2, <2>1, <2>2, <2>9, CacheKeeps
<1>6. CASE PutSnapshots(w)
  <2>. DEFINE s == IF f.hub \in DOMAIN f.rows THEN f.rows[f.hub] ELSE NoSnapshot
  <2>1. Return(w, s, EmptyMap) /\ hubCache' = PutAll(hubCache, f.rows) /\ channelCache' = channelCache
    BY <1>6 DEF PutSnapshots
  <2>2. \A h \in DOMAIN f.rows : SnapOK(h, f.rows[h], db, past)
    BY <1>1, <1>3 DEF FrameOK, RowsOK
  <2>3. CachesOK(hubCache', channelCache', db, past)
    <3>1. CachesOK(PutAll(hubCache, f.rows), channelCache, db, past)
      BY <1>4, <2>2, CachesPut
    <3>. QED BY <2>1, <3>1
  <2>4. s = NoSnapshot \/ SnapOK(f.hub, s, db, past)
    BY <2>2
  <2>5. f.ret = "member" => s # NoSnapshot
    <3>1. f.ret = "member" => f.hub \in DOMAIN f.rows
      BY <1>1, <1>3 DEF FrameOK, RowsOK, Reading
    <3>2. \A h \in DOMAIN f.rows : f.rows[h] # NoSnapshot
      BY <2>2, SnapshotAssumption DEF SnapOK
    <3>. QED BY <3>1, <3>2
  <2>. HIDE DEF s
  <2>. QED BY <1>1, <1>2, <2>1, <2>3, <2>4, <2>5, ReturnKeeps
<1>. QED BY <1>5, <1>6

\* getChannel and getChannelsByIds.
LEMMA LookKeeps ==
    ASSUME HubsInv, NEW w \in DOMAIN worker, LookUpChannels(w) \/ GetChannelRows(w) \/ KeepChannelRows(w), UNCHANGED redis
    PROVE  HubsInv'
<1>. DEFINE f == worker[w]
<1>1. f.pc \in LookPcs /\ f.pc \notin LoadPcs /\ f.pc # "idle"
  BY DEF LookUpChannels, GetChannelRows, KeepChannelRows, At, LookPcs, LoadPcs, Reading, Putting
<1>2. UNCHANGED <<tables, links>>
  BY DEF LookUpChannels, GetChannelRows, KeepChannelRows, redis
<1>3. FrameOK(f, db, past) /\ IsRecord(f, FrameFields)
  BY <1>1, Active
<1>4. CachesOK(hubCache, channelCache, db, past) /\ LinksOK(links', db) /\ TablesOK(db) /\ PastOK(db, past)
  BY <1>2 DEF HubsInv
<1>5. f.snap = NoSnapshot \/ SnapOK(f.hub, f.snap, db, past)
  BY <1>1, <1>3 DEF FrameOK, HoldsSnap
<1>6. f.ret \in LookRets /\ f.ret # "member"
  BY <1>1, <1>3 DEF FrameOK, Returns, LookRets
<1>7. f.ret = "voice" => Safe(f.hub, f.cmd.who, db)
  BY <1>3 DEF FrameOK, MayWrite
<1>8. \A c \in DOMAIN f.pend : c \in Channels /\ <<c, f.pend[c]>> \in past
  BY <1>3 DEF FrameOK, PendOK
<1>9. CASE LookUpChannels(w)
  <2>1. UNCHANGED caches /\ CachesOK(hubCache', channelCache', db, past)
    BY <1>4, <1>9 DEF LookUpChannels, caches
  <2>2. ASSUME NEW hits, Return(w, f.snap, hits) PROVE HubsInv'
    BY <1>1, <1>2, <1>5, <1>6, <2>1, <2>2, ReturnKeeps
  <2>3. ASSUME NEW hits, Goto(w, [f EXCEPT !.pc = "get_rows", !.found = hits]) PROVE HubsInv'
    <3>. DEFINE g == [f EXCEPT !.pc = "get_rows", !.found = hits]
    <3>1. Goto(w, g)
      BY <2>3
    <3>. HIDE DEF f
    <3>2. Kept(g, f)
      BY <1>3 DEF Kept, IsRecord, FrameFields
    <3>3. g.pc = "get_rows" /\ g.ret = f.ret
      BY <1>3 DEF IsRecord, FrameFields
    <3>. HIDE DEF g
    <3>4. g.pc \in LookPcs
      BY <3>3 DEF LookPcs
    <3>5. \A c \in DOMAIN g.pend : c \in Channels /\ <<c, g.pend[c]>> \in past
      BY <1>8, <3>2 DEF Kept
    <3>6. FrameOK(g, db, past)
      BY <1>1, <1>3, <1>6, <1>7, <3>2, <3>3, <3>4, <3>5, Looks DEF Kept
    <3>. QED BY <1>2, <1>4, <2>1, <3>1, <3>6, GotoKeeps
  <2>. QED BY <1>9, <2>2, <2>3 DEF LookUpChannels
<1>10. CASE GetChannelRows(w)
  <2>. DEFINE read == ChannelRows(db, f.ids \ DOMAIN f.found)
              g    == [f EXCEPT !.pc = "keep_rows", !.pend = read]
  <2>1. Goto(w, g) /\ UNCHANGED caches
    BY <1>10 DEF GetChannelRows
  <2>2. \A c \in DOMAIN read : c \in Channels /\ <<c, read[c]>> \in past
    BY <1>4, ReadOK
  <2>. HIDE DEF f, read
  <2>3. IsRecord(g, FrameFields) /\ g.cmd = f.cmd /\ g.hub = f.hub /\ g.snap = f.snap
    BY <1>3 DEF IsRecord, FrameFields
  <2>4. g.rows = f.rows /\ g.pend = read /\ g.pc = "keep_rows" /\ g.ret = f.ret
    BY <1>3 DEF IsRecord, FrameFields
  <2>. HIDE DEF g
  <2>5. g.pc \in LookPcs /\ \A c \in DOMAIN g.pend : c \in Channels /\ <<c, g.pend[c]>> \in past
    BY <2>2, <2>4 DEF LookPcs
  <2>6. FrameOK(g, db, past)
    BY <1>1, <1>3, <1>6, <1>7, <2>3, <2>4, <2>5, Looks
  <2>. QED BY <1>2, <1>4, <2>1, <2>6, GotoKeeps
<1>11. CASE KeepChannelRows(w)
  <2>1. Return(w, f.snap, PutAll(f.found, f.pend)) /\ channelCache' = PutAll(channelCache, f.pend) /\ hubCache' = hubCache
    BY <1>11 DEF KeepChannelRows
  <2>2. CachesOK(hubCache, PutAll(channelCache, f.pend), db, past)
    BY <1>4, <1>8, CachesPut
  <2>3. CachesOK(hubCache', channelCache', db, past)
    BY <2>1, <2>2
  <2>. QED BY <1>1, <1>2, <1>5, <1>6, <2>1, <2>3, ReturnKeeps
<1>. QED BY <1>9, <1>10, <1>11

\* invalidateHubCaches, and deleteHub's channels.
LEMMA InvalidateKeeps ==
    ASSUME HubsInv, NEW w \in DOMAIN worker, InvalidateHub(w) \/ InvalidateChannels(w), UNCHANGED redis
    PROVE  HubsInv'
<1>. DEFINE f == worker[w]
<1>1. f.pc \notin LoadPcs /\ f.pc # "idle"
  BY DEF InvalidateHub, InvalidateChannels, At, LoadPcs, Reading, Putting
<1>2. UNCHANGED <<tables, links>>
  BY DEF InvalidateHub, InvalidateChannels, redis
<1>3. FrameOK(f, db, past) /\ IsRecord(f, FrameFields)
  BY <1>1, Active
<1>4. CachesOK(hubCache', channelCache', db, past)
  <2>1. CachesOK(hubCache, channelCache, db, past)
    BY DEF HubsInv
  <2>2. \/ hubCache' = Erase(hubCache, f.hub) /\ channelCache' = channelCache
        \/ hubCache' = hubCache /\ channelCache' = Restrict(channelCache, DOMAIN channelCache \ f.ids)
    BY DEF InvalidateHub, InvalidateChannels
  <2>3. /\ CachesOK(Erase(hubCache, f.hub), channelCache, db, past)
        /\ CachesOK(hubCache, Restrict(channelCache, DOMAIN channelCache \ f.ids), db, past)
    BY <2>1, CachesPut
  <2>. QED BY <2>2, <2>3
<1>5. PICK pc : Proceed(w, pc) /\ pc \in Plain \cup {"idle"}
  <2>1. f.pc = "invalidate" => f.ret \in Plain \cup {"idle"}
    BY <1>3 DEF FrameOK, Returns, HubRets, Plain
  <2>2. "revoke" \in Plain
    BY DEF Plain
  <2>. QED BY <2>1, <2>2 DEF InvalidateHub, InvalidateChannels, At
<1>. DEFINE g == [f EXCEPT !.pc = pc]
<1>6. Goto(w, g)
  BY <1>5 DEF Proceed
<1>. HIDE DEF f
<1>7. Kept(g, f)
  BY <1>3 DEF Kept, IsRecord, FrameFields
<1>8. g.pc = pc /\ g.ret = f.ret
  BY <1>3 DEF IsRecord, FrameFields
<1>. HIDE DEF g
<1>9. Goes(f, g)
  BY <1>5, <1>7, <1>8 DEF Goes
<1>10. g.pc = "idle" \/ FrameOK(g, db, past)
  BY <1>1, <1>3, <1>9, GoesOK
<1>. QED BY <1>2, <1>4, <1>6, <1>10, CacheKeeps

\* A copy of a cached channel under the new name is a row that there was.
LEMMA RenamedOK ==
    ASSUME PastOK(db, past), NEW c \in Channels, NEW r, <<c, r>> \in past, NEW s, <<c, s>> \in past, NEW n, s.name = n
    PROVE  <<c, [r EXCEPT !.name = n]>> \in past
<1>1. r \in ChannelType /\ s \in ChannelType /\ r.hub = s.hub /\ r.type = s.type
  BY DEF PastOK
<1>2. [r EXCEPT !.name = n] = s
  BY SMT, <1>1 DEF ChannelType
<1>. QED BY <1>2

\* createChannel, deleteChannel and renameChannel edit the caches.
LEMMA EditKeeps ==
    ASSUME HubsInv, NEW w \in DOMAIN worker,
           CacheChannel(w) \/ CopySnapshot(w) \/ PutCopy(w) \/ CopyChannel(w) \/ PutChannel(w), UNCHANGED redis
    PROVE  HubsInv'
<1>. DEFINE f == worker[w]
<1>1. f.pc \in EditPcs /\ f.pc \notin LoadPcs /\ f.pc # "idle"
  BY DEF CacheChannel, CopySnapshot, PutCopy, CopyChannel, PutChannel, At, EditPcs, LoadPcs, Reading, Putting
<1>2. UNCHANGED <<tables, links>>
  BY DEF CacheChannel, CopySnapshot, PutCopy, CopyChannel, PutChannel, redis
<1>3. FrameOK(f, db, past) /\ IsRecord(f, FrameFields)
  BY <1>1, Active
<1>4. CachesOK(hubCache, channelCache, db, past) /\ LinksOK(links', db) /\ TablesOK(db) /\ PastOK(db, past)
  BY <1>2 DEF HubsInv
<1>5. f.ret \in EditRets /\ f.ret # "member" /\ f.ret # "voice"
  BY <1>1, <1>3 DEF FrameOK, Returns, EditRets
<1>6. \A c \in DOMAIN f.pend : c \in Channels /\ <<c, f.pend[c]>> \in past
  BY <1>3 DEF FrameOK, PendOK
<1>7. ASSUME Return(w, NoSnapshot, EmptyMap), CachesOK(hubCache', channelCache', db, past) PROVE HubsInv'
  BY <1>1, <1>2, <1>5, <1>7, ReturnKeeps
<1>8. ASSUME NEW g, Goto(w, g), IsRecord(g, FrameFields), g.cmd = f.cmd, g.hub = f.hub, g.rows = f.rows, g.ret = f.ret,
             g.pc \in {"copy_snapshot", "put_copy", "put_channel"},
             (g.snap = NoSnapshot /\ g.pc # "put_copy") \/ SnapOK(f.hub, g.snap, db, past),
             \A c \in DOMAIN g.pend : c \in Channels /\ <<c, g.pend[c]>> \in past,
             CachesOK(hubCache', channelCache', db, past)
      PROVE  HubsInv'
  <2>. HIDE DEF f
  <2>1. /\ g.pc \notin LoadPcs \cup LookPcs /\ g.pc \in EditPcs /\ g.pc \notin Reading \cup Putting
        /\ g.pc \notin {"idle", "invalidate", "copy_channel"}
    BY <1>8 DEF LoadPcs, Reading, Putting, LookPcs, EditPcs
  <2>2. Returns(g) /\ RowsOK(g, db, past)
    BY <1>3, <1>5, <1>8, <2>1 DEF Returns, RowsOK, FrameOK
  <2>3. PendOK(g, past)
    BY <1>8, <2>1 DEF PendOK
  <2>4. HoldsSnap(g, db, past)
    <3>1. SnapOK(f.hub, g.snap, db, past) => g.snap # NoSnapshot
      BY SnapshotAssumption DEF SnapOK
    <3>. QED BY <1>8, <3>1 DEF HoldsSnap
  <2>5. MayWrite(g, db)
    BY <1>5, <1>8 DEF MayWrite
  <2>6. FrameOK(g, db, past)
    BY <1>3, <1>8, <2>1, <2>2, <2>3, <2>4, <2>5 DEF FrameOK
  <2>. QED BY <1>2, <1>8, <2>6, CacheKeeps
<1>9. CASE CacheChannel(w)
  <2>. DEFINE g == [f EXCEPT !.pc = "copy_snapshot"]
  <2>1. Goto(w, g) /\ hubCache' = hubCache
        /\ channelCache' \in {Erase(channelCache, f.cmd.ch), PutAll(channelCache, f.pend)}
    BY <1>9 DEF CacheChannel, Proceed
  <2>2. CachesOK(hubCache', channelCache', db, past)
    <3>1. /\ CachesOK(hubCache, Erase(channelCache, f.cmd.ch), db, past)
          /\ CachesOK(hubCache, PutAll(channelCache, f.pend), db, past)
      BY <1>4, <1>6, CachesPut
    <3>. QED BY <2>1, <3>1
  <2>3. f.pc = "cache_channel"
    BY <1>9 DEF CacheChannel, At
  <2>. HIDE DEF f
  <2>4. Kept(g, f)
    BY <1>3 DEF Kept, IsRecord, FrameFields
  <2>5. g.pc = "copy_snapshot" /\ g.ret = f.ret
    BY <1>3 DEF IsRecord, FrameFields
  <2>. HIDE DEF g
  <2>6. g.snap = NoSnapshot \/ SnapOK(f.hub, g.snap, db, past)
    BY <1>1, <1>3, <2>4 DEF FrameOK, HoldsSnap, Kept
  <2>7. \A c \in DOMAIN g.pend : c \in Channels /\ <<c, g.pend[c]>> \in past
    BY <1>6, <2>4 DEF Kept
  <2>8. g.pc \in {"copy_snapshot", "put_copy", "put_channel"} /\ g.pc # "put_copy"
    BY <2>5
  <2>. QED BY <1>8, <2>1, <2>2, <2>4, <2>5, <2>6, <2>7, <2>8 DEF Kept
<1>10. CASE CopySnapshot(w)
  <2>1. UNCHANGED caches /\ CachesOK(hubCache', channelCache', db, past)
    BY <1>4, <1>10 DEF CopySnapshot, caches
  <2>2. ASSUME f.hub \in DOMAIN hubCache, NEW cs \in SUBSET Channels,
               Goto(w, [f EXCEPT !.pc = "put_copy", !.snap = [hubCache[f.hub] EXCEPT !.channels = cs]])
        PROVE  HubsInv'
    <3>. DEFINE s == [hubCache[f.hub] EXCEPT !.channels = cs]
                g == [f EXCEPT !.pc = "put_copy", !.snap = s]
    <3>1. Goto(w, g)
      BY <2>2
    <3>2. SnapOK(f.hub, hubCache[f.hub], db, past) /\ hubCache[f.hub] \in Snapshots
      BY <1>4, <2>2 DEF CachesOK, SnapOK
    <3>3. s \in Snapshots /\ s.roles = hubCache[f.hub].roles
      BY SMT, <2>2, <3>2 DEF Snapshots
    <3>. HIDE DEF s
    <3>4. SnapOK(f.hub, s, db, past)
      BY <3>2, <3>3 DEF SnapOK
    <3>. HIDE DEF f
    <3>5. IsRecord(g, FrameFields) /\ g.cmd = f.cmd /\ g.hub = f.hub /\ g.rows = f.rows /\ g.pend = f.pend
      BY <1>3 DEF IsRecord, FrameFields
    <3>6. g.pc = "put_copy" /\ g.ret = f.ret /\ g.snap = s
      BY <1>3 DEF IsRecord, FrameFields
    <3>. HIDE DEF g
    <3>7. g.pc \in {"copy_snapshot", "put_copy", "put_channel"}
      BY <3>6
    <3>8. SnapOK(f.hub, g.snap, db, past) /\ \A c \in DOMAIN g.pend : c \in Channels /\ <<c, g.pend[c]>> \in past
      BY <1>6, <3>4, <3>5, <3>6
    <3>. QED BY <1>8, <2>1, <3>1, <3>5, <3>6, <3>7, <3>8
  <2>3. ASSUME f.hub \in DOMAIN hubCache
        PROVE  /\ hubCache[f.hub].channels \ {f.cmd.ch} \in SUBSET Channels
               /\ hubCache[f.hub].channels \cup DOMAIN f.pend \in SUBSET Channels
    <3>1. hubCache[f.hub] \in Snapshots
      BY <1>4, <2>3 DEF CachesOK, SnapOK
    <3>2. hubCache[f.hub].channels \subseteq Channels
      BY SMT, <3>1 DEF Snapshots
    <3>. QED BY <1>6, <3>2
  <2>. QED BY <1>7, <1>10, <2>1, <2>2, <2>3 DEF CopySnapshot
<1>11. CASE PutCopy(w)
  <2>1. Return(w, NoSnapshot, EmptyMap) /\ hubCache' = Put(hubCache, f.hub, f.snap) /\ channelCache' = channelCache
    BY <1>11 DEF PutCopy
  <2>2. SnapOK(f.hub, f.snap, db, past)
    BY <1>1, <1>3, <1>11 DEF PutCopy, At, FrameOK, HoldsSnap
  <2>3. CachesOK(Put(hubCache, f.hub, f.snap), channelCache, db, past)
    BY <1>4, <2>2, CachesPut
  <2>. QED BY <1>7, <2>1, <2>3
<1>12. CASE CopyChannel(w)
  <2>. DEFINE c == f.cmd.ch
              pend == IF c \in DOMAIN channelCache
                      THEN Put(EmptyMap, c, [channelCache[c] EXCEPT !.name = f.cmd.name]) ELSE EmptyMap
              g == [f EXCEPT !.pc = "put_channel", !.pend = pend]
  <2>1. Goto(w, g) /\ UNCHANGED caches
    BY <1>12 DEF CopyChannel
  <2>2. CachesOK(hubCache', channelCache', db, past)
    BY <1>4, <2>1 DEF caches
  <2>3. c \in Channels /\ \E s : <<c, s>> \in past /\ s.name = f.cmd.name
    BY <1>3, <1>12 DEF CopyChannel, At, FrameOK, PendOK
  <2>4. \A b \in DOMAIN pend : b \in Channels /\ <<b, pend[b]>> \in past
    <3>1. ASSUME c \in DOMAIN channelCache PROVE <<c, [channelCache[c] EXCEPT !.name = f.cmd.name]>> \in past
      <4>1. <<c, channelCache[c]>> \in past
        BY <1>4, <3>1 DEF CachesOK
      <4>. HIDE DEF c, f
      <4>. QED BY <1>4, <2>3, <4>1, RenamedOK
    <3>2. ASSUME NEW row PROVE DOMAIN Put(EmptyMap, c, row) = {c} /\ Put(EmptyMap, c, row)[c] = row
      BY DEF Put, EmptyMap
    <3>3. DOMAIN EmptyMap = {}
      BY MapFacts
    <3>. HIDE DEF c, f
    <3>. QED BY <2>3, <3>1, <3>2, <3>3
  <2>5. f.snap = NoSnapshot \/ SnapOK(f.hub, f.snap, db, past)
    BY <1>1, <1>3 DEF FrameOK, HoldsSnap
  <2>. HIDE DEF f, pend
  <2>6. IsRecord(g, FrameFields) /\ g.cmd = f.cmd /\ g.hub = f.hub /\ g.rows = f.rows /\ g.pend = pend
    BY <1>3 DEF IsRecord, FrameFields
  <2>7. g.pc = "put_channel" /\ g.ret = f.ret /\ g.snap = f.snap
    BY <1>3 DEF IsRecord, FrameFields
  <2>. HIDE DEF g
  <2>8. g.pc \in {"copy_snapshot", "put_copy", "put_channel"} /\ g.pc # "put_copy"
    BY <2>7
  <2>9. \A b \in DOMAIN g.pend : b \in Channels /\ <<b, g.pend[b]>> \in past
    BY <2>4, <2>6
  <2>10. g.snap = NoSnapshot \/ SnapOK(f.hub, g.snap, db, past)
    BY <2>5, <2>7
  <2>. QED BY <1>8, <2>1, <2>2, <2>6, <2>7, <2>8, <2>9, <2>10
<1>13. CASE PutChannel(w)
  <2>1. Return(w, NoSnapshot, EmptyMap) /\ hubCache' = hubCache
        /\ channelCache' \in {Erase(channelCache, f.cmd.ch), PutAll(channelCache, f.pend)}
    BY <1>13 DEF PutChannel
  <2>2. /\ CachesOK(hubCache, Erase(channelCache, f.cmd.ch), db, past)
        /\ CachesOK(hubCache, PutAll(channelCache, f.pend), db, past)
    BY <1>4, <1>6, CachesPut
  <2>3. CachesOK(hubCache', channelCache', db, past)
    BY <2>1, <2>2
  <2>. QED BY <1>7, <2>1, <2>3
<1>. QED BY <1>9, <1>10, <1>11, <1>12, <1>13

-----------------------------------------------------------------------------
(* Commands begin, and calls fail.                                         *)

\* The frame that a command starts with.
Begins(g, c) ==
    /\ IsRecord(g, FrameFields) /\ g.cmd = c /\ g.hub = c.hub
    /\ g.snap = NoSnapshot /\ g.rows = EmptyMap /\ g.pend = EmptyMap
    /\ \/ g.ret = "idle" /\ g.pc = "count_hubs" /\ c.op = "create_hub"
       \/ g.ret = "idle" /\ g.pc = "resolve" /\ c.op = "join"
       \/ g.ret = "idle" /\ g.pc = "user_hubs" /\ c.op = "sync"
       \/ g.ret = "found" /\ g.pc = "look_up" /\ c.op \in {"remove_channel", "rename_channel", "select"}
       \/ g.ret = "authorise" /\ g.pc = "load" /\ c.op # "select"

\* The first frame is one of these.
LEMMA FirstFrame == ASSUME NEW c PROVE Begins(FirstStep(c), c)
<1>. DEFINE f == Frame(c)
<1>1. IsRecord(f, FrameFields)
  BY DEF Frame, IsRecord, FrameFields
<1>2. /\ f.cmd = c /\ f.hub = c.hub /\ f.ret = "idle"
      /\ f.snap = NoSnapshot /\ f.rows = EmptyMap /\ f.pend = EmptyMap
  BY DEF Frame
<1>3. CASE c.op \in {"create_hub", "join", "sync"}
  <2>1. PICK pc : /\ FirstStep(c) = [f EXCEPT !.pc = pc]
                  /\ \/ pc = "count_hubs" /\ c.op = "create_hub"
                     \/ pc = "resolve" /\ c.op = "join"
                     \/ pc = "user_hubs" /\ c.op = "sync"
    BY SMT, <1>3 DEF FirstStep
  <2>. HIDE DEF f
  <2>. DEFINE g == [f EXCEPT !.pc = pc]
  <2>2. IsRecord(g, FrameFields) /\ g.cmd = f.cmd /\ g.hub = f.hub /\ g.snap = f.snap
    BY <1>1 DEF IsRecord, FrameFields
  <2>3. g.rows = f.rows /\ g.pend = f.pend /\ g.pc = pc /\ g.ret = f.ret
    BY <1>1 DEF IsRecord, FrameFields
  <2>. HIDE DEF g
  <2>4. Begins(g, c)
    BY <1>2, <2>1, <2>2, <2>3 DEF Begins
  <2>. QED BY <2>1, <2>4 DEF g
<1>4. CASE c.op \in {"remove_channel", "rename_channel", "select"}
  <2>. DEFINE g == [f EXCEPT !.pc = "look_up", !.ids = {c.ch}, !.ret = "found"]
  <2>1. FirstStep(c) = g
    BY SMT, <1>4 DEF FirstStep
  <2>. HIDE DEF f
  <2>2. IsRecord(g, FrameFields) /\ g.cmd = f.cmd /\ g.hub = f.hub /\ g.snap = f.snap
    BY <1>1 DEF IsRecord, FrameFields
  <2>3. g.rows = f.rows /\ g.pend = f.pend /\ g.pc = "look_up" /\ g.ret = "found"
    BY <1>1 DEF IsRecord, FrameFields
  <2>. HIDE DEF g
  <2>. QED BY <1>2, <1>4, <2>1, <2>2, <2>3 DEF Begins
<1>5. CASE c.op \notin {"create_hub", "join", "sync", "remove_channel", "rename_channel", "select"}
  <2>. DEFINE g == [f EXCEPT !.pc = "load", !.ret = "authorise"]
  <2>1. FirstStep(c) = g
    BY SMT, <1>5 DEF FirstStep
  <2>. HIDE DEF f
  <2>2. IsRecord(g, FrameFields) /\ g.cmd = f.cmd /\ g.hub = f.hub /\ g.snap = f.snap
    BY <1>1 DEF IsRecord, FrameFields
  <2>3. g.rows = f.rows /\ g.pend = f.pend /\ g.pc = "load" /\ g.ret = "authorise"
    BY <1>1 DEF IsRecord, FrameFields
  <2>. HIDE DEF g
  <2>. QED BY <1>2, <1>5, <2>1, <2>2, <2>3 DEF Begins
<1>. QED BY <1>3, <1>4, <1>5

\* A command comes from the queue with nothing in its hands.
LEMMA TakeKeeps ==
    ASSUME HubsInv, NEW w \in DOMAIN worker, Take(w)
    PROVE  HubsInv'
<1>1. PICK c \in Commands : Goto(w, FirstStep(c))
  BY DEF Take
<1>2. UNCHANGED <<tables, caches>> /\ LinksOK(links', db)
  BY DEF Take, redis, HubsInv
<1>. DEFINE g == FirstStep(c)
<1>3. Begins(g, c)
  BY FirstFrame
<1>. HIDE DEF g
<1>4. g.pc # "idle" /\ g.pc \notin Reading /\ g.pc \notin EditPcs /\ g.pc \notin {"invalidate", "copy_channel"}
  BY <1>3 DEF Begins, Reading, Putting, EditPcs
<1>5. Returns(g)
  BY <1>3, <1>4 DEF Begins, Returns, LoadPcs, LookPcs, LoadRets, LookRets, Reading, Putting
<1>6. RowsOK(g, db, past) /\ PendOK(g, past)
  BY <1>3, <1>4, MapFacts DEF Begins, RowsOK, PendOK
<1>7. HoldsSnap(g, db, past) /\ MayWrite(g, db)
  BY <1>3 DEF Begins, HoldsSnap, MayWrite
<1>8. FrameOK(g, db, past)
  BY <1>3, <1>4, <1>5, <1>6, <1>7 DEF Begins, FrameOK
<1>. QED BY <1>1, <1>2, <1>8, GotoKeeps DEF g

\* A failed call ends the command, or takes a kick to its last part.
LEMMA FailsKeeps ==
    ASSUME HubsInv, NEW w \in DOMAIN worker, CallFails(w)
    PROVE  HubsInv'
<1>1. worker[w].pc # "idle" /\ UNCHANGED <<tables, caches, links>>
  BY DEF CallFails, Statements, RedisCalls, redis
<1>2. LinksOK(links', db)
  BY <1>1 DEF HubsInv
<1>3. CASE Finish(w)
  <2>1. Goto(w, Idle) /\ Idle.pc = "idle"
    BY <1>3 DEF Finish, Idle
  <2>. QED BY <1>1, <1>2, <2>1, GotoKeeps
<1>4. CASE ~Finish(w)
  <2>1. \/ worker[w].pc \in RedisCalls /\ Proceed(w, "cut")
        \/ worker[w].pc \in {"count_channels", "insert_channel"} /\ Proceed(w, "subscribe")
    BY <1>4 DEF CallFails, AfterFailure
  <2>2. worker[w].pc \notin LoadPcs /\ {"cut", "subscribe"} \subseteq Plain
    BY <2>1 DEF RedisCalls, LoadPcs, Reading, Putting, Plain
  <2>3. GoOn(w)
    BY <1>1, <2>1, <2>2, GoingOn
  <2>. QED BY <1>1, <2>2, <2>3, GoesKeeps
<1>. QED BY <1>3, <1>4

-----------------------------------------------------------------------------
(* The beginning.                                                          *)

\* The tables that a run starts with are in order.
LEMMA StartOK ==
    ASSUME NEW x \in Configs
    PROVE  /\ TablesOK(StartStore(x)) /\ PastOK(StartStore(x), Rows(StartStore(x)))
           /\ x.hub \in Hubs /\ DOMAIN StartStore(x).hubs = {x.hub} /\ x.hub \in StartStore(x).issued
<1>. DEFINE h   == x.hub
            z   == EmptyStore
            d   == CreateHubRow(z, h, x.owner, "home")
            e   == CreateChannelRow(d, x.channel, h, "general", "text")
            new == [p \in {h} \X DOMAIN x.roles |-> x.roles[p[2]]]
            s   == StartStore(x)
<1>1. /\ h \in Hubs /\ x.channel \in Channels /\ x.owner \in Users
      /\ DOMAIN x.roles \subseteq Users \ {x.owner} /\ \A u \in DOMAIN x.roles : x.roles[u] \in Roles \ {"OWNER"}
  BY ConfigsAssumption
<1>2. "home" \in Names /\ "general" \in Names /\ "text" \in Names
  BY NamesAssumption
<1>3. IsRecord(z, {"hubs", "channels", "members", "issued"})
      /\ z.hubs = EmptyMap /\ z.channels = EmptyMap /\ z.members = EmptyMap /\ z.issued = {}
  BY DEF EmptyStore, IsRecord
<1>4. s = [e EXCEPT !.members = PutAll(@, new)]
  BY DEF StartStore
<1>. HIDE DEF z
<1>5. TablesOK(z)
  BY <1>3, MapFacts DEF TablesOK
<1>6. PastOK(z, {})
  BY <1>3, MapFacts DEF PastOK, Rows
<1>7. IsRecord(d, {"hubs", "channels", "members", "issued"})
      /\ DOMAIN d.hubs = {h} /\ d.hubs[h].owner = x.owner /\ d.issued = {h}
      /\ DOMAIN d.members = {<<h, x.owner>>} /\ d.members[<<h, x.owner>>] = "OWNER"
  BY <1>3 DEF CreateHubRow, WithOwnerMembership, IsRecord, Put, EmptyMap
<1>8. TablesOK(d)
  BY <1>1, <1>2, <1>3, <1>5, CreateHubChanges DEF Changes
<1>. HIDE DEF d
<1>9. x.channel \notin d.issued
  BY <1>1, <1>7, IdsAssumption
<1>10. TablesOK(e)
  BY <1>1, <1>2, <1>8, <1>9, CreateChannelChanges DEF Changes
<1>11. IsRecord(e, {"hubs", "channels", "members", "issued"})
       /\ e.hubs = d.hubs /\ e.members = d.members /\ e.issued = d.issued \cup {x.channel}
  BY <1>7 DEF CreateChannelRow, IsRecord
<1>. HIDE DEF e, new
<1>12. IsRecord(s, {"hubs", "channels", "members", "issued"})
       /\ s.hubs = e.hubs /\ s.channels = e.channels /\ s.issued = e.issued /\ s.members = PutAll(e.members, new)
  BY <1>4, <1>11 DEF IsRecord
<1>. HIDE DEF s
<1>13. DOMAIN new = {h} \X DOMAIN x.roles /\ \A p \in DOMAIN new : new[p] = x.roles[p[2]]
  BY DEF new
<1>14. DOMAIN s.members = DOMAIN d.members \cup DOMAIN new
  BY <1>11, <1>12 DEF PutAll
<1>15. ASSUME NEW p \in DOMAIN new
       PROVE  p \in {h} \X Users /\ p[2] # x.owner /\ s.members[p] \in Roles \ {"OWNER"}
  <2>1. p[1] = h /\ p[2] \in DOMAIN x.roles /\ p = <<p[1], p[2]>>
    BY SMT, <1>13, <1>15
  <2>2. s.members[p] = x.roles[p[2]]
    BY <1>12, <1>13, <1>15 DEF PutAll
  <2>. QED BY SMT, <1>1, <2>1, <2>2
<1>16. s.members[<<h, x.owner>>] = "OWNER"
  <2>1. <<h, x.owner>> \notin DOMAIN new
    BY SMT, <1>15
  <2>. QED BY <1>7, <1>11, <1>12, <2>1 DEF PutAll
<1>17. ASSUME NEW p \in DOMAIN s.members PROVE p \in (DOMAIN s.hubs) \X Users /\ s.members[p] \in Roles
  <2>1. CASE p = <<h, x.owner>>
    BY SMT, <1>1, <1>7, <1>11, <1>12, <1>16, <2>1 DEF Roles
  <2>2. CASE p \in DOMAIN new
    BY <1>7, <1>11, <1>12, <1>15, <2>2
  <2>. QED BY <1>7, <1>14, <1>17, <2>1, <2>2
<1>18. ASSUME NEW g \in DOMAIN s.hubs PROVE Owned(s, g)
  <2>1. g = h /\ s.hubs[g].owner = x.owner
    BY <1>7, <1>11, <1>12, <1>18
  <2>2. <<h, x.owner>> \in DOMAIN s.members
    BY <1>7, <1>14
  <2>3. ASSUME NEW u \in Users, <<h, u>> \in DOMAIN s.members, u # x.owner PROVE s.members[<<h, u>>] # "OWNER"
    <3>1. <<h, u>> # <<h, x.owner>>
      BY SMT, <2>3
    <3>. QED BY <1>7, <1>14, <1>15, <2>3, <3>1
  <2>. QED BY <1>16, <2>1, <2>2, <2>3 DEF Owned
<1>19. IsMap(s.members)
  BY <1>12 DEF PutAll, IsMap
<1>20. TablesOK(s)
  BY <1>10, <1>12, <1>17, <1>18, <1>19 DEF TablesOK
<1>21. Changes(z, s)
  BY <1>3, <1>20 DEF Changes
<1>22. PastOK(s, {} \cup Rows(s))
  BY <1>6, <1>21, PastGrows
<1>23. {} \cup Rows(s) = Rows(s)
  OBVIOUS
<1>24. PastOK(s, Rows(s))
  BY <1>22, <1>23
<1>25. DOMAIN s.hubs = {h} /\ h \in s.issued
  BY <1>7, <1>11, <1>12
<1>. QED BY <1>1, <1>20, <1>24, <1>25 DEF s

\* A snapshot taken from the tables at once is one.
LEMMA SnapshotInOK ==
    ASSUME TablesOK(db), PastOK(db, past), NEW h \in DOMAIN db.hubs
    PROVE  SnapOK(h, SnapshotIn(db, h), db, past)
<1>. DEFINE s == SnapshotIn(db, h)
<1>1. db.hubs[h] \in HubType /\ h \in db.issued
  BY DEF TablesOK
<1>2. RolesIn(db, h) \in UNION {[us -> Roles] : us \in SUBSET Users}
  <2>. DEFINE m == RolesIn(db, h)
  <2>1. IsMap(m) /\ DOMAIN m \subseteq Users /\ \A u \in DOMAIN m : m[u] \in Roles
    BY DEF RolesIn, MembersOf, IsMap, TablesOK
  <2>. HIDE DEF m
  <2>2. m \in UNION {[us -> Roles] : us \in SUBSET Users}
    BY <2>1, RolesType
  <2>. QED BY <2>2 DEF m
<1>3. ChannelsOf(db, h) \in SUBSET Channels
  BY DEF TablesOK, ChannelsOf
<1>4. s \in Snapshots /\ s.roles = RolesIn(db, h)
  BY SMT, <1>1, <1>2, <1>3 DEF SnapshotIn, Snapshots, HubType
<1>. HIDE DEF s
<1>5. SnapOK(h, s, db, past)
  BY <1>1, <1>4, RolesOK
<1>. QED BY <1>5 DEF s

\* The invariant holds at the start.
LEMMA HubsInvInit == HubsInit => HubsInv
<1>. SUFFICES ASSUME HubsInit PROVE HubsInv
  OBVIOUS
<1>1. PICK x \in Configs :
         /\ db = StartStore(x) /\ past = Rows(db)
         /\ hubCache = IF x.warm THEN [h \in {x.hub} |-> SnapshotIn(db, h)] ELSE EmptyMap
         /\ channelCache = IF x.warm THEN db.channels ELSE EmptyMap
         /\ links = [t \in x.links |-> [hub |-> x.hub, ttl |-> "long"]]
         /\ worker = [w \in 1..x.workers |-> Idle]
  BY DEF HubsInit
<1>2. /\ TablesOK(db) /\ PastOK(db, past)
      /\ x.hub \in Hubs /\ x.hub \in DOMAIN db.hubs /\ x.hub \in db.issued
  BY <1>1, StartOK
<1>3. \A h \in DOMAIN hubCache : SnapOK(h, hubCache[h], db, past)
  <2>1. SnapOK(x.hub, SnapshotIn(db, x.hub), db, past)
    BY <1>2, SnapshotInOK
  <2>2. CASE hubCache = [h \in {x.hub} |-> SnapshotIn(db, h)]
    BY <2>1, <2>2
  <2>3. CASE hubCache = EmptyMap
    BY <2>3, MapFacts
  <2>. QED BY <1>1, <2>2, <2>3
<1>4. \A c \in DOMAIN channelCache : c \in Channels /\ <<c, channelCache[c]>> \in past
  <2>1. CASE channelCache = db.channels
    BY <1>1, <1>2, <2>1 DEF TablesOK, Rows
  <2>2. CASE channelCache = EmptyMap
    BY <2>2, MapFacts
  <2>. QED BY <1>1, <2>1, <2>2
<1>5. WorkersOK(worker, db, past)
  BY <1>1 DEF WorkersOK, IsMap
<1>6. LinksOK(links, db)
  BY <1>1, <1>2 DEF LinksOK, IsRecord
<1>. QED BY <1>2, <1>3, <1>4, <1>5, <1>6 DEF HubsInv, CachesOK

\* Every step keeps the invariant.
LEMMA HubsInvNext == HubsInv /\ [HubsNext]_hubsVars => HubsInv'
<1>. SUFFICES ASSUME HubsInv, [HubsNext]_hubsVars PROVE HubsInv'
  OBVIOUS
<1>1. CASE InviteAges
  BY <1>1, AgesKeeps
<1>2. ASSUME NEW w \in DOMAIN worker, Take(w) PROVE HubsInv'
  BY <1>2, TakeKeeps
<1>3. ASSUME NEW w \in DOMAIN worker, CallFails(w) PROVE HubsInv'
  BY <1>3, FailsKeeps
<1>4. ASSUME NEW w \in DOMAIN worker, ServiceStep(w), UNCHANGED redis PROVE HubsInv'
  BY <1>4, LoadKeeps, ReadKeeps, PutKeeps, LookKeeps, InvalidateKeeps, EditKeeps DEF ServiceStep
<1>5. ASSUME NEW w \in DOMAIN worker, CommandStep(w) PROVE HubsInv'
  <2>1. \/ PlainStep(w)
        \/ AuthoriseLeave(w) \/ KickFromVoice(w) \/ VoiceKicked(w) \/ CheckSetRole(w) \/ JoinHub(w)
        \/ AuthoriseInvite(w) \/ GetActiveLink(w) \/ CheckTtl(w) \/ SetToken(w) \/ RevokeInvites(w)
        \/ DeleteToken(w) \/ ResolveInvite(w)
        \/ CountHubs(w) \/ GetUserHubs(w) \/ WarmSnapshots(w) \/ Topology(w) \/ Gather(w) \/ KeepTopics(w)
        \/ CreateHub(w) \/ DeleteHub(w) \/ RemoveMember(w) \/ AddMember(w) \/ RenameHub(w)
        \/ UpdateHubAvatarSeed(w)
        \/ InsertChannel(w) \/ RenameChannel(w) \/ RemoveChannel(w)
    BY <1>5 DEF CommandStep, PlainStep
  <2>. QED BY <2>1, PlainKeeps, MembershipKeeps, InviteKeeps, SyncKeeps, HubWrites, ChannelWrites
<1>6. CASE UNCHANGED hubsVars
  BY <1>6 DEF hubsVars, serviceVars, redis, HubsInv
<1>. QED BY <1>1, <1>2, <1>3, <1>4, <1>5, <1>6 DEF HubsNext

-----------------------------------------------------------------------------

\* HubsInv is an invariant, for any number of threads and any failures.
THEOREM HubsAlways == HubsSpec => []HubsInv
  BY HubsInvInit, HubsInvNext, PTL DEF HubsSpec

\* A hub keeps its owner as its one member with the OWNER role, however stale
\* the snapshots are that KickHubMember, LeaveHub, UpdateHubMemberRole and
\* JoinHubByInvite decide on, and whichever statements fail or lose their answer.
THEOREM OwnerAlwaysKeepsHub == HubsSpec => []OwnerKeepsHub
<1>1. HubsInv => OwnerKeepsHub
  BY DEF HubsInv, TablesOK, Owned, OwnerKeepsHub, MembersOf
<1>. QED BY <1>1, HubsAlways, PTL

\* However the threads interleave, what HubService has cached may be old, but
\* each role and each channel in it was once in the tables.
THEOREM CachesInventNothing == HubsSpec => []CachesNeverInvent
<1>1. HubsInv => CachesNeverInvent
  BY DEF HubsInv, CachesOK, SnapOK, CachesNeverInvent
<1>. QED BY <1>1, HubsAlways, PTL

-----------------------------------------------------------------------------
(* Where the frame of a thread goes.                                       *)

\* The rest of the frame stays as it is.
Lists(g, f) == g.list = f.list /\ g.hubs = f.hubs /\ g.topics = f.topics
Rest(g, f)  == Lists(g, f) /\ g.ids = f.ids /\ g.found = f.found /\ g.link = f.link /\ g.role = f.role

Proceeds(g, f, pc)   == g.pc = pc /\ g.ret = f.ret /\ Kept(g, f) /\ Rest(g, f)
Calls(g, f, pc, ret) == g.pc = pc /\ g.ret = ret /\ Kept(g, f) /\ Lists(g, f)

\* The method that f is in has returned.
Back(g, f, snap, found) ==
    /\ IsRecord(g, FrameFields) /\ g.pc = f.ret /\ g.ret = f.ret /\ g.cmd = f.cmd /\ g.hub = f.hub
    /\ g.snap = snap /\ g.found = found /\ g.rows = EmptyMap /\ g.pend = EmptyMap
    /\ Lists(g, f) /\ g.ids = f.ids /\ g.link = f.link /\ g.role = f.role

\* The thread's next frame.
LEMMA Arrives ==
    ASSUME NEW w \in DOMAIN worker, NEW g, Goto(w, g)
    PROVE  worker'[w] = IF g.pc = "idle" THEN Idle ELSE g
  BY DEF Goto

\* The abbreviations that move a thread.
LEMMA Moving ==
    ASSUME HubsInv, NEW w \in DOMAIN worker, worker[w].pc # "idle"
    PROVE  /\ Finish(w) => worker'[w] = Idle
           /\ \A pc : Proceed(w, pc) /\ pc # "idle" => Proceeds(worker'[w], worker[w], pc)
           /\ \A ret : Load(w, ret) \/ LoadFull(w, ret) =>
                 Calls(worker'[w], worker[w], "load", ret) /\ Rest(worker'[w], worker[w])
           /\ LoadTarget(w) => Calls(worker'[w], worker[w], "load", "target") /\ worker'[w].role = ActorRole(w)
           /\ \A cs, ret : LookUp(w, cs, ret) =>
                 /\ Calls(worker'[w], worker[w], "look_up", ret) /\ worker'[w].ids = cs
                 /\ worker'[w].role = worker[w].role
           /\ \A snap, found : Return(w, snap, found) =>
                 IF worker[w].ret = "idle" THEN worker'[w] = Idle ELSE Back(worker'[w], worker[w], snap, found)
           /\ AfterFailure(w) =>
                 \/ worker'[w] = Idle
                 \/ /\ worker[w].cmd.op = "create_hub" /\ worker[w].pc \in {"count_channels", "insert_channel"}
                    /\ Proceeds(worker'[w], worker[w], "subscribe")
<1>. DEFINE f == worker[w]
<1>1. IsRecord(f, FrameFields)
  BY Active
<1>2. ASSUME Finish(w) PROVE worker'[w] = Idle
  BY <1>2 DEF Finish, Goto
<1>3. ASSUME NEW pc, Proceed(w, pc), pc # "idle" PROVE Proceeds(worker'[w], f, pc)
  <2>. DEFINE g == [f EXCEPT !.pc = pc]
  <2>1. Goto(w, g)
    BY <1>3 DEF Proceed
  <2>2. g.pc = pc /\ g.ret = f.ret /\ Kept(g, f)
    BY <1>1 DEF Kept, IsRecord, FrameFields
  <2>3. Rest(g, f)
    BY <1>1 DEF Rest, Lists, IsRecord, FrameFields
  <2>. HIDE DEF g, f
  <2>4. worker'[w] = g
    BY <1>3, <2>1, <2>2, Arrives
  <2>. QED BY <2>2, <2>3, <2>4 DEF Proceeds
<1>4. ASSUME NEW ret, Load(w, ret) \/ LoadFull(w, ret)
      PROVE  Calls(worker'[w], f, "load", ret) /\ Rest(worker'[w], f)
  <2>1. PICK b : Goto(w, [f EXCEPT !.pc = "load", !.ret = ret, !.full = b])
    BY <1>4 DEF Load, LoadFull
  <2>. DEFINE g == [f EXCEPT !.pc = "load", !.ret = ret, !.full = b]
  <2>2. g.pc = "load" /\ g.ret = ret /\ Kept(g, f)
    BY <1>1 DEF Kept, IsRecord, FrameFields
  <2>3. Rest(g, f)
    BY <1>1 DEF Rest, Lists, IsRecord, FrameFields
  <2>4. Goto(w, g)
    BY <2>1
  <2>. HIDE DEF g, f
  <2>5. worker'[w] = g
    BY <2>2, <2>4, Arrives
  <2>. QED BY <2>2, <2>3, <2>5 DEF Calls, Rest
<1>5. ASSUME LoadTarget(w) PROVE Calls(worker'[w], f, "load", "target") /\ worker'[w].role = ActorRole(w)
  <2>. DEFINE g == [f EXCEPT !.pc = "load", !.ret = "target", !.full = FALSE, !.role = ActorRole(w)]
  <2>1. Goto(w, g)
    BY <1>5 DEF LoadTarget
  <2>2. g.pc = "load" /\ g.ret = "target" /\ Kept(g, f)
    BY <1>1 DEF Kept, IsRecord, FrameFields
  <2>3. Lists(g, f) /\ g.role = ActorRole(w)
    BY <1>1 DEF Lists, IsRecord, FrameFields
  <2>. HIDE DEF g, f
  <2>4. worker'[w] = g
    BY <2>1, <2>2, Arrives
  <2>. QED BY <2>2, <2>3, <2>4 DEF Calls
<1>6. ASSUME NEW cs, NEW ret, LookUp(w, cs, ret)
      PROVE  Calls(worker'[w], f, "look_up", ret) /\ worker'[w].ids = cs /\ worker'[w].role = f.role
  <2>. DEFINE g == [f EXCEPT !.pc = "look_up", !.ids = cs, !.ret = ret]
  <2>1. Goto(w, g)
    BY <1>6 DEF LookUp
  <2>2. g.pc = "look_up" /\ g.ret = ret /\ Kept(g, f)
    BY <1>1 DEF Kept, IsRecord, FrameFields
  <2>3. Lists(g, f) /\ g.ids = cs /\ g.role = f.role
    BY <1>1 DEF Lists, IsRecord, FrameFields
  <2>. HIDE DEF g, f
  <2>4. worker'[w] = g
    BY <2>1, <2>2, Arrives
  <2>. QED BY <2>2, <2>3, <2>4 DEF Calls
<1>7. ASSUME NEW snap, NEW found, Return(w, snap, found)
      PROVE  IF f.ret = "idle" THEN worker'[w] = Idle ELSE Back(worker'[w], f, snap, found)
  <2>. DEFINE g == [f EXCEPT !.pc = f.ret, !.snap = snap, !.found = found, !.rows = EmptyMap, !.pend = EmptyMap]
  <2>1. Goto(w, g)
    BY <1>7 DEF Return
  <2>2. IsRecord(g, FrameFields) /\ g.pc = f.ret /\ g.ret = f.ret /\ g.cmd = f.cmd /\ g.hub = f.hub
    BY <1>1 DEF IsRecord, FrameFields
  <2>3. g.snap = snap /\ g.found = found /\ g.rows = EmptyMap /\ g.pend = EmptyMap
    BY <1>1 DEF IsRecord, FrameFields
  <2>4. Lists(g, f) /\ g.ids = f.ids /\ g.link = f.link /\ g.role = f.role
    BY <1>1 DEF Lists, IsRecord, FrameFields
  <2>. HIDE DEF g, f
  <2>5. worker'[w] = IF f.ret = "idle" THEN Idle ELSE g
    BY <2>1, <2>2, Arrives
  <2>. QED BY <2>2, <2>3, <2>4, <2>5 DEF Back
<1>8. ASSUME AfterFailure(w)
      PROVE  \/ worker'[w] = Idle
             \/ /\ f.cmd.op = "create_hub" /\ f.pc \in {"count_channels", "insert_channel"}
                /\ Proceeds(worker'[w], f, "subscribe")
  <2>1. "subscribe" # "idle"
    OBVIOUS
  <2>. QED BY <1>2, <1>3, <1>8, <2>1 DEF AfterFailure
<1>. QED BY <1>2, <1>3, <1>4, <1>5, <1>6, <1>7, <1>8

\* The frame g is f but for the fields F.
Moved(g, f, F) == IsRecord(g, FrameFields) /\ \A x \in FrameFields \ F : g[x] = f[x]

\* What the warmed snapshots are built around.
WarmRows(f) == IF f.cmd.op = "sync" THEN f.rows
               ELSE IF f.snap = NoSnapshot THEN EmptyMap ELSE Put(EmptyMap, f.hub, f.snap)

\* The frames of a state sync, of deleteHub and of a join.
SyncsShape(w) ==
    /\ GetUserHubs(w) =>
          /\ Moved(worker'[w], worker[w], {"pc", "rows"}) /\ worker'[w].pc = "warm"
          /\ worker'[w].rows = BlankSnapshots(RowsOf(db, HubsOfUser(db, worker[w].cmd.by)))
    /\ WarmSnapshots(w) =>
          /\ worker'[w].list = DOMAIN WarmRows(worker[w]) /\ worker'[w].hubs = DOMAIN WarmRows(worker[w])
          /\ \/ /\ Moved(worker'[w], worker[w], {"pc", "rows", "list", "hubs"})
                /\ worker'[w].pc = "topology" /\ worker'[w].rows = EmptyMap
             \/ /\ Moved(worker'[w], worker[w], {"pc", "ret", "full", "rows", "list", "hubs"})
                /\ worker'[w].pc = "get_channels" /\ worker'[w].ret = "topology"
                /\ worker'[w].rows = BlankSnapshots(WarmRows(worker[w]))
    /\ Topology(w) =>
          \/ Calls(worker'[w], worker[w], "look_up", "synced")
          \/ /\ Moved(worker'[w], worker[w], {"pc", "ret", "full", "hub", "list"})
             /\ worker'[w].pc = "load" /\ worker'[w].ret = "gather"
             /\ worker'[w].hub \in worker[w].list /\ worker'[w].list \subseteq worker[w].list
    /\ Gather(w) => Moved(worker'[w], worker[w], {"pc", "ids"}) /\ worker'[w].pc = "topology"
    /\ KeepTopics(w) =>
          /\ Moved(worker'[w], worker[w], {"pc", "ret", "topics"}) /\ worker'[w].pc = "load"
          /\ worker'[w].ret = "service_ids" /\ worker'[w].topics = ChannelsIn(worker[w].snap)
    /\ ResolveInvite(w) =>
          \/ worker'[w] = Idle
          \/ /\ Moved(worker'[w], worker[w], {"pc", "ret", "hub"})
             /\ worker'[w].pc = "load" /\ worker'[w].ret = "member"

LEMMA SyncShapes ==
    ASSUME HubsInv, NEW w \in DOMAIN worker, worker[w].pc # "idle"
    PROVE  SyncsShape(w)
<1>. DEFINE f == worker[w]
            N == worker'[w]
<1>0. IsRecord(f, FrameFields)
  BY Active
<1>1. ASSUME GetUserHubs(w)
      PROVE  /\ Moved(N, f, {"pc", "rows"}) /\ N.pc = "warm"
             /\ N.rows = BlankSnapshots(RowsOf(db, HubsOfUser(db, f.cmd.by)))
  <2>. DEFINE r == BlankSnapshots(RowsOf(db, HubsOfUser(db, f.cmd.by)))
  <2>1. Goto(w, [f EXCEPT !.pc = "warm", !.rows = r]) /\ "warm" # "idle"
    BY <1>1 DEF GetUserHubs, Actor
  <2>. HIDE DEF r
  <2>. DEFINE g == [f EXCEPT !.pc = "warm", !.rows = r]
  <2>2. Moved(g, f, {"pc", "rows"})
    BY <1>0 DEF Moved, IsRecord
  <2>3. g.pc = "warm" /\ g.rows = r
    BY <1>0 DEF IsRecord, FrameFields
  <2>4. N = g
    BY <2>1, <2>3, Arrives
  <2>. HIDE DEF g
  <2>. QED BY <2>2, <2>3, <2>4 DEF r
<1>2. ASSUME WarmSnapshots(w)
      PROVE  /\ N.list = DOMAIN WarmRows(f) /\ N.hubs = DOMAIN WarmRows(f)
             /\ \/ /\ Moved(N, f, {"pc", "rows", "list", "hubs"}) /\ N.pc = "topology" /\ N.rows = EmptyMap
                \/ /\ Moved(N, f, {"pc", "ret", "full", "rows", "list", "hubs"})
                   /\ N.pc = "get_channels" /\ N.ret = "topology" /\ N.rows = BlankSnapshots(WarmRows(f))
  <2>. DEFINE hs == DOMAIN WarmRows(f)
              b  == BlankSnapshots(WarmRows(f))
  <2>1. \/ Goto(w, [[f EXCEPT !.pc = "topology", !.rows = EmptyMap] EXCEPT !.list = hs, !.hubs = hs])
        \/ Goto(w, [[f EXCEPT !.pc = "get_channels", !.ret = "topology", !.full = TRUE, !.rows = b]
                       EXCEPT !.list = hs, !.hubs = hs])
    BY <1>2 DEF WarmSnapshots, Warm, WarmRows
  <2>2. "topology" # "idle" /\ "get_channels" # "idle"
    OBVIOUS
  <2>. HIDE DEF hs, b
  <2>3. CASE Goto(w, [[f EXCEPT !.pc = "topology", !.rows = EmptyMap] EXCEPT !.list = hs, !.hubs = hs])
    <3>. DEFINE g == [[f EXCEPT !.pc = "topology", !.rows = EmptyMap] EXCEPT !.list = hs, !.hubs = hs]
    <3>1. Moved(g, f, {"pc", "rows", "list", "hubs"})
      BY <1>0 DEF Moved, IsRecord
    <3>2. g.pc = "topology" /\ g.rows = EmptyMap /\ g.list = hs /\ g.hubs = hs
      BY <1>0 DEF IsRecord, FrameFields
    <3>3. N = g
      BY <2>2, <2>3, <3>2, Arrives
    <3>. HIDE DEF g
    <3>. QED BY <3>1, <3>2, <3>3 DEF hs
  <2>4. CASE Goto(w, [[f EXCEPT !.pc = "get_channels", !.ret = "topology", !.full = TRUE, !.rows = b]
                         EXCEPT !.list = hs, !.hubs = hs])
    <3>. DEFINE g == [[f EXCEPT !.pc = "get_channels", !.ret = "topology", !.full = TRUE, !.rows = b]
                       EXCEPT !.list = hs, !.hubs = hs]
    <3>1. Moved(g, f, {"pc", "ret", "full", "rows", "list", "hubs"})
      BY <1>0 DEF Moved, IsRecord
    <3>2. g.pc = "get_channels" /\ g.ret = "topology" /\ g.rows = b /\ g.list = hs /\ g.hubs = hs
      BY <1>0 DEF IsRecord, FrameFields
    <3>3. N = g
      BY <2>2, <2>4, <3>2, Arrives
    <3>. HIDE DEF g
    <3>. QED BY <3>1, <3>2, <3>3 DEF hs, b
  <2>. QED BY <2>1, <2>3, <2>4
<1>3. ASSUME Topology(w)
      PROVE  \/ Calls(N, f, "look_up", "synced")
             \/ /\ Moved(N, f, {"pc", "ret", "full", "hub", "list"}) /\ N.pc = "load" /\ N.ret = "gather"
                /\ N.hub \in f.list /\ N.list \subseteq f.list
  <2>1. LookUp(w, f.ids, "synced") => Calls(N, f, "look_up", "synced")
    BY Moving
  <2>2. ASSUME NEW h \in f.list,
               Goto(w, [f EXCEPT !.pc = "load", !.ret = "gather", !.full = FALSE, !.hub = h, !.list = f.list \ {h}])
        PROVE  /\ Moved(N, f, {"pc", "ret", "full", "hub", "list"}) /\ N.pc = "load" /\ N.ret = "gather"
               /\ N.hub \in f.list /\ N.list \subseteq f.list
    <3>. DEFINE hs == f.list \ {h}
    <3>1. Goto(w, [f EXCEPT !.pc = "load", !.ret = "gather", !.full = FALSE, !.hub = h, !.list = hs]) /\ "load" # "idle"
      BY <2>2
    <3>2. hs \subseteq f.list
      OBVIOUS
    <3>. HIDE DEF hs
    <3>. DEFINE g == [f EXCEPT !.pc = "load", !.ret = "gather", !.full = FALSE, !.hub = h, !.list = hs]
    <3>3. Moved(g, f, {"pc", "ret", "full", "hub", "list"})
      BY <1>0 DEF Moved, IsRecord
    <3>4. g.pc = "load" /\ g.ret = "gather" /\ g.hub = h /\ g.list = hs
      BY <1>0 DEF IsRecord, FrameFields
    <3>5. N = g
      BY <3>1, <3>4, Arrives
    <3>. HIDE DEF g
    <3>. QED BY <2>2, <3>2, <3>3, <3>4, <3>5
  <2>. QED BY <1>3, <2>1, <2>2 DEF Topology
<1>4. ASSUME Gather(w) PROVE Moved(N, f, {"pc", "ids"}) /\ N.pc = "topology"
  <2>1. PICK cs : Goto(w, [f EXCEPT !.pc = "topology", !.ids = cs])
    BY <1>4 DEF Gather
  <2>2. "topology" # "idle"
    OBVIOUS
  <2>. DEFINE g == [f EXCEPT !.pc = "topology", !.ids = cs]
  <2>3. Moved(g, f, {"pc", "ids"})
    BY <1>0 DEF Moved, IsRecord
  <2>4. g.pc = "topology"
    BY <1>0 DEF IsRecord, FrameFields
  <2>5. N = g
    BY <2>1, <2>2, <2>4, Arrives
  <2>. HIDE DEF g
  <2>. QED BY <2>3, <2>4, <2>5
<1>5. ASSUME KeepTopics(w)
      PROVE  /\ Moved(N, f, {"pc", "ret", "topics"}) /\ N.pc = "load" /\ N.ret = "service_ids"
             /\ N.topics = ChannelsIn(f.snap)
  <2>. DEFINE ts == ChannelsIn(f.snap)
  <2>1. Goto(w, [f EXCEPT !.pc = "load", !.ret = "service_ids", !.topics = ts]) /\ "load" # "idle"
    BY <1>5 DEF KeepTopics
  <2>. HIDE DEF ts
  <2>. DEFINE g == [f EXCEPT !.pc = "load", !.ret = "service_ids", !.topics = ts]
  <2>2. Moved(g, f, {"pc", "ret", "topics"})
    BY <1>0 DEF Moved, IsRecord
  <2>3. g.pc = "load" /\ g.ret = "service_ids" /\ g.topics = ts
    BY <1>0 DEF IsRecord, FrameFields
  <2>4. N = g
    BY <2>1, <2>3, Arrives
  <2>. HIDE DEF g
  <2>. QED BY <2>2, <2>3, <2>4 DEF ts
<1>6. ASSUME ResolveInvite(w)
      PROVE  N = Idle \/ (Moved(N, f, {"pc", "ret", "hub"}) /\ N.pc = "load" /\ N.ret = "member")
  <2>1. CASE Finish(w)
    BY <2>1, Moving
  <2>2. CASE ~Finish(w)
    <3>1. PICK h : Goto(w, [f EXCEPT !.pc = "load", !.ret = "member", !.hub = h])
      BY <1>6, <2>2 DEF ResolveInvite
    <3>2. "load" # "idle"
      OBVIOUS
    <3>. DEFINE g == [f EXCEPT !.pc = "load", !.ret = "member", !.hub = h]
    <3>3. Moved(g, f, {"pc", "ret", "hub"})
      BY <1>0 DEF Moved, IsRecord
    <3>4. g.pc = "load" /\ g.ret = "member"
      BY <1>0 DEF IsRecord, FrameFields
    <3>5. N = g
      BY <3>1, <3>2, <3>4, Arrives
    <3>. HIDE DEF g
    <3>. QED BY <3>3, <3>4, <3>5
  <2>. QED BY <2>1, <2>2
<1>. QED BY <1>1, <1>2, <1>3, <1>4, <1>5, <1>6 DEF SyncsShape

\* The frames of the reads.
ReadsShape(w) ==
    /\ GetHub(w) =>
          /\ UNCHANGED <<db, hubCache, channelCache>>
          /\ \/ /\ worker[w].hub \in DOMAIN db.hubs /\ Moved(worker'[w], worker[w], {"pc", "rows"}) /\ worker'[w].pc = "get_channels"
                /\ worker'[w].rows = BlankSnapshots(RowsOf(db, {worker[w].hub}))
             \/ worker[w].hub \notin DOMAIN db.hubs /\ (IF worker[w].ret = "idle" THEN worker'[w] = Idle ELSE Back(worker'[w], worker[w], NoSnapshot, EmptyMap))
    /\ GetChannels(w) =>
          /\ UNCHANGED <<db, hubCache, channelCache>> /\ Moved(worker'[w], worker[w], {"pc", "rows", "pend"}) /\ worker'[w].pc = "get_roles"
          /\ worker'[w].rows = [h \in DOMAIN worker[w].rows |-> [worker[w].rows[h] EXCEPT !.channels = ChannelsOf(db, h)]]
          /\ worker'[w].pend = EmptyMap \/ \E cs : worker'[w].pend = ChannelRows(db, cs)
    /\ GetRoles(w) =>
          /\ UNCHANGED <<db, hubCache, channelCache>> /\ Moved(worker'[w], worker[w], {"pc", "rows"}) /\ worker'[w].pc \in Putting
          /\ worker'[w].rows = [h \in DOMAIN worker[w].rows |-> [worker[w].rows[h] EXCEPT !.roles = RolesIn(db, h)]]
    /\ LookUpChannels(w) =>
          /\ UNCHANGED <<db, hubCache, channelCache>>
          /\ \/ IF worker[w].ret = "idle" THEN worker'[w] = Idle ELSE Back(worker'[w], worker[w], worker[w].snap, Restrict(channelCache, worker[w].ids \cap DOMAIN channelCache))
             \/ /\ Moved(worker'[w], worker[w], {"pc", "found"}) /\ worker'[w].pc = "get_rows"
                /\ worker'[w].found = Restrict(channelCache, worker[w].ids \cap DOMAIN channelCache)
    /\ GetChannelRows(w) =>
          /\ UNCHANGED <<db, hubCache, channelCache>> /\ Moved(worker'[w], worker[w], {"pc", "pend"}) /\ worker'[w].pc = "keep_rows"
          /\ worker'[w].pend = ChannelRows(db, worker[w].ids \ DOMAIN worker[w].found)

LEMMA ReadShapes ==
    ASSUME HubsInv, NEW w \in DOMAIN worker, worker[w].pc # "idle"
    PROVE  ReadsShape(w)
<1>. DEFINE f == worker[w]
            N == worker'[w]
<1>0. IsRecord(f, FrameFields)
  BY Active
<1>1. ASSUME GetHub(w)
      PROVE  /\ UNCHANGED <<db, hubCache, channelCache>>
             /\ \/ /\ f.hub \in DOMAIN db.hubs /\ Moved(N, f, {"pc", "rows"}) /\ N.pc = "get_channels"
                   /\ N.rows = BlankSnapshots(RowsOf(db, {f.hub}))
                \/ f.hub \notin DOMAIN db.hubs /\ (IF f.ret = "idle" THEN N = Idle ELSE Back(N, f, NoSnapshot, EmptyMap))
  <2>. DEFINE r == BlankSnapshots(RowsOf(db, {f.hub}))
  <2>1. \/ UNCHANGED <<db, hubCache, channelCache>> /\ f.hub \in DOMAIN db.hubs /\ Goto(w, [f EXCEPT !.pc = "get_channels", !.rows = r])
        \/ UNCHANGED <<db, hubCache, channelCache>> /\ f.hub \notin DOMAIN db.hubs /\ Return(w, NoSnapshot, EmptyMap)
    BY <1>1 DEF GetHub, tables, caches
  <2>2. "get_channels" # "idle"
    OBVIOUS
  <2>. HIDE DEF r
  <2>3. CASE UNCHANGED <<db, hubCache, channelCache>> /\ f.hub \in DOMAIN db.hubs /\ Goto(w, [f EXCEPT !.pc = "get_channels", !.rows = r])
    <3>. DEFINE g == [f EXCEPT !.pc = "get_channels", !.rows = r]
    <3>1. Moved(g, f, {"pc", "rows"})
      BY <1>0 DEF Moved, IsRecord
    <3>2. g.pc = "get_channels" /\ g.rows = r
      BY <1>0 DEF IsRecord, FrameFields
    <3>3. N = g
      BY <2>3, <2>2, <3>2, Arrives
    <3>. HIDE DEF g
    <3>. QED BY <2>3, <3>1, <3>2, <3>3 DEF r
  <2>4. CASE UNCHANGED <<db, hubCache, channelCache>> /\ f.hub \notin DOMAIN db.hubs /\ Return(w, NoSnapshot, EmptyMap)
    BY <2>4, Moving DEF r
  <2>. QED BY <2>1, <2>3, <2>4
<1>2. ASSUME GetChannels(w)
      PROVE  /\ UNCHANGED <<db, hubCache, channelCache>> /\ Moved(N, f, {"pc", "rows", "pend"}) /\ N.pc = "get_roles"
             /\ N.rows = [h \in DOMAIN f.rows |-> [f.rows[h] EXCEPT !.channels = ChannelsOf(db, h)]]
             /\ N.pend = EmptyMap \/ \E cs : N.pend = ChannelRows(db, cs)
  <2>. DEFINE r == [h \in DOMAIN f.rows |-> [f.rows[h] EXCEPT !.channels = ChannelsOf(db, h)]]
              cs == UNION {ChannelsOf(db, h) : h \in DOMAIN f.rows}
              p == IF f.full THEN ChannelRows(db, cs) ELSE EmptyMap
  <2>1. UNCHANGED <<db, hubCache, channelCache>> /\ Goto(w, [f EXCEPT !.pc = "get_roles", !.rows = r, !.pend = p])
    BY <1>2 DEF GetChannels, tables, caches
  <2>2. "get_roles" # "idle"
    OBVIOUS
  <2>. HIDE DEF r, cs, p
  <2>. DEFINE g == [f EXCEPT !.pc = "get_roles", !.rows = r, !.pend = p]
  <2>3. Moved(g, f, {"pc", "rows", "pend"})
    BY <1>0 DEF Moved, IsRecord
  <2>4. g.pc = "get_roles" /\ g.rows = r /\ g.pend = p
    BY <1>0 DEF IsRecord, FrameFields
  <2>5. N = g
    BY <2>1, <2>2, <2>4, Arrives
  <2>. HIDE DEF g
  <2>. QED BY <2>1, <2>3, <2>4, <2>5 DEF r, cs, p
<1>3. ASSUME GetRoles(w)
      PROVE  /\ UNCHANGED <<db, hubCache, channelCache>> /\ Moved(N, f, {"pc", "rows"}) /\ N.pc \in Putting
             /\ N.rows = [h \in DOMAIN f.rows |-> [f.rows[h] EXCEPT !.roles = RolesIn(db, h)]]
  <2>. DEFINE r == [h \in DOMAIN f.rows |-> [f.rows[h] EXCEPT !.roles = RolesIn(db, h)]]
  <2>1. \/ UNCHANGED <<db, hubCache, channelCache>> /\ Goto(w, [f EXCEPT !.pc = "put_channels", !.rows = r])
        \/ UNCHANGED <<db, hubCache, channelCache>> /\ Goto(w, [f EXCEPT !.pc = "put_snapshots", !.rows = r])
    BY <1>3 DEF GetRoles, tables, caches
  <2>2. "put_channels" # "idle" /\ "put_snapshots" # "idle"
    OBVIOUS
  <2>. HIDE DEF r
  <2>3. CASE UNCHANGED <<db, hubCache, channelCache>> /\ Goto(w, [f EXCEPT !.pc = "put_channels", !.rows = r])
    <3>. DEFINE g == [f EXCEPT !.pc = "put_channels", !.rows = r]
    <3>1. Moved(g, f, {"pc", "rows"})
      BY <1>0 DEF Moved, IsRecord
    <3>2. g.pc = "put_channels" /\ g.rows = r
      BY <1>0 DEF IsRecord, FrameFields
    <3>3. N = g
      BY <2>3, <2>2, <3>2, Arrives
    <3>. HIDE DEF g
    <3>. QED BY <2>3, <3>1, <3>2, <3>3 DEF r, Putting
  <2>4. CASE UNCHANGED <<db, hubCache, channelCache>> /\ Goto(w, [f EXCEPT !.pc = "put_snapshots", !.rows = r])
    <3>. DEFINE g == [f EXCEPT !.pc = "put_snapshots", !.rows = r]
    <3>1. Moved(g, f, {"pc", "rows"})
      BY <1>0 DEF Moved, IsRecord
    <3>2. g.pc = "put_snapshots" /\ g.rows = r
      BY <1>0 DEF IsRecord, FrameFields
    <3>3. N = g
      BY <2>4, <2>2, <3>2, Arrives
    <3>. HIDE DEF g
    <3>. QED BY <2>4, <3>1, <3>2, <3>3 DEF r, Putting
  <2>. QED BY <2>1, <2>3, <2>4
<1>4. ASSUME LookUpChannels(w)
      PROVE  /\ UNCHANGED <<db, hubCache, channelCache>>
             /\ \/ IF f.ret = "idle" THEN N = Idle ELSE Back(N, f, f.snap, Restrict(channelCache, f.ids \cap DOMAIN channelCache))
                \/ /\ Moved(N, f, {"pc", "found"}) /\ N.pc = "get_rows"
                   /\ N.found = Restrict(channelCache, f.ids \cap DOMAIN channelCache)
  <2>. DEFINE r == Restrict(channelCache, f.ids \cap DOMAIN channelCache)
  <2>1. \/ UNCHANGED <<db, hubCache, channelCache>> /\ Return(w, f.snap, r)
        \/ UNCHANGED <<db, hubCache, channelCache>> /\ Goto(w, [f EXCEPT !.pc = "get_rows", !.found = r])
    BY <1>4 DEF LookUpChannels, tables, caches
  <2>2. "get_rows" # "idle"
    OBVIOUS
  <2>. HIDE DEF r
  <2>3. CASE UNCHANGED <<db, hubCache, channelCache>> /\ Return(w, f.snap, r)
    BY <2>3, Moving DEF r
  <2>4. CASE UNCHANGED <<db, hubCache, channelCache>> /\ Goto(w, [f EXCEPT !.pc = "get_rows", !.found = r])
    <3>. DEFINE g == [f EXCEPT !.pc = "get_rows", !.found = r]
    <3>1. Moved(g, f, {"pc", "found"})
      BY <1>0 DEF Moved, IsRecord
    <3>2. g.pc = "get_rows" /\ g.found = r
      BY <1>0 DEF IsRecord, FrameFields
    <3>3. N = g
      BY <2>4, <2>2, <3>2, Arrives
    <3>. HIDE DEF g
    <3>. QED BY <2>4, <3>1, <3>2, <3>3 DEF r
  <2>. QED BY <2>1, <2>3, <2>4
<1>5. ASSUME GetChannelRows(w)
      PROVE  /\ UNCHANGED <<db, hubCache, channelCache>> /\ Moved(N, f, {"pc", "pend"}) /\ N.pc = "keep_rows"
             /\ N.pend = ChannelRows(db, f.ids \ DOMAIN f.found)
  <2>. DEFINE r == ChannelRows(db, f.ids \ DOMAIN f.found)
  <2>1. UNCHANGED <<db, hubCache, channelCache>> /\ Goto(w, [f EXCEPT !.pc = "keep_rows", !.pend = r])
    BY <1>5 DEF GetChannelRows, tables, caches
  <2>2. "keep_rows" # "idle"
    OBVIOUS
  <2>. HIDE DEF r
  <2>. DEFINE g == [f EXCEPT !.pc = "keep_rows", !.pend = r]
  <2>3. Moved(g, f, {"pc", "pend"})
    BY <1>0 DEF Moved, IsRecord
  <2>4. g.pc = "keep_rows" /\ g.pend = r
    BY <1>0 DEF IsRecord, FrameFields
  <2>5. N = g
    BY <2>1, <2>2, <2>4, Arrives
  <2>. HIDE DEF g
  <2>. QED BY <2>1, <2>3, <2>4, <2>5 DEF r
<1>. QED BY <1>1, <1>2, <1>3, <1>4, <1>5 DEF ReadsShape

\* The frames of the edits of the caches and of the invites.
EditsShape(w) ==
    /\ CopySnapshot(w) =>
          /\ UNCHANGED <<db, hubCache, channelCache>>
          /\ \/ worker[w].hub \notin DOMAIN hubCache /\ (IF worker[w].ret = "idle" THEN worker'[w] = Idle ELSE Back(worker'[w], worker[w], NoSnapshot, EmptyMap))
             \/ /\ worker[w].hub \in DOMAIN hubCache /\ Moved(worker'[w], worker[w], {"pc", "snap"}) /\ worker'[w].pc = "put_copy"
                /\ worker'[w].snap = [hubCache[worker[w].hub] EXCEPT !.channels =
                                IF worker[w].cmd.op = "remove_channel" THEN @ \ {worker[w].cmd.ch} ELSE @ \cup DOMAIN worker[w].pend]
    /\ CopyChannel(w) =>
          /\ UNCHANGED <<db, hubCache, channelCache>> /\ Moved(worker'[w], worker[w], {"pc", "pend"}) /\ worker'[w].pc = "put_channel"
          /\ worker'[w].pend = IF worker[w].cmd.ch \in DOMAIN channelCache
                      THEN Put(EmptyMap, worker[w].cmd.ch, [channelCache[worker[w].cmd.ch] EXCEPT !.name = worker[w].cmd.name])
                      ELSE EmptyMap
    /\ GetActiveLink(w) =>
          \/ Proceeds(worker'[w], worker[w], "set_token") /\ worker[w].hub \notin DOMAIN activeLink
          \/ /\ worker[w].hub \in DOMAIN activeLink /\ Moved(worker'[w], worker[w], {"pc", "link"}) /\ worker'[w].pc = "ttl"
             /\ worker'[w].link = activeLink[worker[w].hub]
    /\ SetToken(w) =>
          /\ Moved(worker'[w], worker[w], {"pc", "link"}) /\ worker'[w].pc = "set_active"
          /\ links' = Put(links, worker'[w].link, [hub |-> worker[w].hub, ttl |-> "long"])
    /\ RevokeInvites(w) =>
          \/ Proceeds(worker'[w], worker[w], "del_active") /\ worker[w].hub \notin DOMAIN activeLink
          \/ /\ worker[w].hub \in DOMAIN activeLink /\ Moved(worker'[w], worker[w], {"pc", "link"}) /\ worker'[w].pc = "del_token"
             /\ worker'[w].link = activeLink[worker[w].hub]

LEMMA EditShapes ==
    ASSUME HubsInv, NEW w \in DOMAIN worker, worker[w].pc # "idle"
    PROVE  EditsShape(w)
<1>. DEFINE f == worker[w]
            N == worker'[w]
<1>0. IsRecord(f, FrameFields)
  BY Active
<1>1. ASSUME CopySnapshot(w)
      PROVE  /\ UNCHANGED <<db, hubCache, channelCache>>
             /\ \/ f.hub \notin DOMAIN hubCache /\ (IF f.ret = "idle" THEN N = Idle ELSE Back(N, f, NoSnapshot, EmptyMap))
                \/ /\ f.hub \in DOMAIN hubCache /\ Moved(N, f, {"pc", "snap"}) /\ N.pc = "put_copy"
                   /\ N.snap = [hubCache[f.hub] EXCEPT !.channels =
                                   IF f.cmd.op = "remove_channel" THEN @ \ {f.cmd.ch} ELSE @ \cup DOMAIN f.pend]
  <2>. DEFINE r == [hubCache[f.hub] EXCEPT !.channels =
                      IF f.cmd.op = "remove_channel" THEN @ \ {f.cmd.ch} ELSE @ \cup DOMAIN f.pend]
  <2>1. \/ UNCHANGED <<db, hubCache, channelCache>> /\ f.hub \notin DOMAIN hubCache /\ Return(w, NoSnapshot, EmptyMap)
        \/ UNCHANGED <<db, hubCache, channelCache>> /\ f.hub \in DOMAIN hubCache /\ Goto(w, [f EXCEPT !.pc = "put_copy", !.snap = r])
    BY <1>1 DEF CopySnapshot, tables, caches
  <2>2. "put_copy" # "idle"
    OBVIOUS
  <2>. HIDE DEF r
  <2>3. CASE UNCHANGED <<db, hubCache, channelCache>> /\ f.hub \notin DOMAIN hubCache /\ Return(w, NoSnapshot, EmptyMap)
    BY <2>3, Moving DEF r
  <2>4. CASE UNCHANGED <<db, hubCache, channelCache>> /\ f.hub \in DOMAIN hubCache /\ Goto(w, [f EXCEPT !.pc = "put_copy", !.snap = r])
    <3>. DEFINE g == [f EXCEPT !.pc = "put_copy", !.snap = r]
    <3>1. Moved(g, f, {"pc", "snap"})
      BY <1>0 DEF Moved, IsRecord
    <3>2. g.pc = "put_copy" /\ g.snap = r
      BY <1>0 DEF IsRecord, FrameFields
    <3>3. N = g
      BY <2>4, <2>2, <3>2, Arrives
    <3>. HIDE DEF g
    <3>. QED BY <2>4, <3>1, <3>2, <3>3 DEF r
  <2>. QED BY <2>1, <2>3, <2>4
<1>2. ASSUME CopyChannel(w)
      PROVE  /\ UNCHANGED <<db, hubCache, channelCache>> /\ Moved(N, f, {"pc", "pend"}) /\ N.pc = "put_channel"
             /\ N.pend = IF f.cmd.ch \in DOMAIN channelCache
                         THEN Put(EmptyMap, f.cmd.ch, [channelCache[f.cmd.ch] EXCEPT !.name = f.cmd.name])
                         ELSE EmptyMap
  <2>. DEFINE r == IF f.cmd.ch \in DOMAIN channelCache
                   THEN Put(EmptyMap, f.cmd.ch, [channelCache[f.cmd.ch] EXCEPT !.name = f.cmd.name])
                   ELSE EmptyMap
  <2>1. UNCHANGED <<db, hubCache, channelCache>> /\ Goto(w, [f EXCEPT !.pc = "put_channel", !.pend = r])
    BY <1>2 DEF CopyChannel, tables, caches
  <2>2. "put_channel" # "idle"
    OBVIOUS
  <2>. HIDE DEF r
  <2>. DEFINE g == [f EXCEPT !.pc = "put_channel", !.pend = r]
  <2>3. Moved(g, f, {"pc", "pend"})
    BY <1>0 DEF Moved, IsRecord
  <2>4. g.pc = "put_channel" /\ g.pend = r
    BY <1>0 DEF IsRecord, FrameFields
  <2>5. N = g
    BY <2>1, <2>2, <2>4, Arrives
  <2>. HIDE DEF g
  <2>. QED BY <2>1, <2>3, <2>4, <2>5 DEF r
<1>3. ASSUME GetActiveLink(w)
      PROVE  \/ Proceeds(N, f, "set_token") /\ f.hub \notin DOMAIN activeLink
             \/ /\ f.hub \in DOMAIN activeLink /\ Moved(N, f, {"pc", "link"}) /\ N.pc = "ttl"
                /\ N.link = activeLink[f.hub]
  <2>1. \/ f.hub \in DOMAIN activeLink /\ Goto(w, [f EXCEPT !.pc = "ttl", !.link = activeLink[f.hub]])
        \/ f.hub \notin DOMAIN activeLink /\ Proceed(w, "set_token") /\ "set_token" # "idle"
    BY <1>3 DEF GetActiveLink
  <2>2. "ttl" # "idle"
    OBVIOUS
  <2>3. CASE f.hub \in DOMAIN activeLink /\ Goto(w, [f EXCEPT !.pc = "ttl", !.link = activeLink[f.hub]])
    <3>. DEFINE g == [f EXCEPT !.pc = "ttl", !.link = activeLink[f.hub]]
    <3>1. Moved(g, f, {"pc", "link"})
      BY <1>0 DEF Moved, IsRecord
    <3>2. g.pc = "ttl" /\ g.link = activeLink[f.hub]
      BY <1>0 DEF IsRecord, FrameFields
    <3>3. N = g
      BY <2>3, <2>2, <3>2, Arrives
    <3>. HIDE DEF g
    <3>. QED BY <2>3, <3>1, <3>2, <3>3
  <2>4. CASE f.hub \notin DOMAIN activeLink /\ Proceed(w, "set_token") /\ "set_token" # "idle"
    BY <2>4, Moving
  <2>. QED BY <2>1, <2>3, <2>4
<1>4. ASSUME SetToken(w)
      PROVE  /\ Moved(N, f, {"pc", "link"}) /\ N.pc = "set_active"
             /\ links' = Put(links, N.link, [hub |-> f.hub, ttl |-> "long"])
  <2>1. PICK t : /\ links' = Put(links, t, [hub |-> f.hub, ttl |-> "long"])
                 /\ Goto(w, [f EXCEPT !.pc = "set_active", !.link = t])
    BY <1>4 DEF SetToken
  <2>2. "set_active" # "idle"
    OBVIOUS
  <2>. DEFINE g == [f EXCEPT !.pc = "set_active", !.link = t]
  <2>3. Moved(g, f, {"pc", "link"})
    BY <1>0 DEF Moved, IsRecord
  <2>4. g.pc = "set_active" /\ g.link = t
    BY <1>0 DEF IsRecord, FrameFields
  <2>5. N = g
    BY <2>1, <2>2, <2>4, Arrives
  <2>. HIDE DEF g
  <2>. QED BY <2>1, <2>3, <2>4, <2>5
<1>5. ASSUME RevokeInvites(w)
      PROVE  \/ Proceeds(N, f, "del_active") /\ f.hub \notin DOMAIN activeLink
             \/ /\ f.hub \in DOMAIN activeLink /\ Moved(N, f, {"pc", "link"}) /\ N.pc = "del_token"
                /\ N.link = activeLink[f.hub]
  <2>1. \/ f.hub \in DOMAIN activeLink /\ Goto(w, [f EXCEPT !.pc = "del_token", !.link = activeLink[f.hub]])
        \/ f.hub \notin DOMAIN activeLink /\ Proceed(w, "del_active") /\ "del_active" # "idle"
    BY <1>5 DEF RevokeInvites
  <2>2. "del_token" # "idle"
    OBVIOUS
  <2>3. CASE f.hub \in DOMAIN activeLink /\ Goto(w, [f EXCEPT !.pc = "del_token", !.link = activeLink[f.hub]])
    <3>. DEFINE g == [f EXCEPT !.pc = "del_token", !.link = activeLink[f.hub]]
    <3>1. Moved(g, f, {"pc", "link"})
      BY <1>0 DEF Moved, IsRecord
    <3>2. g.pc = "del_token" /\ g.link = activeLink[f.hub]
      BY <1>0 DEF IsRecord, FrameFields
    <3>3. N = g
      BY <2>3, <2>2, <3>2, Arrives
    <3>. HIDE DEF g
    <3>. QED BY <2>3, <3>1, <3>2, <3>3
  <2>4. CASE f.hub \notin DOMAIN activeLink /\ Proceed(w, "del_active") /\ "del_active" # "idle"
    BY <2>4, Moving
  <2>. QED BY <2>1, <2>3, <2>4
<1>. QED BY <1>1, <1>2, <1>3, <1>4, <1>5 DEF EditsShape

\* A statement whose answer is not lost.
LEMMA Written ==
    ASSUME NEW w, NEW new, NEW next, losses \in Nat, losses' = losses, Write(w, new, next)
    PROVE  db' = new /\ Goto(w, next) /\ UNCHANGED <<hubCache, channelCache>>
<1>1. ~(losses > 0 /\ losses' = losses - 1)
  BY SMT
<1>. QED BY <1>1 DEF Write, caches

\* The row that createChannel inserts.
NewRow(f) == LET default == f.cmd.op = "create_hub"
             IN  [hub |-> f.hub, name |-> IF default THEN "general" ELSE f.cmd.name,
                  type |-> IF default THEN "text" ELSE f.cmd.type]

\* The frames and the tables after the statements on hubs and members.
HubWritesShape(w) ==
    /\ CreateHub(w) =>
          /\ UNCHANGED <<hubCache, channelCache>>
          /\ \/ worker'[w] = Idle /\ UNCHANGED db
             \/ /\ Moved(worker'[w], worker[w], {"pc", "ret", "hub"}) /\ worker'[w].pc = "invalidate"
                /\ worker'[w].ret = "count_channels"
                /\ \E h \in Hubs \ db.issued :
                   /\ db' = CreateHubRow(db, h, worker[w].cmd.by, worker[w].cmd.name)
                   /\ worker'[w].hub = h
    /\ DeleteHub(w) =>
          /\ UNCHANGED <<hubCache, channelCache>>
          /\ \/ worker'[w] = Idle /\ UNCHANGED db
             \/ /\ DeletesHub(db, worker[w].hub, worker[w].cmd.by) /\ db' = DeleteHubRow(db, worker[w].hub)
                /\ Moved(worker'[w], worker[w], {"pc", "ret", "ids"}) /\ worker'[w].pc = "invalidate"
                /\ worker'[w].ret = "invalidate_channels"
                /\ worker'[w].ids = ChannelsIn(worker[w].snap)
    /\ RenameHub(w) =>
          /\ UNCHANGED <<hubCache, channelCache>>
          /\ \/ worker'[w] = Idle /\ UNCHANGED db
             \/ /\ worker[w].hub \in DOMAIN db.hubs /\ db' = RenameHubRow(db, worker[w].hub, worker[w].cmd.name)
                /\ Moved(worker'[w], worker[w], {"pc", "ret"}) /\ worker'[w].pc = "invalidate"
                /\ worker'[w].ret = (IF worker[w].cmd.seed # "" THEN "seed_hub" ELSE "idle")
    /\ UpdateHubAvatarSeed(w) =>
          /\ UNCHANGED <<hubCache, channelCache>>
          /\ \/ worker'[w] = Idle /\ UNCHANGED db
             \/ /\ worker[w].hub \in DOMAIN db.hubs /\ db' = UpdateHubSeedRow(db, worker[w].hub, worker[w].cmd.seed)
                /\ Moved(worker'[w], worker[w], {"pc", "ret"}) /\ worker'[w].pc = "invalidate"
                /\ worker'[w].ret = "idle"
    /\ RemoveMember(w) =>
          /\ UNCHANGED <<hubCache, channelCache>>
          /\ db' = RemoveMemberRow(db, worker[w].hub, worker[w].cmd.who)
          /\ Moved(worker'[w], worker[w], {"pc", "ret"}) /\ worker'[w].pc = "invalidate"
          /\ worker'[w].ret = (IF worker[w].cmd.op = "kick" THEN "revoke" ELSE "cut")
    /\ AddMember(w) =>
          /\ UNCHANGED <<hubCache, channelCache>>
          /\ \/ worker'[w] = Idle /\ UNCHANGED db
             \/ /\ CanAddMember(db, worker[w].hub, worker[w].cmd.who, worker[w].cmd.role) /\ db' = AddMemberRow(db, worker[w].hub, worker[w].cmd.who, worker[w].cmd.role)
                /\ Moved(worker'[w], worker[w], {"pc", "ret"}) /\ worker'[w].pc = "invalidate"
                /\ worker'[w].ret = (IF worker[w].cmd.op = "join" THEN "subscribe" ELSE "idle")

LEMMA HubWriteShapes ==
    ASSUME HubsInv, NEW w \in DOMAIN worker, worker[w].pc # "idle", losses \in Nat, losses' = losses
    PROVE  HubWritesShape(w)
<1>. DEFINE f == worker[w]
            N == worker'[w]
<1>0. IsRecord(f, FrameFields)
  BY Active
<1>1. ASSUME CreateHub(w)
      PROVE  /\ UNCHANGED <<hubCache, channelCache>>
             /\ \/ N = Idle /\ UNCHANGED db
                \/ /\ Moved(N, f, {"pc", "ret", "hub"}) /\ N.pc = "invalidate"
                   /\ N.ret = "count_channels"
                   /\ \E h \in Hubs \ db.issued :
                      /\ db' = CreateHubRow(db, h, f.cmd.by, f.cmd.name)
                      /\ N.hub = h
  <2>0. \A new, next : Write(w, new, next) => db' = new /\ Goto(w, next) /\ UNCHANGED <<hubCache, channelCache>>
    BY Written
  <2>1. CASE Finish(w) /\ UNCHANGED <<tables, caches, faults>>
    BY <2>1, Moving DEF tables, caches
  <2>2. CASE ~(Finish(w) /\ UNCHANGED <<tables, caches, faults>>)
    <3>1. PICK h \in Hubs \ db.issued : Write(w, CreateHubRow(db, h, f.cmd.by, f.cmd.name), [Onward(w, "invalidate", "count_channels") EXCEPT !.hub = h])
      BY <1>1, <2>2 DEF CreateHub, Actor
    <3>2. Goto(w, [[f EXCEPT !.pc = "invalidate", !.ret = "count_channels"] EXCEPT !.hub = h]) /\ db' = CreateHubRow(db, h, f.cmd.by, f.cmd.name) /\ UNCHANGED <<hubCache, channelCache>>
      BY <2>0, <3>1 DEF Onward
    <3>3. "invalidate" # "idle"
      OBVIOUS
    <3>. DEFINE g == [[f EXCEPT !.pc = "invalidate", !.ret = "count_channels"] EXCEPT !.hub = h]
    <3>4. Moved(g, f, {"pc", "ret", "hub"})
      BY <1>0 DEF Moved, IsRecord
    <3>5. g.pc = "invalidate" /\ g.ret = "count_channels" /\ g.hub = h
      BY <1>0 DEF IsRecord, FrameFields
    <3>6. N = g
      BY <3>2, <3>3, <3>5, Arrives
    <3>. HIDE DEF g
    <3>. QED BY <3>1, <3>2, <3>4, <3>5, <3>6
  <2>. QED BY <2>1, <2>2
<1>2. ASSUME DeleteHub(w)
      PROVE  /\ UNCHANGED <<hubCache, channelCache>>
             /\ \/ N = Idle /\ UNCHANGED db
                \/ /\ DeletesHub(db, f.hub, f.cmd.by) /\ db' = DeleteHubRow(db, f.hub)
                   /\ Moved(N, f, {"pc", "ret", "ids"}) /\ N.pc = "invalidate"
                   /\ N.ret = "invalidate_channels"
                   /\ N.ids = ChannelsIn(f.snap)
  <2>0. \A new, next : Write(w, new, next) => db' = new /\ Goto(w, next) /\ UNCHANGED <<hubCache, channelCache>>
    BY Written
  <2>1. CASE Finish(w) /\ UNCHANGED <<tables, caches, faults>>
    BY <2>1, Moving DEF tables, caches
  <2>2. CASE ~(Finish(w) /\ UNCHANGED <<tables, caches, faults>>)
    <3>1. DeletesHub(db, f.hub, f.cmd.by) /\ Write(w, DeleteHubRow(db, f.hub), [Onward(w, "invalidate", "invalidate_channels") EXCEPT !.ids = ChannelsIn(f.snap)])
      BY <1>2, <2>2 DEF DeleteHub
    <3>. DEFINE x == ChannelsIn(f.snap)
    <3>2. Goto(w, [[f EXCEPT !.pc = "invalidate", !.ret = "invalidate_channels"] EXCEPT !.ids = x]) /\ db' = DeleteHubRow(db, f.hub) /\ UNCHANGED <<hubCache, channelCache>>
      BY <2>0, <3>1 DEF Onward
    <3>3. "invalidate" # "idle"
      OBVIOUS
    <3>. HIDE DEF x
    <3>. DEFINE g == [[f EXCEPT !.pc = "invalidate", !.ret = "invalidate_channels"] EXCEPT !.ids = x]
    <3>4. Moved(g, f, {"pc", "ret", "ids"})
      BY <1>0 DEF Moved, IsRecord
    <3>5. g.pc = "invalidate" /\ g.ret = "invalidate_channels" /\ g.ids = x
      BY <1>0 DEF IsRecord, FrameFields
    <3>6. N = g
      BY <3>2, <3>3, <3>5, Arrives
    <3>. HIDE DEF g
    <3>. QED BY <3>1, <3>2, <3>4, <3>5, <3>6 DEF x
  <2>. QED BY <2>1, <2>2
<1>3. ASSUME RenameHub(w)
      PROVE  /\ UNCHANGED <<hubCache, channelCache>>
             /\ \/ N = Idle /\ UNCHANGED db
                \/ /\ f.hub \in DOMAIN db.hubs /\ db' = RenameHubRow(db, f.hub, f.cmd.name)
                   /\ Moved(N, f, {"pc", "ret"}) /\ N.pc = "invalidate"
                   /\ N.ret = (IF f.cmd.seed # "" THEN "seed_hub" ELSE "idle")
  <2>0. \A new, next : Write(w, new, next) => db' = new /\ Goto(w, next) /\ UNCHANGED <<hubCache, channelCache>>
    BY Written
  <2>1. CASE Finish(w) /\ UNCHANGED <<tables, caches, faults>>
    BY <2>1, Moving DEF tables, caches
  <2>2. CASE ~(Finish(w) /\ UNCHANGED <<tables, caches, faults>>)
    <3>1. f.hub \in DOMAIN db.hubs /\ Write(w, RenameHubRow(db, f.hub, f.cmd.name), Onward(w, "invalidate", IF f.cmd.seed # "" THEN "seed_hub" ELSE "idle"))
      BY <1>3, <2>2 DEF RenameHub
    <3>. DEFINE r == IF f.cmd.seed # "" THEN "seed_hub" ELSE "idle"
    <3>2. Goto(w, [f EXCEPT !.pc = "invalidate", !.ret = r]) /\ db' = RenameHubRow(db, f.hub, f.cmd.name) /\ UNCHANGED <<hubCache, channelCache>>
      BY <2>0, <3>1 DEF Onward
    <3>3. "invalidate" # "idle"
      OBVIOUS
    <3>. HIDE DEF r
    <3>. DEFINE g == [f EXCEPT !.pc = "invalidate", !.ret = r]
    <3>4. Moved(g, f, {"pc", "ret"})
      BY <1>0 DEF Moved, IsRecord
    <3>5. g.pc = "invalidate" /\ g.ret = r
      BY <1>0 DEF IsRecord, FrameFields
    <3>6. N = g
      BY <3>2, <3>3, <3>5, Arrives
    <3>. HIDE DEF g
    <3>. QED BY <3>1, <3>2, <3>4, <3>5, <3>6 DEF r
  <2>. QED BY <2>1, <2>2
<1>4. ASSUME UpdateHubAvatarSeed(w)
      PROVE  /\ UNCHANGED <<hubCache, channelCache>>
             /\ \/ N = Idle /\ UNCHANGED db
                \/ /\ f.hub \in DOMAIN db.hubs /\ db' = UpdateHubSeedRow(db, f.hub, f.cmd.seed)
                   /\ Moved(N, f, {"pc", "ret"}) /\ N.pc = "invalidate"
                   /\ N.ret = "idle"
  <2>0. \A new, next : Write(w, new, next) => db' = new /\ Goto(w, next) /\ UNCHANGED <<hubCache, channelCache>>
    BY Written
  <2>1. CASE Finish(w) /\ UNCHANGED <<tables, caches, faults>>
    BY <2>1, Moving DEF tables, caches
  <2>2. CASE ~(Finish(w) /\ UNCHANGED <<tables, caches, faults>>)
    <3>1. f.hub \in DOMAIN db.hubs /\ Write(w, UpdateHubSeedRow(db, f.hub, f.cmd.seed), Onward(w, "invalidate", "idle"))
      BY <1>4, <2>2 DEF UpdateHubAvatarSeed
    <3>2. Goto(w, [f EXCEPT !.pc = "invalidate", !.ret = "idle"]) /\ db' = UpdateHubSeedRow(db, f.hub, f.cmd.seed) /\ UNCHANGED <<hubCache, channelCache>>
      BY <2>0, <3>1 DEF Onward
    <3>3. "invalidate" # "idle"
      OBVIOUS
    <3>. DEFINE g == [f EXCEPT !.pc = "invalidate", !.ret = "idle"]
    <3>4. Moved(g, f, {"pc", "ret"})
      BY <1>0 DEF Moved, IsRecord
    <3>5. g.pc = "invalidate" /\ g.ret = "idle"
      BY <1>0 DEF IsRecord, FrameFields
    <3>6. N = g
      BY <3>2, <3>3, <3>5, Arrives
    <3>. HIDE DEF g
    <3>. QED BY <3>1, <3>2, <3>4, <3>5, <3>6
  <2>. QED BY <2>1, <2>2
<1>5. ASSUME RemoveMember(w)
      PROVE  /\ UNCHANGED <<hubCache, channelCache>>
             /\ db' = RemoveMemberRow(db, f.hub, f.cmd.who)
             /\ Moved(N, f, {"pc", "ret"}) /\ N.pc = "invalidate"
             /\ N.ret = (IF f.cmd.op = "kick" THEN "revoke" ELSE "cut")
  <2>0. \A new, next : Write(w, new, next) => db' = new /\ Goto(w, next) /\ UNCHANGED <<hubCache, channelCache>>
    BY Written
  <2>1. Write(w, RemoveMemberRow(db, f.hub, f.cmd.who), Onward(w, "invalidate", IF f.cmd.op = "kick" THEN "revoke" ELSE "cut"))
    BY <1>5 DEF RemoveMember
  <2>. DEFINE r == IF f.cmd.op = "kick" THEN "revoke" ELSE "cut"
  <2>2. Goto(w, [f EXCEPT !.pc = "invalidate", !.ret = r]) /\ db' = RemoveMemberRow(db, f.hub, f.cmd.who) /\ UNCHANGED <<hubCache, channelCache>>
    BY <2>0, <2>1 DEF Onward
  <2>3. "invalidate" # "idle"
    OBVIOUS
  <2>. HIDE DEF r
  <2>. DEFINE g == [f EXCEPT !.pc = "invalidate", !.ret = r]
  <2>4. Moved(g, f, {"pc", "ret"})
    BY <1>0 DEF Moved, IsRecord
  <2>5. g.pc = "invalidate" /\ g.ret = r
    BY <1>0 DEF IsRecord, FrameFields
  <2>6. N = g
    BY <2>2, <2>3, <2>5, Arrives
  <2>. HIDE DEF g
  <2>. QED BY <2>1, <2>2, <2>4, <2>5, <2>6 DEF r
<1>6. ASSUME AddMember(w)
      PROVE  /\ UNCHANGED <<hubCache, channelCache>>
             /\ \/ N = Idle /\ UNCHANGED db
                \/ /\ CanAddMember(db, f.hub, f.cmd.who, f.cmd.role) /\ db' = AddMemberRow(db, f.hub, f.cmd.who, f.cmd.role)
                   /\ Moved(N, f, {"pc", "ret"}) /\ N.pc = "invalidate"
                   /\ N.ret = (IF f.cmd.op = "join" THEN "subscribe" ELSE "idle")
  <2>0. \A new, next : Write(w, new, next) => db' = new /\ Goto(w, next) /\ UNCHANGED <<hubCache, channelCache>>
    BY Written
  <2>1. CASE Finish(w) /\ UNCHANGED <<tables, caches, faults>>
    BY <2>1, Moving DEF tables, caches
  <2>2. CASE ~(Finish(w) /\ UNCHANGED <<tables, caches, faults>>)
    <3>1. CanAddMember(db, f.hub, f.cmd.who, f.cmd.role) /\ Write(w, AddMemberRow(db, f.hub, f.cmd.who, f.cmd.role), Onward(w, "invalidate", IF f.cmd.op = "join" THEN "subscribe" ELSE "idle"))
      BY <1>6, <2>2 DEF AddMember
    <3>. DEFINE r == IF f.cmd.op = "join" THEN "subscribe" ELSE "idle"
    <3>2. Goto(w, [f EXCEPT !.pc = "invalidate", !.ret = r]) /\ db' = AddMemberRow(db, f.hub, f.cmd.who, f.cmd.role) /\ UNCHANGED <<hubCache, channelCache>>
      BY <2>0, <3>1 DEF Onward
    <3>3. "invalidate" # "idle"
      OBVIOUS
    <3>. HIDE DEF r
    <3>. DEFINE g == [f EXCEPT !.pc = "invalidate", !.ret = r]
    <3>4. Moved(g, f, {"pc", "ret"})
      BY <1>0 DEF Moved, IsRecord
    <3>5. g.pc = "invalidate" /\ g.ret = r
      BY <1>0 DEF IsRecord, FrameFields
    <3>6. N = g
      BY <3>2, <3>3, <3>5, Arrives
    <3>. HIDE DEF g
    <3>. QED BY <3>1, <3>2, <3>4, <3>5, <3>6 DEF r
  <2>. QED BY <2>1, <2>2
<1>. QED BY <1>1, <1>2, <1>3, <1>4, <1>5, <1>6 DEF HubWritesShape

\* The frames and the tables after the statements on channels.
ChannelWritesShape(w) ==
    /\ InsertChannel(w) =>
          /\ UNCHANGED <<hubCache, channelCache>>
          /\ \/ /\ UNCHANGED db
                /\ IF worker[w].cmd.op = "create_hub" THEN Proceeds(worker'[w], worker[w], "subscribe") ELSE worker'[w] = Idle
             \/ /\ worker[w].hub \in DOMAIN db.hubs /\ Moved(worker'[w], worker[w], {"pc", "ret", "pend"}) /\ worker'[w].pc = "cache_channel"
                /\ worker'[w].ret = (IF worker[w].cmd.op = "create_hub" THEN "subscribe" ELSE "idle")
                /\ \E c \in Channels \ db.issued :
                   /\ db' = CreateChannelRow(db, c, worker[w].hub, NewRow(worker[w]).name, NewRow(worker[w]).type)
                   /\ worker'[w].pend = Put(EmptyMap, c, NewRow(worker[w]))
    /\ RenameChannel(w) =>
          /\ UNCHANGED <<hubCache, channelCache>>
          /\ \/ worker'[w] = Idle /\ UNCHANGED db
             \/ /\ worker[w].cmd.ch \in DOMAIN db.channels /\ db' = RenameChannelRow(db, worker[w].cmd.ch, worker[w].cmd.name)
                /\ Moved(worker'[w], worker[w], {"pc", "ret"}) /\ worker'[w].pc = "copy_channel"
                /\ worker'[w].ret = "idle"
    /\ RemoveChannel(w) =>
          /\ UNCHANGED <<hubCache, channelCache>>
          /\ \/ worker'[w] = Idle /\ UNCHANGED db
             \/ /\ DeletesChannel(db, worker[w].cmd.ch, worker[w].hub) /\ db' = DeleteChannelRow(db, worker[w].cmd.ch)
                /\ Moved(worker'[w], worker[w], {"pc", "ret"}) /\ worker'[w].pc = "cache_channel"
                /\ worker'[w].ret = "drop_topic"

LEMMA ChannelWriteShapes ==
    ASSUME HubsInv, NEW w \in DOMAIN worker, worker[w].pc # "idle", losses \in Nat, losses' = losses
    PROVE  ChannelWritesShape(w)
<1>. DEFINE f == worker[w]
            N == worker'[w]
<1>0. IsRecord(f, FrameFields)
  BY Active
<1>1. ASSUME InsertChannel(w)
      PROVE  /\ UNCHANGED <<hubCache, channelCache>>
             /\ \/ /\ UNCHANGED db
                   /\ IF f.cmd.op = "create_hub" THEN Proceeds(N, f, "subscribe") ELSE N = Idle
                \/ /\ f.hub \in DOMAIN db.hubs /\ Moved(N, f, {"pc", "ret", "pend"}) /\ N.pc = "cache_channel"
                   /\ N.ret = (IF f.cmd.op = "create_hub" THEN "subscribe" ELSE "idle")
                   /\ \E c \in Channels \ db.issued :
                      /\ db' = CreateChannelRow(db, c, f.hub, NewRow(f).name, NewRow(f).type)
                      /\ N.pend = Put(EmptyMap, c, NewRow(f))
  <2>0. \A new, next : Write(w, new, next) => db' = new /\ Goto(w, next) /\ UNCHANGED <<hubCache, channelCache>>
    BY Written
  <2>1. CASE AfterFailure(w) /\ UNCHANGED <<tables, caches, faults>>
    <3>1. f.pc = "insert_channel"
      BY <1>1 DEF InsertChannel, At
    <3>2. IF f.cmd.op = "create_hub" THEN Proceed(w, "subscribe") ELSE Finish(w)
      BY <2>1, <3>1 DEF AfterFailure
    <3>. QED BY <2>1, <3>2, Moving DEF tables, caches
  <2>2. CASE ~(AfterFailure(w) /\ UNCHANGED <<tables, caches, faults>>)
    <3>1. PICK c \in Channels \ db.issued : (f.hub \in DOMAIN db.hubs) /\ Write(w, CreateChannelRow(db, c, f.hub, NewRow(f).name, NewRow(f).type), [Onward(w, "cache_channel", IF f.cmd.op = "create_hub" THEN "subscribe" ELSE "idle") EXCEPT !.pend = Put(EmptyMap, c, NewRow(f))])
      BY <1>1, <2>2 DEF InsertChannel, NewRow
    <3>. DEFINE r == IF f.cmd.op = "create_hub" THEN "subscribe" ELSE "idle"
                x == Put(EmptyMap, c, NewRow(f))
    <3>2. Goto(w, [[f EXCEPT !.pc = "cache_channel", !.ret = r] EXCEPT !.pend = x]) /\ db' = CreateChannelRow(db, c, f.hub, NewRow(f).name, NewRow(f).type) /\ UNCHANGED <<hubCache, channelCache>>
      BY <2>0, <3>1 DEF Onward
    <3>3. "cache_channel" # "idle"
      OBVIOUS
    <3>. HIDE DEF r, x
    <3>. DEFINE g == [[f EXCEPT !.pc = "cache_channel", !.ret = r] EXCEPT !.pend = x]
    <3>4. Moved(g, f, {"pc", "ret", "pend"})
      BY <1>0 DEF Moved, IsRecord
    <3>5. g.pc = "cache_channel" /\ g.ret = r /\ g.pend = x
      BY <1>0 DEF IsRecord, FrameFields
    <3>6. N = g
      BY <3>2, <3>3, <3>5, Arrives
    <3>. HIDE DEF g
    <3>. QED BY <3>1, <3>2, <3>4, <3>5, <3>6 DEF r, x
  <2>. QED BY <2>1, <2>2
<1>2. ASSUME RenameChannel(w)
      PROVE  /\ UNCHANGED <<hubCache, channelCache>>
             /\ \/ N = Idle /\ UNCHANGED db
                \/ /\ f.cmd.ch \in DOMAIN db.channels /\ db' = RenameChannelRow(db, f.cmd.ch, f.cmd.name)
                   /\ Moved(N, f, {"pc", "ret"}) /\ N.pc = "copy_channel"
                   /\ N.ret = "idle"
  <2>0. \A new, next : Write(w, new, next) => db' = new /\ Goto(w, next) /\ UNCHANGED <<hubCache, channelCache>>
    BY Written
  <2>1. CASE Finish(w) /\ UNCHANGED <<tables, caches, faults>>
    BY <2>1, Moving DEF tables, caches
  <2>2. CASE ~(Finish(w) /\ UNCHANGED <<tables, caches, faults>>)
    <3>1. f.cmd.ch \in DOMAIN db.channels /\ Write(w, RenameChannelRow(db, f.cmd.ch, f.cmd.name), Onward(w, "copy_channel", "idle"))
      BY <1>2, <2>2 DEF RenameChannel
    <3>2. Goto(w, [f EXCEPT !.pc = "copy_channel", !.ret = "idle"]) /\ db' = RenameChannelRow(db, f.cmd.ch, f.cmd.name) /\ UNCHANGED <<hubCache, channelCache>>
      BY <2>0, <3>1 DEF Onward
    <3>3. "copy_channel" # "idle"
      OBVIOUS
    <3>. DEFINE g == [f EXCEPT !.pc = "copy_channel", !.ret = "idle"]
    <3>4. Moved(g, f, {"pc", "ret"})
      BY <1>0 DEF Moved, IsRecord
    <3>5. g.pc = "copy_channel" /\ g.ret = "idle"
      BY <1>0 DEF IsRecord, FrameFields
    <3>6. N = g
      BY <3>2, <3>3, <3>5, Arrives
    <3>. HIDE DEF g
    <3>. QED BY <3>1, <3>2, <3>4, <3>5, <3>6
  <2>. QED BY <2>1, <2>2
<1>3. ASSUME RemoveChannel(w)
      PROVE  /\ UNCHANGED <<hubCache, channelCache>>
             /\ \/ N = Idle /\ UNCHANGED db
                \/ /\ DeletesChannel(db, f.cmd.ch, f.hub) /\ db' = DeleteChannelRow(db, f.cmd.ch)
                   /\ Moved(N, f, {"pc", "ret"}) /\ N.pc = "cache_channel"
                   /\ N.ret = "drop_topic"
  <2>0. \A new, next : Write(w, new, next) => db' = new /\ Goto(w, next) /\ UNCHANGED <<hubCache, channelCache>>
    BY Written
  <2>1. CASE Finish(w) /\ UNCHANGED <<tables, caches, faults>>
    BY <2>1, Moving DEF tables, caches
  <2>2. CASE ~(Finish(w) /\ UNCHANGED <<tables, caches, faults>>)
    <3>1. DeletesChannel(db, f.cmd.ch, f.hub) /\ Write(w, DeleteChannelRow(db, f.cmd.ch), Onward(w, "cache_channel", "drop_topic"))
      BY <1>3, <2>2 DEF RemoveChannel
    <3>2. Goto(w, [f EXCEPT !.pc = "cache_channel", !.ret = "drop_topic"]) /\ db' = DeleteChannelRow(db, f.cmd.ch) /\ UNCHANGED <<hubCache, channelCache>>
      BY <2>0, <3>1 DEF Onward
    <3>3. "cache_channel" # "idle"
      OBVIOUS
    <3>. DEFINE g == [f EXCEPT !.pc = "cache_channel", !.ret = "drop_topic"]
    <3>4. Moved(g, f, {"pc", "ret"})
      BY <1>0 DEF Moved, IsRecord
    <3>5. g.pc = "cache_channel" /\ g.ret = "drop_topic"
      BY <1>0 DEF IsRecord, FrameFields
    <3>6. N = g
      BY <3>2, <3>3, <3>5, Arrives
    <3>. HIDE DEF g
    <3>. QED BY <3>1, <3>2, <3>4, <3>5, <3>6
  <2>. QED BY <2>1, <2>2
<1>. QED BY <1>1, <1>2, <1>3 DEF ChannelWritesShape

=============================================================================
