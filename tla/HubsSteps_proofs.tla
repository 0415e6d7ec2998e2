--------------------------- MODULE HubsSteps_proofs ---------------------------
(***************************************************************************)
(* What the steps of a single thread do to the role a command was let      *)
(* through with, and to what it owes the clients.                          *)
(***************************************************************************)
EXTENDS Hubs_proofs

USE Zenon

-----------------------------------------------------------------------------
(* The role of the actor.                                                  *)

\* No role is asked for there.
Roleless(f) == Where(f) \notin Authorised \cup {"target"}

\* The command gets to step x for the same hub.
Reaches(g, f, x) == Where(g) = x /\ g.cmd = f.cmd /\ g.hub = f.hub /\ g.role = f.role /\ Lists(g, f)

\* A command that has passed its check stays authorised while the members stay.
LEMMA RoleStays ==
    ASSUME NEW f, NEW g, NEW d, NEW e
    PROVE  /\ Roleless(g) => RoleFits(g, e)
           /\ RoleFits(f, d) /\ e.members = d.members /\ Reaches(g, f, Where(f)) => RoleFits(g, e)
           /\ \A x : RoleFits(f, d) /\ e.members = d.members /\ Reaches(g, f, x) /\ x \in Authorised /\ Where(f) \in Authorised =>
                 RoleFits(g, e)
           /\ \A x : Reaches(g, f, x) /\ x \in Authorised /\ RoleNow(f, e) \in RolesFor(f.cmd.op) => RoleFits(g, e)
<1>1. "target" \notin Authorised
  BY DEF Authorised
<1>2. Roleless(g) => RoleFits(g, e)
  BY DEF Roleless, RoleFits
<1>3. g.cmd = f.cmd /\ g.hub = f.hub /\ e.members = d.members => RoleNow(g, e) = RoleNow(f, d)
  BY DEF RoleNow
<1>4. RoleFits(f, d) /\ e.members = d.members /\ Reaches(g, f, Where(f)) => RoleFits(g, e)
  BY <1>3 DEF RoleFits, Reaches
<1>5. \A x : RoleFits(f, d) /\ e.members = d.members /\ Reaches(g, f, x) /\ x \in Authorised /\ Where(f) \in Authorised =>
                 RoleFits(g, e)
  BY <1>1, <1>3 DEF RoleFits, Reaches
<1>6. \A x : Reaches(g, f, x) /\ x \in Authorised /\ RoleNow(f, e) \in RolesFor(f.cmd.op) => RoleFits(g, e)
  BY <1>1 DEF RoleFits, Reaches, RoleNow
<1>. QED BY <1>2, <1>4, <1>5, <1>6

\* Where the abbreviations take a command.
LEMMA RoleMoves ==
    ASSUME HubsInv, NEW w \in DOMAIN worker, worker[w].pc # "idle"
    PROVE  /\ Roleless(Idle)
           /\ Finish(w) \/ AfterFailure(w) => Roleless(worker'[w])
           /\ \A pc : Proceed(w, pc) /\ pc # "idle" /\ pc \notin Methods => Reaches(worker'[w], worker[w], pc)
           /\ \A ret : Load(w, ret) \/ LoadFull(w, ret) => Reaches(worker'[w], worker[w], ret)
           /\ \A cs, ret : LookUp(w, cs, ret) => Reaches(worker'[w], worker[w], ret)
           /\ \A s, fd : Return(w, s, fd) /\ worker[w].pc \in Methods =>
                 \/ worker'[w] = Idle /\ Where(worker[w]) = "idle"
                 \/ Reaches(worker'[w], worker[w], Where(worker[w]))
           /\ LoadTarget(w) =>
                 /\ Where(worker'[w]) = "target" /\ worker'[w].cmd = worker[w].cmd /\ worker'[w].hub = worker[w].hub
                 /\ worker'[w].role = ActorRole(w) /\ Lists(worker'[w], worker[w])
<1>. DEFINE f == worker[w]
            N == worker'[w]
<1>1. /\ {"load", "look_up"} \subseteq Methods /\ "subscribe" \notin Methods /\ Idle.pc \notin Methods
      /\ {Idle.pc, "subscribe"} \cap (Authorised \cup {"target"}) = {}
  BY DEF Methods, LoadPcs, LookPcs, EditPcs, Reading, Putting, Idle, Authorised
<1>2. f.pc \in Methods => f.ret \notin Methods
  <2>1. (LoadRets \cup LookRets \cup EditRets \cup HubRets) \cap Methods = {}
    BY DEF LoadRets, LookRets, EditRets, HubRets, Methods, LoadPcs, LookPcs, EditPcs, Reading, Putting
  <2>2. f.pc \in Methods => f.ret \in LoadRets \cup LookRets \cup EditRets \cup HubRets
    BY Active DEF FrameOK, Returns, Methods
  <2>. QED BY <2>1, <2>2
<1>3. Roleless(Idle)
  BY <1>1 DEF Roleless, Where
<1>4. Finish(w) \/ AfterFailure(w) => Roleless(N)
  BY <1>1, <1>3, Moving DEF Roleless, Where, Proceeds
<1>5. \A pc : Proceed(w, pc) /\ pc # "idle" /\ pc \notin Methods => Reaches(N, f, pc)
  BY Moving DEF Reaches, Where, Proceeds, Kept, Rest
<1>6. \A ret : Load(w, ret) \/ LoadFull(w, ret) => Reaches(N, f, ret)
  BY <1>1, Moving DEF Reaches, Where, Calls, Kept, Rest
<1>7. ASSUME NEW cs, NEW ret, LookUp(w, cs, ret) PROVE Reaches(N, f, ret)
  <2>1. Calls(N, f, "look_up", ret) /\ N.role = f.role
    BY <1>7, Moving
  <2>. QED BY <1>1, <2>1 DEF Reaches, Where, Calls, Kept
<1>8. \A s, fd : Return(w, s, fd) /\ f.pc \in Methods => (N = Idle /\ Where(f) = "idle") \/ Reaches(N, f, Where(f))
  BY <1>2, Moving DEF Reaches, Where, Back
<1>9. LoadTarget(w) => Where(N) = "target" /\ N.cmd = f.cmd /\ N.hub = f.hub /\ N.role = ActorRole(w) /\ Lists(N, f)
  BY <1>1, Moving DEF Where, Calls, Kept
<1>. QED BY <1>3, <1>4, <1>5, <1>6, <1>7, <1>8, <1>9

\* Steps that no role is asked for after, whatever they did to the tables.
RolelessStep(w) ==
    \/ Take(w) \/ CountHubs(w) \/ InsertChannel(w) \/ Subscribe(w) \/ Filter(w) \/ GetUserHubs(w) \/ WarmSnapshots(w)
    \/ Topology(w) \/ Gather(w) \/ Synced(w) \/ DeleteHub(w) \/ DropTopics(w) \/ RemoveMember(w) \/ CutOff(w)
    \/ Unsubscribe(w) \/ AddMember(w) \/ UpdateHubAvatarSeed(w) \/ ResolveInvite(w) \/ FoundForRename(w)
    \/ RenameChannel(w) \/ FoundForRemove(w) \/ RemoveChannel(w) \/ DropChannelTopic(w) \/ FoundForSelect(w)
    \/ SelectActiveChannel(w) \/ AuthoriseInvite(w) \/ GetActiveLink(w) \/ CheckTtl(w) \/ SetToken(w)
    \/ SetActiveLink(w) \/ RevokeInvites(w) \/ DeleteToken(w) \/ DeleteActiveLink(w) \/ InvalidateChannels(w)
    \/ CallFails(w)

\* They are.
LEMMA RolelessSteps ==
    ASSUME HubsInv, losses \in Nat, losses' = losses, NEW w \in DOMAIN worker, RolelessStep(w)
    PROVE  Roleless(worker'[w])
<1>. DEFINE f == worker[w]
            N == worker'[w]
            Off == Authorised \cup {"target"}
<1>1. /\ {"filter", "warm", "insert_hub", "synced", "authorise", "unsubscribe", "get_active", "set_token", "del_active", "cut"} \cap Off = {}
      /\ {"drop_topics", "subscribe", "idle", "topology", "gather", "invalidate_channels", "revoke", "member", "found"} \cap Off = {}
      /\ {"drop_topic", "ttl", "set_active", "del_token", "count_hubs", "resolve", "user_hubs"} \cap Off = {}
  BY DEF Authorised
<1>2. /\ {"warm", "insert_hub", "get_active", "set_token", "del_active", "cut", "drop_topics", "subscribe", "topology"} \cap Methods = {}
      /\ {"ttl", "set_active", "del_token", "count_hubs", "resolve", "user_hubs", "revoke"} \cap Methods = {}
      /\ {"load", "look_up", "get_channels", "invalidate", "cache_channel", "copy_channel"} \subseteq Methods
  BY DEF Methods, LoadPcs, LookPcs, EditPcs, Reading, Putting
<1>3. ASSUME N.pc \in Methods, N.ret \notin Off PROVE Roleless(N)
  BY <1>3 DEF Roleless, Where
<1>4. ASSUME N.pc \notin Methods, N.pc \notin Off PROVE Roleless(N)
  BY <1>4 DEF Roleless, Where
<1>5. \A x : Reaches(N, f, x) /\ x \notin Off => Roleless(N)
  BY DEF Roleless, Reaches
<1>. HIDE DEF Off
<1>6. CASE Take(w)
  <2>1. PICK c : Goto(w, FirstStep(c))
    BY <1>6 DEF Take
  <2>2. Begins(N, c)
    <3>1. FirstStep(c).pc # "idle"
      BY FirstFrame DEF Begins
    <3>2. N = FirstStep(c)
      BY <2>1, <3>1, Arrives
    <3>. QED BY <3>2, FirstFrame
  <2>. QED BY <1>1, <1>2, <1>3, <1>4, <2>2 DEF Begins
<1>7. CASE CountHubs(w) \/ Subscribe(w) \/ Filter(w) \/ Synced(w) \/ DropTopics(w) \/ CutOff(w)
  <2>1. f.pc # "idle"
    BY <1>7 DEF CountHubs, Subscribe, Filter, Synced, DropTopics, CutOff, At
  <2>. QED BY <1>1, <1>2, <1>5, <1>7, <2>1, RoleMoves DEF CountHubs, Subscribe, Filter, Synced, DropTopics, CutOff
<1>8. CASE Unsubscribe(w) \/ FoundForRename(w) \/ FoundForRemove(w) \/ DropChannelTopic(w) \/ FoundForSelect(w) \/ SelectActiveChannel(w)
  <2>1. f.pc # "idle"
    BY <1>8 DEF Unsubscribe, FoundForRename, FoundForRemove, DropChannelTopic, FoundForSelect, SelectActiveChannel, On, At
  <2>. QED BY <1>1, <1>5, <1>8, <2>1, RoleMoves
           DEF Unsubscribe, FoundForRename, FoundForRemove, DropChannelTopic, FoundForSelect, SelectActiveChannel
<1>9. CASE AuthoriseInvite(w) \/ CheckTtl(w) \/ SetActiveLink(w) \/ DeleteToken(w) \/ DeleteActiveLink(w)
  <2>1. f.pc # "idle"
    BY <1>9 DEF AuthoriseInvite, CheckTtl, SetActiveLink, DeleteToken, DeleteActiveLink, On, At
  <2>. QED BY <1>1, <1>2, <1>5, <1>9, <2>1, RoleMoves DEF AuthoriseInvite, CheckTtl, SetActiveLink, DeleteToken, DeleteActiveLink
<1>10. CASE CallFails(w)
  <2>1. f.pc # "idle"
    BY <1>10 DEF CallFails, Statements, RedisCalls
  <2>. QED BY <1>1, <1>2, <1>5, <1>10, <2>1, RoleMoves DEF CallFails
<1>11. CASE GetUserHubs(w) \/ WarmSnapshots(w) \/ Topology(w) \/ Gather(w) \/ ResolveInvite(w)
  <2>1. f.pc # "idle"
    BY <1>11 DEF GetUserHubs, WarmSnapshots, Topology, Gather, ResolveInvite, At
  <2>2. \/ N.pc \in {"warm", "topology"} \/ N = Idle
        \/ N.pc \in {"get_channels", "look_up", "load"} /\ N.ret \in {"topology", "synced", "gather", "member"}
    BY <1>11, <2>1, SyncShapes DEF Calls, SyncsShape
  <2>. QED BY <1>1, <1>2, <1>3, <1>4, <2>1, <2>2, RoleMoves
<1>12. CASE GetActiveLink(w) \/ SetToken(w) \/ RevokeInvites(w)
  <2>1. f.pc # "idle"
    BY <1>12 DEF GetActiveLink, SetToken, RevokeInvites, At
  <2>2. N.pc \in {"set_token", "ttl", "set_active", "del_active", "del_token"}
    BY <1>12, <2>1, EditShapes DEF Proceeds, EditsShape
  <2>. QED BY <1>1, <1>2, <1>4, <2>2
<1>13. CASE DeleteHub(w) \/ RemoveMember(w) \/ AddMember(w) \/ UpdateHubAvatarSeed(w)
  <2>1. f.pc # "idle"
    BY <1>13 DEF DeleteHub, RemoveMember, AddMember, UpdateHubAvatarSeed, At
  <2>2. N = Idle \/ (N.pc = "invalidate" /\ N.ret \in {"invalidate_channels", "revoke", "cut", "subscribe", "idle"})
    BY <1>13, <2>1, HubWriteShapes DEF HubWritesShape
  <2>. QED BY <1>1, <1>2, <1>3, <2>1, <2>2, RoleMoves
<1>14. CASE InsertChannel(w) \/ RenameChannel(w) \/ RemoveChannel(w)
  <2>1. f.pc # "idle"
    BY <1>14 DEF InsertChannel, RenameChannel, RemoveChannel, At
  <2>2. \/ N = Idle \/ N.pc = "subscribe"
        \/ N.pc \in {"cache_channel", "copy_channel"} /\ N.ret \in {"subscribe", "idle", "drop_topic"}
    BY <1>14, <2>1, ChannelWriteShapes DEF Proceeds, ChannelWritesShape
  <2>. QED BY <1>1, <1>2, <1>3, <1>4, <2>1, <2>2, RoleMoves
<1>15. CASE InvalidateChannels(w)
  <2>1. f.pc # "idle"
    BY <1>15 DEF InvalidateChannels, At
  <2>. QED BY <1>1, <1>2, <1>5, <1>15, <2>1, RoleMoves DEF InvalidateChannels
<1>. QED BY <1>6, <1>7, <1>8, <1>9, <1>10, <1>11, <1>12, <1>13, <1>14, <1>15 DEF RolelessStep

\* The methods of the service leave the tables and the command as they are.
LEMMA MethodsReach ==
    ASSUME HubsInv, NEW w \in DOMAIN worker, ServiceStep(w), ~InvalidateChannels(w)
    PROVE  /\ UNCHANGED db /\ worker[w].pc # "idle" /\ worker[w].pc \in Methods
           /\ \/ worker'[w] = Idle /\ Where(worker[w]) = "idle"
              \/ Reaches(worker'[w], worker[w], Where(worker[w]))
<1>. DEFINE f == worker[w]
            N == worker'[w]
            Still == (N = Idle /\ Where(f) = "idle") \/ Reaches(N, f, Where(f))
<1>1. /\ {"get_hub", "get_channels", "put_snapshots", "get_rows", "keep_rows", "copy_snapshot", "put_copy", "put_channel"} \subseteq Methods
      /\ {"get_roles"} \cup Putting \subseteq Methods
  BY DEF Methods, LoadPcs, LookPcs, EditPcs, Reading, Putting
<1>2. ASSUME f.pc \in Methods, Moved(N, f, {"pc", "rows", "pend", "found", "snap"}), N.pc \in Methods PROVE Still
  BY <1>2 DEF Moved, FrameFields, Reaches, Lists, Where
<1>3. \A F : F \subseteq {"pc", "rows", "pend", "found", "snap"} /\ Moved(N, f, F) => Moved(N, f, {"pc", "rows", "pend", "found", "snap"})
  BY DEF Moved
<1>4. ASSUME f.pc \in Methods, f.pc # "idle", NEW pc \in Methods, pc # "idle", Proceed(w, pc) PROVE Still
  BY ZenonT(30), <1>4, Moving DEF Proceeds, Kept, Rest, Reaches, Where
<1>5. CASE LoadSnapshot(w) \/ PutChannels(w) \/ PutSnapshots(w) \/ KeepChannelRows(w) \/ CacheChannel(w) \/ PutCopy(w) \/ PutChannel(w)
  <2>1. UNCHANGED db /\ f.pc \in Methods /\ f.pc # "idle"
    BY <1>5 DEF LoadSnapshot, PutChannels, PutSnapshots, KeepChannelRows, CacheChannel, PutCopy, PutChannel, At, tables,
           Methods, LoadPcs, LookPcs, EditPcs, Reading, Putting
  <2>2. Still
    BY <1>1, <1>4, <1>5, <2>1, RoleMoves
       DEF LoadSnapshot, PutChannels, PutSnapshots, KeepChannelRows, CacheChannel, PutCopy, PutChannel
  <2>. QED BY <2>1, <2>2
<1>6. CASE GetHub(w) \/ GetChannels(w) \/ GetRoles(w) \/ LookUpChannels(w) \/ GetChannelRows(w) \/ CopySnapshot(w) \/ CopyChannel(w)
  <2>1. f.pc \in Methods /\ f.pc # "idle"
    BY <1>6 DEF GetHub, GetChannels, GetRoles, LookUpChannels, GetChannelRows, CopySnapshot, CopyChannel, At,
           Methods, LoadPcs, LookPcs, EditPcs, Reading, Putting
  <2>2. ASSUME NEW s, NEW fd, Return(w, s, fd) PROVE Still
    BY <2>1, <2>2, RoleMoves
  <2>3. CASE GetHub(w) \/ LookUpChannels(w) \/ CopySnapshot(w)
    <3>1. UNCHANGED db
      BY <2>3 DEF GetHub, LookUpChannels, CopySnapshot, tables
    <3>2. \/ \E s, fd : Return(w, s, fd)
          \/ Moved(N, f, {"pc", "rows"}) /\ N.pc = "get_channels"
          \/ Moved(N, f, {"pc", "found"}) /\ N.pc = "get_rows"
          \/ Moved(N, f, {"pc", "snap"}) /\ N.pc = "put_copy"
      <4>1. CASE GetHub(w)
        BY <2>1, <4>1, ReadShapes DEF GetHub, ReadsShape
      <4>2. CASE LookUpChannels(w)
        <5>1. CASE f.ids \subseteq DOMAIN channelCache
          BY <4>2, <5>1 DEF LookUpChannels
        <5>2. CASE ~(f.ids \subseteq DOMAIN channelCache)
          <6>. DEFINE hits == Restrict(channelCache, f.ids \cap DOMAIN channelCache)
          <6>1. Goto(w, [f EXCEPT !.pc = "get_rows", !.found = hits])
            BY <4>2, <5>2 DEF LookUpChannels
          <6>. HIDE DEF hits
          <6>. DEFINE g == [f EXCEPT !.pc = "get_rows", !.found = hits]
          <6>2. Moved(g, f, {"pc", "found"}) /\ g.pc = "get_rows"
            BY <2>1, Active DEF Moved, IsRecord, FrameFields
          <6>. HIDE DEF g
          <6>3. N = g
            BY <6>1, <6>2, Arrives DEF g
          <6>. QED BY <6>2, <6>3
        <5>. QED BY <5>1, <5>2
      <4>3. CASE CopySnapshot(w)
        BY <2>1, <4>3, EditShapes DEF CopySnapshot, EditsShape
      <4>. QED BY <2>3, <4>1, <4>2, <4>3
    <3>. QED BY <1>1, <1>2, <1>3, <2>1, <2>2, <3>1, <3>2
  <2>4. CASE GetChannels(w) \/ GetRoles(w) \/ GetChannelRows(w) \/ CopyChannel(w)
    <3>1. /\ UNCHANGED db /\ N.pc \in {"get_roles", "keep_rows", "put_channel"} \cup Putting
          /\ Moved(N, f, {"pc", "rows", "pend"}) \/ Moved(N, f, {"pc", "rows"}) \/ Moved(N, f, {"pc", "pend"})
      BY <2>1, <2>4, ReadShapes, EditShapes DEF EditsShape, ReadsShape
    <3>. QED BY <1>1, <1>2, <1>3, <2>1, <3>1
  <2>. QED BY <1>6, <2>1, <2>3, <2>4
<1>7. CASE InvalidateHub(w)
  <2>1. UNCHANGED db /\ f.pc = "invalidate" /\ Proceed(w, f.ret)
    BY <1>7 DEF InvalidateHub, At, tables
  <2>2. f.ret \notin Methods /\ f.pc \in Methods
    <3>1. HubRets \cap Methods = {}
      BY DEF HubRets, Methods, LoadPcs, LookPcs, EditPcs, Reading, Putting
    <3>. QED BY <2>1, <3>1, Active DEF FrameOK, Returns, Methods
  <2>3. Still
    <3>1. CASE f.ret = "idle"
      <4>1. [f EXCEPT !.pc = f.ret].pc = "idle"
        BY <2>1, <3>1, Active DEF IsRecord, FrameFields
      <4>2. N = Idle
        BY <2>1, <4>1, Arrives DEF Proceed
      <4>. QED BY <2>2, <3>1, <4>2 DEF Where
    <3>2. CASE f.ret # "idle"
      <4>1. Reaches(N, f, f.ret)
        BY <2>1, <2>2, <3>2, RoleMoves
      <4>. QED BY <2>2, <4>1 DEF Where
    <3>. QED BY <3>1, <3>2
  <2>. QED BY <2>1, <2>2, <2>3
<1>. HIDE DEF Still
<1>. QED BY <1>5, <1>6, <1>7 DEF ServiceStep, Still

\* The role in a snapshot that was just loaded is the role in the tables.
LEMMA RoleHeld ==
    ASSUME HubsInv, NEW w \in DOMAIN worker, Exact(worker[w], hubCache, channelCache, db), worker[w].pc = "authorise"
    PROVE  ActorRole(w) = RoleNow(worker[w], db)
<1>. DEFINE f == worker[w]
<1>1. IF f.snap = NoSnapshot THEN f.hub \notin DOMAIN db.hubs ELSE f.snap = SnapshotIn(db, f.hub)
  BY DEF Exact, HoldsNow, LoadRets
<1>2. /\ \A u : <<f.hub, u>> \in DOMAIN db.members => f.hub \in DOMAIN db.hubs /\ u \in Users
  <2>1. \A u : <<f.hub, u>> \in (DOMAIN db.hubs) \X Users => f.hub \in DOMAIN db.hubs /\ u \in Users
    BY SMT
  <2>. QED BY <2>1 DEF HubsInv, TablesOK
<1>3. SnapshotIn(db, f.hub).roles = RolesIn(db, f.hub)
  BY DEF SnapshotIn
<1>4. \A u : /\ u \in DOMAIN RolesIn(db, f.hub) <=> <<f.hub, u>> \in DOMAIN db.members
             /\ u \in DOMAIN RolesIn(db, f.hub) => RolesIn(db, f.hub)[u] = db.members[<<f.hub, u>>]
  BY <1>2 DEF RolesIn, MembersOf
<1>. QED BY <1>1, <1>2, <1>3, <1>4 DEF ActorRole, Actor, RoleIn, RoleNow

\* The roles of RolePolicy.h for each command.
LEMMA RolesByCommand ==
    /\ "OWNER" \in RolesFor("delete_hub") /\ "OWNER" \in RolesFor("remove_channel") /\ "OWNER" \in RolesFor("set_role")
    /\ \A r \in Manages : /\ r \in RolesFor("update_hub") /\ r \in RolesFor("create_channel")
                          /\ r \in RolesFor("rename_channel") /\ r \in RolesFor("kick")
    /\ \A r \in Roles \ {"OWNER"} : r \in RolesFor("leave")
    /\ \A op : "NONE" \notin RolesFor(op)
  BY DEF RolesFor, Manages, Roles

\* Every step of the only thread leaves it with the role it needs.
LEMMA RoleStep ==
    ASSUME HubsInv, losses \in Nat, losses' = losses, NEW w \in DOMAIN worker,
           Exact(worker[w], hubCache, channelCache, db), RoleFits(worker[w], db),
           Take(w) \/ CommandStep(w) \/ CallFails(w) \/ ServiceStep(w)
    PROVE  RoleFits(worker'[w], db')
<1>. DEFINE f == worker[w]
            N == worker'[w]
<1>1. CASE RolelessStep(w)
  BY <1>1, RolelessSteps, RoleStays
<1>2. CASE ServiceStep(w) /\ ~InvalidateChannels(w)
  <2>1. UNCHANGED db /\ f.pc # "idle" /\ (N = Idle \/ Reaches(N, f, Where(f)))
    BY <1>2, MethodsReach
  <2>. QED BY <2>1, RoleMoves, RoleStays
<1>3. /\ {"own_ids", "remove_member", "rename_hub", "seed_hub", "check_limit", "siblings", "delete_channel"} \subseteq Authorised
      /\ {"voice", "add_member", "check_name", "count_channels", "insert_channel", "service_ids", "rename_channel"} \subseteq Authorised
  BY DEF Authorised
<1>4. /\ {"remove_member", "rename_hub", "seed_hub", "delete_channel", "authorise", "target", "voice", "add_member"} \cap Methods = {}
      /\ {"check_name", "count_channels", "insert_channel", "rename_channel", "own_ids", "siblings", "check_limit"} \cap Methods = {}
      /\ {"rename_hub", "member", "insert_hub", "subscribe"} \cap Methods = {}
      /\ {"load", "invalidate"} \subseteq Methods
  BY DEF Methods, LoadPcs, LookPcs, EditPcs, Reading, Putting
<1>5. CASE Finish(w) /\ f.pc # "idle"
  BY <1>5, RoleMoves, RoleStays
<1>6. ASSUME f.pc = "authorise", NEW x \in Authorised, Reaches(N, f, x), ActorRole(w) \in RolesFor(f.cmd.op), UNCHANGED db
      PROVE  RoleFits(N, db')
  BY <1>6, RoleHeld, RoleStays
<1>7. CASE AuthoriseDelete(w) \/ AuthoriseLeave(w) \/ AuthoriseUpdate(w) \/ AuthoriseCreateChannel(w) \/ AuthoriseRename(w) \/ AuthoriseRemove(w)
  <2>1. f.pc = "authorise" /\ UNCHANGED db
    BY <1>7 DEF AuthoriseDelete, AuthoriseLeave, AuthoriseUpdate, AuthoriseCreateChannel, AuthoriseRename, AuthoriseRemove, On, At, tables
  <2>2. ActorRole(w) \in Roles \cup {"NONE"}
    <3>1. RoleNow(f, db) \in Roles \cup {"NONE"}
      BY DEF RoleNow, HubsInv, TablesOK
    <3>. QED BY <2>1, <3>1, RoleHeld
  <2>3. CASE AuthoriseDelete(w) \/ AuthoriseRemove(w)
    <3>1. Finish(w) \/ (ActorRole(w) \in RolesFor(f.cmd.op) /\ (Load(w, "own_ids") \/ Proceed(w, "delete_channel")))
      BY <2>3, RolesByCommand DEF AuthoriseDelete, AuthoriseRemove, On
    <3>. QED BY <1>3, <1>4, <1>5, <1>6, <2>1, <3>1, RoleMoves
  <2>4. CASE AuthoriseLeave(w)
    <3>1. Finish(w) \/ (ActorRole(w) \in RolesFor(f.cmd.op) /\ Proceed(w, "remove_member"))
      BY <2>2, <2>4, RolesByCommand DEF AuthoriseLeave, On
    <3>. QED BY <1>3, <1>4, <1>5, <1>6, <2>1, <3>1, RoleMoves
  <2>5. CASE AuthoriseUpdate(w) \/ AuthoriseCreateChannel(w) \/ AuthoriseRename(w)
    <3>1. \/ Finish(w)
          \/ /\ ActorRole(w) \in RolesFor(f.cmd.op)
             /\ Proceed(w, "rename_hub") \/ Proceed(w, "seed_hub") \/ Load(w, "check_limit") \/ Load(w, "siblings")
      BY <2>5, RolesByCommand DEF AuthoriseUpdate, AuthoriseCreateChannel, AuthoriseRename, On
    <3>. QED BY <1>3, <1>4, <1>5, <1>6, <2>1, <3>1, RoleMoves
  <2>. QED BY <1>7, <2>3, <2>4, <2>5
<1>8. CASE AuthoriseKick(w) \/ AuthoriseSetRole(w)
  <2>1. f.pc = "authorise" /\ UNCHANGED db /\ (Finish(w) \/ LoadTarget(w))
    BY <1>8 DEF AuthoriseKick, AuthoriseSetRole, On, At, tables
  <2>2. CASE LoadTarget(w)
    <3>1. Where(N) = "target" /\ N.cmd = f.cmd /\ N.hub = f.hub /\ N.role = RoleNow(f, db)
      BY <2>1, <2>2, RoleMoves, RoleHeld
    <3>. QED BY <2>1, <3>1 DEF RoleFits, RoleNow, Authorised
  <2>. QED BY <1>5, <2>1, <2>2
<1>9. CASE KickFromVoice(w) \/ CheckSetRole(w)
  <2>1. f.pc = "target" /\ UNCHANGED db
    BY <1>9 DEF KickFromVoice, CheckSetRole, On, At, tables
  <2>2. f.role = RoleNow(f, db)
    BY <1>4, <2>1 DEF RoleFits, Where
  <2>3. ASSUME f.role \in RolesFor(f.cmd.op), NEW x \in Authorised, Reaches(N, f, x) PROVE RoleFits(N, db')
    BY <2>1, <2>2, <2>3, RoleStays
  <2>4. CASE KickFromVoice(w)
    <3>1. \/ Finish(w)
          \/ /\ f.role \in RolesFor(f.cmd.op)
             /\ Proceed(w, "remove_member") \/ \E cs : LookUp(w, cs, "voice")
      BY <2>4, RolesByCommand DEF KickFromVoice, On, CanKickHubMember, Manages
    <3>. QED BY <1>3, <1>4, <1>5, <2>1, <2>3, <3>1, RoleMoves
  <2>5. CASE CheckSetRole(w)
    <3>1. Finish(w) \/ (f.role \in RolesFor(f.cmd.op) /\ Proceed(w, "add_member"))
      BY <2>5, RolesByCommand DEF CheckSetRole, On, CanChangeMemberRole
    <3>. QED BY <1>3, <1>4, <1>5, <2>1, <2>3, <3>1, RoleMoves
  <2>. QED BY <1>9, <2>4, <2>5
<1>10. CASE CountChannels(w) \/ KeepTopics(w) \/ VoiceKicked(w) \/ CheckLimit(w) \/ CheckName(w) \/ GetSiblings(w)
  <2>1. UNCHANGED db /\ f.pc \in {"count_channels", "own_ids", "voice", "check_limit", "check_name", "siblings"} /\ f.pc # "idle"
    BY <1>10 DEF CountChannels, KeepTopics, VoiceKicked, CheckLimit, CheckName, GetSiblings, At, tables
  <2>2. Where(f) \in Authorised
    BY <1>3, <1>4, <2>1 DEF Where
  <2>3. ASSUME NEW x \in Authorised, Reaches(N, f, x) PROVE RoleFits(N, db')
    BY <2>1, <2>2, <2>3, RoleStays
  <2>4. CASE KeepTopics(w)
    <3>1. Moved(N, f, {"pc", "ret", "topics"}) /\ N.pc = "load" /\ N.ret = "service_ids"
      BY <2>1, <2>4, SyncShapes DEF SyncsShape
    <3>2. Where(N) = "service_ids" /\ N.cmd = f.cmd /\ N.hub = f.hub
      BY <1>4, <3>1 DEF Where, Moved, FrameFields
    <3>. QED BY <2>1, <2>2, <3>2 DEF RoleFits, RoleNow
  <2>5. CASE CountChannels(w) \/ VoiceKicked(w) \/ CheckLimit(w) \/ CheckName(w) \/ GetSiblings(w)
    <3>1. \/ Finish(w) \/ AfterFailure(w) \/ Proceed(w, "insert_channel") \/ Proceed(w, "remove_member")
          \/ Proceed(w, "count_channels") \/ Proceed(w, "rename_channel") \/ \E cs : LookUp(w, cs, "check_name")
      BY <2>5 DEF CountChannels, VoiceKicked, CheckLimit, CheckName, GetSiblings
    <3>. QED BY <1>3, <1>4, <2>1, <2>3, <3>1, RoleMoves, RoleStays
  <2>. QED BY <1>10, <2>4, <2>5
<1>11. CASE CreateHub(w)
  <2>1. f.pc = "insert_hub" /\ f.cmd.op = "create_hub"
    BY <1>11 DEF CreateHub, At, Exact, OpFits
  <2>2. N = Idle \/ (Moved(N, f, {"pc", "ret", "hub"}) /\ N.pc = "invalidate" /\ N.ret = "count_channels")
    BY <1>11, <2>1, HubWriteShapes DEF HubWritesShape
  <2>3. CASE N.pc = "invalidate" /\ N.ret = "count_channels" /\ Moved(N, f, {"pc", "ret", "hub"})
    <3>1. N.cmd.op = "create_hub" /\ Where(N) = "count_channels"
      BY <1>4, <2>1, <2>3 DEF Where, Moved, FrameFields
    <3>. QED BY <3>1 DEF RoleFits
  <2>. QED BY <2>1, <2>2, <2>3, RoleMoves, RoleStays
<1>12. CASE RenameHub(w)
  <2>1. f.pc = "rename_hub" /\ Where(f) \in Authorised
    BY <1>3, <1>4, <1>12 DEF RenameHub, At, Where
  <2>2. \/ N = Idle
        \/ /\ db' = RenameHubRow(db, f.hub, f.cmd.name) /\ Moved(N, f, {"pc", "ret"}) /\ N.pc = "invalidate"
           /\ N.ret \in {"seed_hub", "idle"}
    BY <1>12, <2>1, HubWriteShapes DEF HubWritesShape
  <2>3. CASE /\ db' = RenameHubRow(db, f.hub, f.cmd.name) /\ Moved(N, f, {"pc", "ret"}) /\ N.pc = "invalidate"
             /\ N.ret \in {"seed_hub", "idle"}
    <3>1. RenameHubRow(db, f.hub, f.cmd.name).members = db.members
      BY DEF RenameHubRow, HubsInv, TablesOK, IsRecord
    <3>2. db'.members = db.members
      BY <2>3, <3>1
    <3>3. Reaches(N, f, N.ret)
      BY <1>4, <2>3 DEF Reaches, Lists, Where, Moved, FrameFields
    <3>4. N.ret \in Authorised \/ Roleless(N)
      BY <1>3, <2>3, <3>3 DEF Roleless, Reaches, Authorised
    <3>. QED BY <2>1, <3>2, <3>3, <3>4, RoleStays
  <2>. QED BY <2>1, <2>2, <2>3, RoleMoves, RoleStays
<1>13. CASE JoinHub(w)
  <2>1. f.pc = "member" /\ f.cmd.op = "join" /\ (Finish(w) \/ Proceed(w, "subscribe") \/ Proceed(w, "add_member"))
    BY <1>13, Active DEF JoinHub, At, FrameOK, MayWrite
  <2>2. ASSUME NEW x, Reaches(N, f, x), x \in {"subscribe", "add_member"} PROVE RoleFits(N, db')
    BY <2>1, <2>2 DEF RoleFits, Reaches
  <2>. QED BY <1>4, <1>5, <2>1, <2>2, RoleMoves
<1>. QED BY <1>1, <1>2, <1>7, <1>8, <1>9, <1>10, <1>11, <1>12, <1>13 DEF CommandStep, ServiceStep, RolelessStep

\* Nobody has passed a check before the first command.
LEMMA RoleInit == HubsInit => RoleInv
<1>. SUFFICES ASSUME HubsInit, NEW w \in DOMAIN worker PROVE RoleFits(worker[w], db)
  BY DEF RoleInv
<1>1. worker[w].pc = "idle"
  <2>1. PICK x \in Configs : worker = [v \in 1..x.workers |-> Idle]
    BY DEF HubsInit
  <2>. QED BY <2>1 DEF Idle
<1>2. Roleless(worker[w])
  BY <1>1 DEF Roleless, Where, Authorised, Methods, LoadPcs, LookPcs, EditPcs, Reading, Putting
<1>. QED BY <1>2, RoleStays

\* The statements that change the tables.
LEMMA Writers ==
    ASSUME NEW w, Take(w) \/ CommandStep(w) \/ CallFails(w) \/ ServiceStep(w), db' # db
    PROVE  /\ worker[w].pc \in Authorised \cup {"insert_hub"}
           /\ Where(worker[w]) = worker[w].pc
<1>. DEFINE f == worker[w]
            Writes == {"service_ids", "remove_member", "add_member", "rename_hub", "seed_hub", "insert_channel",
                       "rename_channel", "delete_channel", "insert_hub"}
<1>1. ~ServiceStep(w)
  <2>1. ~(LoadSnapshot(w) \/ GetHub(w) \/ GetChannels(w) \/ GetRoles(w) \/ PutChannels(w) \/ PutSnapshots(w))
    BY DEF LoadSnapshot, GetHub, GetChannels, GetRoles, PutChannels, PutSnapshots, On, tables
  <2>2. ~(LookUpChannels(w) \/ GetChannelRows(w) \/ KeepChannelRows(w) \/ InvalidateHub(w) \/ CacheChannel(w) \/ CopySnapshot(w))
    BY DEF LookUpChannels, GetChannelRows, KeepChannelRows, InvalidateHub, CacheChannel, CopySnapshot, On, tables
  <2>3. ~(PutCopy(w) \/ CopyChannel(w) \/ PutChannel(w) \/ InvalidateChannels(w))
    BY DEF PutCopy, CopyChannel, PutChannel, InvalidateChannels, On, tables
  <2>. QED BY <2>1, <2>2, <2>3 DEF ServiceStep
<1>2. ASSUME CommandStep(w) PROVE f.pc \in Writes
  <2>1. ~(CountHubs(w) \/ CountChannels(w) \/ Subscribe(w) \/ Filter(w) \/ GetUserHubs(w) \/ WarmSnapshots(w))
    BY DEF CountHubs, CountChannels, Subscribe, Filter, GetUserHubs, WarmSnapshots, On, tables
  <2>2. ~(Topology(w) \/ Gather(w) \/ Synced(w) \/ AuthoriseDelete(w) \/ KeepTopics(w) \/ DropTopics(w))
    BY DEF Topology, Gather, Synced, AuthoriseDelete, KeepTopics, DropTopics, On, tables
  <2>3. ~(AuthoriseLeave(w) \/ AuthoriseKick(w) \/ KickFromVoice(w) \/ VoiceKicked(w) \/ CutOff(w) \/ Unsubscribe(w))
    BY DEF AuthoriseLeave, AuthoriseKick, KickFromVoice, VoiceKicked, CutOff, Unsubscribe, On, tables
  <2>4. ~(AuthoriseSetRole(w) \/ CheckSetRole(w) \/ AuthoriseUpdate(w) \/ ResolveInvite(w) \/ JoinHub(w) \/ AuthoriseCreateChannel(w))
    BY DEF AuthoriseSetRole, CheckSetRole, AuthoriseUpdate, ResolveInvite, JoinHub, AuthoriseCreateChannel, On, tables
  <2>5. ~(CheckLimit(w) \/ CheckName(w) \/ FoundForRename(w) \/ AuthoriseRename(w) \/ GetSiblings(w) \/ FoundForRemove(w))
    BY DEF CheckLimit, CheckName, FoundForRename, AuthoriseRename, GetSiblings, FoundForRemove, On, tables
  <2>6. ~(AuthoriseRemove(w) \/ DropChannelTopic(w) \/ FoundForSelect(w) \/ SelectActiveChannel(w) \/ AuthoriseInvite(w) \/ GetActiveLink(w))
    BY DEF AuthoriseRemove, DropChannelTopic, FoundForSelect, SelectActiveChannel, AuthoriseInvite, GetActiveLink, On, tables
  <2>7. ~(CheckTtl(w) \/ SetToken(w) \/ SetActiveLink(w) \/ RevokeInvites(w) \/ DeleteToken(w) \/ DeleteActiveLink(w))
    BY DEF CheckTtl, SetToken, SetActiveLink, RevokeInvites, DeleteToken, DeleteActiveLink, On, tables
  <2>8. CASE CreateHub(w) \/ InsertChannel(w) \/ DeleteHub(w) \/ RemoveMember(w) \/ AddMember(w)
    BY <2>8 DEF CreateHub, InsertChannel, DeleteHub, RemoveMember, AddMember, At
  <2>9. CASE RenameHub(w) \/ UpdateHubAvatarSeed(w) \/ RenameChannel(w) \/ RemoveChannel(w)
    BY <2>9 DEF RenameHub, UpdateHubAvatarSeed, RenameChannel, RemoveChannel, At
  <2>. QED BY <1>2, <2>1, <2>2, <2>3, <2>4, <2>5, <2>6, <2>7, <2>8, <2>9 DEF CommandStep
<1>3. ~Take(w) /\ ~CallFails(w)
  BY DEF Take, CallFails, tables
<1>4. Writes \subseteq Authorised \cup {"insert_hub"} /\ Writes \cap Methods = {}
  BY DEF Authorised, Methods, LoadPcs, LookPcs, EditPcs, Reading, Putting
<1>. HIDE DEF Writes
<1>. QED BY <1>1, <1>2, <1>3, <1>4 DEF Where

-----------------------------------------------------------------------------
(* What the clients see.                                                   *)

OwingSteps == {"count_channels", "insert_channel", "subscribe", "filter", "warm", "topology", "gather", "synced",
               "revoke", "del_token", "del_active", "cut", "unsubscribe", "invalidate_channels", "drop_topics",
               "drop_topic"}

\* The phases of the commands.
LEMMA PhaseFacts ==
    ASSUME NEW op, NEW x
    PROVE  /\ x \notin OwingSteps \/ op \in {"sync", "create_channel"} => PhaseAt(op, x) = "none"
           /\ op \in {"create_hub", "join"} =>
                 /\ x \in {"count_channels", "insert_channel", "subscribe"} => PhaseAt(op, x) = "join"
                 /\ x \in {"filter", "warm", "topology", "gather", "synced"} => PhaseAt(op, x) = "show"
           /\ op \in {"leave", "kick"} /\ x \in {"revoke", "del_token", "del_active", "cut", "unsubscribe"} =>
                 PhaseAt(op, x) = "leave"
           /\ op = "delete_hub" /\ x \in {"invalidate_channels", "revoke", "del_token", "del_active", "drop_topics"} =>
                 PhaseAt(op, x) = "delete"
           /\ op = "remove_channel" /\ x = "drop_topic" => PhaseAt(op, x) = "remove"
  BY SMT DEF PhaseAt, OwingSteps

\* The same hubs, members and channels, whatever their names, seeds and roles.
Kin(d, e) ==
    /\ DOMAIN e.hubs = DOMAIN d.hubs /\ DOMAIN e.members = DOMAIN d.members /\ DOMAIN e.channels = DOMAIN d.channels
    /\ \A c \in DOMAIN d.channels : e.channels[c].hub = d.channels[c].hub

\* Who and what the command is about.
Subject(g, f) == g.cmd = f.cmd /\ g.hub = f.hub /\ g.topics = f.topics

\* The clients do not depend on more.
LEMMA FitsMove ==
    ASSUME NEW p, NEW f, NEW g, NEW d, NEW e, NEW ss, NEW sh, Fits(p, f, d, ss, sh), Kin(d, e),
           p = "none" \/ Subject(g, f)
    PROVE  Fits(p, g, e, ss, sh)
<1>1. Seen(p, g, e, sh)
  BY DEF Fits, Seen, Kin, Subject
<1>2. Heard(p, g, ss, sh)
  BY DEF Fits, Heard, Subject
<1>3. Tuned(p, g, e, ss, sh)
  BY DEF Fits, Tuned, Kin, Subject
<1>4. \A h : ChannelsOf(e, h) = ChannelsOf(d, h)
  BY DEF ChannelsOf, Kin
<1>5. /\ p \in {"join", "show"} => <<g.hub, g.cmd.by>> \in DOMAIN e.members
      /\ p = "leave" => g.hub \in DOMAIN e.hubs
  BY DEF Fits, Kin, Subject
<1>6. /\ p = "delete" => g.topics \subseteq Channels /\ ChannelsOf(e, g.hub) = {}
      /\ p = "remove" => g.cmd.ch \in Channels
  BY <1>4 DEF Fits, Subject
<1>. QED BY <1>1, <1>2, <1>3, <1>5, <1>6 DEF Fits

\* The command is at step x, and has looked nothing up there.
Lands(g, f, x) == Where(g) = x /\ Subject(g, f) /\ Lists(g, f) /\ g.pc \notin {"get_rows", "keep_rows", "found"}

\* Steps that a command comes to with something in its hands.
Laden == {"warm", "topology", "gather", "synced", "service_ids", "add_member", "authorise"}

\* A command that goes on to owe what it owed, and one that ends owing nothing.
LEMMA ClientsKept ==
    ASSUME NEW f, NEW g, NEW d, NEW e, NEW ss, NEW sh, ClientsFit(f, d, ss, sh), f.pc # "idle", Kin(d, e)
    PROVE  /\ Phase(f) = "none" => ClientsFit(Idle, e, ss, sh)
           /\ \A x : Lands(g, f, x) /\ PhaseAt(f.cmd.op, x) = Phase(f) /\ OpAt(f.cmd.op, x) /\ x \notin Laden =>
                 ClientsFit(g, e, ss, sh)
           /\ \A x : /\ Where(g) = x /\ g.cmd = f.cmd /\ Phase(f) = "none" /\ PhaseAt(f.cmd.op, x) = "none"
                     /\ OpAt(f.cmd.op, x) /\ Carries(g, e)
                     => ClientsFit(g, e, ss, sh)
<1>1. Fits(Phase(f), f, d, ss, sh) /\ Carries(f, d)
  BY DEF ClientsFit
<1>2. Idle.pc = "idle" /\ Phase(Idle) = "none"
  <2>1. Idle.pc = "idle"
    BY DEF Idle
  <2>2. Where(Idle) = "idle"
    BY <2>1 DEF Where, Methods, LoadPcs, LookPcs, EditPcs, Reading, Putting
  <2>3. "idle" \notin OwingSteps
    BY DEF OwingSteps
  <2>4. PhaseAt(Idle.cmd.op, "idle") = "none"
    BY ZenonT(30), <2>3, PhaseFacts
  <2>. QED BY <2>1, <2>2, <2>4 DEF Phase
<1>3. Phase(f) = "none" => ClientsFit(Idle, e, ss, sh)
  BY <1>1, <1>2, FitsMove DEF ClientsFit
<1>4. ASSUME NEW x, Lands(g, f, x), PhaseAt(f.cmd.op, x) = Phase(f), OpAt(f.cmd.op, x), x \notin Laden
      PROVE  ClientsFit(g, e, ss, sh)
  <2>1. Phase(g) = Phase(f) /\ OpAt(g.cmd.op, Where(g))
    BY <1>4 DEF Lands, Subject, Phase
  <2>2. Fits(Phase(f), g, e, ss, sh)
    BY <1>1, <1>4, FitsMove DEF Lands
  <2>3. Carries(g, e)
    BY <1>1, <1>4 DEF Carries, Lands, Subject, Laden
  <2>. QED BY <2>1, <2>2, <2>3 DEF ClientsFit
<1>5. ASSUME NEW x, Where(g) = x, g.cmd = f.cmd, Phase(f) = "none", PhaseAt(f.cmd.op, x) = "none", OpAt(f.cmd.op, x), Carries(g, e)
      PROVE  ClientsFit(g, e, ss, sh)
  <2>1. Phase(g) = "none"
    BY <1>5 DEF Phase
  <2>2. Fits("none", g, e, ss, sh)
    BY ZenonT(30), <1>1, <1>5, FitsMove
  <2>. QED BY <1>5, <2>1, <2>2 DEF ClientsFit
<1>. QED BY <1>3, <1>4, <1>5

\* Where the abbreviations take a command.
LEMMA ClientMoves ==
    ASSUME HubsInv, NEW w \in DOMAIN worker, worker[w].pc # "idle"
    PROVE  /\ Finish(w) => worker'[w] = Idle
           /\ \A x : Proceed(w, x) /\ x \notin Methods \cup {"idle", "found"} => Lands(worker'[w], worker[w], x)
           /\ \A x : Load(w, x) \/ LoadFull(w, x) => Lands(worker'[w], worker[w], x)
           /\ \A cs, x : LookUp(w, cs, x) => Lands(worker'[w], worker[w], x)
           /\ LoadTarget(w) => Lands(worker'[w], worker[w], "target")
           /\ \A x : Moved(worker'[w], worker[w], {"pc", "ret", "ids", "link"}) /\ Where(worker'[w]) = x
                     /\ worker'[w].pc \notin {"get_rows", "keep_rows", "found"} => Lands(worker'[w], worker[w], x)
<1>. DEFINE f == worker[w]
            N == worker'[w]
<1>1. /\ {"load", "look_up"} \subseteq Methods /\ {"load", "look_up"} \cap {"get_rows", "keep_rows", "found"} = {}
      /\ {"get_rows", "keep_rows"} \subseteq Methods
  BY DEF Methods, LoadPcs, LookPcs
<1>2. ASSUME NEW x, Proceed(w, x), x \notin Methods \cup {"idle", "found"} PROVE Lands(N, f, x)
  <2>1. Proceeds(N, f, x)
    BY <1>2, Moving
  <2>2. x \notin {"get_rows", "keep_rows", "found"} /\ x \notin Methods
    BY <1>1, <1>2
  <2>. QED BY <2>1, <2>2 DEF Lands, Subject, Lists, Rest, Proceeds, Kept, Where
<1>3. \A x : Load(w, x) \/ LoadFull(w, x) => Lands(N, f, x)
  BY <1>1, Moving DEF Lands, Subject, Lists, Calls, Kept, Where
<1>4. ASSUME NEW cs, NEW x, LookUp(w, cs, x) PROVE Lands(N, f, x)
  <2>1. Calls(N, f, "look_up", x)
    BY <1>4, Moving
  <2>. QED BY <1>1, <2>1 DEF Lands, Subject, Lists, Calls, Kept, Where
<1>5. LoadTarget(w) => Lands(N, f, "target")
  BY <1>1, Moving DEF Lands, Subject, Lists, Calls, Kept, Where
<1>6. \A x : Moved(N, f, {"pc", "ret", "ids", "link"}) /\ Where(N) = x /\ N.pc \notin {"get_rows", "keep_rows", "found"} => Lands(N, f, x)
  BY DEF Moved, FrameFields, Lands, Subject, Lists
<1>. QED BY <1>2, <1>3, <1>4, <1>5, <1>6, Moving

\* A command that owes nothing yet.
LEMMA ClientsPlain ==
    ASSUME NEW f, NEW g, NEW d, NEW ss, NEW sh, ClientsFit(f, d, ss, sh),
           f.pc \notin Methods \cup OwingSteps \cup {"idle"}
    PROVE  /\ Kin(d, d) /\ Phase(f) = "none" /\ OpAt(f.cmd.op, f.pc) /\ Where(f) = f.pc
           /\ ClientsFit(Idle, d, ss, sh)
           /\ \A x : Lands(g, f, x) /\ x \notin OwingSteps \cup Laden /\ OpAt(f.cmd.op, x) => ClientsFit(g, d, ss, sh)
<1>1. Kin(d, d)
  BY DEF Kin
<1>2. Where(f) = f.pc
  BY DEF Where
<1>3. \A op, x : x \notin OwingSteps => PhaseAt(op, x) = "none"
  BY PhaseFacts
<1>4. Phase(f) = "none" /\ OpAt(f.cmd.op, f.pc)
  BY <1>2, <1>3 DEF Phase, ClientsFit
<1>. QED BY <1>1, <1>2, <1>3, <1>4, ClientsKept

\* Steps of commands that owe the clients nothing, before and after.
SilentStep(w) ==
    \/ CountHubs(w) \/ AuthoriseDelete(w) \/ AuthoriseLeave(w) \/ AuthoriseKick(w) \/ AuthoriseSetRole(w) \/ KickFromVoice(w)
    \/ VoiceKicked(w) \/ AuthoriseUpdate(w) \/ AuthoriseCreateChannel(w) \/ CheckLimit(w) \/ AuthoriseRename(w)
    \/ GetSiblings(w) \/ AuthoriseRemove(w) \/ AuthoriseInvite(w) \/ CheckTtl(w) \/ SetActiveLink(w)
    \/ GetActiveLink(w) \/ SetToken(w)

\* They do not matter to the clients.
LEMMA SilentSteps ==
    ASSUME HubsInv, NEW w \in DOMAIN worker, ClientsFit(worker[w], db, subs, shown), SilentStep(w)
    PROVE  ClientsFit(worker'[w], db', subs', shown')
<1>. DEFINE f == worker[w]
            N == worker'[w]
            From == {"count_hubs", "authorise", "target", "voice", "check_limit", "siblings", "ttl", "set_active", "get_active", "set_token"}
            To == {"insert_hub", "own_ids", "remove_member", "target", "voice", "rename_hub", "seed_hub", "check_limit",
                   "check_name", "siblings", "delete_channel", "get_active", "set_token", "ttl", "set_active"}
<1>1. /\ From \cap (Methods \cup OwingSteps \cup {"idle"}) = {} /\ To \cap (OwingSteps \cup Laden) = {}
      /\ To \cap (Methods \cup {"idle", "found"}) = {}
  BY ZenonT(30) DEF Methods, LoadPcs, LookPcs, EditPcs, Reading, Putting, OwingSteps, Laden
<1>2. ASSUME f.pc \in From
      PROVE  /\ f.pc # "idle" /\ OpAt(f.cmd.op, f.pc) /\ ClientsFit(Idle, db, subs, shown)
             /\ \A x \in To : Lands(N, f, x) /\ OpAt(f.cmd.op, x) => ClientsFit(N, db, subs, shown)
  BY ZenonT(30), <1>1, <1>2, ClientsPlain
<1>. DEFINE Ready(op, x) == x \in To /\ x \notin Methods \cup {"idle", "found"} /\ OpAt(op, x)
            Landed == N = Idle \/ \E x : Ready(f.cmd.op, x) /\ Lands(N, f, x)
<1>3. \A op : /\ Ready(op, "insert_hub") /\ Ready(op, "target") /\ Ready(op, "rename_hub") /\ Ready(op, "seed_hub")
              /\ Ready(op, "check_limit") /\ Ready(op, "check_name") /\ Ready(op, "siblings") /\ Ready(op, "get_active")
              /\ Ready(op, "set_token") /\ Ready(op, "ttl") /\ Ready(op, "set_active")
              /\ op = "delete_hub" => Ready(op, "own_ids")
              /\ op \in {"leave", "kick"} => Ready(op, "remove_member") /\ Ready(op, "voice")
              /\ op = "remove_channel" => Ready(op, "delete_channel")
              /\ OpAt(op, "voice") => op \in {"leave", "kick"}
  BY <1>1, SMT DEF OpAt
<1>. HIDE DEF Ready
<1>6. ASSUME f.pc # "idle"
      PROVE  /\ Finish(w) => Landed
             /\ \A x : Ready(f.cmd.op, x) /\ (Proceed(w, x) \/ Load(w, x)) => Landed
             /\ \A cs, x : Ready(f.cmd.op, x) /\ LookUp(w, cs, x) => Landed
             /\ LoadTarget(w) => Landed
  BY <1>3, <1>6, ClientMoves DEF Ready
<1>. HIDE DEF Landed
<1>4. UNCHANGED <<db, subs, shown>> /\ f.pc \in From
  <2>1. CASE CountHubs(w) \/ AuthoriseDelete(w) \/ AuthoriseLeave(w) \/ AuthoriseKick(w) \/ AuthoriseSetRole(w) \/ KickFromVoice(w)
    BY <2>1 DEF CountHubs, AuthoriseDelete, AuthoriseLeave, AuthoriseKick, AuthoriseSetRole, KickFromVoice, On, At, tables, delivery
  <2>2. CASE VoiceKicked(w) \/ AuthoriseUpdate(w) \/ AuthoriseCreateChannel(w) \/ CheckLimit(w) \/ AuthoriseRename(w) \/ GetSiblings(w)
    BY <2>2 DEF VoiceKicked, AuthoriseUpdate, AuthoriseCreateChannel, CheckLimit, AuthoriseRename, GetSiblings, On, At, tables, delivery
  <2>3. CASE AuthoriseRemove(w) \/ AuthoriseInvite(w) \/ CheckTtl(w) \/ SetActiveLink(w) \/ GetActiveLink(w) \/ SetToken(w)
    BY <2>3 DEF AuthoriseRemove, AuthoriseInvite, CheckTtl, SetActiveLink, GetActiveLink, SetToken, On, At, tables, delivery
  <2>. QED BY <2>1, <2>2, <2>3 DEF SilentStep
<1>5. Landed
  <2>1. f.pc # "idle"
    BY <1>2, <1>4
  <2>2. CASE CountHubs(w) \/ AuthoriseDelete(w) \/ AuthoriseLeave(w)
    <3>1. \/ Finish(w) \/ Proceed(w, "insert_hub") \/ (Load(w, "own_ids") /\ f.cmd.op = "delete_hub")
          \/ Proceed(w, "remove_member") /\ f.cmd.op = "leave"
      BY <2>2 DEF CountHubs, AuthoriseDelete, AuthoriseLeave, On
    <3>. QED BY <1>3, <1>6, <2>1, <3>1
  <2>3. CASE AuthoriseKick(w) \/ AuthoriseSetRole(w)
    <3>1. Finish(w) \/ LoadTarget(w)
      BY <2>3 DEF AuthoriseKick, AuthoriseSetRole
    <3>. QED BY <1>3, <1>6, <2>1, <3>1
  <2>4. CASE KickFromVoice(w) \/ VoiceKicked(w)
    <3>1. f.cmd.op \in {"leave", "kick"} /\ (Finish(w) \/ Proceed(w, "remove_member") \/ \E c : LookUp(w, {c}, "voice"))
      BY <1>2, <1>3, <1>4, <2>4 DEF KickFromVoice, VoiceKicked, On, At
    <3>. QED BY <1>3, <1>6, <2>1, <3>1
  <2>5. CASE AuthoriseUpdate(w) \/ AuthoriseCreateChannel(w) \/ CheckLimit(w)
    <3>1. \/ Finish(w) \/ Proceed(w, "rename_hub") \/ Proceed(w, "seed_hub") \/ Load(w, "check_limit")
          \/ \E cs : LookUp(w, cs, "check_name")
      BY <2>5 DEF AuthoriseUpdate, AuthoriseCreateChannel, CheckLimit
    <3>. QED BY <1>3, <1>6, <2>1, <3>1
  <2>6. CASE AuthoriseRename(w) \/ GetSiblings(w) \/ AuthoriseRemove(w)
    <3>1. \/ Finish(w) \/ Load(w, "siblings") \/ \E cs : LookUp(w, cs, "check_name")
          \/ Proceed(w, "delete_channel") /\ f.cmd.op = "remove_channel"
      BY <2>6 DEF AuthoriseRename, GetSiblings, AuthoriseRemove, On
    <3>. QED BY <1>3, <1>6, <2>1, <3>1
  <2>7. CASE AuthoriseInvite(w) \/ CheckTtl(w) \/ SetActiveLink(w)
    <3>1. Finish(w) \/ Proceed(w, "get_active") \/ Proceed(w, "set_token")
      BY <2>7 DEF AuthoriseInvite, CheckTtl, SetActiveLink
    <3>. QED BY <1>3, <1>6, <2>1, <3>1
  <2>8. CASE GetActiveLink(w) \/ SetToken(w)
    <3>1. (Proceeds(N, f, "set_token") \/ Moved(N, f, {"pc", "link"})) /\ N.pc \in {"set_token", "ttl", "set_active"}
      BY <2>1, <2>8, EditShapes DEF Proceeds, EditsShape
    <3>2. Moved(N, f, {"pc", "link"}) => Moved(N, f, {"pc", "ret", "ids", "link"})
      BY DEF Moved
    <3>3. N.pc \notin {"get_rows", "keep_rows", "found"} /\ Where(N) = N.pc
      BY <3>1 DEF Where, Methods, LoadPcs, LookPcs, EditPcs, Reading, Putting
    <3>4. Lands(N, f, N.pc)
      <4>1. CASE Proceeds(N, f, "set_token")
        BY <3>3, <4>1 DEF Proceeds, Lands, Subject, Lists, Rest, Kept
      <4>2. CASE Moved(N, f, {"pc", "link"})
        BY <2>1, <3>2, <3>3, <4>2, ClientMoves
      <4>. QED BY <3>1, <4>1, <4>2
    <3>. QED BY <1>3, <3>1, <3>4 DEF Landed
  <2>. QED BY <2>2, <2>3, <2>4, <2>5, <2>6, <2>7, <2>8 DEF SilentStep
<1>. HIDE DEF From, To
<1>. QED BY <1>2, <1>4, <1>5 DEF Landed, Ready

\* The channel that SelectActiveChannel looks up is the one in the tables.
LEMMA FoundNow ==
    ASSUME HubsInv, HubsInv', NEW w \in DOMAIN worker, w \in DOMAIN worker', Exact(worker[w], hubCache, channelCache, db),
           Carries(worker[w], db), worker[w].cmd.op = "select", ServiceStep(w), ~InvalidateChannels(w),
           worker'[w].pc \in {"get_rows", "keep_rows", "found"}
    PROVE  \A c \in DOMAIN worker'[w].found : ChannelExact(c, worker'[w].found, db)
<1>. DEFINE f == worker[w]
            N == worker'[w]
<1>1. f.pc # "idle" /\ f.pc \in Methods /\ N # Idle /\ Where(N) = Where(f) /\ FrameOK(N, db', past')
  <2>1. Idle.pc = "idle"
    BY DEF Idle
  <2>2. N # Idle
    BY <2>1
  <2>. QED BY <2>2, MethodsReach DEF Reaches, HubsInv, WorkersOK
<1>2. f.pc \in LookPcs
  <2>1. LookRets \cap (LoadRets \cup EditRets \cup HubRets) = {} /\ "found" \in LookRets
    BY DEF LookRets, LoadRets, EditRets, HubRets
  <2>2. {"get_rows", "keep_rows"} \subseteq LookPcs /\ LookPcs \subseteq Methods /\ "found" \notin Methods
    BY DEF Methods, LoadPcs, LookPcs, EditPcs, Reading, Putting
  <2>3. Where(N) \in LookRets
    BY <1>1, <2>1, <2>2 DEF Where, FrameOK, Returns
  <2>4. f.pc \notin LookPcs => Where(f) \in LoadRets \cup EditRets \cup HubRets
    BY <1>1, Active DEF Where, FrameOK, Returns, Methods
  <2>. QED BY <1>1, <2>1, <2>3, <2>4
<1>3. f.ret # "idle"
  BY <1>1, <1>2, Active DEF FrameOK, Returns, LookRets
<1>4. LookUpChannels(w) \/ GetChannelRows(w) \/ KeepChannelRows(w)
  <2>1. f.pc \notin {"load", "get_hub", "get_channels", "get_roles", "put_channels", "put_snapshots"}
    BY <1>2 DEF LookPcs
  <2>2. f.pc \notin {"invalidate", "cache_channel", "copy_snapshot", "put_copy", "copy_channel", "put_channel"}
    BY <1>2 DEF LookPcs
  <2>3. ~(LoadSnapshot(w) \/ GetHub(w) \/ GetChannels(w) \/ GetRoles(w) \/ PutChannels(w) \/ PutSnapshots(w))
    BY <2>1 DEF LoadSnapshot, GetHub, GetChannels, GetRoles, PutChannels, PutSnapshots, At
  <2>4. ~(InvalidateHub(w) \/ CacheChannel(w) \/ CopySnapshot(w) \/ PutCopy(w) \/ CopyChannel(w) \/ PutChannel(w))
    BY <2>2 DEF InvalidateHub, CacheChannel, CopySnapshot, PutCopy, CopyChannel, PutChannel, At
  <2>. QED BY <2>3, <2>4 DEF ServiceStep
<1>5. CASE LookUpChannels(w)
  <2>1. f.pc = "look_up"
    BY <1>5 DEF LookUpChannels, At
  <2>2. \A c \in DOMAIN channelCache : ChannelExact(c, channelCache, db)
    BY <2>1 DEF Exact, CachesFit, ChannelDirty
  <2>3. N.found = Restrict(channelCache, f.ids \cap DOMAIN channelCache)
    BY <1>1, <1>3, <1>5, ReadShapes DEF Back, ReadsShape
  <2>. QED BY <2>2, <2>3 DEF Restrict, ChannelExact
<1>6. CASE GetChannelRows(w)
  <2>1. f.pc = "get_rows" /\ N.found = f.found
    BY <1>1, <1>6, ReadShapes DEF GetChannelRows, At, Moved, FrameFields, ReadsShape
  <2>. QED BY <2>1 DEF Carries
<1>7. CASE KeepChannelRows(w)
  <2>1. f.pc = "keep_rows" /\ Return(w, f.snap, PutAll(f.found, f.pend))
    BY <1>7 DEF KeepChannelRows, At
  <2>. DEFINE all == PutAll(f.found, f.pend)
  <2>. HIDE DEF all
  <2>2. N.found = all
    <3>1. Return(w, f.snap, all)
      BY <2>1 DEF all
    <3>2. \A snap, found : Return(w, snap, found) => Back(N, f, snap, found)
      BY <1>1, <1>3, Moving
    <3>3. Back(N, f, f.snap, all)
      BY <3>1, <3>2
    <3>. QED BY <3>3 DEF Back
  <2>3. \A c \in DOMAIN f.found : ChannelExact(c, f.found, db)
    BY <2>1 DEF Carries
  <2>4. \A c \in DOMAIN f.pend : ChannelExact(c, f.pend, db)
    BY <1>1, <2>1 DEF Exact, HoldsNow
  <2>5. /\ DOMAIN all = DOMAIN f.found \cup DOMAIN f.pend /\ \A x \in DOMAIN f.pend : all[x] = f.pend[x]
        /\ \A x \in DOMAIN f.found \ DOMAIN f.pend : all[x] = f.found[x]
    BY SMT DEF all, PutAll
  <2>. QED BY <2>2, <2>3, <2>4, <2>5 DEF ChannelExact
<1>. QED BY <1>4, <1>5, <1>6, <1>7

\* The methods of the service leave the clients and what is owed to them as they are.
LEMMA MethodsFit ==
    ASSUME HubsInv, HubsInv', NEW w \in DOMAIN worker, w \in DOMAIN worker', Exact(worker[w], hubCache, channelCache, db),
           ClientsFit(worker[w], db, subs, shown), ServiceStep(w), ~InvalidateChannels(w), UNCHANGED <<subs, shown>>
    PROVE  ClientsFit(worker'[w], db', subs', shown')
<1>. DEFINE f == worker[w]
            N == worker'[w]
<1>1. /\ UNCHANGED db /\ f.pc # "idle" /\ f.pc \in Methods
      /\ (N = Idle /\ Where(f) = "idle") \/ Reaches(N, f, Where(f))
  BY MethodsReach
<1>2. Kin(db, db)
  BY DEF Kin
<1>3. CASE N = Idle /\ Where(f) = "idle"
  <2>1. "idle" \notin OwingSteps
    BY DEF OwingSteps
  <2>2. Phase(f) = "none"
    <3>1. PhaseAt(f.cmd.op, "idle") = "none"
      BY ZenonT(30), <2>1, PhaseFacts
    <3>. QED BY <1>3, <3>1 DEF Phase
  <2>. QED BY <1>1, <1>2, <1>3, <2>2, ClientsKept
<1>4. CASE Reaches(N, f, Where(f))
  <2>1. Where(N) = Where(f) /\ Subject(N, f) /\ Lists(N, f) /\ N.cmd = f.cmd /\ N.hub = f.hub
    BY <1>4 DEF Reaches, Subject, Lists
  <2>2. Phase(N) = Phase(f) /\ Fits(Phase(f), f, db, subs, shown) /\ Carries(f, db) /\ OpAt(N.cmd.op, Where(N))
    BY <1>1, <2>1 DEF Phase, ClientsFit
  <2>3. Fits(Phase(N), N, db, subs, shown)
    BY <1>2, <2>1, <2>2, FitsMove
  <2>4. ~(Where(f) = "warm" /\ f.cmd.op = "sync")
    BY <1>1, <2>2 DEF Carries, Methods, LoadPcs, LookPcs, EditPcs, Reading, Putting
  <2>5. f.cmd.op = "select" /\ N.pc \in {"get_rows", "keep_rows", "found"} =>
           \A c \in DOMAIN N.found : ChannelExact(c, N.found, db)
    BY <2>2, FoundNow
  <2>6. N.topics = f.topics /\ N.list = f.list /\ N.hubs = f.hubs
    BY <2>1 DEF Lists
  <2>7. Carries(N, db)
    BY <2>1, <2>2, <2>4, <2>5, <2>6 DEF Carries
  <2>. QED BY <1>1, <2>2, <2>3, <2>7 DEF ClientsFit
<1>. QED BY <1>1, <1>3, <1>4

\* What a snapshot that was just loaded says of the members and the channels.
LEMMA SnapNow ==
    ASSUME HubsInv, NEW w \in DOMAIN worker, Exact(worker[w], hubCache, channelCache, db),
           worker[w].pc \in LoadRets \ {"topology"}, ~(worker[w].pc = "warm" /\ worker[w].cmd.op = "sync")
    PROVE  /\ \A u : RoleIn(worker[w].snap, u) # "NONE" <=> <<worker[w].hub, u>> \in DOMAIN db.members
           /\ worker[w].hub \in DOMAIN db.hubs =>
                 worker[w].snap # NoSnapshot /\ ChannelsIn(worker[w].snap) = ChannelsOf(db, worker[w].hub)
<1>. DEFINE f == worker[w]
<1>1. f.pc # "idle"
  BY DEF LoadRets
<1>2. IF f.snap = NoSnapshot THEN f.hub \notin DOMAIN db.hubs ELSE f.snap = SnapshotIn(db, f.hub)
  BY <1>1 DEF Exact, HoldsNow
<1>3. \A u : <<f.hub, u>> \in DOMAIN db.members => f.hub \in DOMAIN db.hubs /\ u \in Users /\ db.members[<<f.hub, u>>] # "NONE"
  <2>1. \A u : <<f.hub, u>> \in (DOMAIN db.hubs) \X Users => f.hub \in DOMAIN db.hubs /\ u \in Users
    BY SMT
  <2>2. "NONE" \notin Roles
    BY DEF Roles
  <2>. QED BY <2>1, <2>2 DEF HubsInv, TablesOK
<1>4. SnapshotIn(db, f.hub).roles = RolesIn(db, f.hub) /\ SnapshotIn(db, f.hub).channels = ChannelsOf(db, f.hub)
  BY DEF SnapshotIn
<1>5. \A u : /\ u \in DOMAIN RolesIn(db, f.hub) <=> <<f.hub, u>> \in DOMAIN db.members
             /\ u \in DOMAIN RolesIn(db, f.hub) => RolesIn(db, f.hub)[u] = db.members[<<f.hub, u>>]
  BY <1>3 DEF RolesIn, MembersOf
<1>6. \A u : RoleIn(f.snap, u) # "NONE" <=> <<f.hub, u>> \in DOMAIN db.members
  BY <1>2, <1>3, <1>4, <1>5 DEF RoleIn
<1>7. f.hub \in DOMAIN db.hubs => f.snap # NoSnapshot /\ ChannelsIn(f.snap) = ChannelsOf(db, f.hub)
  BY <1>2, <1>4 DEF ChannelsIn
<1>. QED BY <1>6, <1>7

\* A member is a user of a hub that is there, and ids of different kinds differ.
LEMMA IdFacts ==
    ASSUME HubsInv
    PROVE  /\ \A h, u : <<h, u>> \in DOMAIN db.members => h \in DOMAIN db.hubs /\ h \in Hubs /\ u \in Users
           /\ \A h : ChannelsOf(db, h) \subseteq DOMAIN db.channels /\ ChannelsOf(db, h) \subseteq Channels
           /\ \A h \in Hubs : h \notin Channels
           /\ \A h : h \in DOMAIN db.hubs => h \in Hubs
<1>1. \A h, u : <<h, u>> \in (DOMAIN db.hubs) \X Users => h \in DOMAIN db.hubs /\ u \in Users
  BY SMT
<1>2. \A h : h \in DOMAIN db.hubs => h \in Hubs
  BY DEF HubsInv, TablesOK
<1>3. \A h, u : <<h, u>> \in DOMAIN db.members => <<h, u>> \in (DOMAIN db.hubs) \X Users
  BY DEF HubsInv, TablesOK
<1>4. \A h : ChannelsOf(db, h) \subseteq DOMAIN db.channels /\ ChannelsOf(db, h) \subseteq Channels
  BY DEF HubsInv, TablesOK, ChannelsOf
<1>5. \A h \in Hubs : h \notin Channels
  BY IdsAssumption
<1>. QED BY <1>1, <1>2, <1>3, <1>4, <1>5

\* Who has passed a check is a member.
LEMMA ActorIsMember ==
    ASSUME HubsInv, NEW f, RoleFits(f, db), Where(f) \in Authorised, f.cmd.op \notin {"create_hub", "join"}
    PROVE  <<f.hub, f.cmd.by>> \in DOMAIN db.members /\ f.hub \in DOMAIN db.hubs
<1>1. RoleNow(f, db) # "NONE"
  BY RolesByCommand DEF RoleFits
<1>. QED BY <1>1, IdFacts DEF RoleNow

\* Steps of commands that owe nothing, but come away with something for a later step.
LoadingStep(w) ==
    \/ CheckSetRole(w) \/ CheckName(w) \/ FoundForRename(w) \/ FoundForRemove(w) \/ FoundForSelect(w) \/ GetUserHubs(w)
    \/ KeepTopics(w) \/ ResolveInvite(w)

\* It is what the tables hold.
LEMMA LoadingSteps ==
    ASSUME HubsInv, NEW w \in DOMAIN worker, Exact(worker[w], hubCache, channelCache, db), RoleFits(worker[w], db),
           ClientsFit(worker[w], db, subs, shown), LoadingStep(w)
    PROVE  ClientsFit(worker'[w], db', subs', shown')
<1>. DEFINE f == worker[w]
            N == worker'[w]
            From == {"target", "check_name", "found", "user_hubs", "own_ids", "resolve"}
<1>1. /\ From \cap (Methods \cup OwingSteps \cup {"idle"}) = {}
      /\ {"add_member", "count_channels", "rename_channel", "warm"} \cap (Methods \cup {"idle", "found"}) = {} /\ "load" \in Methods
      /\ {"add_member", "rename_channel", "authorise", "service_ids", "member"} \cap OwingSteps = {}
  BY DEF Methods, LoadPcs, LookPcs, EditPcs, Reading, Putting, OwingSteps
<1>2. UNCHANGED <<db, subs, shown>> /\ f.pc \in From
  <2>1. CASE CheckSetRole(w) \/ CheckName(w) \/ FoundForRename(w) \/ FoundForRemove(w)
    BY <2>1 DEF CheckSetRole, CheckName, FoundForRename, FoundForRemove, On, At, tables, delivery
  <2>2. CASE FoundForSelect(w) \/ GetUserHubs(w) \/ KeepTopics(w) \/ ResolveInvite(w)
    BY <2>2 DEF FoundForSelect, GetUserHubs, KeepTopics, ResolveInvite, On, At, tables, delivery
  <2>. QED BY <2>1, <2>2 DEF LoadingStep
<1>. SUFFICES ClientsFit(N, db, subs, shown)
  BY <1>2
<1>3. /\ f.pc # "idle" /\ Phase(f) = "none" /\ Where(f) = f.pc /\ OpAt(f.cmd.op, f.pc) /\ ClientsFit(Idle, db, subs, shown)
      /\ Kin(db, db) /\ Carries(f, db)
  BY <1>1, <1>2, ClientsPlain DEF ClientsFit
<1>4. ASSUME NEW x, Where(N) = x, N.cmd = f.cmd, PhaseAt(f.cmd.op, x) = "none", OpAt(f.cmd.op, x), Carries(N, db)
      PROVE  ClientsFit(N, db, subs, shown)
  BY <1>3, <1>4, ClientsKept
<1>5. ASSUME Finish(w) PROVE ClientsFit(N, db, subs, shown)
  BY <1>3, <1>5, ClientMoves
<1>6. \A op, x : x \notin OwingSteps => PhaseAt(op, x) = "none"
  BY PhaseFacts
<1>. HIDE DEF From
<1>7. CASE CheckSetRole(w)
  <2>1. f.pc = "target" /\ f.cmd.op = "set_role" /\ (Finish(w) \/ (Proceed(w, "add_member") /\ RoleIn(f.snap, f.cmd.who) # "NONE"))
    BY <1>7 DEF CheckSetRole, CanChangeMemberRole, On, At
  <2>2. CASE Proceed(w, "add_member") /\ RoleIn(f.snap, f.cmd.who) # "NONE"
    <3>1. <<f.hub, f.cmd.who>> \in DOMAIN db.members
      BY <2>1, <2>2, SnapNow DEF LoadRets
    <3>2. Lands(N, f, "add_member")
      BY <1>1, <1>3, <2>2, ClientMoves
    <3>3. Where(N) = "add_member" /\ N.cmd = f.cmd /\ N.hub = f.hub
      BY <3>2 DEF Lands, Subject
    <3>4. Carries(N, db) /\ OpAt(f.cmd.op, "add_member")
      BY <2>1, <3>1, <3>3 DEF Carries, OpAt
    <3>. QED BY <1>1, <1>4, <1>6, <3>3, <3>4
  <2>. QED BY <1>5, <2>1, <2>2
<1>8. CASE CheckName(w)
  <2>1. \/ Finish(w)
        \/ Proceed(w, "count_channels") /\ f.cmd.op = "create_channel"
        \/ Proceed(w, "rename_channel")
    BY <1>8 DEF CheckName
  <2>2. CASE Proceed(w, "count_channels") /\ f.cmd.op = "create_channel"
    <3>1. Lands(N, f, "count_channels")
      BY <1>1, <1>3, <2>2, ClientMoves
    <3>2. PhaseAt(f.cmd.op, "count_channels") = Phase(f) /\ OpAt(f.cmd.op, "count_channels") /\ "count_channels" \notin Laden
      BY ZenonT(30), <1>3, <2>2, PhaseFacts DEF OpAt, Laden
    <3>. QED BY <1>3, <3>1, <3>2, ClientsKept
  <2>3. CASE Proceed(w, "rename_channel")
    <3>1. Lands(N, f, "rename_channel")
      BY <1>1, <1>3, <2>3, ClientMoves
    <3>2. PhaseAt(f.cmd.op, "rename_channel") = Phase(f) /\ OpAt(f.cmd.op, "rename_channel") /\ "rename_channel" \notin Laden
      BY <1>1, <1>3, <1>6 DEF OpAt, Laden
    <3>. QED BY <1>3, <3>1, <3>2, ClientsKept
  <2>. QED BY <1>5, <2>1, <2>2, <2>3
<1>9. CASE FoundForRename(w) \/ FoundForRemove(w) \/ FoundForSelect(w)
  <2>1. f.pc = "found" /\ (Finish(w) \/ (Load(w, "authorise") /\ FoundInHub(w)))
    BY <1>9 DEF FoundForRename, FoundForRemove, FoundForSelect, On, At
  <2>2. CASE Load(w, "authorise") /\ FoundInHub(w)
    <3>1. Lands(N, f, "authorise")
      BY <1>3, <2>2, ClientMoves
    <3>2. Where(N) = "authorise" /\ N.cmd = f.cmd /\ N.hub = f.hub /\ N.pc \notin {"get_rows", "keep_rows", "found"}
      BY <3>1 DEF Lands, Subject
    <3>3. f.cmd.op = "select" => f.hub = f.cmd.hub /\ f.cmd.ch \in ChannelsOf(db, f.hub)
      BY <1>3, <2>1, <2>2 DEF FoundInHub, Carries, ChannelsOf, ChannelExact
    <3>4. Carries(N, db) /\ OpAt(f.cmd.op, "authorise")
      BY <3>2, <3>3 DEF Carries, OpAt
    <3>. QED BY <1>1, <1>4, <1>6, <3>2, <3>4
  <2>. QED BY <1>5, <2>1, <2>2
<1>10. CASE GetUserHubs(w)
  <2>1. f.pc = "user_hubs" /\ f.cmd.op = "sync"
    BY <1>10 DEF GetUserHubs, At, Exact, OpFits
  <2>2. /\ Moved(N, f, {"pc", "rows"}) /\ N.pc = "warm"
        /\ N.rows = BlankSnapshots(RowsOf(db, HubsOfUser(db, f.cmd.by)))
    BY <1>3, <1>10, SyncShapes DEF SyncsShape
  <2>3. N.cmd = f.cmd /\ Where(N) = "warm"
    BY <1>1, <2>2 DEF Moved, FrameFields, Where
  <2>4. DOMAIN N.rows = HubsOfUser(db, f.cmd.by)
    BY <2>2 DEF BlankSnapshots, RowsOf, Restrict, HubsOfUser
  <2>5. Carries(N, db) /\ OpAt(f.cmd.op, "warm")
    BY <2>1, <2>2, <2>3, <2>4 DEF Carries, OpAt
  <2>6. PhaseAt(f.cmd.op, "warm") = "none"
    BY SMT, <2>1 DEF PhaseAt
  <2>. QED BY <1>4, <2>3, <2>5, <2>6
<1>11. CASE KeepTopics(w)
  <2>1. f.pc = "own_ids" /\ f.cmd.op = "delete_hub"
    BY <1>3, <1>11 DEF KeepTopics, At, OpAt
  <2>2. /\ Moved(N, f, {"pc", "ret", "topics"}) /\ N.pc = "load" /\ N.ret = "service_ids"
        /\ N.topics = ChannelsIn(f.snap)
    BY <1>3, <1>11, SyncShapes DEF SyncsShape
  <2>3. N.cmd = f.cmd /\ N.hub = f.hub /\ Where(N) = "service_ids"
    BY <1>1, <2>2 DEF Moved, FrameFields, Where
  <2>4. f.hub \in DOMAIN db.hubs
    BY <1>3, <2>1, ActorIsMember DEF Authorised
  <2>5. N.topics = ChannelsOf(db, N.hub)
    BY <2>1, <2>2, <2>3, <2>4, SnapNow DEF LoadRets
  <2>6. Carries(N, db) /\ OpAt(f.cmd.op, "service_ids")
    BY <2>1, <2>3, <2>5 DEF Carries, OpAt
  <2>. QED BY <1>1, <1>4, <1>6, <2>3, <2>6
<1>12. CASE ResolveInvite(w)
  <2>1. f.pc = "resolve" /\ f.cmd.op = "join"
    BY <1>3, <1>12, Active DEF ResolveInvite, At, FrameOK, MayWrite
  <2>2. N = Idle \/ (Moved(N, f, {"pc", "ret", "hub"}) /\ N.pc = "load" /\ N.ret = "member")
    BY <1>3, <1>12, SyncShapes DEF SyncsShape
  <2>3. CASE Moved(N, f, {"pc", "ret", "hub"}) /\ N.pc = "load" /\ N.ret = "member"
    <3>1. N.cmd = f.cmd /\ Where(N) = "member"
      BY <1>1, <2>3 DEF Moved, FrameFields, Where
    <3>2. Carries(N, db) /\ OpAt(f.cmd.op, "member")
      BY <2>1, <3>1 DEF Carries, OpAt
    <3>. QED BY <1>1, <1>4, <1>6, <3>1, <3>2
  <2>. QED BY <1>3, <2>2, <2>3
<1>. QED BY <1>7, <1>8, <1>9, <1>10, <1>11, <1>12 DEF LoadingStep

\* The command owes at y what it owed at x.
Path(op, x, y) == PhaseAt(op, y) = PhaseAt(op, x) /\ OpAt(op, y)

\* The steps of the phases.
LEMMA Paths ==
    ASSUME NEW op
    PROVE  /\ OpAt(op, "cut") => Path(op, "cut", "unsubscribe")
           /\ OpAt(op, "revoke") => Path(op, "revoke", "del_active") /\ Path(op, "revoke", "del_token")
           /\ OpAt(op, "del_token") => Path(op, "del_token", "del_active")
           /\ OpAt(op, "del_active") /\ op = "kick" => Path(op, "del_active", "cut")
           /\ OpAt(op, "del_active") /\ op # "kick" => Path(op, "del_active", "drop_topics")
           /\ OpAt(op, "invalidate_channels") => Path(op, "invalidate_channels", "revoke")
           /\ Path(op, "count_channels", "insert_channel")
           /\ op = "create_hub" => Path(op, "count_channels", "subscribe") /\ Path(op, "insert_channel", "subscribe")
           /\ OpAt(op, "filter") => Path(op, "filter", "warm")
           /\ OpAt(op, "warm") => Path(op, "warm", "topology")
           /\ OpAt(op, "topology") => Path(op, "topology", "synced") /\ Path(op, "topology", "gather")
           /\ OpAt(op, "gather") => Path(op, "gather", "topology")
  BY SMT DEF Path, PhaseAt, OpAt

\* A step of a command at a phase.
LEMMA ClientsOwed ==
    ASSUME NEW f, NEW g, NEW d, NEW ss, NEW sh, ClientsFit(f, d, ss, sh), f.pc \notin Methods \cup {"idle"}
    PROVE  /\ Where(f) = f.pc /\ OpAt(f.cmd.op, f.pc) /\ Carries(f, d) /\ Fits(PhaseAt(f.cmd.op, f.pc), f, d, ss, sh)
           /\ \A x : Lands(g, f, x) /\ Path(f.cmd.op, f.pc, x) /\ x \notin Laden => ClientsFit(g, d, ss, sh)
           /\ \A x : Where(g) = x /\ Subject(g, f) /\ Path(f.cmd.op, f.pc, x) /\ Carries(g, d) => ClientsFit(g, d, ss, sh)
           /\ \A x : /\ Where(g) = x /\ g.cmd = f.cmd /\ Path(f.cmd.op, f.pc, x) /\ Carries(g, d)
                     /\ PhaseAt(f.cmd.op, f.pc) = "none"
                     => ClientsFit(g, d, ss, sh)
           /\ PhaseAt(f.cmd.op, f.pc) = "none" => ClientsFit(Idle, d, ss, sh)
<1>1. Where(f) = f.pc /\ Kin(d, d)
  BY DEF Where, Kin
<1>2. Phase(f) = PhaseAt(f.cmd.op, f.pc) /\ OpAt(f.cmd.op, f.pc) /\ Carries(f, d) /\ Fits(PhaseAt(f.cmd.op, f.pc), f, d, ss, sh)
  BY <1>1 DEF Phase, ClientsFit
<1>3. \A x : Lands(g, f, x) /\ Path(f.cmd.op, f.pc, x) /\ x \notin Laden => ClientsFit(g, d, ss, sh)
  BY <1>1, <1>2, ClientsKept DEF Path
<1>4. ASSUME NEW x, Where(g) = x, g.cmd = f.cmd, PhaseAt(f.cmd.op, f.pc) = "none" \/ Subject(g, f), Path(f.cmd.op, f.pc, x), Carries(g, d)
      PROVE  ClientsFit(g, d, ss, sh)
  <2>1. Fits(PhaseAt(f.cmd.op, f.pc), g, d, ss, sh)
    BY <1>1, <1>2, <1>4, FitsMove
  <2>2. Phase(g) = PhaseAt(f.cmd.op, f.pc) /\ OpAt(g.cmd.op, Where(g))
    BY <1>4 DEF Phase, Path
  <2>. QED BY <1>4, <2>1, <2>2 DEF ClientsFit
<1>. QED BY <1>1, <1>2, <1>3, <1>4, ClientsKept DEF Subject

\* Steps on the way through a phase.
LEMMA OwedSteps ==
    ASSUME HubsInv, NEW w \in DOMAIN worker, Exact(worker[w], hubCache, channelCache, db),
           ClientsFit(worker[w], db, subs, shown),
           \/ CountChannels(w) \/ CutOff(w) \/ RevokeInvites(w) \/ DeleteToken(w) \/ DeleteActiveLink(w)
           \/ InvalidateChannels(w) /\ UNCHANGED delivery
    PROVE  ClientsFit(worker'[w], db', subs', shown')
<1>. DEFINE f == worker[w]
            N == worker'[w]
            From == {"count_channels", "cut", "revoke", "del_token", "del_active", "invalidate_channels"}
            To == {"insert_channel", "subscribe", "unsubscribe", "del_active", "del_token", "cut", "drop_topics", "revoke"}
<1>1. From \cap (Methods \cup {"idle"}) = {} /\ To \cap (Laden \cup Methods \cup {"idle", "found"}) = {}
  BY DEF Methods, LoadPcs, LookPcs, EditPcs, Reading, Putting, Laden
<1>2. UNCHANGED <<db, subs, shown>> /\ f.pc \in From
  BY DEF CountChannels, CutOff, RevokeInvites, DeleteToken, DeleteActiveLink, InvalidateChannels, At, tables, delivery
<1>. SUFFICES ClientsFit(N, db, subs, shown)
  BY <1>2
<1>3. f.pc # "idle" /\ f.pc \notin Methods \cup {"idle"}
  BY <1>1, <1>2
<1>4. OpAt(f.cmd.op, f.pc)
  BY <1>3, ClientsOwed
<1>5. ASSUME NEW x \in To, Proceed(w, x) \/ Load(w, x) \/ Lands(N, f, x), Path(f.cmd.op, f.pc, x)
      PROVE  ClientsFit(N, db, subs, shown)
  <2>1. Lands(N, f, x) /\ x \notin Laden
    BY <1>1, <1>3, <1>5, ClientMoves
  <2>. QED BY <1>3, <1>5, <2>1, ClientsOwed
<1>6. CASE CountChannels(w)
  <2>1. f.pc = "count_channels" /\ f.cmd.op \in {"create_hub", "create_channel"}
    BY <1>6 DEF CountChannels, At, Exact, OpFits
  <2>2. \/ Proceed(w, "insert_channel")
        \/ f.cmd.op = "create_hub" /\ Proceed(w, "subscribe")
        \/ f.cmd.op # "create_hub" /\ Finish(w)
    BY <1>6, <2>1 DEF CountChannels, AfterFailure
  <2>3. f.cmd.op # "create_hub" => PhaseAt(f.cmd.op, f.pc) = "none"
    BY SMT, <2>1 DEF PhaseAt
  <2>4. ASSUME f.cmd.op # "create_hub", Finish(w) PROVE ClientsFit(N, db, subs, shown)
    BY <1>3, <2>3, <2>4, ClientsOwed, ClientMoves
  <2>5. Path(f.cmd.op, f.pc, "insert_channel") /\ (f.cmd.op = "create_hub" => Path(f.cmd.op, f.pc, "subscribe"))
    BY <2>1, Paths
  <2>. QED BY <1>5, <2>2, <2>4, <2>5
<1>7. CASE CutOff(w)
  <2>1. f.pc = "cut" /\ Load(w, "unsubscribe")
    BY <1>7 DEF CutOff, At
  <2>. QED BY <1>4, <1>5, <2>1, Paths
<1>8. CASE RevokeInvites(w)
  <2>1. f.pc = "revoke"
    BY <1>8 DEF RevokeInvites, At
  <2>2. Proceeds(N, f, "del_active") \/ (Moved(N, f, {"pc", "link"}) /\ N.pc = "del_token")
    BY <1>3, <1>8, EditShapes DEF EditsShape
  <2>3. Where(N) = N.pc /\ N.pc \notin {"get_rows", "keep_rows", "found"} /\ N.pc \in {"del_active", "del_token"}
    BY <2>2 DEF Proceeds, Where, Methods, LoadPcs, LookPcs, EditPcs, Reading, Putting
  <2>4. Lands(N, f, N.pc)
    BY <2>2, <2>3 DEF Proceeds, Kept, Rest, Moved, FrameFields, Lands, Subject, Lists
  <2>5. Path(f.cmd.op, f.pc, "del_active") /\ Path(f.cmd.op, f.pc, "del_token")
    BY <1>4, <2>1, Paths
  <2>. QED BY <1>5, <2>3, <2>4, <2>5
<1>9. CASE DeleteToken(w)
  <2>1. f.pc = "del_token" /\ Proceed(w, "del_active")
    BY <1>9 DEF DeleteToken, At
  <2>. QED BY <1>4, <1>5, <2>1, Paths
<1>10. CASE DeleteActiveLink(w)
  <2>1. f.pc = "del_active" /\ ((f.cmd.op = "kick" /\ Proceed(w, "cut")) \/ (f.cmd.op # "kick" /\ Proceed(w, "drop_topics")))
    BY <1>10 DEF DeleteActiveLink, At
  <2>2. /\ f.cmd.op = "kick" => Path(f.cmd.op, f.pc, "cut")
        /\ f.cmd.op # "kick" => Path(f.cmd.op, f.pc, "drop_topics")
    BY <1>4, <2>1, Paths
  <2>. QED BY <1>5, <2>1, <2>2
<1>11. CASE InvalidateChannels(w)
  <2>1. f.pc = "invalidate_channels" /\ Proceed(w, "revoke")
    BY <1>11 DEF InvalidateChannels, At
  <2>. QED BY <1>4, <1>5, <2>1, Paths
<1>. QED BY <1>6, <1>7, <1>8, <1>9, <1>10, <1>11


\* The steps of a state sync.
LEMMA StateSyncSteps ==
    ASSUME HubsInv, NEW w \in DOMAIN worker, Exact(worker[w], hubCache, channelCache, db),
           ClientsFit(worker[w], db, subs, shown), Filter(w) \/ WarmSnapshots(w) \/ Topology(w) \/ Gather(w)
    PROVE  ClientsFit(worker'[w], db', subs', shown')
<1>. DEFINE f == worker[w]
            N == worker'[w]
            From == {"filter", "warm", "topology", "gather"}
<1>1. From \cap (Methods \cup {"idle"}) = {} /\ {"load", "look_up", "get_channels"} \subseteq Methods
  BY DEF Methods, LoadPcs, LookPcs, EditPcs, Reading, Putting
<1>2. UNCHANGED <<db, subs, shown>> /\ f.pc \in From
  BY DEF Filter, WarmSnapshots, Topology, Gather, At, tables, delivery
<1>. SUFFICES ClientsFit(N, db, subs, shown)
  BY <1>2
<1>3. f.pc # "idle" /\ f.pc \notin Methods \cup {"idle"} /\ From \cap Methods = {}
  BY <1>1, <1>2
<1>4. /\ Where(f) = f.pc /\ OpAt(f.cmd.op, f.pc) /\ Carries(f, db) /\ Fits(PhaseAt(f.cmd.op, f.pc), f, db, subs, shown)
      /\ \A x : Where(N) = x /\ Subject(N, f) /\ Path(f.cmd.op, f.pc, x) /\ Carries(N, db) => ClientsFit(N, db, subs, shown)
      /\ \A x : /\ Where(N) = x /\ N.cmd = f.cmd /\ Path(f.cmd.op, f.pc, x) /\ Carries(N, db)
                /\ PhaseAt(f.cmd.op, f.pc) = "none"
                => ClientsFit(N, db, subs, shown)
  BY <1>3, ClientsOwed
<1>5. f.cmd.op \in {"create_hub", "join", "sync"} /\ (f.pc = "filter" => f.cmd.op # "sync")
  BY <1>2, <1>4 DEF OpAt
<1>6. f.cmd.op = "sync" => PhaseAt(f.cmd.op, f.pc) = "none"
  BY SMT DEF PhaseAt
<1>7. ASSUME f.cmd.op # "sync" PROVE <<f.hub, f.cmd.by>> \in DOMAIN db.members /\ f.hub \in DOMAIN db.hubs
  <2>1. PhaseAt(f.cmd.op, f.pc) = "show"
    BY SMT, <1>2, <1>5, <1>7 DEF PhaseAt
  <2>. QED BY <1>4, <2>1, IdFacts DEF Fits
<1>8. ASSUME NEW x \in {"topology", "gather", "synced"}, Where(N) = x, N.cmd = f.cmd, Path(f.cmd.op, f.pc, x),
             f.cmd.op = "sync" => N.hubs = HubsOfUser(db, f.cmd.by),
             f.cmd.op # "sync" => Subject(N, f) /\ N.hubs = {f.hub} /\ N.list \subseteq {f.hub}
      PROVE  ClientsFit(N, db, subs, shown)
  <2>1. f.cmd.op # "sync" => N.hub = f.hub
    BY <1>8 DEF Subject
  <2>2. Carries(N, db)
    BY <1>5, <1>8, <2>1 DEF Carries
  <2>. QED BY <1>4, <1>6, <1>8, <2>2
<1>. HIDE DEF From
<1>9. CASE Filter(w)
  <2>1. f.pc = "filter" /\ f.cmd.op # "sync"
    BY <1>5, <1>9 DEF Filter, At
  <2>2. RoleIn(f.snap, f.cmd.by) # "NONE"
    BY <1>7, <2>1, SnapNow DEF LoadRets
  <2>3. LoadFull(w, "warm")
    BY <1>9, <2>2 DEF Filter, ActorRole, Actor
  <2>4. Lands(N, f, "warm")
    BY <1>3, <2>3, ClientMoves
  <2>5. Where(N) = "warm" /\ Subject(N, f) /\ N.cmd = f.cmd
    BY <2>4 DEF Lands, Subject
  <2>6. Carries(N, db)
    BY <1>5, <2>1, <2>5 DEF Carries
  <2>7. Path(f.cmd.op, f.pc, "warm")
    BY <1>4, <2>1, Paths
  <2>. QED BY <1>4, <2>5, <2>6, <2>7
<1>10. CASE WarmSnapshots(w)
  <2>1. f.pc = "warm"
    BY <1>10 DEF WarmSnapshots, At
  <2>2. /\ N.list = DOMAIN WarmRows(f) /\ N.hubs = DOMAIN WarmRows(f)
        /\ \/ Moved(N, f, {"pc", "rows", "list", "hubs"}) /\ N.pc = "topology"
           \/ /\ Moved(N, f, {"pc", "ret", "full", "rows", "list", "hubs"})
              /\ N.pc = "get_channels" /\ N.ret = "topology"
    BY <1>3, <1>10, SyncShapes DEF SyncsShape
  <2>3. "topology" \notin Methods /\ "get_channels" \in Methods
    BY <1>1 DEF From
  <2>4. Where(N) = "topology" /\ Subject(N, f) /\ N.cmd = f.cmd
    BY <2>2, <2>3 DEF Where, Subject, Moved, FrameFields
  <2>5. f.cmd.op = "sync" => N.hubs = HubsOfUser(db, f.cmd.by)
    BY <1>4, <2>1, <2>2 DEF WarmRows, Carries
  <2>6. ASSUME f.cmd.op # "sync" PROVE N.hubs = {f.hub} /\ N.list \subseteq {f.hub}
    <3>1. f.snap # NoSnapshot
      BY <1>7, <2>1, <2>6, SnapNow DEF LoadRets
    <3>2. WarmRows(f) = Put(EmptyMap, f.hub, f.snap)
      BY <2>6, <3>1 DEF WarmRows
    <3>3. \A h, s : DOMAIN Put(EmptyMap, h, s) = {h}
      BY DEF Put, EmptyMap
    <3>. QED BY ZenonT(30), <2>2, <3>2, <3>3
  <2>7. Path(f.cmd.op, f.pc, "topology")
    BY <1>4, <2>1, Paths
  <2>. QED BY <1>8, <2>4, <2>5, <2>6, <2>7
<1>11. ASSUME f.pc \in {"topology", "gather"}
       PROVE  IF f.cmd.op = "sync" THEN f.hubs = HubsOfUser(db, f.cmd.by) ELSE f.hubs = {f.hub} /\ f.list \subseteq {f.hub}
  BY <1>4, <1>11 DEF Carries
<1>12. CASE Topology(w)
  <2>1. f.pc = "topology"
    BY <1>12 DEF Topology, At
  <2>2. Path(f.cmd.op, f.pc, "synced") /\ Path(f.cmd.op, f.pc, "gather")
    BY <1>4, <2>1, Paths
  <2>3. \/ Calls(N, f, "look_up", "synced")
        \/ /\ Moved(N, f, {"pc", "ret", "full", "hub", "list"}) /\ N.pc = "load" /\ N.ret = "gather"
           /\ N.hub \in f.list /\ N.list \subseteq f.list
    BY <1>3, <1>12, SyncShapes DEF SyncsShape
  <2>4. CASE Calls(N, f, "look_up", "synced")
    <3>1. Where(N) = "synced" /\ Subject(N, f) /\ N.cmd = f.cmd /\ N.hubs = f.hubs /\ N.list = f.list
      BY <1>1, <2>4 DEF Where, Calls, Kept, Lists, Subject
    <3>. QED BY <1>8, <1>11, <2>1, <2>2, <3>1
  <2>5. CASE /\ Moved(N, f, {"pc", "ret", "full", "hub", "list"}) /\ N.pc = "load" /\ N.ret = "gather"
             /\ N.hub \in f.list /\ N.list \subseteq f.list
    <3>1. Where(N) = "gather" /\ N.cmd = f.cmd /\ N.hubs = f.hubs /\ N.topics = f.topics
      BY <1>1, <2>5 DEF Where, Moved, FrameFields
    <3>2. f.cmd.op # "sync" => N.hub = f.hub /\ N.list \subseteq {f.hub}
      BY <1>11, <2>1, <2>5
    <3>. QED BY <1>8, <1>11, <2>1, <2>2, <3>1, <3>2 DEF Subject
  <2>. QED BY <2>3, <2>4, <2>5
<1>13. CASE Gather(w)
  <2>1. f.pc = "gather"
    BY <1>13 DEF Gather, At
  <2>2. Path(f.cmd.op, f.pc, "topology")
    BY <1>4, <2>1, Paths
  <2>3. Moved(N, f, {"pc", "ids"}) /\ N.pc = "topology" /\ "topology" \notin Methods
    BY <1>1, <1>3, <1>13, SyncShapes DEF From, SyncsShape
  <2>4. Where(N) = "topology" /\ Subject(N, f) /\ N.cmd = f.cmd /\ N.hubs = f.hubs /\ N.list = f.list
    BY <2>3 DEF Where, Moved, FrameFields, Subject
  <2>. QED BY <1>8, <1>11, <2>1, <2>2, <2>4
<1>. QED BY <1>9, <1>10, <1>12, <1>13


\* A command that begins a phase, and one that is over.
LEMMA ClientsAt ==
    ASSUME NEW g, NEW d, NEW ss, NEW sh
    PROVE  /\ Fits("none", Idle, d, ss, sh) => ClientsFit(Idle, d, ss, sh)
           /\ \A x : /\ Where(g) = x /\ x \notin Laden /\ OpAt(g.cmd.op, x) /\ Fits(PhaseAt(g.cmd.op, x), g, d, ss, sh)
                     /\ g.cmd.op # "select"
                     => ClientsFit(g, d, ss, sh)
<1>1. Idle.pc = "idle" /\ Phase(Idle) = "none"
  <2>1. Idle.pc = "idle"
    BY DEF Idle
  <2>2. Where(Idle) = "idle"
    BY <2>1 DEF Where, Methods, LoadPcs, LookPcs, EditPcs, Reading, Putting
  <2>3. "idle" \notin OwingSteps
    BY DEF OwingSteps
  <2>4. PhaseAt(Idle.cmd.op, "idle") = "none"
    BY ZenonT(30), <2>3, PhaseFacts
  <2>. QED BY <2>1, <2>2, <2>4 DEF Phase
<1>2. ASSUME NEW x, Where(g) = x, x \notin Laden, g.cmd.op # "select" PROVE Carries(g, d)
  BY <1>2 DEF Carries, Laden
<1>. QED BY <1>1, <1>2 DEF ClientsFit, Phase

\* A member more, who is joining.
LEMMA FitsJoin ==
    ASSUME NEW f, NEW g, NEW d, NEW e, NEW ss, NEW sh, Fits("none", f, d, ss, sh),
           DOMAIN e.members = DOMAIN d.members \cup {<<g.hub, g.cmd.by>>}, e.channels = d.channels
    PROVE  Fits("join", g, e, ss, sh)
<1>1. \A u, h : <<h, u>> \in DOMAIN e.members <=> <<h, u>> \in DOMAIN d.members \/ (u = g.cmd.by /\ h = g.hub)
  <2>1. \A u, h : <<h, u>> = <<g.hub, g.cmd.by>> <=> h = g.hub /\ u = g.cmd.by
    OBVIOUS
  <2>. QED BY <2>1
<1>2. Seen("join", g, e, sh)
  BY <1>1 DEF Fits, Seen
<1>3. Heard("join", g, ss, sh) /\ Tuned("join", g, e, ss, sh)
  BY DEF Fits, Heard, Tuned
<1>. QED BY <1>1, <1>2, <1>3 DEF Fits

\* A member less, who is to be told.
LEMMA FitsLeave ==
    ASSUME NEW f, NEW g, NEW d, NEW e, NEW ss, NEW sh, Fits("none", f, d, ss, sh),
           DOMAIN e.members = DOMAIN d.members \ {<<g.hub, g.cmd.who>>}, e.channels = d.channels, g.hub \in DOMAIN e.hubs
    PROVE  Fits("leave", g, e, ss, sh)
<1>1. \A u, h : <<h, u>> \in DOMAIN e.members <=> <<h, u>> \in DOMAIN d.members /\ ~(u = g.cmd.who /\ h = g.hub)
  <2>1. \A u, h : <<h, u>> = <<g.hub, g.cmd.who>> <=> h = g.hub /\ u = g.cmd.who
    OBVIOUS
  <2>. QED BY <2>1
<1>2. Seen("leave", g, e, sh)
  BY <1>1 DEF Fits, Seen
<1>3. Heard("leave", g, ss, sh) /\ Tuned("leave", g, e, ss, sh)
  BY DEF Fits, Heard, Tuned
<1>. QED BY <1>2, <1>3 DEF Fits

\* A hub less, with its channels and members.
LEMMA FitsDelete ==
    ASSUME NEW f, NEW g, NEW d, NEW e, NEW ss, NEW sh, Fits("none", f, d, ss, sh),
           \A h, u : <<h, u>> \in DOMAIN e.members <=> <<h, u>> \in DOMAIN d.members /\ h # g.hub,
           DOMAIN e.channels = DOMAIN d.channels \ ChannelsOf(d, g.hub),
           \A c \in DOMAIN e.channels : e.channels[c] = d.channels[c],
           g.topics = ChannelsOf(d, g.hub), g.topics \subseteq Channels
    PROVE  Fits("delete", g, e, ss, sh)
<1>1. Seen("delete", g, e, sh)
  BY DEF Fits, Seen
<1>2. Heard("delete", g, ss, sh)
  BY DEF Fits, Heard
<1>3. Tuned("delete", g, e, ss, sh)
  BY DEF Fits, Tuned
<1>4. ChannelsOf(e, g.hub) = {}
  BY DEF ChannelsOf
<1>. QED BY <1>1, <1>2, <1>3, <1>4 DEF Fits

\* A channel more.
LEMMA FitsChannel ==
    ASSUME NEW p \in {"none", "join"}, NEW f, NEW g, NEW d, NEW e, NEW ss, NEW sh, Fits(p, f, d, ss, sh), Subject(g, f),
           DOMAIN e.members = DOMAIN d.members,
           \A c \in DOMAIN d.channels : c \in DOMAIN e.channels /\ e.channels[c] = d.channels[c]
    PROVE  Fits(p, g, e, ss, sh)
<1>1. Seen(p, g, e, sh)
  BY DEF Fits, Seen, Subject
<1>2. Heard(p, g, ss, sh)
  BY DEF Fits, Heard, Subject
<1>3. Tuned(p, g, e, ss, sh)
  BY DEF Fits, Tuned
<1>4. p = "join" => <<g.hub, g.cmd.by>> \in DOMAIN e.members
  BY DEF Fits, Subject
<1>. QED BY <1>1, <1>2, <1>3, <1>4 DEF Fits

\* A channel less.
LEMMA FitsRemove ==
    ASSUME NEW f, NEW g, NEW d, NEW e, NEW ss, NEW sh, Fits("none", f, d, ss, sh),
           DOMAIN e.members = DOMAIN d.members, g.cmd.ch \in Channels,
           \A c \in DOMAIN d.channels : c # g.cmd.ch => c \in DOMAIN e.channels /\ e.channels[c] = d.channels[c]
    PROVE  Fits("remove", g, e, ss, sh)
<1>1. Seen("remove", g, e, sh)
  BY DEF Fits, Seen
<1>2. Heard("remove", g, ss, sh)
  BY DEF Fits, Heard
<1>3. Tuned("remove", g, e, ss, sh)
  BY DEF Fits, Tuned
<1>. QED BY <1>1, <1>2, <1>3 DEF Fits

\* Nothing is owed any more.
LEMMA FitsEnd ==
    ASSUME NEW g, NEW d, NEW ss, NEW sh, ss \subseteq Users \X (Hubs \cup Channels), sh \subseteq Users \X Hubs,
           \A u \in Users, h \in Hubs : <<h, u>> \in DOMAIN d.members <=> <<u, h>> \in sh,
           \A u \in Users, h \in Hubs : <<u, h>> \in ss <=> <<u, h>> \in sh,
           \A u \in Users, c \in Channels : <<u, c>> \in ss => c \in DOMAIN d.channels /\ <<u, d.channels[c].hub>> \in sh
    PROVE  Fits("none", g, d, ss, sh)
<1>1. Seen("none", g, d, sh)
  BY DEF Seen
<1>2. Heard("none", g, ss, sh)
  BY DEF Heard
<1>3. Tuned("none", g, d, ss, sh)
  BY DEF Tuned
<1>. QED BY <1>1, <1>2, <1>3 DEF Fits


\* A command comes from the queue, and a member asks to join.
LEMMA JoinSteps ==
    ASSUME HubsInv, NEW w \in DOMAIN worker, Exact(worker[w], hubCache, channelCache, db),
           ClientsFit(worker[w], db, subs, shown), Take(w) \/ JoinHub(w)
    PROVE  ClientsFit(worker'[w], db', subs', shown')
<1>. DEFINE f == worker[w]
            N == worker'[w]
<1>1. UNCHANGED <<db, subs, shown>> /\ f.pc \in {"idle", "member"}
  BY DEF Take, JoinHub, At, tables, delivery
<1>. SUFFICES ClientsFit(N, db, subs, shown)
  BY <1>1
<1>2. {"idle", "member", "subscribe", "add_member"} \cap (Methods \cup {"found"}) = {}
  BY DEF Methods, LoadPcs, LookPcs, EditPcs, Reading, Putting
<1>3. Fits("none", f, db, subs, shown) /\ Where(f) = f.pc
  <2>1. Where(f) = f.pc /\ f.pc \notin OwingSteps
    BY <1>1, <1>2 DEF Where, OwingSteps
  <2>2. Phase(f) = "none"
    <3>1. PhaseAt(f.cmd.op, f.pc) = "none"
      BY ZenonT(30), <2>1, PhaseFacts
    <3>. QED BY <2>1, <3>1 DEF Phase
  <2>. QED BY <2>1, <2>2 DEF ClientsFit
<1>4. Kin(db, db)
  BY DEF Kin
<1>5. CASE Take(w)
  <2>1. PICK c \in Commands : Goto(w, FirstStep(c))
    BY <1>5 DEF Take
  <2>2. Begins(FirstStep(c), c)
    BY FirstFrame
  <2>3. FirstStep(c).pc # "idle"
    BY <2>2 DEF Begins
  <2>4. N = FirstStep(c)
    BY <2>1, <2>3, Arrives
  <2>5. Begins(N, c)
    BY <2>2, <2>4
  <2>6. /\ N.cmd = c /\ N.hub = c.hub /\ N.pc \notin {"get_rows", "keep_rows", "found"}
        /\ Where(N) \in {"count_hubs", "resolve", "user_hubs", "found", "authorise"}
        /\ Where(N) = "authorise" => c.op # "select"
    BY <2>5 DEF Begins, Where, Methods, LoadPcs, LookPcs, EditPcs, Reading, Putting
  <2>7. OpAt(N.cmd.op, Where(N)) /\ Carries(N, db)
    BY <2>6 DEF OpAt, Carries
  <2>8. Where(N) \notin OwingSteps
    BY <2>6 DEF OwingSteps
  <2>9. PhaseAt(N.cmd.op, Where(N)) = "none"
    BY ZenonT(30), <2>8, PhaseFacts
  <2>10. Fits("none", N, db, subs, shown)
    BY <1>3, <1>4, FitsMove
  <2>. QED BY <2>7, <2>9, <2>10 DEF ClientsFit, Phase
<1>6. CASE JoinHub(w)
  <2>1. f.pc = "member" /\ f.pc # "idle"
    BY <1>6 DEF JoinHub, At
  <2>2. f.cmd.op = "join"
    BY <2>1, Active DEF FrameOK, MayWrite
  <2>3. ClientsFit(Idle, db, subs, shown)
    <3>1. Fits("none", Idle, db, subs, shown)
      BY <1>3, <1>4, FitsMove
    <3>. QED BY <3>1, ClientsAt
  <2>4. ASSUME Proceed(w, "subscribe"), RoleIn(f.snap, f.cmd.by) # "NONE" PROVE ClientsFit(N, db, subs, shown)
    <3>1. Lands(N, f, "subscribe")
      BY <1>2, <2>1, <2>4, ClientMoves
    <3>2. Where(N) = "subscribe" /\ N.cmd = f.cmd /\ N.hub = f.hub
      BY <3>1 DEF Lands, Subject
    <3>3. <<N.hub, N.cmd.by>> \in DOMAIN db.members
      BY <2>1, <2>4, <3>2, SnapNow DEF LoadRets
    <3>4. DOMAIN db.members = DOMAIN db.members \cup {<<N.hub, N.cmd.by>>}
      BY <3>3
    <3>5. Fits("join", N, db, subs, shown)
      BY <1>3, <3>4, FitsJoin
    <3>6. PhaseAt(N.cmd.op, "subscribe") = "join" /\ OpAt(N.cmd.op, "subscribe") /\ "subscribe" \notin Laden
      BY SMT, <2>2, <3>2 DEF PhaseAt, OpAt, Laden
    <3>. QED BY <2>2, <3>2, <3>5, <3>6, ClientsAt
  <2>5. ASSUME Proceed(w, "add_member") PROVE ClientsFit(N, db, subs, shown)
    <3>1. Lands(N, f, "add_member")
      BY <1>2, <2>1, <2>5, ClientMoves
    <3>2. Where(N) = "add_member" /\ N.cmd = f.cmd
      BY <3>1 DEF Lands, Subject
    <3>3. Carries(N, db) /\ OpAt(N.cmd.op, Where(N))
      BY <2>2, <3>2 DEF Carries, OpAt
    <3>4. PhaseAt(N.cmd.op, Where(N)) = "none"
      BY SMT, <2>2, <3>2 DEF PhaseAt
    <3>5. Fits("none", N, db, subs, shown)
      BY <1>3, <1>4, FitsMove
    <3>. QED BY <3>3, <3>4, <3>5 DEF ClientsFit, Phase
  <2>6. Finish(w) => N = Idle
    BY <2>1, ClientMoves
  <2>. QED BY <1>6, <2>3, <2>4, <2>5, <2>6 DEF JoinHub, ActorRole, Actor
<1>. QED BY <1>5, <1>6

\* What the frames that a statement moves on are like.
LEMMA StatementLands ==
    ASSUME NEW g, NEW f, NEW F, F \subseteq {"pc", "ret", "ids", "pend"}, Moved(g, f, F),
           g.pc \in {"invalidate", "cache_channel", "copy_channel"}
    PROVE  Lands(g, f, g.ret) /\ Subject(g, f) /\ Where(g) = g.ret
<1>1. g.pc \in Methods /\ g.pc \notin {"get_rows", "keep_rows", "found"}
  BY DEF Methods, EditPcs
<1>2. {"cmd", "hub", "topics", "list", "hubs"} \subseteq FrameFields \ F
  BY DEF FrameFields
<1>3. g.cmd = f.cmd /\ g.hub = f.hub /\ g.topics = f.topics /\ g.list = f.list /\ g.hubs = f.hubs
  BY <1>2 DEF Moved
<1>. QED BY <1>1, <1>3 DEF Lands, Subject, Lists, Where

\* What the statements on hubs and members make of the tables.
LEMMA CreateRowShape ==
    ASSUME NEW d, TablesOK(d), NEW h, NEW u, NEW n, NEW e, e = CreateHubRow(d, h, u, n)
    PROVE  DOMAIN e.members = DOMAIN d.members \cup {<<h, u>>} /\ e.channels = d.channels
<1>0. IsRecord(d, {"hubs", "channels", "members", "issued"})
  BY DEF TablesOK
<1>1. e.channels = d.channels /\ e.members = Put(d.members, <<h, u>>, "OWNER")
  BY <1>0 DEF CreateHubRow, WithOwnerMembership, IsRecord
<1>2. DOMAIN e.members = DOMAIN d.members \cup {<<h, u>>}
  BY <1>1 DEF Put
<1>. QED BY <1>1, <1>2

LEMMA AddRowShape ==
    ASSUME NEW d, TablesOK(d), NEW h, NEW u, NEW r, NEW e, e = AddMemberRow(d, h, u, r)
    PROVE  DOMAIN e.members = DOMAIN d.members \cup {<<h, u>>} /\ e.channels = d.channels /\ e.hubs = d.hubs
<1>0. IsRecord(d, {"hubs", "channels", "members", "issued"})
  BY DEF TablesOK
<1>1. e.channels = d.channels /\ e.hubs = d.hubs /\ e.members = Put(d.members, <<h, u>>, r)
  BY <1>0 DEF AddMemberRow, IsRecord
<1>2. DOMAIN e.members = DOMAIN d.members \cup {<<h, u>>}
  BY <1>1 DEF Put
<1>. QED BY <1>1, <1>2

LEMMA RemoveRowShape ==
    ASSUME NEW d, TablesOK(d), NEW h, NEW u, NEW e, e = RemoveMemberRow(d, h, u)
    PROVE  DOMAIN e.members = DOMAIN d.members \ {<<h, u>>} /\ e.channels = d.channels /\ e.hubs = d.hubs
<1>0. IsRecord(d, {"hubs", "channels", "members", "issued"})
  BY DEF TablesOK
<1>1. e.channels = d.channels /\ e.hubs = d.hubs /\ e.members = Erase(d.members, <<h, u>>)
  BY <1>0 DEF RemoveMemberRow, IsRecord
<1>2. DOMAIN e.members = DOMAIN d.members \ {<<h, u>>}
  BY <1>1, MapFacts
<1>. QED BY <1>1, <1>2

LEMMA HubRowShapes ==
    ASSUME NEW d, TablesOK(d), NEW h, NEW n
    PROVE  Kin(d, RenameHubRow(d, h, n)) /\ Kin(d, UpdateHubSeedRow(d, h, n))
<1>0. IsRecord(d, {"hubs", "channels", "members", "issued"})
  BY DEF TablesOK
<1>1. Kin(d, RenameHubRow(d, h, n))
  <2>. DEFINE e == RenameHubRow(d, h, n)
  <2>1. e.channels = d.channels /\ e.members = d.members /\ DOMAIN e.hubs = DOMAIN d.hubs
    BY <1>0 DEF RenameHubRow, IsRecord
  <2>. HIDE DEF e
  <2>2. Kin(d, e)
    BY <2>1 DEF Kin
  <2>. QED BY <2>2 DEF e
<1>2. Kin(d, UpdateHubSeedRow(d, h, n))
  <2>. DEFINE e == UpdateHubSeedRow(d, h, n)
  <2>1. e.channels = d.channels /\ e.members = d.members /\ DOMAIN e.hubs = DOMAIN d.hubs
    BY <1>0 DEF UpdateHubSeedRow, IsRecord
  <2>. HIDE DEF e
  <2>2. Kin(d, e)
    BY <2>1 DEF Kin
  <2>. QED BY <2>2 DEF e
<1>. QED BY <1>1, <1>2

\* What the statement that deletes a hub makes of them.
LEMMA DeleteRowShapes ==
    ASSUME NEW d, TablesOK(d), NEW h
    PROVE  /\ \A g, u : <<g, u>> \in DOMAIN DeleteHubRow(d, h).members <=> <<g, u>> \in DOMAIN d.members /\ g # h
           /\ DOMAIN DeleteHubRow(d, h).channels = DOMAIN d.channels \ ChannelsOf(d, h)
           /\ \A c \in DOMAIN DeleteHubRow(d, h).channels : DeleteHubRow(d, h).channels[c] = d.channels[c]
<1>. DEFINE e == DeleteHubRow(d, h)
<1>1. /\ e.channels = Restrict(d.channels, DOMAIN d.channels \ ChannelsOf(d, h))
      /\ e.members = Restrict(d.members, {p \in DOMAIN d.members : p[1] # h})
  BY DEF DeleteHubRow, TablesOK, IsRecord
<1>. HIDE DEF e
<1>2. DOMAIN e.members = {p \in DOMAIN d.members : p[1] # h}
  BY <1>1 DEF Restrict
<1>3. \A g, u : <<g, u>> \in DOMAIN e.members <=> <<g, u>> \in DOMAIN d.members /\ g # h
  BY SMT, <1>2
<1>4. /\ DOMAIN e.channels = DOMAIN d.channels \ ChannelsOf(d, h)
      /\ \A c \in DOMAIN e.channels : e.channels[c] = d.channels[c]
  BY <1>1 DEF Restrict
<1>. QED BY <1>3, <1>4 DEF e

\* What the statements on channels make of them.
LEMMA ChannelRowShapes ==
    ASSUME NEW d, TablesOK(d), NEW c, NEW h, NEW n, NEW t
    PROVE  /\ /\ CreateChannelRow(d, c, h, n, t).members = d.members
              /\ c \notin DOMAIN d.channels =>
                    \A x \in DOMAIN d.channels : /\ x \in DOMAIN CreateChannelRow(d, c, h, n, t).channels
                                                 /\ CreateChannelRow(d, c, h, n, t).channels[x] = d.channels[x]
           /\ /\ DeleteChannelRow(d, c).members = d.members
              /\ \A x \in DOMAIN d.channels : x # c => /\ x \in DOMAIN DeleteChannelRow(d, c).channels
                                                       /\ DeleteChannelRow(d, c).channels[x] = d.channels[x]
           /\ c \in DOMAIN d.channels => Kin(d, RenameChannelRow(d, c, n))
<1>0. IsRecord(d, {"hubs", "channels", "members", "issued"}) /\ IsMap(d.channels)
  BY DEF TablesOK
<1>1. /\ CreateChannelRow(d, c, h, n, t).members = d.members
      /\ c \notin DOMAIN d.channels =>
            \A x \in DOMAIN d.channels : /\ x \in DOMAIN CreateChannelRow(d, c, h, n, t).channels
                                         /\ CreateChannelRow(d, c, h, n, t).channels[x] = d.channels[x]
  <2>. DEFINE e == CreateChannelRow(d, c, h, n, t)
              row == [hub |-> h, name |-> n, type |-> t]
  <2>1. e.members = d.members /\ e.channels = Put(d.channels, c, row)
    BY <1>0 DEF CreateChannelRow, IsRecord
  <2>. HIDE DEF e, row
  <2>2. c \notin DOMAIN d.channels => \A x \in DOMAIN d.channels : x \in DOMAIN e.channels /\ e.channels[x] = d.channels[x]
    BY <2>1 DEF Put
  <2>. QED BY <2>1, <2>2 DEF e
<1>2. /\ DeleteChannelRow(d, c).members = d.members
      /\ \A x \in DOMAIN d.channels : x # c => /\ x \in DOMAIN DeleteChannelRow(d, c).channels
                                               /\ DeleteChannelRow(d, c).channels[x] = d.channels[x]
  <2>. DEFINE e == DeleteChannelRow(d, c)
  <2>1. e.members = d.members /\ e.channels = Erase(d.channels, c)
    BY <1>0 DEF DeleteChannelRow, IsRecord
  <2>. HIDE DEF e
  <2>2. \A x \in DOMAIN d.channels : x # c => x \in DOMAIN e.channels /\ e.channels[x] = d.channels[x]
    BY <2>1 DEF Erase, Restrict
  <2>. QED BY <2>1, <2>2 DEF e
<1>3. ASSUME c \in DOMAIN d.channels PROVE Kin(d, RenameChannelRow(d, c, n))
  <2>. DEFINE e == RenameChannelRow(d, c, n)
  <2>1. e.members = d.members /\ e.hubs = d.hubs /\ e.channels = [d.channels EXCEPT ![c].name = n]
    BY <1>0 DEF RenameChannelRow, IsRecord
  <2>. HIDE DEF e
  <2>2. DOMAIN e.channels = DOMAIN d.channels /\ \A x \in DOMAIN d.channels \ {c} : e.channels[x] = d.channels[x]
    BY <1>0, <2>1 DEF IsMap
  <2>3. e.channels[c] = [d.channels[c] EXCEPT !.name = n] /\ d.channels[c] \in ChannelType
    BY <1>0, <1>3, <2>1 DEF IsMap, TablesOK
  <2>4. e.channels[c].hub = d.channels[c].hub
    BY SMT, <2>3 DEF ChannelType
  <2>5. Kin(d, e)
    BY <2>1, <2>2, <2>4 DEF Kin
  <2>. QED BY <2>5 DEF e
<1>. QED BY <1>1, <1>2, <1>3

===============================================================================
