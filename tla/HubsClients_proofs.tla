-------------------------- MODULE HubsClients_proofs --------------------------
(***************************************************************************)
(* What the users get from a single thread: a write has the role it needs, *)
(* and the clients see the hubs they are members of.                       *)
(***************************************************************************)
EXTENDS HubsAlone_proofs, HubsSteps_proofs

USE Zenon

-----------------------------------------------------------------------------
(* The role of the actor.                                                  *)

\* Every step keeps the role the command was let through with.
LEMMA RoleNext == HubsInv /\ ExactInv /\ RoleInv /\ [HubsNext]_hubsVars => RoleInv'
<1>. SUFFICES ASSUME HubsInv, ExactInv, RoleInv, [HubsNext]_hubsVars PROVE RoleInv'
  OBVIOUS
<1>1. DOMAIN worker' = DOMAIN worker
  BY BoundedKeeps DEF ExactInv
<1>. SUFFICES ASSUME Alone', NEW v \in DOMAIN worker PROVE RoleFits(worker'[v], db')
  BY <1>1 DEF RoleInv
<1>2. /\ losses \in Nat /\ losses' = losses
      /\ \A w \in DOMAIN worker :
            w = v /\ Exact(worker[w], hubCache, channelCache, db) /\ RoleFits(worker[w], db)
  BY BoundedKeeps DEF ExactInv, RoleInv
<1>3. CASE UNCHANGED hubsVars \/ InviteAges
  BY <1>2, <1>3 DEF hubsVars, serviceVars, InviteAges
<1>4. ASSUME NEW w \in DOMAIN worker, Take(w) \/ CommandStep(w) \/ CallFails(w) \/ ServiceStep(w)
      PROVE  RoleFits(worker'[v], db')
  BY <1>2, <1>4, RoleStep
<1>. QED BY <1>3, <1>4 DEF HubsNext

\* RoleInv is an invariant, whatever the commands are and whichever calls fail.
THEOREM RolesAlways == HubsSpec => []RoleInv
  BY HubsAlways, ExactAlways, RoleInit, RoleNext, PTL DEF HubsSpec

\* The theorem for WritesAuthorised: with one thread, the role that HubController
\* and ChannelController took from a snapshot is the actor's role in the tables
\* when the statement runs, however many reads, calls and failures lie between
\* the check and the statement.
THEOREM WritesAlwaysAuthorised == HubsSpec => WritesAuthorised
<1>. DEFINE Permitted == \A w \in DOMAIN worker :
                Alone /\ db' # db /\ worker'[w] # worker[w] /\ worker[w].cmd.op \notin {"create_hub", "join"} =>
                   /\ <<worker[w].hub, Actor(w)>> \in DOMAIN db.members
                   /\ db.members[<<worker[w].hub, Actor(w)>>] \in RolesFor(worker[w].cmd.op)
<1>1. ASSUME ExactInv, RoleInv, [HubsNext]_hubsVars PROVE [Permitted]_hubsVars
  <2>. SUFFICES ASSUME NEW w \in DOMAIN worker, Alone, db' # db, worker[w].cmd.op \notin {"create_hub", "join"}
                PROVE  /\ <<worker[w].hub, Actor(w)>> \in DOMAIN db.members
                       /\ db.members[<<worker[w].hub, Actor(w)>>] \in RolesFor(worker[w].cmd.op)
    OBVIOUS
  <2>1. ~(UNCHANGED hubsVars \/ InviteAges)
    BY DEF hubsVars, serviceVars, InviteAges
  <2>2. PICK v \in DOMAIN worker : Take(v) \/ CommandStep(v) \/ CallFails(v) \/ ServiceStep(v)
    BY <1>1, <2>1 DEF HubsNext
  <2>3. v = w /\ Exact(worker[w], hubCache, channelCache, db) /\ RoleFits(worker[w], db)
    BY <1>1, BoundedKeeps DEF ExactInv, RoleInv
  <2>4. Where(worker[w]) = worker[w].pc /\ worker[w].pc \in Authorised
    BY <2>2, <2>3, Writers DEF Exact, OpFits
  <2>5. RoleNow(worker[w], db) \in RolesFor(worker[w].cmd.op)
    BY <2>3, <2>4 DEF RoleFits
  <2>. QED BY <2>5, RolesByCommand DEF RoleNow, Actor
<1>. QED BY <1>1, ExactAlways, RolesAlways, PTL DEF HubsSpec, WritesAuthorised

-----------------------------------------------------------------------------
(* What the clients see.                                                   *)

\* Statements that change no hub, member or channel but its name, seed or role.
LEMMA KinWrites ==
    ASSUME HubsInv, losses \in Nat, losses' = losses, NEW w \in DOMAIN worker, ClientsFit(worker[w], db, subs, shown),
           RenameHub(w) \/ UpdateHubAvatarSeed(w) \/ RenameChannel(w) \/ (AddMember(w) /\ worker[w].cmd.op # "join")
    PROVE  ClientsFit(worker'[w], db', subs', shown')
<1>. DEFINE f == worker[w]
            N == worker'[w]
            From == {"rename_hub", "seed_hub", "rename_channel", "add_member"}
<1>1. UNCHANGED <<subs, shown>> /\ f.pc \in From
  BY DEF RenameHub, UpdateHubAvatarSeed, RenameChannel, AddMember, At, delivery
<1>2. From \cap (Methods \cup OwingSteps \cup {"idle"}) = {}
  BY DEF Methods, LoadPcs, LookPcs, EditPcs, Reading, Putting, OwingSteps
<1>3. f.pc # "idle" /\ TablesOK(db) /\ f.pc \notin Methods \cup OwingSteps \cup {"idle"}
  BY <1>1, <1>2 DEF HubsInv
<1>4. Phase(f) = "none" /\ OpAt(f.cmd.op, f.pc) /\ Where(f) = f.pc /\ Carries(f, db) /\ ClientsFit(Idle, db, subs, shown)
  BY <1>3, ClientsPlain DEF ClientsFit
<1>5. ASSUME UNCHANGED db, N = Idle PROVE ClientsFit(N, db', subs', shown')
  BY <1>1, <1>4, <1>5
<1>6. ASSUME Kin(db, db'), Moved(N, f, {"pc", "ret"}), N.pc \in {"invalidate", "copy_channel"}, N.ret \in {"seed_hub", "idle"}
      PROVE  ClientsFit(N, db', subs', shown')
  <2>1. {"pc", "ret"} \subseteq {"pc", "ret", "ids", "pend"}
    OBVIOUS
  <2>2. Lands(N, f, N.ret)
    BY <1>6, <2>1, StatementLands
  <2>3. N.ret \notin OwingSteps /\ N.ret \notin Laden /\ OpAt(f.cmd.op, N.ret)
    BY <1>6 DEF OwingSteps, Laden, OpAt
  <2>4. PhaseAt(f.cmd.op, N.ret) = "none"
    BY ZenonT(30), <2>3, PhaseFacts
  <2>5. ClientsFit(N, db', subs, shown)
    BY <1>3, <1>4, <1>6, <2>2, <2>3, <2>4, ClientsKept
  <2>. QED BY <1>1, <2>5
<1>. HIDE DEF From
<1>7. CASE RenameHub(w)
  <2>1. \/ N = Idle /\ UNCHANGED db
        \/ /\ db' = RenameHubRow(db, f.hub, f.cmd.name) /\ Moved(N, f, {"pc", "ret"}) /\ N.pc = "invalidate"
           /\ N.ret \in {"seed_hub", "idle"}
    BY <1>3, <1>7, HubWriteShapes DEF HubWritesShape
  <2>2. Kin(db, RenameHubRow(db, f.hub, f.cmd.name))
    BY <1>3, HubRowShapes
  <2>. QED BY <1>5, <1>6, <2>1, <2>2
<1>8. CASE UpdateHubAvatarSeed(w)
  <2>1. \/ N = Idle /\ UNCHANGED db
        \/ /\ db' = UpdateHubSeedRow(db, f.hub, f.cmd.seed) /\ Moved(N, f, {"pc", "ret"}) /\ N.pc = "invalidate"
           /\ N.ret \in {"seed_hub", "idle"}
    BY <1>3, <1>8, HubWriteShapes DEF HubWritesShape
  <2>2. Kin(db, UpdateHubSeedRow(db, f.hub, f.cmd.seed))
    BY <1>3, HubRowShapes
  <2>. QED BY <1>5, <1>6, <2>1, <2>2
<1>9. CASE RenameChannel(w)
  <2>1. \/ N = Idle /\ UNCHANGED db
        \/ /\ f.cmd.ch \in DOMAIN db.channels /\ db' = RenameChannelRow(db, f.cmd.ch, f.cmd.name)
           /\ Moved(N, f, {"pc", "ret"}) /\ N.pc = "copy_channel" /\ N.ret \in {"seed_hub", "idle"}
    BY <1>3, <1>9, ChannelWriteShapes DEF ChannelWritesShape
  <2>2. f.cmd.ch \in DOMAIN db.channels => Kin(db, RenameChannelRow(db, f.cmd.ch, f.cmd.name))
    BY <1>3, ChannelRowShapes
  <2>. QED BY <1>5, <1>6, <2>1, <2>2
<1>10. CASE AddMember(w) /\ f.cmd.op # "join"
  <2>. DEFINE e == AddMemberRow(db, f.hub, f.cmd.who, f.cmd.role)
  <2>1. \/ N = Idle /\ UNCHANGED db
        \/ db' = e /\ Moved(N, f, {"pc", "ret"}) /\ N.pc = "invalidate" /\ N.ret \in {"seed_hub", "idle"}
    BY <1>3, <1>10, HubWriteShapes DEF HubWritesShape
  <2>2. <<f.hub, f.cmd.who>> \in DOMAIN db.members
    BY <1>4, <1>10 DEF AddMember, At, OpAt, Carries
  <2>3. e = AddMemberRow(db, f.hub, f.cmd.who, f.cmd.role)
    OBVIOUS
  <2>. HIDE DEF e
  <2>4. DOMAIN e.members = DOMAIN db.members \cup {<<f.hub, f.cmd.who>>} /\ e.channels = db.channels /\ e.hubs = db.hubs
    BY SMT, <1>3, <2>3, AddRowShape
  <2>5. Kin(db, e)
    BY <2>2, <2>4 DEF Kin
  <2>. QED BY <1>5, <1>6, <2>1, <2>5
<1>. QED BY <1>7, <1>8, <1>9, <1>10

\* Statements after which the command owes something to the clients.
LEMMA MemberWrites ==
    ASSUME HubsInv, losses \in Nat, losses' = losses, NEW w \in DOMAIN worker, ClientsFit(worker[w], db, subs, shown),
           Exact(worker[w], hubCache, channelCache, db), RoleFits(worker[w], db),
           CreateHub(w) \/ RemoveMember(w) \/ DeleteHub(w) \/ (AddMember(w) /\ worker[w].cmd.op = "join")
    PROVE  ClientsFit(worker'[w], db', subs', shown')
<1>. DEFINE f == worker[w]
            N == worker'[w]
            From == {"insert_hub", "remove_member", "service_ids", "add_member"}
<1>1. UNCHANGED <<subs, shown>> /\ f.pc \in From
  BY DEF CreateHub, RemoveMember, DeleteHub, AddMember, At, delivery
<1>. SUFFICES ClientsFit(N, db', subs, shown)
  BY <1>1
<1>2. From \cap (Methods \cup OwingSteps \cup {"idle"}) = {}
  BY DEF Methods, LoadPcs, LookPcs, EditPcs, Reading, Putting, OwingSteps
<1>3. f.pc # "idle" /\ TablesOK(db) /\ f.pc \notin Methods \cup OwingSteps \cup {"idle"}
  BY <1>1, <1>2 DEF HubsInv
<1>4. Phase(f) = "none" /\ OpAt(f.cmd.op, f.pc) /\ Where(f) = f.pc /\ Carries(f, db) /\ ClientsFit(Idle, db, subs, shown)
  BY <1>3, ClientsPlain DEF ClientsFit
<1>5. Fits("none", f, db, subs, shown)
  BY <1>4 DEF ClientsFit
<1>6. ASSUME UNCHANGED db, N = Idle PROVE ClientsFit(N, db', subs, shown)
  BY <1>4, <1>6
<1>. HIDE DEF From
<1>7. CASE CreateHub(w)
  <2>1. f.cmd.op = "create_hub"
    BY <1>3, <1>7 DEF CreateHub, At, Exact, OpFits
  <2>2. ASSUME NEW h, db' = CreateHubRow(db, h, f.cmd.by, f.cmd.name), N.hub = h,
               Moved(N, f, {"pc", "ret", "hub"}), N.pc = "invalidate", N.ret = "count_channels"
        PROVE  ClientsFit(N, db', subs, shown)
    <3>. DEFINE e == CreateHubRow(db, h, f.cmd.by, f.cmd.name)
    <3>1. N.cmd = f.cmd /\ Where(N) = "count_channels"
      BY <2>2 DEF Moved, FrameFields, Where, Methods
    <3>2. e = CreateHubRow(db, h, f.cmd.by, f.cmd.name)
      OBVIOUS
    <3>. HIDE DEF e
    <3>6. DOMAIN e.members = DOMAIN db.members \cup {<<h, f.cmd.by>>} /\ e.channels = db.channels
      BY SMT, <1>3, <3>2, CreateRowShape
    <3>3. Fits("join", N, e, subs, shown)
      BY <1>5, <2>2, <3>1, <3>6, FitsJoin
    <3>4. PhaseAt(N.cmd.op, "count_channels") = "join" /\ OpAt(N.cmd.op, "count_channels") /\ "count_channels" \notin Laden
      BY SMT, <2>1, <3>1 DEF PhaseAt, OpAt, Laden
    <3>5. ClientsFit(N, e, subs, shown)
      BY <2>1, <3>1, <3>3, <3>4, ClientsAt
    <3>. QED BY <2>2, <3>5 DEF e
  <2>. QED BY <1>3, <1>6, <1>7, <2>2, HubWriteShapes DEF HubWritesShape
<1>8. CASE AddMember(w) /\ f.cmd.op = "join"
  <2>. DEFINE e == AddMemberRow(db, f.hub, f.cmd.who, f.cmd.role)
  <2>1. \/ N = Idle /\ UNCHANGED db
        \/ db' = e /\ Moved(N, f, {"pc", "ret"}) /\ N.pc = "invalidate" /\ N.ret = "subscribe"
    BY <1>3, <1>8, HubWriteShapes DEF HubWritesShape
  <2>2. f.cmd.who = f.cmd.by
    BY <1>3, <1>8, Active, CommandsAssumption
  <2>3. e = AddMemberRow(db, f.hub, f.cmd.who, f.cmd.role)
    OBVIOUS
  <2>. HIDE DEF e
  <2>5. DOMAIN e.members = DOMAIN db.members \cup {<<f.hub, f.cmd.who>>} /\ e.channels = db.channels
    BY SMT, <1>3, <2>3, AddRowShape
  <2>4. ASSUME db' = e, Moved(N, f, {"pc", "ret"}), N.pc = "invalidate", N.ret = "subscribe" PROVE ClientsFit(N, db', subs, shown)
    <3>1. N.cmd = f.cmd /\ N.hub = f.hub /\ Where(N) = "subscribe"
      BY <2>4 DEF Moved, FrameFields, Where, Methods
    <3>2. Fits("join", N, e, subs, shown)
      BY <1>5, <2>2, <2>5, <3>1, FitsJoin
    <3>3. PhaseAt(N.cmd.op, "subscribe") = "join" /\ OpAt(N.cmd.op, "subscribe") /\ "subscribe" \notin Laden
      BY SMT, <1>8, <3>1 DEF PhaseAt, OpAt, Laden
    <3>4. ClientsFit(N, e, subs, shown)
      BY <1>8, <3>1, <3>2, <3>3, ClientsAt
    <3>. QED BY <2>4, <3>4
  <2>. QED BY <1>6, <2>1, <2>4
<1>9. CASE RemoveMember(w)
  <2>. DEFINE e == RemoveMemberRow(db, f.hub, f.cmd.who)
  <2>1. f.pc = "remove_member" /\ f.cmd.op \in {"leave", "kick"}
    BY <1>4, <1>9 DEF RemoveMember, At, OpAt
  <2>2. /\ db' = e /\ Moved(N, f, {"pc", "ret"}) /\ N.pc = "invalidate"
        /\ N.ret = (IF f.cmd.op = "kick" THEN "revoke" ELSE "cut")
    BY <1>3, <1>9, HubWriteShapes DEF HubWritesShape
  <2>3. f.hub \in DOMAIN db.hubs
    BY <1>4, <2>1, ActorIsMember DEF Authorised
  <2>9. e = RemoveMemberRow(db, f.hub, f.cmd.who)
    OBVIOUS
  <2>. HIDE DEF e
  <2>4. DOMAIN e.members = DOMAIN db.members \ {<<f.hub, f.cmd.who>>} /\ e.channels = db.channels /\ e.hubs = db.hubs
    BY SMT, <1>3, <2>9, RemoveRowShape
  <2>5. N.cmd = f.cmd /\ N.hub = f.hub /\ Where(N) = N.ret
    BY <2>2 DEF Moved, FrameFields, Where, Methods
  <2>6. Fits("leave", N, e, subs, shown)
    BY <1>5, <2>3, <2>4, <2>5, FitsLeave
  <2>7. PhaseAt(N.cmd.op, N.ret) = "leave" /\ OpAt(N.cmd.op, N.ret) /\ N.ret \notin Laden
    BY SMT, <2>1, <2>2, <2>5 DEF PhaseAt, OpAt, Laden
  <2>8. ClientsFit(N, e, subs, shown)
    BY <2>1, <2>5, <2>6, <2>7, ClientsAt
  <2>. QED BY <2>2, <2>8
<1>10. CASE DeleteHub(w)
  <2>. DEFINE e == DeleteHubRow(db, f.hub)
  <2>1. f.pc = "service_ids" /\ f.cmd.op = "delete_hub" /\ f.topics = ChannelsOf(db, f.hub)
    BY <1>4, <1>10 DEF DeleteHub, At, OpAt, Carries
  <2>2. \/ N = Idle /\ UNCHANGED db
        \/ db' = e /\ Moved(N, f, {"pc", "ret", "ids"}) /\ N.pc = "invalidate" /\ N.ret = "invalidate_channels"
    BY <1>3, <1>10, HubWriteShapes DEF HubWritesShape
  <2>3. /\ \A h, u : <<h, u>> \in DOMAIN e.members <=> <<h, u>> \in DOMAIN db.members /\ h # f.hub
        /\ DOMAIN e.channels = DOMAIN db.channels \ ChannelsOf(db, f.hub)
        /\ \A c \in DOMAIN e.channels : e.channels[c] = db.channels[c]
    BY <1>3, DeleteRowShapes
  <2>. HIDE DEF e
  <2>4. ASSUME db' = e, Moved(N, f, {"pc", "ret", "ids"}), N.pc = "invalidate", N.ret = "invalidate_channels"
        PROVE  ClientsFit(N, db', subs, shown)
    <3>1. N.cmd = f.cmd /\ N.hub = f.hub /\ N.topics = f.topics /\ Where(N) = "invalidate_channels"
      BY <2>4 DEF Moved, FrameFields, Where, Methods
    <3>2. N.topics = ChannelsOf(db, N.hub) /\ N.topics \subseteq Channels
      BY <2>1, <3>1, IdFacts
    <3>3. Fits("delete", N, e, subs, shown)
      BY ZenonT(30), <1>5, <2>3, <3>1, <3>2, FitsDelete
    <3>4. /\ PhaseAt(N.cmd.op, "invalidate_channels") = "delete" /\ OpAt(N.cmd.op, "invalidate_channels")
          /\ "invalidate_channels" \notin Laden
      BY SMT, <2>1, <3>1 DEF PhaseAt, OpAt, Laden
    <3>5. ClientsFit(N, e, subs, shown)
      BY <2>1, <3>1, <3>3, <3>4, ClientsAt
    <3>. QED BY <2>4, <3>5
  <2>. QED BY <1>6, <2>2, <2>4
<1>. QED BY <1>7, <1>8, <1>9, <1>10


\* What the statements on channels make of the tables.
LEMMA InsertRowShape ==
    ASSUME NEW d, TablesOK(d), NEW c \in Channels \ d.issued, NEW h, NEW n, NEW t, NEW e, e = CreateChannelRow(d, c, h, n, t)
    PROVE  DOMAIN e.members = DOMAIN d.members /\ \A x \in DOMAIN d.channels : x \in DOMAIN e.channels /\ e.channels[x] = d.channels[x]
<1>1. c \notin DOMAIN d.channels
  BY DEF TablesOK
<1>. QED BY SMT, <1>1, ChannelRowShapes

LEMMA DropRowShape ==
    ASSUME NEW d, TablesOK(d), NEW c, NEW e, e = DeleteChannelRow(d, c)
    PROVE  /\ DOMAIN e.members = DOMAIN d.members
           /\ \A x \in DOMAIN d.channels : x # c => x \in DOMAIN e.channels /\ e.channels[x] = d.channels[x]
<1>1. /\ DeleteChannelRow(d, c).members = d.members
      /\ \A x \in DOMAIN d.channels : x # c => /\ x \in DOMAIN DeleteChannelRow(d, c).channels
                                              /\ DeleteChannelRow(d, c).channels[x] = d.channels[x]
  BY ChannelRowShapes
<1>. QED BY SMT, <1>1

\* Statements that insert and delete a channel.
LEMMA ChannelWritesFit ==
    ASSUME HubsInv, losses \in Nat, losses' = losses, NEW w \in DOMAIN worker, ClientsFit(worker[w], db, subs, shown),
           Exact(worker[w], hubCache, channelCache, db), InsertChannel(w) \/ RemoveChannel(w)
    PROVE  ClientsFit(worker'[w], db', subs', shown')
<1>. DEFINE f == worker[w]
            N == worker'[w]
<1>1. UNCHANGED <<subs, shown>> /\ f.pc \in {"insert_channel", "delete_channel"}
  BY DEF InsertChannel, RemoveChannel, At, delivery
<1>. SUFFICES ClientsFit(N, db', subs, shown)
  BY <1>1
<1>2. {"insert_channel", "delete_channel", "subscribe"} \cap (Methods \cup {"idle"}) = {}
  BY DEF Methods, LoadPcs, LookPcs, EditPcs, Reading, Putting
<1>3. f.pc # "idle" /\ TablesOK(db) /\ f.pc \notin Methods \cup {"idle"}
  BY <1>1, <1>2 DEF HubsInv
<1>4. OpAt(f.cmd.op, f.pc) /\ Where(f) = f.pc /\ Fits(PhaseAt(f.cmd.op, f.pc), f, db, subs, shown)
  BY <1>3, ClientsOwed
<1>5. CASE InsertChannel(w)
  <2>. DEFINE p == IF f.cmd.op = "create_hub" THEN "join" ELSE "none"
              x == IF f.cmd.op = "create_hub" THEN "subscribe" ELSE "idle"
  <2>1. f.pc = "insert_channel" /\ f.cmd.op \in {"create_hub", "create_channel"}
    BY <1>5 DEF InsertChannel, At, Exact, OpFits
  <2>2. PhaseAt(f.cmd.op, f.pc) = p /\ PhaseAt(f.cmd.op, x) = p
    BY SMT, <2>1 DEF PhaseAt
  <2>3. p \in {"none", "join"} /\ x \notin Laden /\ OpAt(f.cmd.op, x)
    BY <2>1 DEF Laden, OpAt
  <2>4. CASE UNCHANGED db /\ IF f.cmd.op = "create_hub" THEN Proceeds(N, f, "subscribe") ELSE N = Idle
    <3>1. CASE f.cmd.op = "create_hub"
      <4>1. Lands(N, f, "subscribe")
        BY <1>2, <2>4, <3>1 DEF Proceeds, Kept, Rest, Lands, Subject, Lists, Where
      <4>2. ClientsFit(N, db, subs, shown)
        BY <1>3, <2>1, <2>3, <3>1, <4>1, ClientsOwed, Paths
      <4>. QED BY <2>4, <4>2
    <3>2. CASE f.cmd.op # "create_hub"
      <4>1. ClientsFit(Idle, db, subs, shown)
        BY <1>3, <2>2, <3>2, ClientsOwed
      <4>. QED BY <2>4, <3>2, <4>1
    <3>. QED BY <3>1, <3>2
  <2>5. ASSUME NEW c \in Channels \ db.issued, NEW n, NEW t, db' = CreateChannelRow(db, c, f.hub, n, t),
               Moved(N, f, {"pc", "ret", "pend"}), N.pc = "cache_channel", N.ret = x
        PROVE  ClientsFit(N, db', subs, shown)
    <3>1. /\ DOMAIN db'.members = DOMAIN db.members
          /\ \A y \in DOMAIN db.channels : y \in DOMAIN db'.channels /\ db'.channels[y] = db.channels[y]
      BY SMT, <1>3, <2>5, InsertRowShape
    <3>2. {"pc", "ret", "pend"} \subseteq {"pc", "ret", "ids", "pend"}
      OBVIOUS
    <3>3. Subject(N, f) /\ Where(N) = N.ret
      BY <2>5, <3>2, StatementLands
    <3>. HIDE DEF p, x
    <3>4. Fits(p, f, db, subs, shown)
      BY <1>4, <2>2
    <3>5. Fits(p, N, db', subs, shown)
      BY <2>3, <3>1, <3>3, <3>4, FitsChannel
    <3>6. Where(N) = x /\ N.cmd.op = f.cmd.op /\ f.cmd.op # "select"
      BY <2>1, <2>5, <3>3 DEF Subject
    <3>. QED BY <2>2, <2>3, <3>5, <3>6, ClientsAt
  <2>. QED BY ZenonT(30), <1>3, <1>5, <2>4, <2>5, ChannelWriteShapes DEF ChannelWritesShape
<1>6. CASE RemoveChannel(w)
  <2>1. f.pc = "delete_channel" /\ f.cmd.op = "remove_channel"
    BY <1>4, <1>6 DEF RemoveChannel, At, OpAt
  <2>2. PhaseAt(f.cmd.op, f.pc) = "none"
    BY SMT, <2>1 DEF PhaseAt
  <2>3. ASSUME N = Idle, UNCHANGED db PROVE ClientsFit(N, db', subs, shown)
    <3>1. ClientsFit(Idle, db, subs, shown)
      BY <1>3, <2>2, ClientsOwed
    <3>. QED BY <2>3, <3>1
  <2>4. ASSUME DeletesChannel(db, f.cmd.ch, f.hub), db' = DeleteChannelRow(db, f.cmd.ch), Moved(N, f, {"pc", "ret"}),
               N.pc = "cache_channel", N.ret = "drop_topic"
        PROVE  ClientsFit(N, db', subs, shown)
    <3>1. /\ DOMAIN db'.members = DOMAIN db.members
          /\ \A y \in DOMAIN db.channels : y # f.cmd.ch => y \in DOMAIN db'.channels /\ db'.channels[y] = db.channels[y]
      BY SMT, <1>3, <2>4, DropRowShape
    <3>2. {"pc", "ret"} \subseteq {"pc", "ret", "ids", "pend"}
      OBVIOUS
    <3>3. Subject(N, f) /\ Where(N) = N.ret
      BY <2>4, <3>2, StatementLands
    <3>4. N.cmd = f.cmd /\ Where(N) = "drop_topic"
      BY <2>4, <3>3 DEF Subject
    <3>5. f.cmd.ch \in Channels
      <4>1. f.cmd.ch \in DOMAIN db.channels
        BY <2>4 DEF DeletesChannel, ChannelsOf
      <4>. QED BY <1>3, <4>1 DEF TablesOK
    <3>6. Fits("none", f, db, subs, shown)
      BY <1>4, <2>2
    <3>9. /\ N.cmd.ch \in Channels
          /\ \A y \in DOMAIN db.channels : y # N.cmd.ch => y \in DOMAIN db'.channels /\ db'.channels[y] = db.channels[y]
      BY <3>1, <3>4, <3>5
    <3>7. Fits("remove", N, db', subs, shown)
      BY <3>1, <3>6, <3>9, FitsRemove
    <3>8. PhaseAt(N.cmd.op, "drop_topic") = "remove" /\ OpAt(N.cmd.op, "drop_topic") /\ "drop_topic" \notin Laden
      BY SMT, <2>1, <3>4 DEF PhaseAt, OpAt, Laden
    <3>. QED BY <2>1, <3>4, <3>7, <3>8, ClientsAt
  <2>. QED BY <1>3, <1>6, <2>3, <2>4, ChannelWriteShapes DEF ChannelWritesShape
<1>. QED BY <1>5, <1>6


\* The steps at which the clients hear of a command.
LEMMA SubscribeFits ==
    ASSUME HubsInv, NEW w \in DOMAIN worker, ClientsFit(worker[w], db, subs, shown), Subscribe(w)
    PROVE  ClientsFit(worker'[w], db', subs', shown')
<1>. DEFINE f == worker[w]
            N == worker'[w]
<1>1. UNCHANGED <<db, shown>> /\ f.pc = "subscribe" /\ subs' = subs \cup {<<f.cmd.by, f.hub>>} /\ Load(w, "filter")
  BY DEF Subscribe, At, tables, Actor, Relation!Subscribed
<1>2. f.pc \notin Methods \cup {"idle"}
  BY <1>1 DEF Methods, LoadPcs, LookPcs, EditPcs, Reading, Putting
<1>3. OpAt(f.cmd.op, f.pc) /\ Fits(PhaseAt(f.cmd.op, f.pc), f, db, subs, shown) /\ f.pc # "idle"
  BY <1>2, ClientsOwed
<1>4. f.cmd.op \in {"create_hub", "join"}
  BY <1>1, <1>3 DEF OpAt
<1>5. PhaseAt(f.cmd.op, f.pc) = "join" /\ PhaseAt(f.cmd.op, "filter") = "show"
  BY SMT, <1>1, <1>4 DEF PhaseAt
<1>6. Fits("join", f, db, subs, shown)
  BY <1>3, <1>5
<1>7. Lands(N, f, "filter")
  BY <1>1, <1>3, ClientMoves
<1>8. N.cmd = f.cmd /\ N.hub = f.hub /\ Where(N) = "filter"
  BY <1>7 DEF Lands, Subject
<1>9. <<f.hub, f.cmd.by>> \in DOMAIN db.members
  BY <1>6 DEF Fits
<1>10. f.hub \in Hubs /\ f.cmd.by \in Users /\ f.hub \notin Channels
  BY <1>9, IdFacts
<1>11. subs' \subseteq Users \X (Hubs \cup Channels)
  <2>1. subs \subseteq Users \X (Hubs \cup Channels)
    BY <1>6 DEF Fits
  <2>. QED BY SMT, <1>1, <1>10, <2>1
<1>12. \A u, t : <<u, t>> \in subs' <=> <<u, t>> \in subs \/ (u = f.cmd.by /\ t = f.hub)
  BY SMT, <1>1
<1>13. Seen("show", N, db, shown)
  BY <1>6, <1>8 DEF Fits, Seen
<1>14. Heard("show", N, subs', shown)
  BY <1>6, <1>8, <1>12 DEF Fits, Heard
<1>15. Tuned("show", N, db, subs', shown)
  BY <1>6, <1>10, <1>12 DEF Fits, Tuned
<1>16. Fits("show", N, db, subs', shown)
  BY <1>6, <1>8, <1>9, <1>11, <1>13, <1>14, <1>15 DEF Fits
<1>17. "filter" \notin Laden /\ OpAt(N.cmd.op, "filter") /\ N.cmd.op # "select"
  BY <1>4, <1>8 DEF Laden, OpAt
<1>18. ClientsFit(N, db, subs', shown)
  BY <1>5, <1>8, <1>16, <1>17, ClientsAt
<1>. QED BY <1>1, <1>18

\* The state that a client has asked for, and the hub that it has joined.
LEMMA SyncedFits ==
    ASSUME HubsInv, NEW w \in DOMAIN worker, ClientsFit(worker[w], db, subs, shown), Synced(w)
    PROVE  ClientsFit(worker'[w], db', subs', shown')
<1>. DEFINE f == worker[w]
            N == worker'[w]
            kept == IF f.cmd.op = "sync" THEN {p \in shown : p[1] # f.cmd.by} ELSE shown
<1>1. UNCHANGED <<db, subs>> /\ f.pc = "synced" /\ Finish(w) /\ shown' = kept \cup {<<f.cmd.by, h>> : h \in f.hubs}
  BY DEF Synced, At, tables, Actor
<1>2. f.pc \notin Methods \cup {"idle"}
  BY <1>1 DEF Methods, LoadPcs, LookPcs, EditPcs, Reading, Putting
<1>3. /\ OpAt(f.cmd.op, f.pc) /\ Fits(PhaseAt(f.cmd.op, f.pc), f, db, subs, shown) /\ Carries(f, db) /\ Where(f) = f.pc
      /\ f.pc # "idle"
  BY <1>2, ClientsOwed
<1>4. N = Idle
  BY <1>1, <1>3, Moving
<1>. SUFFICES Fits("none", Idle, db, subs, shown')
  BY <1>1, <1>4, ClientsAt
<1>5. IF f.cmd.op = "sync" THEN f.hubs = HubsOfUser(db, f.cmd.by) ELSE f.hubs = {f.hub}
  BY <1>1, <1>3 DEF Carries
<1>6. CASE f.cmd.op = "sync"
  <2>1. PhaseAt(f.cmd.op, f.pc) = "none"
    BY SMT, <1>6 DEF PhaseAt
  <2>2. Fits("none", f, db, subs, shown)
    BY <1>3, <2>1
  <2>3. shown' = {p \in shown : p[1] # f.cmd.by} \cup {<<f.cmd.by, h>> : h \in HubsOfUser(db, f.cmd.by)}
    BY <1>1, <1>5, <1>6
  <2>4. \A u, h : <<u, h>> \in shown' <=>
                     (<<u, h>> \in shown /\ u # f.cmd.by) \/ (u = f.cmd.by /\ <<h, u>> \in DOMAIN db.members)
    <3>1. \A h : h \in HubsOfUser(db, f.cmd.by) <=> <<h, f.cmd.by>> \in DOMAIN db.members
      BY IdFacts DEF HubsOfUser
    <3>. QED BY SMT, <2>3, <3>1
  <2>5. \A u \in Users, h \in Hubs : <<u, h>> \in shown' <=> <<u, h>> \in shown
    <3>1. \A u \in Users, h \in Hubs : <<h, u>> \in DOMAIN db.members <=> <<u, h>> \in shown
      BY <2>2 DEF Fits, Seen
    <3>. QED BY <2>4, <3>1
  <2>6. shown' \subseteq Users \X Hubs
    <3>1. \A p \in shown' : p \in shown \/ \E h \in HubsOfUser(db, f.cmd.by) : p = <<f.cmd.by, h>>
      BY <2>3
    <3>2. \A h \in HubsOfUser(db, f.cmd.by) : f.cmd.by \in Users /\ h \in Hubs
      BY IdFacts DEF HubsOfUser
    <3>3. shown \subseteq Users \X Hubs
      BY <2>2 DEF Fits
    <3>. QED BY SMT, <3>1, <3>2, <3>3
  <2>7. \A u \in Users, c \in Channels : <<u, c>> \in subs => c \in DOMAIN db.channels /\ <<u, db.channels[c].hub>> \in shown
    BY <2>2 DEF Fits, Tuned
  <2>8. \A c \in DOMAIN db.channels : db.channels[c].hub \in Hubs
    BY DEF HubsInv, TablesOK, ChannelType
  <2>9. \A u \in Users, c \in Channels : <<u, c>> \in subs => c \in DOMAIN db.channels /\ <<u, db.channels[c].hub>> \in shown'
    BY <2>5, <2>7, <2>8
  <2>10. \A u \in Users, h \in Hubs : /\ <<h, u>> \in DOMAIN db.members <=> <<u, h>> \in shown'
                                      /\ <<u, h>> \in subs <=> <<u, h>> \in shown'
    BY <2>2, <2>5 DEF Fits, Seen, Heard
  <2>11. subs \subseteq Users \X (Hubs \cup Channels)
    BY <2>2 DEF Fits
  <2>. QED BY <2>6, <2>9, <2>10, <2>11, FitsEnd
<1>7. CASE f.cmd.op # "sync"
  <2>1. f.cmd.op \in {"create_hub", "join"}
    BY <1>1, <1>3, <1>7 DEF OpAt
  <2>2. PhaseAt(f.cmd.op, f.pc) = "show"
    BY SMT, <1>1, <2>1 DEF PhaseAt
  <2>3. Fits("show", f, db, subs, shown)
    BY <1>3, <2>2
  <2>4. shown' = shown \cup {<<f.cmd.by, f.hub>>}
    BY <1>1, <1>5, <1>7
  <2>5. \A u, h : <<u, h>> \in shown' <=> <<u, h>> \in shown \/ (u = f.cmd.by /\ h = f.hub)
    BY SMT, <2>4
  <2>6. f.hub \in Hubs /\ f.cmd.by \in Users
    BY <2>3, IdFacts DEF Fits
  <2>7. shown' \subseteq Users \X Hubs
    <3>1. shown \subseteq Users \X Hubs
      BY <2>3 DEF Fits
    <3>. QED BY SMT, <2>4, <2>6, <3>1
  <2>8. \A u \in Users, h \in Hubs : <<h, u>> \in DOMAIN db.members <=> <<u, h>> \in shown'
    BY <2>3, <2>5 DEF Fits, Seen
  <2>9. \A u \in Users, h \in Hubs : <<u, h>> \in subs <=> <<u, h>> \in shown'
    <3>1. Heard("show", f, subs, shown)
      BY <2>3 DEF Fits
    <3>2. ASSUME NEW u \in Users, NEW h \in Hubs PROVE <<u, h>> \in subs <=> <<u, h>> \in shown'
      <4>1. (<<u, h>> \in subs <=> <<u, h>> \in shown) \/ (u = f.cmd.by /\ h = f.hub /\ <<u, h>> \in subs)
        BY <3>1 DEF Heard
      <4>2. <<f.cmd.by, f.hub>> \in subs
        BY <2>6, <3>1 DEF Heard
      <4>. QED BY <2>5, <4>1, <4>2
    <3>. QED BY <3>2
  <2>10. \A u \in Users, c \in Channels : <<u, c>> \in subs => c \in DOMAIN db.channels /\ <<u, db.channels[c].hub>> \in shown'
    BY <2>3, <2>5 DEF Fits, Tuned
  <2>11. subs \subseteq Users \X (Hubs \cup Channels)
    BY <2>3 DEF Fits
  <2>. QED BY <2>7, <2>8, <2>9, <2>10, <2>11, FitsEnd
<1>. QED BY <1>6, <1>7


\* The members of a deleted hub hear that it is gone.
LEMMA DropTopicsFits ==
    ASSUME HubsInv, NEW w \in DOMAIN worker, ClientsFit(worker[w], db, subs, shown), DropTopics(w)
    PROVE  ClientsFit(worker'[w], db', subs', shown')
<1>. DEFINE f == worker[w]
            N == worker'[w]
<1>1. /\ UNCHANGED db /\ f.pc = "drop_topics" /\ Finish(w) /\ subs' = {p \in subs : p[2] \notin {f.hub} \cup f.topics}
      /\ shown' = shown \ {<<u, f.hub>> : u \in {c \in Users : <<c, f.hub>> \in subs}}
  BY DEF DropTopics, At, tables, Relation!SubscribersIn
<1>2. f.pc \notin Methods \cup {"idle"}
  BY <1>1 DEF Methods, LoadPcs, LookPcs, EditPcs, Reading, Putting
<1>3. OpAt(f.cmd.op, f.pc) /\ Fits(PhaseAt(f.cmd.op, f.pc), f, db, subs, shown) /\ f.pc # "idle"
  BY <1>2, ClientsOwed
<1>4. N = Idle
  BY <1>1, <1>3, Moving
<1>. SUFFICES Fits("none", Idle, db, subs', shown')
  BY <1>1, <1>4, ClientsAt
<1>5. f.cmd.op = "delete_hub"
  BY <1>1, <1>3 DEF OpAt
<1>6. PhaseAt(f.cmd.op, f.pc) = "delete"
  BY SMT, <1>1, <1>5 DEF PhaseAt
<1>7. Fits("delete", f, db, subs, shown)
  BY <1>3, <1>6
<1>8. /\ subs \subseteq Users \X (Hubs \cup Channels) /\ shown \subseteq Users \X Hubs /\ f.topics \subseteq Channels
      /\ ChannelsOf(db, f.hub) = {}
  BY <1>7 DEF Fits
<1>9. subs' \subseteq Users \X (Hubs \cup Channels) /\ shown' \subseteq Users \X Hubs
  BY <1>1, <1>8
<1>10. \A u, t : <<u, t>> \in subs' <=> <<u, t>> \in subs /\ t # f.hub /\ t \notin f.topics
  BY SMT, <1>1
<1>11. \A u, h : <<u, h>> \in shown' <=> <<u, h>> \in shown /\ ~(h = f.hub /\ u \in Users /\ <<u, h>> \in subs)
  <2>. DEFINE G == {c \in Users : <<c, f.hub>> \in subs}
  <2>1. \A u : u \in G <=> u \in Users /\ <<u, f.hub>> \in subs
    OBVIOUS
  <2>2. shown' = shown \ {<<u, f.hub>> : u \in G}
    BY <1>1
  <2>. HIDE DEF G
  <2>3. \A u, h : <<u, h>> \in shown' <=> <<u, h>> \in shown /\ ~(h = f.hub /\ u \in G)
    BY SMT, <2>2
  <2>. QED BY <2>1, <2>3
<1>12. \A h \in Hubs : h \notin f.topics
  BY <1>8, IdFacts
<1>13. \A u \in Users, h \in Hubs : <<u, h>> \in subs <=> <<u, h>> \in shown
  BY <1>7 DEF Fits, Heard
<1>14. \A u \in Users, h \in Hubs : <<u, h>> \in shown' <=> <<u, h>> \in shown /\ h # f.hub
  BY <1>11, <1>13
<1>15. \A u \in Users, h \in Hubs : <<u, h>> \in subs' <=> <<u, h>> \in shown'
  BY <1>10, <1>12, <1>13, <1>14
<1>16. \A u \in Users, h \in Hubs : <<h, u>> \in DOMAIN db.members <=> <<u, h>> \in shown'
  BY <1>7, <1>14 DEF Fits, Seen
<1>17. ASSUME NEW u \in Users, NEW c \in Channels, <<u, c>> \in subs'
       PROVE  c \in DOMAIN db.channels /\ <<u, db.channels[c].hub>> \in shown'
  <2>1. <<u, c>> \in subs /\ c \notin f.topics
    BY <1>10, <1>17
  <2>2. c \in DOMAIN db.channels /\ <<u, db.channels[c].hub>> \in shown
    BY <1>7, <2>1 DEF Fits, Tuned
  <2>3. db.channels[c].hub # f.hub
    BY <1>8, <2>2 DEF ChannelsOf
  <2>. QED BY <1>11, <2>2, <2>3
<1>. QED BY <1>9, <1>15, <1>16, <1>17, FitsEnd

\* Who has left a hub hears no more of it.
LEMMA UnsubscribeFits ==
    ASSUME HubsInv, NEW w \in DOMAIN worker, ClientsFit(worker[w], db, subs, shown),
           Exact(worker[w], hubCache, channelCache, db), Unsubscribe(w)
    PROVE  ClientsFit(worker'[w], db', subs', shown')
<1>. DEFINE f == worker[w]
            N == worker'[w]
<1>1. /\ UNCHANGED db /\ f.pc = "unsubscribe" /\ Finish(w) /\ subs' = subs \ ({f.cmd.who} \X ({f.hub} \cup ChannelsIn(f.snap)))
      /\ shown' = shown \ {<<f.cmd.who, f.hub>>}
  BY DEF Unsubscribe, At, tables
<1>2. f.pc \notin Methods \cup {"idle"} /\ f.pc \in LoadRets \ {"topology"} /\ f.pc # "warm"
  BY <1>1 DEF Methods, LoadPcs, LookPcs, EditPcs, Reading, Putting, LoadRets
<1>3. OpAt(f.cmd.op, f.pc) /\ Fits(PhaseAt(f.cmd.op, f.pc), f, db, subs, shown) /\ f.pc # "idle"
  BY <1>2, ClientsOwed
<1>4. N = Idle
  BY <1>1, <1>3, Moving
<1>. SUFFICES Fits("none", Idle, db, subs', shown')
  BY <1>1, <1>4, ClientsAt
<1>5. f.cmd.op \in {"leave", "kick"}
  BY <1>1, <1>3 DEF OpAt
<1>6. PhaseAt(f.cmd.op, f.pc) = "leave"
  BY SMT, <1>1, <1>5 DEF PhaseAt
<1>7. Fits("leave", f, db, subs, shown)
  BY <1>3, <1>6
<1>8. subs \subseteq Users \X (Hubs \cup Channels) /\ shown \subseteq Users \X Hubs /\ f.hub \in DOMAIN db.hubs
  BY <1>7 DEF Fits
<1>9. ChannelsIn(f.snap) = ChannelsOf(db, f.hub)
  BY <1>2, <1>8, SnapNow
<1>10. subs' \subseteq Users \X (Hubs \cup Channels) /\ shown' \subseteq Users \X Hubs
  BY <1>1, <1>8
<1>11. \A u, t : <<u, t>> \in subs' <=> <<u, t>> \in subs /\ ~(u = f.cmd.who /\ (t = f.hub \/ t \in ChannelsOf(db, f.hub)))
  BY SMT, <1>1, <1>9
<1>12. \A u, h : <<u, h>> \in shown' <=> <<u, h>> \in shown /\ ~(u = f.cmd.who /\ h = f.hub)
  BY SMT, <1>1
<1>13. \A h \in Hubs : h \notin ChannelsOf(db, f.hub)
  BY IdFacts
<1>14. \A u \in Users, h \in Hubs : <<u, h>> \in subs <=> <<u, h>> \in shown
  BY <1>7 DEF Fits, Heard
<1>15. \A u \in Users, h \in Hubs : <<u, h>> \in subs' <=> <<u, h>> \in shown'
  BY <1>11, <1>12, <1>13, <1>14
<1>16. \A u \in Users, h \in Hubs : <<h, u>> \in DOMAIN db.members <=> <<u, h>> \in shown'
  BY <1>7, <1>12 DEF Fits, Seen
<1>17. ASSUME NEW u \in Users, NEW c \in Channels, <<u, c>> \in subs'
       PROVE  c \in DOMAIN db.channels /\ <<u, db.channels[c].hub>> \in shown'
  <2>1. <<u, c>> \in subs /\ ~(u = f.cmd.who /\ c \in ChannelsOf(db, f.hub))
    BY <1>11, <1>17
  <2>2. c \in DOMAIN db.channels /\ <<u, db.channels[c].hub>> \in shown
    BY <1>7, <2>1 DEF Fits, Tuned
  <2>3. ~(u = f.cmd.who /\ db.channels[c].hub = f.hub)
    BY <2>1, <2>2 DEF ChannelsOf
  <2>. QED BY <1>12, <2>2, <2>3
<1>. QED BY <1>10, <1>15, <1>16, <1>17, FitsEnd

\* A removed channel's topic, and the one that a client turns to.
LEMMA TopicFits ==
    ASSUME HubsInv, NEW w \in DOMAIN worker, ClientsFit(worker[w], db, subs, shown),
           Exact(worker[w], hubCache, channelCache, db), DropChannelTopic(w) \/ SelectActiveChannel(w)
    PROVE  ClientsFit(worker'[w], db', subs', shown')
<1>. DEFINE f == worker[w]
            N == worker'[w]
<1>1. UNCHANGED <<db, shown>> /\ f.pc \in {"drop_topic", "authorise"} /\ Finish(w)
  BY DEF DropChannelTopic, SelectActiveChannel, At, On, tables
<1>2. f.pc \notin Methods \cup {"idle"}
  BY <1>1 DEF Methods, LoadPcs, LookPcs, EditPcs, Reading, Putting
<1>3. /\ OpAt(f.cmd.op, f.pc) /\ Fits(PhaseAt(f.cmd.op, f.pc), f, db, subs, shown) /\ Carries(f, db) /\ Where(f) = f.pc
      /\ f.pc # "idle"
  BY <1>2, ClientsOwed
<1>4. N = Idle
  BY <1>1, <1>3, Moving
<1>. SUFFICES Fits("none", Idle, db, subs', shown)
  BY <1>1, <1>4, ClientsAt
<1>5. CASE DropChannelTopic(w)
  <2>1. f.pc = "drop_topic" /\ subs' = {p \in subs : p[2] # f.cmd.ch}
    BY <1>5 DEF DropChannelTopic, At, Relation!WithoutTopic
  <2>2. f.cmd.op = "remove_channel"
    BY <1>3, <2>1 DEF OpAt
  <2>3. PhaseAt(f.cmd.op, f.pc) = "remove"
    BY SMT, <2>1, <2>2 DEF PhaseAt
  <2>4. Fits("remove", f, db, subs, shown)
    BY <1>3, <2>3
  <2>5. subs \subseteq Users \X (Hubs \cup Channels) /\ shown \subseteq Users \X Hubs /\ f.cmd.ch \in Channels
    BY <2>4 DEF Fits
  <2>6. subs' \subseteq Users \X (Hubs \cup Channels)
    BY <2>1, <2>5
  <2>7. \A u, t : <<u, t>> \in subs' <=> <<u, t>> \in subs /\ t # f.cmd.ch
    BY SMT, <2>1
  <2>8. \A h \in Hubs : h # f.cmd.ch
    BY <2>5, IdFacts
  <2>9. \A u \in Users, h \in Hubs : <<u, h>> \in subs' <=> <<u, h>> \in shown
    BY <2>4, <2>7, <2>8 DEF Fits, Heard
  <2>10. \A u \in Users, h \in Hubs : <<h, u>> \in DOMAIN db.members <=> <<u, h>> \in shown
    BY <2>4 DEF Fits, Seen
  <2>11. \A u \in Users, c \in Channels : <<u, c>> \in subs' => c \in DOMAIN db.channels /\ <<u, db.channels[c].hub>> \in shown
    BY <2>4, <2>7 DEF Fits, Tuned
  <2>. QED BY <2>5, <2>6, <2>9, <2>10, <2>11, FitsEnd
<1>6. CASE SelectActiveChannel(w)
  <2>1. /\ f.pc = "authorise" /\ f.cmd.op = "select"
        /\ subs' = IF RoleIn(f.snap, f.cmd.by) = "NONE" THEN subs ELSE subs \cup {<<f.cmd.by, f.cmd.ch>>}
    BY <1>6 DEF SelectActiveChannel, On, At, ActorRole, Actor, Relation!Subscribed
  <2>2. PhaseAt(f.cmd.op, f.pc) = "none"
    BY SMT, <2>1 DEF PhaseAt
  <2>3. Fits("none", f, db, subs, shown)
    BY <1>3, <2>2
  <2>4. CASE RoleIn(f.snap, f.cmd.by) = "NONE"
    <3>1. Kin(db, db)
      BY DEF Kin
    <3>2. Fits("none", Idle, db, subs, shown)
      BY <2>3, <3>1, FitsMove
    <3>. QED BY <2>1, <2>4, <3>2
  <2>5. CASE RoleIn(f.snap, f.cmd.by) # "NONE"
    <3>1. subs' = subs \cup {<<f.cmd.by, f.cmd.ch>>}
      BY <2>1, <2>5
    <3>2. f.pc \in LoadRets \ {"topology"} /\ f.pc # "warm"
      BY <2>1 DEF LoadRets
    <3>3. <<f.hub, f.cmd.by>> \in DOMAIN db.members
      BY <2>5, <3>2, SnapNow
    <3>4. f.hub \in Hubs /\ f.cmd.by \in Users
      BY <3>3, IdFacts
    <3>5. f.cmd.ch \in ChannelsOf(db, f.hub)
      BY <1>3, <2>1 DEF Carries
    <3>6. f.cmd.ch \in Channels /\ f.cmd.ch \in DOMAIN db.channels /\ db.channels[f.cmd.ch].hub = f.hub
      BY <3>5, IdFacts DEF ChannelsOf
    <3>7. <<f.cmd.by, f.hub>> \in shown
      BY <2>3, <3>3, <3>4 DEF Fits, Seen
    <3>8. subs \subseteq Users \X (Hubs \cup Channels) /\ shown \subseteq Users \X Hubs
      BY <2>3 DEF Fits
    <3>9. subs' \subseteq Users \X (Hubs \cup Channels)
      BY SMT, <3>1, <3>4, <3>6, <3>8
    <3>10. \A u, t : <<u, t>> \in subs' <=> <<u, t>> \in subs \/ (u = f.cmd.by /\ t = f.cmd.ch)
      BY SMT, <3>1
    <3>11. \A h \in Hubs : h # f.cmd.ch
      BY <3>6, IdFacts
    <3>12. \A u \in Users, h \in Hubs : <<u, h>> \in subs' <=> <<u, h>> \in shown
      BY <2>3, <3>10, <3>11 DEF Fits, Heard
    <3>13. \A u \in Users, h \in Hubs : <<h, u>> \in DOMAIN db.members <=> <<u, h>> \in shown
      BY <2>3 DEF Fits, Seen
    <3>14. \A u \in Users, c \in Channels : <<u, c>> \in subs => c \in DOMAIN db.channels /\ <<u, db.channels[c].hub>> \in shown
      BY <2>3 DEF Fits, Tuned
    <3>15. \A u \in Users, c \in Channels : <<u, c>> \in subs' => c \in DOMAIN db.channels /\ <<u, db.channels[c].hub>> \in shown
      BY <3>6, <3>7, <3>10, <3>14
    <3>. QED BY <3>8, <3>9, <3>12, <3>13, <3>15, FitsEnd
  <2>. QED BY <2>4, <2>5
<1>. QED BY <1>5, <1>6


\* No step of a lone thread that meets no failure leaves a client out of step.
LEMMA ClientStep ==
    ASSUME HubsInv, HubsInv', losses \in Nat, losses' = losses, NEW w \in DOMAIN worker, w \in DOMAIN worker',
           Exact(worker[w], hubCache, channelCache, db), RoleFits(worker[w], db), ClientsFit(worker[w], db, subs, shown),
           Take(w) \/ CommandStep(w) \/ (ServiceStep(w) /\ UNCHANGED delivery)
    PROVE  ClientsFit(worker'[w], db', subs', shown')
<1>1. CASE SilentStep(w)
  BY <1>1, SilentSteps
<1>2. CASE ServiceStep(w) /\ ~InvalidateChannels(w) /\ UNCHANGED delivery
  <2>1. UNCHANGED <<subs, shown>>
    BY <1>2 DEF delivery
  <2>. QED BY <1>2, <2>1, MethodsFit
<1>3. CASE LoadingStep(w)
  BY <1>3, LoadingSteps
<1>4. CASE \/ CountChannels(w) \/ CutOff(w) \/ RevokeInvites(w) \/ DeleteToken(w) \/ DeleteActiveLink(w)
           \/ InvalidateChannels(w) /\ UNCHANGED delivery
  BY <1>4, OwedSteps
<1>5. CASE Filter(w) \/ WarmSnapshots(w) \/ Topology(w) \/ Gather(w)
  BY <1>5, StateSyncSteps
<1>6. CASE Take(w) \/ JoinHub(w)
  BY <1>6, JoinSteps
<1>7. CASE RenameHub(w) \/ UpdateHubAvatarSeed(w) \/ RenameChannel(w) \/ (AddMember(w) /\ worker[w].cmd.op # "join")
  BY <1>7, KinWrites
<1>8. CASE CreateHub(w) \/ RemoveMember(w) \/ DeleteHub(w) \/ (AddMember(w) /\ worker[w].cmd.op = "join")
  BY <1>8, MemberWrites
<1>9. CASE InsertChannel(w) \/ RemoveChannel(w)
  BY <1>9, ChannelWritesFit
<1>10. CASE Subscribe(w)
  BY <1>10, SubscribeFits
<1>11. CASE Synced(w)
  BY <1>11, SyncedFits
<1>12. CASE DropTopics(w)
  BY <1>12, DropTopicsFits
<1>13. CASE Unsubscribe(w)
  BY <1>13, UnsubscribeFits
<1>14. CASE DropChannelTopic(w) \/ SelectActiveChannel(w)
  BY <1>14, TopicFits
<1>15. AddMember(w) => (AddMember(w) /\ worker[w].cmd.op = "join") \/ (AddMember(w) /\ worker[w].cmd.op # "join")
  OBVIOUS
<1>. QED BY <1>1, <1>2, <1>3, <1>4, <1>5, <1>6, <1>7, <1>8, <1>9, <1>10, <1>11, <1>12, <1>13, <1>14, <1>15
         DEF CommandStep, SilentStep, LoadingStep

\* The members of the first hub are connected and see it.
LEMMA ClientInit == HubsInit => ClientInv
<1>. SUFFICES ASSUME HubsInit, NEW w \in DOMAIN worker PROVE ClientsFit(worker[w], db, subs, shown)
  BY DEF ClientInv
<1>1. PICK x \in Configs : /\ db = StartStore(x) /\ subs = MembersOf(db, x.hub) \X {x.hub} /\ shown = subs
                           /\ worker = [v \in 1..x.workers |-> Idle]
  BY DEF HubsInit
<1>2. DOMAIN db.hubs = {x.hub} /\ x.hub \in Hubs
  BY <1>1, StartOK
<1>3. HubsInv
  BY HubsInvInit
<1>4. worker[w] = Idle
  BY <1>1
<1>5. \A u, t : <<u, t>> \in subs <=> u \in Users /\ <<x.hub, u>> \in DOMAIN db.members /\ t = x.hub
  BY SMT, <1>1 DEF MembersOf
<1>6. subs \subseteq Users \X {x.hub}
  BY <1>1 DEF MembersOf
<1>7. subs \subseteq Users \X (Hubs \cup Channels) /\ shown \subseteq Users \X Hubs
  BY SMT, <1>1, <1>2, <1>6
<1>8. \A h, u : <<h, u>> \in DOMAIN db.members => h = x.hub /\ u \in Users
  BY <1>2, <1>3, IdFacts
<1>9. \A u \in Users, h \in Hubs : <<h, u>> \in DOMAIN db.members <=> <<u, h>> \in shown
  BY <1>1, <1>5, <1>8
<1>10. \A u \in Users, h \in Hubs : <<u, h>> \in subs <=> <<u, h>> \in shown
  BY <1>1
<1>11. x.hub \notin Channels
  BY <1>2, <1>3, IdFacts
<1>12. ASSUME NEW u \in Users, NEW c \in Channels, <<u, c>> \in subs PROVE FALSE
  <2>1. c = x.hub
    BY SMT, <1>6, <1>12
  <2>. QED BY <1>11, <2>1
<1>13. Fits("none", Idle, db, subs, shown)
  BY <1>7, <1>9, <1>10, <1>12, FitsEnd
<1>. QED BY <1>4, <1>13, ClientsAt

\* Every step of the lone thread keeps the clients in step.
LEMMA ClientNext ==
    HubsInv /\ HubsInv' /\ ExactInv /\ RoleInv /\ ClientInv /\ [HubsNext]_hubsVars => ClientInv'
<1>. SUFFICES ASSUME HubsInv, HubsInv', ExactInv, RoleInv, ClientInv, [HubsNext]_hubsVars PROVE ClientInv'
  OBVIOUS
<1>1. DOMAIN worker' = DOMAIN worker
  BY BoundedKeeps DEF ExactInv
<1>. SUFFICES ASSUME Alone', NoFaults', NEW v \in DOMAIN worker PROVE ClientsFit(worker'[v], db', subs', shown')
  BY <1>1 DEF ClientInv
<1>2. Alone /\ NoFaults /\ losses \in Nat /\ losses' = losses /\ drops \in Nat /\ drops' = drops
  BY BoundedKeeps DEF ExactInv
<1>3. \A w \in DOMAIN worker : w = v
  BY <1>2, BoundedKeeps DEF ExactInv
<1>4. \A w \in DOMAIN worker : /\ Exact(worker[w], hubCache, channelCache, db) /\ RoleFits(worker[w], db)
                               /\ ClientsFit(worker[w], db, subs, shown)
  BY <1>2 DEF ExactInv, RoleInv, ClientInv
<1>5. CASE UNCHANGED hubsVars \/ InviteAges
  <2>1. UNCHANGED <<worker, db, subs, shown>>
    BY <1>5 DEF hubsVars, serviceVars, InviteAges, delivery
  <2>. QED BY <1>4, <2>1
<1>6. ASSUME NEW w \in DOMAIN worker, Take(w) \/ CommandStep(w) \/ (ServiceStep(w) /\ UNCHANGED <<input, redis, delivery>>)
      PROVE  ClientsFit(worker'[v], db', subs', shown')
  <2>1. Take(w) \/ CommandStep(w) \/ (ServiceStep(w) /\ UNCHANGED delivery)
    BY <1>6
  <2>2. w \in DOMAIN worker'
    BY <1>1
  <2>3. ClientsFit(worker'[w], db', subs', shown')
    BY <1>2, <1>4, <2>1, <2>2, ClientStep
  <2>. QED BY <1>3, <2>3
<1>7. ASSUME NEW w \in DOMAIN worker, CallFails(w) PROVE FALSE
  <2>1. drops' = drops - 1
    BY <1>7 DEF CallFails
  <2>. QED BY SMT, <1>2, <2>1
<1>. QED BY <1>5, <1>6, <1>7 DEF HubsNext

\* ClientInv is an invariant, whatever the commands are: with one thread and no
\* failure every command settles with the clients what it has changed.
THEOREM ClientsAlways == HubsSpec => []ClientInv
<1>1. HubsInv /\ [HubsNext]_hubsVars => HubsInv'
  BY HubsInvNext
<1>. QED BY <1>1, HubsAlways, ExactAlways, RolesAlways, ClientInit, ClientNext, PTL DEF HubsSpec

\* The theorem for ClientsFollowMembership: with one thread and no failure,
\* whenever no command is running, the clients show the hubs their users are
\* members of, and are subscribed to those and to their channels only.
THEOREM ClientsAlwaysFollowMembership == HubsSpec => []ClientsFollowMembership
<1>1. HubsInv /\ ExactInv /\ ClientInv => ClientsFollowMembership
  <2>. SUFFICES ASSUME HubsInv, ExactInv, ClientInv, Alone, NoFaults, Quiet
                PROVE  /\ \A p \in subs : p[2] \in Hubs => p \in shown
                       /\ \A p \in subs : p[2] \in Channels => /\ p[2] \in DOMAIN db.channels
                                                               /\ <<p[1], db.channels[p[2]].hub>> \in shown
                       /\ shown = {<<p[2], p[1]>> : p \in DOMAIN db.members}
    BY DEF ClientsFollowMembership
  <2>1. 1 \in DOMAIN worker
    BY SMT DEF ExactInv, Bounded, Alone
  <2>2. worker[1].pc = "idle" /\ ClientsFit(worker[1], db, subs, shown)
    BY <2>1 DEF ClientInv, Quiet, At
  <2>3. "idle" \notin OwingSteps /\ "idle" \notin Methods
    BY DEF OwingSteps, Methods, LoadPcs, LookPcs, EditPcs, Reading, Putting
  <2>4. Where(worker[1]) = "idle"
    BY <2>2, <2>3 DEF Where
  <2>5. PhaseAt(worker[1].cmd.op, "idle") = "none"
    BY ZenonT(30), <2>3, PhaseFacts
  <2>6. Fits("none", worker[1], db, subs, shown)
    BY <2>2, <2>4, <2>5 DEF ClientsFit, Phase
  <2>7. subs \subseteq Users \X (Hubs \cup Channels) /\ shown \subseteq Users \X Hubs
    BY <2>6 DEF Fits
  <2>8. \A u \in Users, h \in Hubs : <<h, u>> \in DOMAIN db.members <=> <<u, h>> \in shown
    BY <2>6 DEF Fits, Seen
  <2>9. \A u \in Users, h \in Hubs : <<u, h>> \in subs <=> <<u, h>> \in shown
    BY <2>6 DEF Fits, Heard
  <2>10. \A u \in Users, c \in Channels : <<u, c>> \in subs => c \in DOMAIN db.channels /\ <<u, db.channels[c].hub>> \in shown
    BY <2>6 DEF Fits, Tuned
  <2>11. \A p \in subs : p = <<p[1], p[2]>> /\ p[1] \in Users
    BY SMT, <2>7
  <2>12. \A p \in shown : p = <<p[1], p[2]>> /\ p[1] \in Users /\ p[2] \in Hubs
    BY SMT, <2>7
  <2>13. \A p \in DOMAIN db.members : p = <<p[1], p[2]>> /\ p[1] \in Hubs /\ p[2] \in Users
    <3>1. \A p \in DOMAIN db.members : p \in (DOMAIN db.hubs) \X Users
      BY DEF HubsInv, TablesOK
    <3>2. \A h \in DOMAIN db.hubs : h \in Hubs
      BY DEF HubsInv, TablesOK
    <3>. QED BY SMT, <3>1, <3>2
  <2>14. \A p \in subs : p[2] \in Hubs => p \in shown
    BY <2>9, <2>11
  <2>15. \A p \in subs : p[2] \in Channels => p[2] \in DOMAIN db.channels /\ <<p[1], db.channels[p[2]].hub>> \in shown
    BY <2>10, <2>11
  <2>16. \A p \in shown : \E q \in DOMAIN db.members : p = <<q[2], q[1]>>
    <3>. SUFFICES ASSUME NEW p \in shown PROVE \E q \in DOMAIN db.members : p = <<q[2], q[1]>>
      OBVIOUS
    <3>1. <<p[2], p[1]>> \in DOMAIN db.members
      BY <2>8, <2>12
    <3>2. <<p[2], p[1]>>[1] = p[2] /\ <<p[2], p[1]>>[2] = p[1]
      BY SMT
    <3>. QED BY <2>12, <3>1, <3>2
  <2>17. \A q \in DOMAIN db.members : <<q[2], q[1]>> \in shown
    BY <2>8, <2>13
  <2>. QED BY <2>14, <2>15, <2>16, <2>17
<1>. QED BY <1>1, HubsAlways, ExactAlways, ClientsAlways, PTL

=============================================================================
