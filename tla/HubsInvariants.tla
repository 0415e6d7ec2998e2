---------------------------- MODULE HubsInvariants ----------------------------
(***************************************************************************)
(* The inductive invariants of Hubs.                                       *)
(*                                                                         *)
(* HubsInv, for any number of threads: the tables are in order, and what   *)
(* the caches and the threads hold was in the tables once.                 *)
(*                                                                         *)
(* ExactInv and LinkInv, for one thread: what the caches and the invites   *)
(* are at each step of a command.                                          *)
(*                                                                         *)
(* RoleInv and ClientInv, for one thread: which role a command has been    *)
(* let through with, and what it still owes the clients.                   *)
(***************************************************************************)
EXTENDS Hubs

IsRecord(r, fields) == DOMAIN r = fields /\ r = [x \in fields |-> r[x]]
IsMap(m)            == m = [x \in DOMAIN m |-> m[x]]

HubType     == [owner : Users, name : Names, seed : Names]
ChannelType == [hub : Hubs, name : Names, type : Names]

-----------------------------------------------------------------------------
(* The tables, and all they ever held.                                     *)

Owned(d, h) ==
    /\ <<h, d.hubs[h].owner>> \in DOMAIN d.members
    /\ \A u \in Users : <<h, u>> \in DOMAIN d.members =>
          (d.members[<<h, u>>] = "OWNER" <=> u = d.hubs[h].owner)

TablesOK(d) ==
    /\ IsRecord(d, {"hubs", "channels", "members", "issued"})
    /\ IsMap(d.hubs) /\ IsMap(d.channels) /\ IsMap(d.members)
    /\ \A h \in DOMAIN d.hubs : h \in Hubs /\ h \in d.issued /\ d.hubs[h] \in HubType
    /\ \A c \in DOMAIN d.channels : c \in Channels /\ c \in d.issued /\ d.channels[c] \in ChannelType
    /\ \A p \in DOMAIN d.members : p \in (DOMAIN d.hubs) \X Users /\ d.members[p] \in Roles
    /\ \A h \in DOMAIN d.hubs : Owned(d, h)

\* A channel keeps its hub and its type.
PastOK(d, p) ==
    /\ Rows(d) \subseteq p
    /\ \A c \in Channels : \A r : <<c, r>> \in p => c \in d.issued /\ r \in ChannelType
    /\ \A c \in Channels : \A r, s : <<c, r>> \in p /\ <<c, s>> \in p => r.hub = s.hub /\ r.type = s.type

\* Ids are not used again, and hubs do not change hands.
Later(d, p, e, q) ==
    /\ d.issued \subseteq e.issued /\ p \subseteq q
    /\ \A h \in d.issued : h \in DOMAIN e.hubs => h \in DOMAIN d.hubs /\ e.hubs[h].owner = d.hubs[h].owner

\* What a statement may make of the tables: nor does a channel change hub or type.
Changes(d, e) ==
    /\ TablesOK(e) /\ d.issued \subseteq e.issued
    /\ \A h \in d.issued : h \in DOMAIN e.hubs => h \in DOMAIN d.hubs /\ e.hubs[h].owner = d.hubs[h].owner
    /\ \A c \in DOMAIN e.channels :
          \/ c \notin d.issued
          \/ /\ c \in DOMAIN d.channels
             /\ e.channels[c].hub = d.channels[c].hub /\ e.channels[c].type = d.channels[c].type

-----------------------------------------------------------------------------
(* Snapshots and what the threads hold.                                    *)

\* Old as it may be, a snapshot knows the owner.
SnapOK(h, s, d, p) ==
    /\ s \in Snapshots /\ h \in d.issued
    /\ h \in DOMAIN d.hubs => d.hubs[h].owner \in DOMAIN s.roles /\ s.roles[d.hubs[h].owner] = "OWNER"
    /\ \A u \in DOMAIN s.roles : <<<<h, u>>, s.roles[u]>> \in p

\* The row of u in the members of h may be written or removed.
Safe(h, u, d) == h \in d.issued /\ (h \in DOMAIN d.hubs => d.hubs[h].owner # u)

FrameFields == {"pc", "cmd", "ret", "hub", "snap", "full", "rows", "pend", "ids", "found",
                "list", "hubs", "topics", "link", "role"}

Putting  == {"put_channels", "put_snapshots"}
Reading  == {"get_channels", "get_roles"} \cup Putting
LoadPcs  == {"load", "get_hub"} \cup Reading
LookPcs  == {"look_up", "get_rows", "keep_rows"}
EditPcs  == {"cache_channel", "copy_snapshot", "put_copy", "copy_channel", "put_channel"}

\* Where the methods of the service return to.
LoadRets == {"authorise", "target", "own_ids", "service_ids", "unsubscribe", "filter", "warm", "topology",
             "gather", "member", "check_limit", "siblings"}
LookRets == {"found", "voice", "synced", "check_name"}
EditRets == {"subscribe", "idle", "drop_topic"}
HubRets  == {"count_channels", "revoke", "cut", "subscribe", "idle", "seed_hub", "invalidate_channels"}

Returns(f) ==
    /\ f.pc \in LoadPcs => f.ret \in LoadRets
    /\ f.pc \in LookPcs => f.ret \in LookRets
    /\ f.pc \in EditPcs => f.ret \in EditRets
    /\ f.pc = "invalidate" => f.ret \in HubRets

RowsOK(f, d, p) ==
    /\ \A h \in DOMAIN f.rows : /\ f.rows[h] \in Snapshots /\ h \in d.issued
                                /\ f.pc \in Putting => SnapOK(h, f.rows[h], d, p)
    /\ f.pc \in Reading /\ f.ret # "topology" => f.hub \in DOMAIN f.rows

PendOK(f, p) ==
    /\ \A c \in DOMAIN f.pend : c \in Channels /\ <<c, f.pend[c]>> \in p
    /\ f.pc = "copy_channel" => f.cmd.ch \in Channels /\ \E r : <<f.cmd.ch, r>> \in p /\ r.name = f.cmd.name

HoldsSnap(f, d, p) ==
    /\ f.pc \notin LoadPcs => f.snap = NoSnapshot \/ SnapOK(f.hub, f.snap, d, p)
    /\ f.pc = "put_copy" => f.snap # NoSnapshot
    /\ f.pc = "member" /\ f.snap = NoSnapshot => f.hub \notin DOMAIN d.hubs
    /\ f.pc \in {"count_hubs", "insert_hub"} => f.snap = NoSnapshot

\* What is written on the strength of an old snapshot is harmless.
MayWrite(f, d) ==
    /\ f.ret = "voice" \/ f.pc \in {"voice", "remove_member", "add_member"} => Safe(f.hub, f.cmd.who, d)
    /\ f.pc = "add_member" => f.cmd.role \in {"ADMIN", "USER"}
    /\ f.ret = "member" \/ f.pc \in {"member", "get_active", "ttl", "set_token"} => f.hub \in d.issued
    /\ f.ret = "member" \/ f.pc \in {"member", "resolve"} => f.cmd.op = "join"

FrameOK(f, d, p) ==
    /\ IsRecord(f, FrameFields) /\ f.cmd \in Commands /\ f.pc # "idle"
    /\ Returns(f) /\ RowsOK(f, d, p) /\ PendOK(f, p) /\ HoldsSnap(f, d, p) /\ MayWrite(f, d)

-----------------------------------------------------------------------------

WorkersOK(ws, d, p) == IsMap(ws) /\ \A w \in DOMAIN ws : ws[w] = Idle \/ FrameOK(ws[w], d, p)

CachesOK(hc, cc, d, p) ==
    /\ \A h \in DOMAIN hc : SnapOK(h, hc[h], d, p)
    /\ \A c \in DOMAIN cc : c \in Channels /\ <<c, cc[c]>> \in p

LinksOK(ls, d) == \A t \in DOMAIN ls : IsRecord(ls[t], {"hub", "ttl"}) /\ ls[t].hub \in d.issued

HubsInv ==
    /\ TablesOK(db) /\ PastOK(db, past)
    /\ CachesOK(hubCache, channelCache, db, past)
    /\ WorkersOK(worker, db, past) /\ LinksOK(links, db)

-----------------------------------------------------------------------------
(* One thread: what the caches and the invites are in the middle of a      *)
(* command.                                                                *)

HubExact(h, hc, d)     == h \in DOMAIN d.hubs /\ hc[h] = SnapshotIn(d, h)
ChannelExact(c, cc, d) == c \in DOMAIN d.channels /\ cc[c] = d.channels[c]

\* Entries that the command is going to drop or to overwrite.
HubDirty(f, h) == f.pc \in {"invalidate", "cache_channel", "copy_snapshot", "put_copy"} /\ h = f.hub

ChannelDirty(f, c) ==
    \/ (f.pc = "invalidate_channels" \/ (f.pc = "invalidate" /\ f.ret = "invalidate_channels")) /\ c \in f.ids
    \/ f.pc \in {"copy_channel", "put_channel"} /\ c = f.cmd.ch
    \/ f.pc = "cache_channel" /\ f.cmd.op = "remove_channel" /\ c = f.cmd.ch

CachesFit(f, hc, cc, d) ==
    /\ \A h \in DOMAIN hc : HubDirty(f, h) \/ HubExact(h, hc, d)
    /\ \A c \in DOMAIN cc : ChannelDirty(f, c) \/ ChannelExact(c, cc, d)

\* Which commands get to the steps that they share with others.
OpFits(f) ==
    /\ f.pc \in {"count_hubs", "insert_hub"} => f.cmd.op = "create_hub"
    /\ f.pc = "user_hubs" => f.cmd.op = "sync"
    /\ f.pc \in {"count_channels", "insert_channel"} \/ (f.pc = "invalidate" /\ f.ret = "count_channels") =>
          f.cmd.op \in {"create_hub", "create_channel"}
    /\ f.pc = "delete_channel" => f.cmd.op = "remove_channel"

\* What the edit of a snapshot or of a channel will make of it is exact.
EditFits(f, hc, cc, d) ==
    /\ f.pc \in {"cache_channel", "copy_snapshot"} /\ f.hub \in DOMAIN hc =>
          /\ f.hub \in DOMAIN d.hubs
          /\ SnapshotIn(d, f.hub) =
                [hc[f.hub] EXCEPT !.channels = IF f.cmd.op = "remove_channel" THEN @ \ {f.cmd.ch} ELSE @ \cup DOMAIN f.pend]
    /\ f.pc = "put_copy" => f.hub \in DOMAIN d.hubs /\ f.snap = SnapshotIn(d, f.hub)
    /\ f.pc = "copy_channel" =>
          /\ f.cmd.ch \in DOMAIN d.channels
          /\ f.cmd.ch \in DOMAIN cc => d.channels[f.cmd.ch] = [cc[f.cmd.ch] EXCEPT !.name = f.cmd.name]
    /\ f.pc = "put_channel" => f.pend = EmptyMap \/ f.cmd.ch \in DOMAIN f.pend

\* What the methods hold is what the tables hold.
HoldsNow(f, d) ==
    /\ (f.pc \in {"get_roles", "put_channels", "keep_rows", "put_channel"}
        \/ (f.pc = "cache_channel" /\ f.cmd.op # "remove_channel")) =>
          \A c \in DOMAIN f.pend : ChannelExact(c, f.pend, d)
    /\ f.pc \in Reading \/ (f.pc = "warm" /\ f.cmd.op = "sync") => DOMAIN f.rows \subseteq DOMAIN d.hubs
    /\ f.pc = "get_channels" \/ (f.pc = "warm" /\ f.cmd.op = "sync") =>
          \A h \in DOMAIN f.rows : f.rows[h] = BlankSnapshot(d.hubs[h])
    /\ f.pc = "get_roles" =>
          \A h \in DOMAIN f.rows : f.rows[h] = [BlankSnapshot(d.hubs[h]) EXCEPT !.channels = ChannelsOf(d, h)]
    /\ f.pc \in Putting => \A h \in DOMAIN f.rows : f.rows[h] = SnapshotIn(d, h)
    /\ f.pc \in LoadRets \ {"topology"} /\ ~(f.pc = "warm" /\ f.cmd.op = "sync") =>
          IF f.snap = NoSnapshot THEN f.hub \notin DOMAIN d.hubs
          ELSE f.hub \in DOMAIN d.hubs /\ f.snap = SnapshotIn(d, f.hub)

Exact(f, hc, cc, d) ==
    CachesFit(f, hc, cc, d) /\ (f.pc # "idle" => OpFits(f) /\ EditFits(f, hc, cc, d) /\ HoldsNow(f, d))

\* What the faults so far say of the threads and of the failures to come.
Bounded ==
    /\ config \in Configs /\ DOMAIN worker = 1..config.workers
    /\ drops \in Nat /\ losses \in Nat /\ drops <= config.drops /\ losses <= config.losses

ExactInv == Bounded /\ (Alone => \A w \in DOMAIN worker : Exact(worker[w], hubCache, channelCache, db))

-----------------------------------------------------------------------------

Long(ls, h) == {t \in DOMAIN ls : ls[t].ttl = "long" /\ ls[t].hub = h}

\* The links as createInvite and revokeInvitesForHub find and leave them.
LinksFit(f, ls, al) ==
    /\ \A t \in DOMAIN ls : ls[t].ttl = "long" =>
          \/ ls[t].hub \in DOMAIN al /\ al[ls[t].hub] = t
          \/ f.pc = "set_active" /\ f.hub = ls[t].hub /\ f.link = t
    /\ f.pc \in {"ttl", "set_active", "del_token"} => Long(ls, f.hub) \subseteq {f.link}
    /\ f.pc \in {"set_token", "del_active"} => Long(ls, f.hub) = {}

LinkInv == Bounded /\ (Alone /\ NoFaults => \A w \in DOMAIN worker : LinksFit(worker[w], links, activeLink))

-----------------------------------------------------------------------------
(* Where a command is.                                                     *)

Methods == LoadPcs \cup LookPcs \cup EditPcs \cup {"invalidate"}

\* The step a command is at, or the one it goes on with after the method it is in.
Where(f) == IF f.pc \in Methods THEN f.ret ELSE f.pc

-----------------------------------------------------------------------------

\* Steps of a command after its role check.
Authorised == {"own_ids", "service_ids", "remove_member", "voice", "add_member", "rename_hub", "seed_hub",
               "check_limit", "check_name", "count_channels", "insert_channel", "siblings", "rename_channel",
               "delete_channel"}

RoleNow(f, d) == IF <<f.hub, f.cmd.by>> \in DOMAIN d.members THEN d.members[<<f.hub, f.cmd.by>>] ELSE "NONE"

\* The role that was checked is the role in the tables.
RoleFits(f, d) ==
    /\ Where(f) \in Authorised /\ f.cmd.op \notin {"create_hub", "join"} => RoleNow(f, d) \in RolesFor(f.cmd.op)
    /\ Where(f) = "target" => f.role = RoleNow(f, d)

RoleInv == Alone => \A w \in DOMAIN worker : RoleFits(worker[w], db)

-----------------------------------------------------------------------------

\* What a command still owes the clients, by where it is: it adds a member, shows
\* the member the hub, takes a member or the hub away, or drops a topic.
PhaseAt(op, x) ==
    CASE x \in {"count_channels", "insert_channel", "subscribe"} /\ op \in {"create_hub", "join"} -> "join"
      [] x \in {"filter", "warm", "topology", "gather", "synced"} /\ op \in {"create_hub", "join"} -> "show"
      [] x \in {"revoke", "del_token", "del_active", "cut", "unsubscribe"} /\ op \in {"leave", "kick"} -> "leave"
      [] x \in {"invalidate_channels", "revoke", "del_token", "del_active", "drop_topics"} /\ op = "delete_hub" -> "delete"
      [] x = "drop_topic" /\ op = "remove_channel" -> "remove"
      [] OTHER -> "none"

Phase(f) == PhaseAt(f.cmd.op, Where(f))

\* The clients show the members' hubs, but for what the command owes.
Seen(p, f, d, sh) ==
    \A u \in Users, h \in Hubs :
        <<h, u>> \in DOMAIN d.members <=>
            \/ p \in {"join", "show"} /\ u = f.cmd.by /\ h = f.hub
            \/ /\ <<u, h>> \in sh
               /\ ~(p = "leave" /\ u = f.cmd.who /\ h = f.hub) /\ ~(p = "delete" /\ h = f.hub)

\* Who sees a hub is subscribed to it, but for who is joining it.
Heard(p, f, ss, sh) ==
    \A u \in Users, h \in Hubs :
        IF p \in {"join", "show"} /\ u = f.cmd.by /\ h = f.hub
        THEN p = "join" \/ <<u, h>> \in ss
        ELSE <<u, h>> \in ss <=> <<u, h>> \in sh

\* Who is subscribed to a channel sees its hub, but for a topic that is going.
Tuned(p, f, d, ss, sh) ==
    \A u \in Users, c \in Channels : <<u, c>> \in ss =>
        \/ c \in DOMAIN d.channels /\ <<u, d.channels[c].hub>> \in sh
        \/ p = "delete" /\ c \in f.topics
        \/ p = "remove" /\ c = f.cmd.ch

Fits(p, f, d, ss, sh) ==
    /\ ss \subseteq Users \X (Hubs \cup Channels) /\ sh \subseteq Users \X Hubs
    /\ Seen(p, f, d, sh) /\ Heard(p, f, ss, sh) /\ Tuned(p, f, d, ss, sh)
    /\ p \in {"join", "show"} => <<f.hub, f.cmd.by>> \in DOMAIN d.members
    /\ p = "leave" => f.hub \in DOMAIN d.hubs
    /\ p = "delete" => f.topics \subseteq Channels /\ ChannelsOf(d, f.hub) = {}
    /\ p = "remove" => f.cmd.ch \in Channels

\* Which commands get to which steps.
OpAt(op, x) ==
    /\ x \in {"subscribe", "filter"} => op \in {"create_hub", "join"}
    /\ x \in {"warm", "topology", "gather", "synced"} => op \in {"create_hub", "join", "sync"}
    /\ x \in {"remove_member", "voice", "cut", "unsubscribe"} => op \in {"leave", "kick"}
    /\ x \in {"revoke", "del_token", "del_active"} => op \in {"kick", "delete_hub"}
    /\ x \in {"own_ids", "service_ids", "invalidate_channels", "drop_topics"} => op = "delete_hub"
    /\ x \in {"delete_channel", "drop_topic"} => op = "remove_channel"
    /\ x = "add_member" => op \in {"join", "set_role"}

\* What the commands have in their hands.
Carries(f, d) ==
    /\ Where(f) \in {"topology", "gather", "synced"} =>
          IF f.cmd.op = "sync" THEN f.hubs = HubsOfUser(d, f.cmd.by) ELSE f.hubs = {f.hub} /\ f.list \subseteq {f.hub}
    /\ Where(f) = "warm" /\ f.cmd.op = "sync" => f.pc = "warm" /\ DOMAIN f.rows = HubsOfUser(d, f.cmd.by)
    /\ Where(f) = "service_ids" => f.topics = ChannelsOf(d, f.hub)
    /\ Where(f) = "add_member" /\ f.cmd.op = "set_role" => <<f.hub, f.cmd.who>> \in DOMAIN d.members
    /\ f.cmd.op = "select" =>
          /\ f.hub = f.cmd.hub
          /\ Where(f) = "authorise" => f.cmd.ch \in ChannelsOf(d, f.hub)
          /\ f.pc \in {"get_rows", "keep_rows", "found"} => \A c \in DOMAIN f.found : ChannelExact(c, f.found, d)

ClientsFit(f, d, ss, sh) ==
    Fits(Phase(f), f, d, ss, sh) /\ (f.pc # "idle" => OpAt(f.cmd.op, Where(f)) /\ Carries(f, d))

ClientInv == Alone /\ NoFaults => \A w \in DOMAIN worker : ClientsFit(worker[w], db, subs, shown)

===============================================================================
