--------------------------------- MODULE Hubs ---------------------------------
(***************************************************************************)
(* The hub, channel, member and invite commands of app/commands, run by    *)
(* the threads of the worker pool over HubService, InviteService's keys in *)
(* Redis and the topic subscriptions.  A user has one connection, which    *)
(* stands for the loop over the connections of the user's sessions.        *)
(* StateDelta and StateSync are modelled by the hubs they make a client    *)
(* show.                                                                   *)
(***************************************************************************)
EXTENDS HubService

CONSTANTS Links,          \* invite tokens
          NoLink,
          Commands,       \* the commands clients may send
          Configs         \* the hub as it stands at the start, and bounds: threads,
                          \* commands and which, faults, and whether time passes for invites

\* Ids of different kinds differ.
ASSUME IdsAssumption == Channels \cap (Hubs \cup (Hubs \X Users)) = {}

\* Users join and leave for themselves, and join as plain members.
ASSUME CommandsAssumption ==
    \A c \in Commands : /\ c.hub \in Hubs /\ c.by \in Users /\ c.who \in Users
                        /\ c.op \in {"join", "leave"} => c.who = c.by
                        /\ c.op = "join" => c.role = "USER"
                        /\ c.name \in Names /\ c.seed \in Names /\ c.type \in Names

\* A hub at the start has one owner, and one link at most.
ASSUME ConfigsAssumption ==
    \A x \in Configs : /\ x.hub \in Hubs /\ x.channel \in Channels /\ x.owner \in Users
                       /\ DOMAIN x.roles \subseteq Users \ {x.owner}
                       /\ \A u \in DOMAIN x.roles : x.roles[u] \in Roles \ {"OWNER"}
                       /\ \A s, t \in x.links : s = t
                       /\ x.workers \in Nat /\ x.drops \in Nat /\ x.losses \in Nat

VARIABLES left,           \* commands that may still be sent
          config,         \* the one of Configs this is
          links,          \* Redis invite:<token> -> [hub, ttl]
          activeLink,     \* Redis invite:hub:<hub> -> token
          minted,         \* tokens generated so far
          subs,           \* SubscriptionManager: <<user, topic>>
          shown           \* <<user, hub>>: what the clients show

input     == <<left, config>>
redis     == <<links, activeLink, minted>>
delivery  == <<subs, shown>>
hubsVars  == <<serviceVars, input, redis, delivery>>

Relation == INSTANCE Subscriptions WITH
    Conns <- Users, Topics <- Hubs \cup Channels, Readers <- {}, NoSnapshot <- NoSnapshot,
    snapshot <- EmptyMap

-----------------------------------------------------------------------------
(* RolePolicy.h                                                            *)

Manages == {"OWNER", "ADMIN"}

\* Variant: an admin may kick anybody below the owner, the owner's own row included.
CanKickAnyone(actor, target, by, who) == by # who /\ actor \in Manages

CanKickHubMember(actor, target, by, who) ==
    /\ by # who /\ target # "OWNER"
    /\ \/ actor = "OWNER" /\ target \in {"ADMIN", "USER"}
       \/ actor = "ADMIN" /\ target = "USER"

CanChangeMemberRole(actor, target, desired, by, who) ==
    /\ actor = "OWNER" /\ by # who
    /\ target \in {"ADMIN", "USER"} /\ desired \in {"ADMIN", "USER"}
    /\ target # desired

RoleIn(snap, u) == IF snap # NoSnapshot /\ u \in DOMAIN snap.roles THEN snap.roles[u] ELSE "NONE"

ChannelsIn(snap) == IF snap = NoSnapshot THEN {} ELSE snap.channels

-----------------------------------------------------------------------------
(* The commands: from the queue to the first service call                  *)

Frame(c) == [pc |-> "idle", cmd |-> c, ret |-> "idle", hub |-> c.hub, snap |-> NoSnapshot,
             full |-> FALSE, rows |-> EmptyMap, pend |-> EmptyMap, ids |-> {}, found |-> EmptyMap,
             list |-> {}, hubs |-> {}, topics |-> {}, link |-> NoLink, role |-> "NONE"]

FirstStep(c) ==
    CASE c.op = "create_hub" -> [Frame(c) EXCEPT !.pc = "count_hubs"]
      [] c.op = "join"       -> [Frame(c) EXCEPT !.pc = "resolve"]
      [] c.op = "sync"       -> [Frame(c) EXCEPT !.pc = "user_hubs"]
      [] c.op \in {"remove_channel", "rename_channel", "select"} ->
            [Frame(c) EXCEPT !.pc = "look_up", !.ids = {c.ch}, !.ret = "found"]
      [] OTHER               -> [Frame(c) EXCEPT !.pc = "load", !.ret = "authorise"]

Take(w) ==
    /\ At(w, "idle") /\ left > 0
    /\ left' = left - 1
    /\ \E c \in Commands : c.op \in config.ops /\ Goto(w, FirstStep(c))
    /\ UNCHANGED <<config, tables, caches, faults, redis, delivery>>

\* The thread is at step pc of a command op.
On(w, op, pc) == At(w, pc) /\ worker[w].cmd.op = op

Actor(w) == worker[w].cmd.by
ActorRole(w) == RoleIn(worker[w].snap, Actor(w))

\* Loads the hub again, now for the role of the command's target.
LoadTarget(w) == Goto(w, [worker[w] EXCEPT !.pc = "load", !.ret = "target", !.full = FALSE,
                                           !.role = ActorRole(w)])

\* getChannel answered a channel of the hub that the command names.
FoundInHub(w) ==
    LET f == worker[w]
    IN  f.cmd.ch \in DOMAIN f.found /\ f.found[f.cmd.ch].hub = f.cmd.hub

-----------------------------------------------------------------------------
(* CreateHubCommand, and the state sync it shares with JoinHubByInvite      *)

\* The trigger counts before the row goes in: another transaction may commit
\* between the two.
CountHubs(w) ==
    /\ At(w, "count_hubs")
    /\ IF BelowHubLimit(db, Actor(w)) THEN Proceed(w, "insert_hub") ELSE Finish(w)
    /\ UNCHANGED <<tables, caches, faults, input, redis, delivery>>

CreateHub(w) ==
    /\ At(w, "insert_hub")
    /\ IF HubNameFree(db, Actor(w), worker[w].cmd.name, {})
       THEN \E h \in Hubs \ db.issued :
               Write(w, CreateHubRow(db, h, Actor(w), worker[w].cmd.name),
                     [Onward(w, "invalidate", "count_channels") EXCEPT !.hub = h])
       ELSE Finish(w) /\ UNCHANGED <<tables, caches, faults>>
    /\ UNCHANGED <<input, redis, delivery>>

CountChannels(w) ==
    /\ At(w, "count_channels")
    /\ IF BelowChannelLimit(db, worker[w].hub) THEN Proceed(w, "insert_channel") ELSE AfterFailure(w)
    /\ UNCHANGED <<tables, caches, faults, input, redis, delivery>>

\* createChannel's statement; "general" is the default channel of a new hub.
InsertChannel(w) ==
    LET f == worker[w]
        default == f.cmd.op = "create_hub"
        row == [hub |-> f.hub, name |-> IF default THEN "general" ELSE f.cmd.name,
                type |-> IF default THEN "text" ELSE f.cmd.type]
    IN  /\ At(w, "insert_channel")
        /\ IF f.hub \in DOMAIN db.hubs /\ ChannelNameFree(db, f.hub, row.name, {})
           THEN \E c \in Channels \ db.issued :
                   Write(w, CreateChannelRow(db, c, row.hub, row.name, row.type),
                         [Onward(w, "cache_channel", IF default THEN "subscribe" ELSE "idle")
                             EXCEPT !.pend = Put(EmptyMap, c, row)])
           ELSE AfterFailure(w) /\ UNCHANGED <<tables, caches, faults>>
        /\ UNCHANGED <<input, redis, delivery>>

Subscribe(w) ==
    /\ At(w, "subscribe")
    /\ subs' = Relation!Subscribed(subs, Actor(w), worker[w].hub)
    /\ Load(w, "filter")
    /\ UNCHANGED <<tables, caches, faults, input, redis, shown>>

\* build_state_sync_for_requested_hubs: only hubs the user is a member of.
Filter(w) ==
    /\ At(w, "filter")
    /\ IF ActorRole(w) = "NONE" THEN Finish(w) ELSE LoadFull(w, "warm")
    /\ UNCHANGED <<tables, caches, faults, input, redis, delivery>>

\* build_state_sync_for_user: the hubs come from the tables.
GetUserHubs(w) ==
    LET hs == HubsOfUser(db, Actor(w))
    IN  /\ At(w, "user_hubs")
        /\ Goto(w, [worker[w] EXCEPT !.pc = "warm",
                                     !.rows = BlankSnapshots(RowsOf(db, hs))])
        /\ UNCHANGED <<tables, caches, faults, input, redis, delivery>>

\* collect_hub_inputs warms the snapshots, ...
WarmSnapshots(w) ==
    LET f == worker[w]
        rows == IF f.cmd.op = "sync" THEN f.rows
                ELSE IF f.snap = NoSnapshot THEN EmptyMap ELSE Put(EmptyMap, f.hub, f.snap)
    IN  /\ At(w, "warm")
        /\ Goto(w, [Warm(f, rows, "topology") EXCEPT !.list = DOMAIN rows, !.hubs = DOMAIN rows])
        /\ UNCHANGED <<tables, caches, faults, input, redis, delivery>>

\* ... loads the topology of each hub, ...
Topology(w) ==
    LET f == worker[w]
    IN  /\ At(w, "topology")
        /\ IF f.list = {} THEN LookUp(w, f.ids, "synced")
           ELSE \E h \in f.list : Goto(w, [f EXCEPT !.pc = "load", !.ret = "gather", !.full = FALSE,
                                                    !.hub = h, !.list = @ \ {h}])
        /\ UNCHANGED <<tables, caches, faults, input, redis, delivery>>

\* ... and gathers their channels.
Gather(w) ==
    /\ At(w, "gather")
    /\ Goto(w, [worker[w] EXCEPT !.pc = "topology", !.ids = @ \cup ChannelsIn(worker[w].snap)])
    /\ UNCHANGED <<tables, caches, faults, input, redis, delivery>>

\* The StateSync is sent: all of the user's hubs, or the one asked for.
Synced(w) ==
    LET u == Actor(w)
        kept == IF worker[w].cmd.op = "sync" THEN {p \in shown : p[1] # u} ELSE shown
    IN  /\ At(w, "synced")
        /\ shown' = kept \cup {<<u, h>> : h \in worker[w].hubs}
        /\ Finish(w)
        /\ UNCHANGED <<tables, caches, faults, input, redis, subs>>

-----------------------------------------------------------------------------
(* DeleteHubCommand                                                        *)

AuthoriseDelete(w) ==
    /\ On(w, "delete_hub", "authorise")
    /\ IF ActorRole(w) = "OWNER" THEN Load(w, "own_ids") ELSE Finish(w)
    /\ UNCHANGED <<tables, caches, faults, input, redis, delivery>>

\* The command reads the channels for their topics, deleteHub for their cache entries.
KeepTopics(w) ==
    /\ At(w, "own_ids")
    /\ Goto(w, [worker[w] EXCEPT !.pc = "load", !.ret = "service_ids",
                                 !.topics = ChannelsIn(worker[w].snap)])
    /\ UNCHANGED <<tables, caches, faults, input, redis, delivery>>

DeleteHub(w) ==
    LET f == worker[w]
    IN  /\ At(w, "service_ids")
        /\ IF DeletesHub(db, f.hub, f.cmd.by)
           THEN Write(w, DeleteHubRow(db, f.hub),
                      [Onward(w, "invalidate", "invalidate_channels") EXCEPT !.ids = ChannelsIn(f.snap)])
           ELSE Finish(w) /\ UNCHANGED <<tables, caches, faults>>
        /\ UNCHANGED <<input, redis, delivery>>

\* Everyone subscribed is told, and the topics go.
DropTopics(w) ==
    LET f == worker[w]
    IN  /\ At(w, "drop_topics")
        /\ subs' = {p \in subs : p[2] \notin {f.hub} \cup f.topics}
        /\ shown' = shown \ {<<u, f.hub>> : u \in Relation!SubscribersIn(subs, f.hub)}
        /\ Finish(w)
        /\ UNCHANGED <<tables, caches, faults, input, redis>>

-----------------------------------------------------------------------------
(* LeaveHubCommand and KickHubMemberCommand                                 *)

AuthoriseLeave(w) ==
    /\ On(w, "leave", "authorise")
    /\ IF ActorRole(w) \in {"NONE", "OWNER"} THEN Finish(w) ELSE Proceed(w, "remove_member")
    /\ UNCHANGED <<tables, caches, faults, input, redis, delivery>>

AuthoriseKick(w) ==
    /\ On(w, "kick", "authorise")
    /\ IF ActorRole(w) = "NONE" THEN Finish(w) ELSE LoadTarget(w)
    /\ UNCHANGED <<tables, caches, faults, input, redis, delivery>>

\* A target in a voice channel is put out of it first, if it is one of this hub.
KickFromVoice(w) ==
    LET f == worker[w]
    IN  /\ On(w, "kick", "target")
        /\ IF CanKickHubMember(f.role, RoleIn(f.snap, f.cmd.who), f.cmd.by, f.cmd.who)
           THEN \/ Proceed(w, "remove_member")
                \/ \E c \in Channels : LookUp(w, {c}, "voice")
           ELSE Finish(w)
        /\ UNCHANGED <<tables, caches, faults, input, redis, delivery>>

\* verified_kick_user may fail, and then the member stays.
VoiceKicked(w) ==
    LET f == worker[w]
    IN  /\ At(w, "voice")
        /\ \/ Proceed(w, "remove_member")
           \/ (\E c \in DOMAIN f.found : f.found[c].hub = f.hub) /\ Finish(w)
        /\ UNCHANGED <<tables, caches, faults, input, redis, delivery>>

RemoveMember(w) ==
    LET f == worker[w]
    IN  /\ At(w, "remove_member")
        /\ Write(w, RemoveMemberRow(db, f.hub, f.cmd.who),
                 Onward(w, "invalidate", IF f.cmd.op = "kick" THEN "revoke" ELSE "cut"))
        /\ UNCHANGED <<input, redis, delivery>>

\* The channels are read again for the topics to leave.
CutOff(w) ==
    /\ At(w, "cut")
    /\ Load(w, "unsubscribe")
    /\ UNCHANGED <<tables, caches, faults, input, redis, delivery>>

\* Variant: the channels' topics are forgotten.
UnsubscribeHubOnly(w) ==
    LET f == worker[w]
    IN  /\ At(w, "unsubscribe")
        /\ subs' = subs \ {<<f.cmd.who, f.hub>>}
        /\ shown' = shown \ {<<f.cmd.who, f.hub>>}
        /\ Finish(w)
        /\ UNCHANGED <<tables, caches, faults, input, redis>>

Unsubscribe(w) ==
    LET f == worker[w]
        topics == {f.hub} \cup ChannelsIn(f.snap)
    IN  /\ At(w, "unsubscribe")
        /\ subs' = subs \ ({f.cmd.who} \X topics)
        /\ shown' = shown \ {<<f.cmd.who, f.hub>>}
        /\ Finish(w)
        /\ UNCHANGED <<tables, caches, faults, input, redis>>

-----------------------------------------------------------------------------
(* UpdateHubMemberRoleCommand, UpdateHubCommand, JoinHubByInviteCommand      *)

AuthoriseSetRole(w) ==
    /\ On(w, "set_role", "authorise")
    /\ IF ActorRole(w) = "NONE" THEN Finish(w) ELSE LoadTarget(w)
    /\ UNCHANGED <<tables, caches, faults, input, redis, delivery>>

CheckSetRole(w) ==
    LET f == worker[w]
    IN  /\ On(w, "set_role", "target")
        /\ IF CanChangeMemberRole(f.role, RoleIn(f.snap, f.cmd.who), f.cmd.role, f.cmd.by, f.cmd.who)
           THEN Proceed(w, "add_member") ELSE Finish(w)
        /\ UNCHANGED <<tables, caches, faults, input, redis, delivery>>

\* addMember: an upsert, whether the row is still there or not.
AddMember(w) ==
    LET f == worker[w]
    IN  /\ At(w, "add_member")
        /\ IF CanAddMember(db, f.hub, f.cmd.who, f.cmd.role)
           THEN Write(w, AddMemberRow(db, f.hub, f.cmd.who, f.cmd.role),
                      Onward(w, "invalidate", IF f.cmd.op = "join" THEN "subscribe" ELSE "idle"))
           ELSE Finish(w) /\ UNCHANGED <<tables, caches, faults>>
        /\ UNCHANGED <<input, redis, delivery>>

\* Variant: any member may update the hub.
AuthoriseUpdateByMember(w) ==
    /\ On(w, "update_hub", "authorise")
    /\ IF ActorRole(w) \in Roles
       THEN Proceed(w, IF worker[w].cmd.name # "" THEN "rename_hub" ELSE "seed_hub")
       ELSE Finish(w)
    /\ UNCHANGED <<tables, caches, faults, input, redis, delivery>>

AuthoriseUpdate(w) ==
    /\ On(w, "update_hub", "authorise")
    /\ IF ActorRole(w) \in Manages
       THEN Proceed(w, IF worker[w].cmd.name # "" THEN "rename_hub" ELSE "seed_hub")
       ELSE Finish(w)
    /\ UNCHANGED <<tables, caches, faults, input, redis, delivery>>

RenameHub(w) ==
    LET f == worker[w]
    IN  /\ At(w, "rename_hub")
        /\ IF f.hub \in DOMAIN db.hubs /\ HubNameFree(db, db.hubs[f.hub].owner, f.cmd.name, {f.hub})
           THEN Write(w, RenameHubRow(db, f.hub, f.cmd.name),
                      Onward(w, "invalidate", IF f.cmd.seed # "" THEN "seed_hub" ELSE "idle"))
           ELSE Finish(w) /\ UNCHANGED <<tables, caches, faults>>
        /\ UNCHANGED <<input, redis, delivery>>

\* updateHubAvatarSeed is a second transaction: the name stays if it fails.
UpdateHubAvatarSeed(w) ==
    LET f == worker[w]
    IN  /\ At(w, "seed_hub")
        /\ IF f.hub \in DOMAIN db.hubs
           THEN Write(w, UpdateHubSeedRow(db, f.hub, f.cmd.seed), Onward(w, "invalidate", "idle"))
           ELSE Finish(w) /\ UNCHANGED <<tables, caches, faults>>
        /\ UNCHANGED <<input, redis, delivery>>

\* resolveInvite
ResolveInvite(w) ==
    LET t == worker[w].cmd.link
    IN  /\ At(w, "resolve")
        /\ IF t \in DOMAIN links
           THEN Goto(w, [worker[w] EXCEPT !.pc = "load", !.ret = "member", !.hub = links[t].hub])
           ELSE Finish(w)
        /\ UNCHANGED <<tables, caches, faults, input, redis, delivery>>

\* A member only gets the state again; getHub must know the hub to add one.
JoinHub(w) ==
    LET h == worker[w].hub
    IN  /\ At(w, "member")
        /\ IF ActorRole(w) # "NONE" THEN Proceed(w, "subscribe")
           ELSE IF h \in DOMAIN hubCache \cup DOMAIN db.hubs THEN Proceed(w, "add_member")
           ELSE Finish(w)
        /\ UNCHANGED <<tables, caches, faults, input, redis, delivery>>

-----------------------------------------------------------------------------
(* The channel commands                                                     *)

AuthoriseCreateChannel(w) ==
    /\ On(w, "create_channel", "authorise")
    /\ IF ActorRole(w) \in Manages THEN Load(w, "check_limit") ELSE Finish(w)
    /\ UNCHANGED <<tables, caches, faults, input, redis, delivery>>

\* The command's own limit, on the cached list of channels.
CheckLimit(w) ==
    LET cs == ChannelsIn(worker[w].snap)
    IN  /\ At(w, "check_limit")
        /\ IF Cardinality(cs) < MaxChannelsPerHub THEN LookUp(w, cs, "check_name") ELSE Finish(w)
        /\ UNCHANGED <<tables, caches, faults, input, redis, delivery>>

NameTaken(frame) == \E d \in DOMAIN frame.found \ {frame.cmd.ch} : frame.found[d].name = frame.cmd.name

CheckName(w) ==
    /\ At(w, "check_name")
    /\ IF NameTaken(worker[w]) THEN Finish(w)
       ELSE Proceed(w, IF worker[w].cmd.op = "create_channel" THEN "count_channels" ELSE "rename_channel")
    /\ UNCHANGED <<tables, caches, faults, input, redis, delivery>>

FoundForRename(w) ==
    /\ On(w, "rename_channel", "found")
    /\ IF FoundInHub(w) THEN Load(w, "authorise") ELSE Finish(w)
    /\ UNCHANGED <<tables, caches, faults, input, redis, delivery>>

AuthoriseRename(w) ==
    /\ On(w, "rename_channel", "authorise")
    /\ IF ActorRole(w) \in Manages THEN Load(w, "siblings") ELSE Finish(w)
    /\ UNCHANGED <<tables, caches, faults, input, redis, delivery>>

GetSiblings(w) ==
    /\ At(w, "siblings")
    /\ LookUp(w, ChannelsIn(worker[w].snap), "check_name")
    /\ UNCHANGED <<tables, caches, faults, input, redis, delivery>>

\* Variant: the cache is edited although no row was there to rename.
RenameChannelRegardless(w) ==
    LET f == worker[w]
        c == f.cmd.ch
    IN  /\ At(w, "rename_channel")
        /\ IF c \in DOMAIN db.channels
           THEN Write(w, RenameChannelRow(db, c, f.cmd.name), Onward(w, "copy_channel", "idle"))
           ELSE Goto(w, Onward(w, "copy_channel", "idle")) /\ UNCHANGED <<tables, caches, faults>>
        /\ UNCHANGED <<input, redis, delivery>>

RenameChannel(w) ==
    LET f == worker[w]
        c == f.cmd.ch
    IN  /\ At(w, "rename_channel")
        /\ IF /\ c \in DOMAIN db.channels
              /\ ChannelNameFree(db, db.channels[c].hub, f.cmd.name, {c})
           THEN Write(w, RenameChannelRow(db, c, f.cmd.name), Onward(w, "copy_channel", "idle"))
           ELSE Finish(w) /\ UNCHANGED <<tables, caches, faults>>
        /\ UNCHANGED <<input, redis, delivery>>

FoundForRemove(w) ==
    /\ On(w, "remove_channel", "found")
    /\ IF FoundInHub(w) THEN Load(w, "authorise") ELSE Finish(w)
    /\ UNCHANGED <<tables, caches, faults, input, redis, delivery>>

AuthoriseRemove(w) ==
    /\ On(w, "remove_channel", "authorise")
    /\ IF ActorRole(w) = "OWNER" THEN Proceed(w, "delete_channel") ELSE Finish(w)
    /\ UNCHANGED <<tables, caches, faults, input, redis, delivery>>

RemoveChannel(w) ==
    LET f == worker[w]
    IN  /\ At(w, "delete_channel")
        /\ IF DeletesChannel(db, f.cmd.ch, f.hub)
           THEN Write(w, DeleteChannelRow(db, f.cmd.ch), Onward(w, "cache_channel", "drop_topic"))
           ELSE Finish(w) /\ UNCHANGED <<tables, caches, faults>>
        /\ UNCHANGED <<input, redis, delivery>>

DropChannelTopic(w) ==
    /\ At(w, "drop_topic")
    /\ subs' = Relation!WithoutTopic(subs, worker[w].cmd.ch)
    /\ Finish(w)
    /\ UNCHANGED <<tables, caches, faults, input, redis, shown>>

FoundForSelect(w) ==
    LET f == worker[w]
    IN  /\ On(w, "select", "found")
        /\ IF FoundInHub(w) /\ f.found[f.cmd.ch].type = "text" THEN Load(w, "authorise") ELSE Finish(w)
        /\ UNCHANGED <<tables, caches, faults, input, redis, delivery>>

SelectActiveChannel(w) ==
    /\ On(w, "select", "authorise")
    /\ subs' = IF ActorRole(w) = "NONE" THEN subs
               ELSE Relation!Subscribed(subs, Actor(w), worker[w].cmd.ch)
    /\ Finish(w)
    /\ UNCHANGED <<tables, caches, faults, input, redis, shown>>

-----------------------------------------------------------------------------
(* InviteService and its commands                                           *)

AuthoriseInvite(w) ==
    /\ On(w, "invite", "authorise")
    /\ IF ActorRole(w) \in Manages THEN Proceed(w, "get_active") ELSE Finish(w)
    /\ UNCHANGED <<tables, caches, faults, input, redis, delivery>>

\* createInvite: is there a token for the hub, ...
GetActiveLink(w) ==
    LET h == worker[w].hub
    IN  /\ At(w, "get_active")
        /\ IF h \in DOMAIN activeLink
           THEN Goto(w, [worker[w] EXCEPT !.pc = "ttl", !.link = activeLink[h]])
           ELSE Proceed(w, "set_token")
        /\ UNCHANGED <<tables, caches, faults, input, redis, delivery>>

\* Variant: a token is never used again.
NeverReuse(w) ==
    /\ At(w, "ttl")
    /\ Proceed(w, "set_token")
    /\ UNCHANGED <<tables, caches, faults, input, redis, delivery>>

\* ... with MIN_REUSE_TTL left to live?
CheckTtl(w) ==
    LET t == worker[w].link
    IN  /\ At(w, "ttl")
        /\ IF t \in DOMAIN links /\ links[t].ttl = "long" THEN Finish(w) ELSE Proceed(w, "set_token")
        /\ UNCHANGED <<tables, caches, faults, input, redis, delivery>>

SetToken(w) ==
    /\ At(w, "set_token")
    /\ \E t \in Links \ minted :
          /\ links' = Put(links, t, [hub |-> worker[w].hub, ttl |-> "long"])
          /\ minted' = minted \cup {t}
          /\ Goto(w, [worker[w] EXCEPT !.pc = "set_active", !.link = t])
    /\ UNCHANGED <<tables, caches, faults, input, activeLink, delivery>>

SetActiveLink(w) ==
    /\ At(w, "set_active")
    /\ activeLink' = Put(activeLink, worker[w].hub, worker[w].link)
    /\ Finish(w)
    /\ UNCHANGED <<tables, caches, faults, input, links, minted, delivery>>

\* revokeInvitesForHub: the reverse key names the only token that is deleted.
RevokeInvites(w) ==
    LET h == worker[w].hub
    IN  /\ At(w, "revoke")
        /\ IF h \in DOMAIN activeLink
           THEN Goto(w, [worker[w] EXCEPT !.pc = "del_token", !.link = activeLink[h]])
           ELSE Proceed(w, "del_active")
        /\ UNCHANGED <<tables, caches, faults, input, redis, delivery>>

DeleteToken(w) ==
    /\ At(w, "del_token")
    /\ links' = Erase(links, worker[w].link)
    /\ Proceed(w, "del_active")
    /\ UNCHANGED <<tables, caches, faults, input, activeLink, minted, delivery>>

DeleteActiveLink(w) ==
    /\ At(w, "del_active")
    /\ activeLink' = Erase(activeLink, worker[w].hub)
    /\ Proceed(w, IF worker[w].cmd.op = "kick" THEN "cut" ELSE "drop_topics")
    /\ UNCHANGED <<tables, caches, faults, input, links, minted, delivery>>

\* Both keys get INVITE_TTL, the token's first: it falls below MIN_REUSE_TTL,
\* it expires, and then the reverse key does.
InviteAges ==
    /\ config.time
    /\ \/ \E t \in DOMAIN links :
             /\ links' = IF links[t].ttl = "long" THEN [links EXCEPT ![t].ttl = "short"] ELSE Erase(links, t)
             /\ UNCHANGED activeLink
       \/ \E h \in DOMAIN activeLink :
             /\ activeLink[h] \notin DOMAIN links
             /\ activeLink' = Erase(activeLink, h)
             /\ UNCHANGED links
    /\ UNCHANGED <<serviceVars, input, minted, delivery>>

-----------------------------------------------------------------------------
(* Faults                                                                  *)

Statements == {"count_hubs", "insert_hub", "count_channels", "insert_channel", "get_hub",
               "get_channels", "get_roles", "get_rows", "user_hubs", "service_ids", "remove_member",
               "add_member", "rename_hub", "seed_hub", "rename_channel", "delete_channel"}
RedisCalls == {"resolve", "get_active", "ttl", "set_token", "set_active", "revoke", "del_token",
               "del_active"}

\* A call that fails without effect.  A kick goes on without its revocation;
\* every other command is over, whatever it has done so far.
CallFails(w) ==
    /\ drops > 0 /\ worker[w].pc \in Statements \cup RedisCalls
    /\ drops' = drops - 1
    /\ IF worker[w].cmd.op = "kick" /\ worker[w].pc \in RedisCalls THEN Proceed(w, "cut")
       ELSE AfterFailure(w)
    /\ UNCHANGED <<tables, caches, losses, input, redis, delivery>>

-----------------------------------------------------------------------------
(* The specification                                                       *)

EmptyStore == [hubs |-> EmptyMap, channels |-> EmptyMap, members |-> EmptyMap, issued |-> {}]

\* A hub with a text channel and its members, as the commands build it.
StartStore(x) ==
    LET made == CreateChannelRow(CreateHubRow(EmptyStore, x.hub, x.owner, "home"),
                                 x.channel, x.hub, "general", "text")
    IN  [made EXCEPT !.members = PutAll(@, [p \in {x.hub} \X DOMAIN x.roles |-> x.roles[p[2]]])]

SnapshotIn(d, h) == [owner |-> d.hubs[h].owner, name |-> d.hubs[h].name, seed |-> d.hubs[h].seed,
                     channels |-> ChannelsOf(d, h), roles |-> RolesIn(d, h)]

HubsInit ==
    \E x \in Configs :
        /\ db = StartStore(x)
        /\ hubCache = IF x.warm THEN [h \in {x.hub} |-> SnapshotIn(db, h)] ELSE EmptyMap
        /\ channelCache = IF x.warm THEN db.channels ELSE EmptyMap
        /\ links = [t \in x.links |-> [hub |-> x.hub, ttl |-> "long"]]
        /\ activeLink = [h \in {x.hub : t \in x.links} |-> CHOOSE t \in x.links : TRUE]
        /\ minted = x.links
        /\ subs = MembersOf(db, x.hub) \X {x.hub}
        /\ shown = subs
        /\ worker = [w \in 1..x.workers |-> Idle]
        /\ config = x /\ left = x.commands /\ drops = x.drops /\ losses = x.losses
        /\ past = Rows(db)

CommandStep(w) ==
    \/ CountHubs(w) \/ CreateHub(w) \/ CountChannels(w) \/ InsertChannel(w) \/ Subscribe(w)
    \/ Filter(w) \/ GetUserHubs(w) \/ WarmSnapshots(w) \/ Topology(w) \/ Gather(w) \/ Synced(w)
    \/ AuthoriseDelete(w) \/ KeepTopics(w) \/ DeleteHub(w) \/ DropTopics(w)
    \/ AuthoriseLeave(w) \/ AuthoriseKick(w) \/ KickFromVoice(w) \/ VoiceKicked(w)
    \/ RemoveMember(w) \/ CutOff(w) \/ Unsubscribe(w)
    \/ AuthoriseSetRole(w) \/ CheckSetRole(w) \/ AddMember(w)
    \/ AuthoriseUpdate(w) \/ RenameHub(w) \/ UpdateHubAvatarSeed(w)
    \/ ResolveInvite(w) \/ JoinHub(w)
    \/ AuthoriseCreateChannel(w) \/ CheckLimit(w) \/ CheckName(w)
    \/ FoundForRename(w) \/ AuthoriseRename(w) \/ GetSiblings(w) \/ RenameChannel(w)
    \/ FoundForRemove(w) \/ AuthoriseRemove(w) \/ RemoveChannel(w) \/ DropChannelTopic(w)
    \/ FoundForSelect(w) \/ SelectActiveChannel(w)
    \/ AuthoriseInvite(w) \/ GetActiveLink(w) \/ CheckTtl(w) \/ SetToken(w) \/ SetActiveLink(w)
    \/ RevokeInvites(w) \/ DeleteToken(w) \/ DeleteActiveLink(w)

HubsNext ==
    \/ InviteAges
    \/ \E w \in DOMAIN worker :
          \/ Take(w) \/ CommandStep(w) \/ CallFails(w)
          \/ ServiceStep(w) /\ UNCHANGED <<input, redis, delivery>>

HubsSpec == HubsInit /\ [][HubsNext]_hubsVars

-----------------------------------------------------------------------------
(* Properties                                                              *)

Quiet == \A w \in DOMAIN worker : At(w, "idle")

\* One thread, and no commit so far whose answer was lost.
Alone    == config.workers = 1 /\ losses = config.losses
NoFaults == drops = config.drops /\ losses = config.losses

\* A hub keeps its owner as a member with the OWNER role, and no one else has
\* it, whatever the threads interleave and however stale the snapshots are
\* that KickHubMember, LeaveHub and UpdateHubMemberRole decide on.
OwnerKeepsHub ==
    \A h \in DOMAIN db.hubs :
        /\ <<h, db.hubs[h].owner>> \in DOMAIN db.members
        /\ \A u \in MembersOf(db, h) : db.members[<<h, u>>] = "OWNER" <=> u = db.hubs[h].owner

\* With one thread, whenever no command is running, every cached snapshot and
\* channel is what the tables hold: each write path invalidates or edits what
\* it changed, and a read that fails halfway leaves nothing behind.
CachesExact ==
    Alone /\ Quiet =>
        /\ \A h \in DOMAIN hubCache : h \in DOMAIN db.hubs /\ hubCache[h] = SnapshotIn(db, h)
        /\ \A c \in DOMAIN channelCache : c \in DOMAIN db.channels /\ channelCache[c] = db.channels[c]

\* However the threads interleave, a snapshot and a cached channel may be old
\* but never made up: each role and each channel in them was once in the
\* tables, also after createChannel, deleteChannel and renameChannel edited
\* a copy and put it back.
CachesNeverInvent ==
    /\ \A h \in DOMAIN hubCache : \A u \in DOMAIN hubCache[h].roles :
          <<<<h, u>>, hubCache[h].roles[u]>> \in past
    /\ \A c \in DOMAIN channelCache : <<c, channelCache[c]>> \in past

\* With one thread and no failure, only members are subscribed to a hub or to
\* one of its channels, and a client shows exactly the hubs its user is in.
ClientsFollowMembership ==
    Alone /\ NoFaults /\ Quiet =>
        /\ \A p \in subs : p[2] \in Hubs => p \in shown
        /\ \A p \in subs : p[2] \in Channels => /\ p[2] \in DOMAIN db.channels
                                                /\ <<p[1], db.channels[p[2]].hub>> \in shown
        /\ shown = {<<p[2], p[1]>> : p \in DOMAIN db.members}

\* With one thread and no failure a hub has at most one link with MIN_REUSE_TTL
\* or more to live, the one its reverse key names: createInvite replaces a
\* token only when little of its time is left.
OneLongLink ==
    Alone /\ NoFaults /\ Quiet =>
        \A t \in DOMAIN links : links[t].ttl = "long" =>
            links[t].hub \in DOMAIN activeLink /\ activeLink[links[t].hub] = t

\* The roles that may change the tables through each command.
RolesFor(op) ==
    CASE op \in {"delete_hub", "remove_channel", "set_role"} -> {"OWNER"}
      [] op \in {"update_hub", "create_channel", "rename_channel", "kick"} -> Manages
      [] OTHER -> {"ADMIN", "USER"}

\* With one thread a statement changes the tables only for an actor whose role
\* in the tables, and not only in the snapshot, allows it at that moment.
WritesAuthorised ==
    [][\A w \in DOMAIN worker :
          Alone /\ db' # db /\ worker'[w] # worker[w] /\ worker[w].cmd.op \notin {"create_hub", "join"} =>
             /\ <<worker[w].hub, Actor(w)>> \in DOMAIN db.members
             /\ db.members[<<worker[w].hub, Actor(w)>>] \in RolesFor(worker[w].cmd.op)]_hubsVars

=============================================================================
