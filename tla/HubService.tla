------------------------------ MODULE HubService ------------------------------
(***************************************************************************)
(* app/services/hub/HubService: the hub tables behind two caches, one of   *)
(* whole hub snapshots and one of channels.  Each cache operation locks    *)
(* for itself and each statement is a transaction of its own, so a method  *)
(* is several steps and worker threads interleave between them.            *)
(*                                                                         *)
(* A thread is a record: pc is the step it is at, ret the step that        *)
(* follows the service method it is in, hub the hub of its command, and    *)
(* snap, rows, pend, ids and found what the methods hold in locals.        *)
(***************************************************************************)
EXTENDS HubStore

CONSTANT NoSnapshot

Snapshots == [owner : Users, name : Names, seed : Names, channels : SUBSET Channels,
              roles : UNION {[us -> Roles] : us \in SUBSET Users}]

ASSUME SnapshotAssumption == NoSnapshot \notin Snapshots

VARIABLES db,             \* the tables
          past,           \* every member and channel row the tables have held
          hubCache,       \* hub -> snapshot
          channelCache,   \* channel -> row
          worker,         \* thread of the pool -> what it is doing
          drops,          \* statements that may still fail without effect
          losses          \* commits that may still be applied and reported as failed

serviceVars == <<db, past, hubCache, channelCache, worker, drops, losses>>
tables      == <<db, past>>
caches      == <<hubCache, channelCache>>
faults      == <<drops, losses>>

Idle == [pc |-> "idle"]

At(w, pc) == worker[w].pc = pc
Goto(w, frame) == worker' = [worker EXCEPT ![w] = IF frame.pc = "idle" THEN Idle ELSE frame]
Proceed(w, pc) == Goto(w, [worker[w] EXCEPT !.pc = pc])
Finish(w) == Goto(w, Idle)

\* Leaves a method with the snapshot or the channels it answers; its other
\* locals are gone.
Return(w, snap, found) ==
    Goto(w, [worker[w] EXCEPT !.pc = worker[w].ret, !.snap = snap, !.found = found,
                              !.rows = EmptyMap, !.pend = EmptyMap])

\* Calls loadSnapshot for the hub of the command, or getChannelsByIds.
Load(w, ret) == Goto(w, [worker[w] EXCEPT !.pc = "load", !.ret = ret, !.full = FALSE])
LookUp(w, cs, ret) == Goto(w, [worker[w] EXCEPT !.pc = "look_up", !.ids = cs, !.ret = ret])

\* The exception of a failed call ends the command, in its own handler or in
\* worker_loop; only the default channel of a new hub is tried for good luck.
AfterFailure(w) ==
    IF worker[w].cmd.op = "create_hub" /\ worker[w].pc \in {"count_channels", "insert_channel"}
    THEN Proceed(w, "subscribe") ELSE Finish(w)

Rows(d) == {<<p, d.members[p]>> : p \in DOMAIN d.members} \cup {<<c, d.channels[c]>> : c \in DOMAIN d.channels}

\* A statement that commits, and one whose commit is applied although the
\* connection breaks before the answer (TransactionRunner does not retry it).
Write(w, new, next) ==
    /\ db' = new
    /\ past' = past \cup Rows(new)
    /\ \/ Goto(w, next) /\ UNCHANGED faults
       \/ AfterFailure(w) /\ losses > 0 /\ losses' = losses - 1 /\ UNCHANGED drops
    /\ UNCHANGED caches

Onward(w, pc, ret) == [worker[w] EXCEPT !.pc = pc, !.ret = ret]

-----------------------------------------------------------------------------
(* Reads                                                                   *)

BlankSnapshot(row) == [owner |-> row.owner, name |-> row.name, seed |-> row.seed,
                       channels |-> {}, roles |-> EmptyMap]

BlankSnapshots(rows) == [h \in DOMAIN rows |-> BlankSnapshot(rows[h])]

\* loadSnapshot
LoadSnapshot(w) ==
    LET h == worker[w].hub
    IN  /\ At(w, "load")
        /\ IF h \in DOMAIN hubCache
           THEN Return(w, hubCache[h], EmptyMap)
           ELSE Proceed(w, "get_hub")
        /\ UNCHANGED <<tables, caches, faults>>

\* buildSnapshot starts with the hub's row; the miss of a deleted hub is not cached.
GetHub(w) ==
    LET h == worker[w].hub
    IN  /\ At(w, "get_hub")
        /\ IF h \in DOMAIN db.hubs
           THEN Goto(w, [worker[w] EXCEPT !.pc = "get_channels",
                                          !.rows = BlankSnapshots(RowsOf(db, {h}))])
           ELSE Return(w, NoSnapshot, EmptyMap)
        /\ UNCHANGED <<tables, caches, faults>>

\* getHubChannelIds of buildSnapshot, or getHubChannelsByHubIds, whose rows
\* go into the channel cache as well.
GetChannels(w) ==
    LET rows == worker[w].rows
        read == ChannelRows(db, UNION {ChannelsOf(db, h) : h \in DOMAIN rows})
    IN  /\ At(w, "get_channels")
        /\ Goto(w, [worker[w] EXCEPT !.pc = "get_roles",
              !.rows = [h \in DOMAIN rows |-> [rows[h] EXCEPT !.channels = ChannelsOf(db, h)]],
              !.pend = IF worker[w].full THEN read ELSE EmptyMap])
        /\ UNCHANGED <<tables, caches, faults>>

\* getHubMemberRoles, getHubMemberRolesByHubIds
GetRoles(w) ==
    LET rows == worker[w].rows
    IN  /\ At(w, "get_roles")
        /\ Goto(w, [worker[w] EXCEPT !.pc = IF worker[w].full THEN "put_channels" ELSE "put_snapshots",
              !.rows = [h \in DOMAIN rows |-> [rows[h] EXCEPT !.roles = RolesIn(db, h)]]])
        /\ UNCHANGED <<tables, caches, faults>>

PutChannels(w) ==
    /\ At(w, "put_channels")
    /\ channelCache' = PutAll(channelCache, worker[w].pend)
    /\ Proceed(w, "put_snapshots")
    /\ UNCHANGED <<tables, hubCache, faults>>

PutSnapshots(w) ==
    LET rows == worker[w].rows
        h    == worker[w].hub
    IN  /\ At(w, "put_snapshots")
        /\ hubCache' = PutAll(hubCache, rows)
        /\ Return(w, IF h \in DOMAIN rows THEN rows[h] ELSE NoSnapshot, EmptyMap)
        /\ UNCHANGED <<tables, channelCache, faults>>

\* getChannel, getChannelsByIds
LookUpChannels(w) ==
    LET ids  == worker[w].ids
        hits == Restrict(channelCache, ids \cap DOMAIN channelCache)
    IN  /\ At(w, "look_up")
        /\ IF ids \subseteq DOMAIN channelCache
           THEN Return(w, worker[w].snap, hits)
           ELSE Goto(w, [worker[w] EXCEPT !.pc = "get_rows", !.found = hits])
        /\ UNCHANGED <<tables, caches, faults>>

GetChannelRows(w) ==
    LET read == ChannelRows(db, worker[w].ids \ DOMAIN worker[w].found)
    IN  /\ At(w, "get_rows")
        /\ Goto(w, [worker[w] EXCEPT !.pc = "keep_rows", !.pend = read])
        /\ UNCHANGED <<tables, caches, faults>>

KeepChannelRows(w) ==
    /\ At(w, "keep_rows")
    /\ channelCache' = PutAll(channelCache, worker[w].pend)
    /\ Return(w, worker[w].snap, PutAll(worker[w].found, worker[w].pend))
    /\ UNCHANGED <<tables, hubCache, faults>>

\* getHubsByIds of one hub: like loadSnapshot, but the channels are cached too.
LoadFull(w, ret) == Goto(w, [worker[w] EXCEPT !.pc = "load", !.ret = ret, !.full = TRUE])

\* warmSnapshotsForHubs: when one snapshot is missing all of them are built
\* again, around the hub rows the caller holds.
Warm(frame, rows, ret) ==
    IF DOMAIN rows \subseteq DOMAIN hubCache
    THEN [frame EXCEPT !.pc = ret, !.rows = EmptyMap]
    ELSE [frame EXCEPT !.pc = "get_channels", !.ret = ret, !.full = TRUE,
                       !.rows = BlankSnapshots(rows)]

-----------------------------------------------------------------------------
(* Writes: what follows the statement                                      *)

\* Variant: the snapshot stays.
KeepHub(w) ==
    /\ At(w, "invalidate")
    /\ Proceed(w, worker[w].ret)
    /\ UNCHANGED <<tables, caches, faults>>

\* invalidateHubCaches
InvalidateHub(w) ==
    /\ At(w, "invalidate")
    /\ hubCache' = Erase(hubCache, worker[w].hub)
    /\ Proceed(w, worker[w].ret)
    /\ UNCHANGED <<tables, channelCache, faults>>

\* createChannel puts the new channel, deleteChannel drops the old one.
CacheChannel(w) ==
    LET c == worker[w].cmd.ch
    IN  /\ At(w, "cache_channel")
        /\ channelCache' = IF worker[w].cmd.op = "remove_channel"
                           THEN Erase(channelCache, c)
                           ELSE PutAll(channelCache, worker[w].pend)
        /\ Proceed(w, "copy_snapshot")
        /\ UNCHANGED <<tables, hubCache, faults>>

\* The cached snapshot is copied, edited and put back; another thread may
\* have put or invalidated it in between.
CopySnapshot(w) ==
    LET h == worker[w].hub
        c == worker[w].cmd.ch
        s == hubCache[h]
    IN  /\ At(w, "copy_snapshot")
        /\ IF h \notin DOMAIN hubCache
           THEN Return(w, NoSnapshot, EmptyMap)
           ELSE Goto(w, [worker[w] EXCEPT !.pc = "put_copy",
                  !.snap = [s EXCEPT !.channels = IF worker[w].cmd.op = "remove_channel"
                                                  THEN @ \ {c} ELSE @ \cup DOMAIN worker[w].pend]])
        /\ UNCHANGED <<tables, caches, faults>>

PutCopy(w) ==
    /\ At(w, "put_copy")
    /\ hubCache' = Put(hubCache, worker[w].hub, worker[w].snap)
    /\ Return(w, NoSnapshot, EmptyMap)
    /\ UNCHANGED <<tables, channelCache, faults>>

\* renameChannel edits the cached channel in place ...
CopyChannel(w) ==
    LET c == worker[w].cmd.ch
    IN  /\ At(w, "copy_channel")
        /\ Goto(w, [worker[w] EXCEPT !.pc = "put_channel",
              !.pend = IF c \in DOMAIN channelCache
                       THEN Put(EmptyMap, c, [channelCache[c] EXCEPT !.name = worker[w].cmd.name])
                       ELSE EmptyMap])
        /\ UNCHANGED <<tables, caches, faults>>

\* ... or drops whatever is there.
PutChannel(w) ==
    /\ At(w, "put_channel")
    /\ channelCache' = IF worker[w].pend = EmptyMap THEN Erase(channelCache, worker[w].cmd.ch)
                                                    ELSE PutAll(channelCache, worker[w].pend)
    /\ Return(w, NoSnapshot, EmptyMap)
    /\ UNCHANGED <<tables, hubCache, faults>>

InvalidateChannels(w) ==
    /\ At(w, "invalidate_channels")
    /\ channelCache' = Restrict(channelCache, DOMAIN channelCache \ worker[w].ids)
    /\ Proceed(w, "revoke")
    /\ UNCHANGED <<tables, hubCache, faults>>

ServiceStep(w) ==
    \/ LoadSnapshot(w) \/ GetHub(w) \/ GetChannels(w) \/ GetRoles(w)
    \/ PutChannels(w) \/ PutSnapshots(w)
    \/ LookUpChannels(w) \/ GetChannelRows(w) \/ KeepChannelRows(w)
    \/ InvalidateHub(w) \/ CacheChannel(w) \/ CopySnapshot(w) \/ PutCopy(w)
    \/ CopyChannel(w) \/ PutChannel(w) \/ InvalidateChannels(w)

=============================================================================
