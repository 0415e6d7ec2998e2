----------------------------- MODULE HubsAlone_proofs -------------------------
(***************************************************************************)
(* What holds of the hubs as long as one thread runs the commands: an       *)
(* entry of the caches is exact, and a hub has one long-lived invite.       *)
(***************************************************************************)
EXTENDS Hubs_proofs

USE Zenon

-----------------------------------------------------------------------------
(* The bounds on threads and failures.                                     *)

\* A step of w moves no other thread, and fails at most one commit.
Moves(w) == \E g : worker' = [worker EXCEPT ![w] = g]
Answered == UNCHANGED faults \/ (losses > 0 /\ losses' = losses - 1 /\ UNCHANGED drops)

\* The abbreviations move one thread.
LEMMA OneMoves ==
    ASSUME NEW w
    PROVE  /\ \A g : Goto(w, g) => Moves(w)
           /\ Finish(w) \/ AfterFailure(w) \/ LoadTarget(w) => Moves(w)
           /\ \A pc : Proceed(w, pc) \/ Load(w, pc) \/ LoadFull(w, pc) => Moves(w)
           /\ \A cs, ret : LookUp(w, cs, ret) \/ Return(w, cs, ret) => Moves(w)
           /\ \A new, next : Write(w, new, next) => Moves(w) /\ Answered
<1>1. ASSUME NEW g, Goto(w, g) PROVE Moves(w)
  BY <1>1 DEF Goto, Moves
<1>2. ASSUME Finish(w) \/ LoadTarget(w) PROVE Moves(w)
  BY <1>1, <1>2 DEF Finish, LoadTarget
<1>3. ASSUME NEW pc, Proceed(w, pc) \/ Load(w, pc) \/ LoadFull(w, pc) PROVE Moves(w)
  BY <1>1, <1>3 DEF Proceed, Load, LoadFull
<1>4. ASSUME NEW cs, NEW ret, LookUp(w, cs, ret) \/ Return(w, cs, ret) PROVE Moves(w)
  BY <1>1, <1>4 DEF LookUp, Return
<1>5. ASSUME AfterFailure(w) PROVE Moves(w)
  BY <1>2, <1>3, <1>5 DEF AfterFailure
<1>6. ASSUME NEW new, NEW next, Write(w, new, next) PROVE Moves(w) /\ Answered
  BY <1>1, <1>5, <1>6 DEF Write, Answered
<1>. QED BY <1>1, <1>2, <1>3, <1>4, <1>5, <1>6

\* What every step of a command or of the service leaves alone.
LEMMA StepMoves ==
    ASSUME NEW w, CommandStep(w) \/ (ServiceStep(w) /\ UNCHANGED input)
    PROVE  UNCHANGED config /\ Moves(w) /\ Answered
<1>1. /\ \A g : Goto(w, g) => Moves(w)
      /\ Finish(w) \/ AfterFailure(w) \/ LoadTarget(w) => Moves(w)
      /\ \A pc : Proceed(w, pc) \/ Load(w, pc) \/ LoadFull(w, pc) => Moves(w)
      /\ \A cs, ret : LookUp(w, cs, ret) \/ Return(w, cs, ret) => Moves(w)
      /\ \A new, next : Write(w, new, next) => Moves(w) /\ Answered
  BY OneMoves
<1>2. CASE CountHubs(w) \/ CountChannels(w) \/ Subscribe(w) \/ Filter(w) \/ GetUserHubs(w) \/ WarmSnapshots(w)
  BY <1>1, <1>2 DEF CountHubs, CountChannels, Subscribe, Filter, GetUserHubs, WarmSnapshots, Answered, input
<1>3. CASE Topology(w) \/ Gather(w) \/ Synced(w) \/ AuthoriseDelete(w) \/ KeepTopics(w) \/ DropTopics(w)
  BY <1>1, <1>3 DEF Topology, Gather, Synced, AuthoriseDelete, KeepTopics, DropTopics, Answered, input
<1>4. CASE AuthoriseLeave(w) \/ AuthoriseKick(w) \/ KickFromVoice(w) \/ VoiceKicked(w) \/ CutOff(w) \/ Unsubscribe(w)
  BY <1>1, <1>4 DEF AuthoriseLeave, AuthoriseKick, KickFromVoice, VoiceKicked, CutOff, Unsubscribe, Answered,
         input
<1>5. CASE AuthoriseSetRole(w) \/ CheckSetRole(w) \/ AuthoriseUpdate(w) \/ ResolveInvite(w) \/ JoinHub(w) \/
      AuthoriseCreateChannel(w)
  BY <1>1, <1>5 DEF AuthoriseSetRole, CheckSetRole, AuthoriseUpdate, ResolveInvite, JoinHub,
         AuthoriseCreateChannel, Answered, input
<1>6. CASE CheckLimit(w) \/ CheckName(w) \/ FoundForRename(w) \/ AuthoriseRename(w) \/ GetSiblings(w) \/
      FoundForRemove(w)
  BY <1>1, <1>6 DEF CheckLimit, CheckName, FoundForRename, AuthoriseRename, GetSiblings, FoundForRemove,
         Answered, input
<1>7. CASE AuthoriseRemove(w) \/ DropChannelTopic(w) \/ FoundForSelect(w) \/ SelectActiveChannel(w) \/
      AuthoriseInvite(w) \/ GetActiveLink(w)
  BY <1>1, <1>7 DEF AuthoriseRemove, DropChannelTopic, FoundForSelect, SelectActiveChannel, AuthoriseInvite,
         GetActiveLink, Answered, input
<1>8. CASE CheckTtl(w) \/ SetToken(w) \/ SetActiveLink(w) \/ RevokeInvites(w) \/ DeleteToken(w) \/ DeleteActiveLink(w)
  BY <1>1, <1>8 DEF CheckTtl, SetToken, SetActiveLink, RevokeInvites, DeleteToken, DeleteActiveLink, Answered,
         input
<1>9. CASE CreateHub(w) \/ InsertChannel(w) \/ DeleteHub(w) \/ RemoveMember(w)
  BY <1>1, <1>9 DEF CreateHub, InsertChannel, DeleteHub, RemoveMember, Answered, input
<1>10. CASE AddMember(w) \/ RenameHub(w) \/ UpdateHubAvatarSeed(w) \/ RenameChannel(w)
  BY <1>1, <1>10 DEF AddMember, RenameHub, UpdateHubAvatarSeed, RenameChannel, Answered, input
<1>11. CASE RemoveChannel(w)
  BY <1>1, <1>11 DEF RemoveChannel, Answered, input
<1>12. CASE (LoadSnapshot(w) \/ GetHub(w) \/ GetChannels(w) \/ GetRoles(w) \/ PutChannels(w) \/ PutSnapshots(w)) /\ UNCHANGED input
  BY <1>1, <1>12 DEF LoadSnapshot, GetHub, GetChannels, GetRoles, PutChannels, PutSnapshots, Answered, input
<1>13. CASE (LookUpChannels(w) \/ GetChannelRows(w) \/ KeepChannelRows(w) \/ InvalidateHub(w) \/ CacheChannel(w) \/
      CopySnapshot(w)) /\ UNCHANGED input
  BY <1>1, <1>13 DEF LookUpChannels, GetChannelRows, KeepChannelRows, InvalidateHub, CacheChannel,
         CopySnapshot, Answered, input
<1>14. CASE (PutCopy(w) \/ CopyChannel(w) \/ PutChannel(w) \/ InvalidateChannels(w)) /\ UNCHANGED input
  BY <1>1, <1>14 DEF PutCopy, CopyChannel, PutChannel, InvalidateChannels, Answered, input
<1>. QED BY <1>2, <1>3, <1>4, <1>5, <1>6, <1>7, <1>8, <1>9, <1>10, <1>11, <1>12, <1>13, <1>14 DEF CommandStep, ServiceStep

\* Threads do not come or go, and failures only become fewer.
LEMMA BoundedKeeps ==
    ASSUME Bounded, [HubsNext]_hubsVars
    PROVE  /\ Bounded' /\ UNCHANGED config /\ DOMAIN worker' = DOMAIN worker
           /\ Alone' => Alone /\ losses \in Nat /\ losses' = losses
           /\ Alone' /\ NoFaults' => NoFaults /\ drops \in Nat /\ drops' = drops
           /\ Alone => \A v, w \in DOMAIN worker : v = w
<1>1. config.drops \in Nat /\ config.losses \in Nat
  BY ConfigsAssumption DEF Bounded
<1>2. /\ UNCHANGED config /\ DOMAIN worker' = DOMAIN worker
      /\ \/ UNCHANGED faults
         \/ losses > 0 /\ losses' = losses - 1 /\ UNCHANGED drops
         \/ drops > 0 /\ drops' = drops - 1 /\ UNCHANGED losses
  <2>1. ASSUME NEW w, Moves(w) PROVE DOMAIN worker' = DOMAIN worker
    BY <2>1 DEF Moves
  <2>2. CASE InviteAges \/ UNCHANGED hubsVars
    BY <2>2 DEF InviteAges, hubsVars, serviceVars, input, faults
  <2>3. ASSUME NEW w, Take(w) PROVE UNCHANGED <<config, faults>> /\ Moves(w)
    BY <2>3, OneMoves DEF Take
  <2>4. ASSUME NEW w, CallFails(w)
        PROVE  UNCHANGED config /\ drops > 0 /\ drops' = drops - 1 /\ UNCHANGED losses /\ Moves(w)
    BY <2>4, OneMoves DEF CallFails, input
  <2>5. ASSUME NEW w, ServiceStep(w), UNCHANGED <<input, redis, delivery>> PROVE UNCHANGED config /\ Moves(w) /\ Answered
    BY <2>5, StepMoves
  <2>6. ASSUME NEW w, CommandStep(w) PROVE UNCHANGED config /\ Moves(w) /\ Answered
    BY <2>6, StepMoves
  <2>. QED BY <2>1, <2>2, <2>3, <2>4, <2>5, <2>6 DEF HubsNext, Answered
<1>. QED BY SMT, <1>1, <1>2 DEF Bounded, Alone, NoFaults, faults

-----------------------------------------------------------------------------
(* Invites.                                                                *)

LinkPcs == {"ttl", "set_token", "set_active", "del_token", "del_active"}

\* The abbreviations go to no step of InviteService unless they say so.
LEMMA OffMoves ==
    ASSUME HubsInv, NEW w \in DOMAIN worker, worker[w].pc # "idle"
    PROVE  /\ Idle.pc \notin LinkPcs
           /\ worker[w].pc \in LoadPcs \cup LookPcs \cup EditPcs \cup {"invalidate"} => worker[w].ret \notin LinkPcs
           /\ Finish(w) \/ LoadTarget(w) \/ AfterFailure(w) => worker'[w].pc \notin LinkPcs
           /\ \A pc : Proceed(w, pc) /\ pc \notin LinkPcs => worker'[w].pc \notin LinkPcs
           /\ \A ret : Load(w, ret) \/ LoadFull(w, ret) => worker'[w].pc \notin LinkPcs
           /\ \A cs, ret : LookUp(w, cs, ret) => worker'[w].pc \notin LinkPcs
           /\ \A s, fd : Return(w, s, fd) /\ worker[w].pc \in LoadPcs \cup LookPcs \cup EditPcs =>
                 worker'[w].pc \notin LinkPcs
<1>. DEFINE f == worker[w]
            Off == worker'[w].pc \notin LinkPcs
<1>1. Idle.pc \notin LinkPcs /\ "load" \notin LinkPcs /\ "look_up" \notin LinkPcs /\ "subscribe" \notin LinkPcs
  BY DEF Idle, LinkPcs
<1>2. f.pc \in LoadPcs \cup LookPcs \cup EditPcs \cup {"invalidate"} => f.ret \notin LinkPcs
  BY Active DEF FrameOK, Returns, LoadRets, LookRets, EditRets, HubRets, LinkPcs
<1>3. Finish(w) \/ LoadTarget(w) \/ AfterFailure(w) => Off
  BY <1>1, Moving DEF Calls, Proceeds
<1>4. ASSUME NEW pc, Proceed(w, pc), pc \notin LinkPcs PROVE Off
  <2>1. CASE pc = "idle"
    <3>1. [f EXCEPT !.pc = pc].pc = "idle"
      BY <2>1, Active DEF IsRecord, FrameFields
    <3>2. worker'[w] = Idle
      BY <1>4, <3>1, Arrives DEF Proceed
    <3>. QED BY <1>1, <3>2
  <2>. QED BY <1>4, <2>1, Moving DEF Proceeds
<1>5. \A ret : Load(w, ret) \/ LoadFull(w, ret) => Off
  BY <1>1, Moving DEF Calls
<1>6. \A cs, ret : LookUp(w, cs, ret) => Off
  BY <1>1, Moving DEF Calls
<1>7. \A s, fd : Return(w, s, fd) /\ f.pc \in LoadPcs \cup LookPcs \cup EditPcs => Off
  BY <1>1, <1>2, Moving DEF Back
<1>. QED BY <1>1, <1>2, <1>3, <1>4, <1>5, <1>6, <1>7

\* Only InviteService's methods go to their steps.
LEMMA OffLinks ==
    ASSUME HubsInv, losses \in Nat, losses' = losses, NEW w \in DOMAIN worker,
           CommandStep(w) \/ (ServiceStep(w) /\ UNCHANGED redis),
           ~GetActiveLink(w), ~CheckTtl(w), ~SetToken(w), ~SetActiveLink(w), ~RevokeInvites(w), ~DeleteToken(w),
           ~DeleteActiveLink(w)
    PROVE  worker[w].pc \notin LinkPcs /\ worker'[w].pc \notin LinkPcs /\ UNCHANGED <<links, activeLink>>
<1>. DEFINE f == worker[w]
            Off == worker'[w].pc \notin LinkPcs
            Keep == f.pc # "idle" /\ f.pc \notin LinkPcs /\ UNCHANGED <<links, activeLink>>
<1>1. CASE CountHubs(w) \/ CountChannels(w) \/ Subscribe(w) \/ Filter(w) \/ Synced(w)
  <2>1. Keep
    BY <1>1 DEF CountHubs, CountChannels, Subscribe, Filter, Synced, At, redis, LinkPcs
  <2>2. Off
    BY <1>1, <2>1, OffMoves DEF CountHubs, CountChannels, Subscribe, Filter, Synced, LinkPcs
  <2>. QED BY <2>1, <2>2
<1>2. CASE AuthoriseDelete(w) \/ DropTopics(w) \/ AuthoriseLeave(w) \/ AuthoriseKick(w) \/ KickFromVoice(w)
  <2>1. Keep
    BY <1>2 DEF AuthoriseDelete, DropTopics, AuthoriseLeave, AuthoriseKick, KickFromVoice, On, At, redis, LinkPcs
  <2>2. Off
    BY <1>2, <2>1, OffMoves DEF AuthoriseDelete, DropTopics, AuthoriseLeave, AuthoriseKick, KickFromVoice, LinkPcs
  <2>. QED BY <2>1, <2>2
<1>3. CASE VoiceKicked(w) \/ CutOff(w) \/ Unsubscribe(w) \/ AuthoriseSetRole(w) \/ CheckSetRole(w)
  <2>1. Keep
    BY <1>3 DEF VoiceKicked, CutOff, Unsubscribe, AuthoriseSetRole, CheckSetRole, On, At, redis, LinkPcs
  <2>2. Off
    BY <1>3, <2>1, OffMoves DEF VoiceKicked, CutOff, Unsubscribe, AuthoriseSetRole, CheckSetRole, LinkPcs
  <2>. QED BY <2>1, <2>2
<1>4. CASE AuthoriseUpdate(w) \/ JoinHub(w) \/ AuthoriseCreateChannel(w) \/ CheckLimit(w) \/ CheckName(w)
  <2>1. Keep
    BY <1>4 DEF AuthoriseUpdate, JoinHub, AuthoriseCreateChannel, CheckLimit, CheckName, On, At, redis, LinkPcs
  <2>2. Off
    BY <1>4, <2>1, OffMoves DEF AuthoriseUpdate, JoinHub, AuthoriseCreateChannel, CheckLimit, CheckName, LinkPcs
  <2>. QED BY <2>1, <2>2
<1>5. CASE FoundForRename(w) \/ AuthoriseRename(w) \/ GetSiblings(w) \/ FoundForRemove(w) \/ AuthoriseRemove(w)
  <2>1. Keep
    BY <1>5 DEF FoundForRename, AuthoriseRename, GetSiblings, FoundForRemove, AuthoriseRemove, On, At, redis,
           LinkPcs
  <2>2. Off
    BY <1>5, <2>1, OffMoves DEF FoundForRename, AuthoriseRename, GetSiblings, FoundForRemove, AuthoriseRemove,
           LinkPcs
  <2>. QED BY <2>1, <2>2
<1>6. CASE DropChannelTopic(w) \/ FoundForSelect(w) \/ SelectActiveChannel(w) \/ AuthoriseInvite(w)
  <2>1. Keep
    BY <1>6 DEF DropChannelTopic, FoundForSelect, SelectActiveChannel, AuthoriseInvite, On, At, redis, LinkPcs
  <2>2. Off
    BY <1>6, <2>1, OffMoves DEF DropChannelTopic, FoundForSelect, SelectActiveChannel, AuthoriseInvite, LinkPcs
  <2>. QED BY <2>1, <2>2
<1>7. CASE (LoadSnapshot(w) \/ PutSnapshots(w) \/ KeepChannelRows(w)) /\ UNCHANGED redis
  <2>1. Keep /\ f.pc \in LoadPcs \cup LookPcs \cup EditPcs
    BY <1>7 DEF LoadSnapshot, PutSnapshots, KeepChannelRows, At, redis, LinkPcs, LoadPcs, LookPcs, EditPcs, Reading,
           Putting
  <2>2. Off
    BY <1>7, <2>1, OffMoves DEF LoadSnapshot, PutSnapshots, KeepChannelRows, LinkPcs
  <2>. QED BY <2>1, <2>2
<1>8. CASE (PutCopy(w) \/ PutChannel(w)) /\ UNCHANGED redis
  <2>1. Keep /\ f.pc \in LoadPcs \cup LookPcs \cup EditPcs
    BY <1>8 DEF PutCopy, PutChannel, At, redis, LinkPcs, LoadPcs, LookPcs, EditPcs, Reading, Putting
  <2>2. Off
    BY <1>8, <2>1, OffMoves DEF PutCopy, PutChannel, LinkPcs
  <2>. QED BY <2>1, <2>2
<1>9. CASE (PutChannels(w) \/ CacheChannel(w) \/ InvalidateChannels(w) \/ InvalidateHub(w)) /\ UNCHANGED redis
  <2>1. Keep /\ (InvalidateHub(w) => f.pc = "invalidate")
    BY <1>9 DEF PutChannels, CacheChannel, InvalidateChannels, InvalidateHub, At, redis, LinkPcs
  <2>2. Off
    BY <1>9, <2>1, OffMoves DEF PutChannels, CacheChannel, InvalidateChannels, InvalidateHub, LinkPcs
  <2>. QED BY <2>1, <2>2
<1>10. CASE GetUserHubs(w) \/ WarmSnapshots(w) \/ Topology(w)
  <2>1. Keep
    BY <1>10 DEF GetUserHubs, WarmSnapshots, Topology, At, redis, LinkPcs
  <2>2. Off
    BY <1>10, <2>1, OffMoves, SyncShapes DEF LinkPcs, Calls, SyncsShape
  <2>. QED BY <2>1, <2>2
<1>11. CASE Gather(w) \/ KeepTopics(w) \/ ResolveInvite(w)
  <2>1. Keep
    BY <1>11 DEF Gather, KeepTopics, ResolveInvite, At, redis, LinkPcs
  <2>2. Off
    BY <1>11, <2>1, OffMoves, SyncShapes DEF LinkPcs, SyncsShape
  <2>. QED BY <2>1, <2>2
<1>12. CASE (GetHub(w) \/ GetChannels(w) \/ GetRoles(w)) /\ UNCHANGED redis
  <2>1. Keep /\ f.pc \in LoadPcs \cup LookPcs \cup EditPcs
    BY <1>12 DEF GetHub, GetChannels, GetRoles, At, redis, LinkPcs, LoadPcs, LookPcs, EditPcs, Reading, Putting
  <2>2. Off
    BY <1>12, <2>1, OffMoves, ReadShapes DEF LinkPcs, Putting, Back, ReadsShape
  <2>. QED BY <2>1, <2>2
<1>13. CASE (LookUpChannels(w) \/ GetChannelRows(w)) /\ UNCHANGED redis
  <2>1. Keep /\ f.pc \in LoadPcs \cup LookPcs \cup EditPcs
    BY <1>13 DEF LookUpChannels, GetChannelRows, At, redis, LinkPcs, LoadPcs, LookPcs, EditPcs, Reading, Putting
  <2>2. Off
    BY <1>13, <2>1, OffMoves, ReadShapes DEF LinkPcs, Back, ReadsShape
  <2>. QED BY <2>1, <2>2
<1>14. CASE (CopySnapshot(w) \/ CopyChannel(w)) /\ UNCHANGED redis
  <2>1. Keep /\ f.pc \in LoadPcs \cup LookPcs \cup EditPcs
    BY <1>14 DEF CopySnapshot, CopyChannel, At, redis, LinkPcs, LoadPcs, LookPcs, EditPcs, Reading, Putting
  <2>2. Off
    BY <1>14, <2>1, OffMoves, EditShapes DEF LinkPcs, Back, EditsShape
  <2>. QED BY <2>1, <2>2
<1>15. CASE CreateHub(w) \/ DeleteHub(w) \/ RemoveMember(w)
  <2>1. Keep
    BY <1>15 DEF CreateHub, DeleteHub, RemoveMember, At, redis, LinkPcs
  <2>2. Off
    BY <1>15, <2>1, OffMoves, HubWriteShapes DEF LinkPcs, HubWritesShape
  <2>. QED BY <2>1, <2>2
<1>16. CASE AddMember(w) \/ RenameHub(w) \/ UpdateHubAvatarSeed(w)
  <2>1. Keep
    BY <1>16 DEF AddMember, RenameHub, UpdateHubAvatarSeed, At, redis, LinkPcs
  <2>2. Off
    BY <1>16, <2>1, OffMoves, HubWriteShapes DEF LinkPcs, HubWritesShape
  <2>. QED BY <2>1, <2>2
<1>17. CASE InsertChannel(w) \/ RenameChannel(w) \/ RemoveChannel(w)
  <2>1. Keep
    BY <1>17 DEF InsertChannel, RenameChannel, RemoveChannel, At, redis, LinkPcs
  <2>2. Off
    BY <1>17, <2>1, OffMoves, ChannelWriteShapes DEF LinkPcs, Proceeds, ChannelWritesShape
  <2>. QED BY <2>1, <2>2
<1>. HIDE DEF f, Off
<1>. QED BY <1>1, <1>2, <1>3, <1>4, <1>5, <1>6, <1>7, <1>8, <1>9, <1>10, <1>11, <1>12, <1>13, <1>14, <1>15, <1>16,
         <1>17 DEF CommandStep, ServiceStep, f, Off

\* createInvite and revokeInvitesForHub keep a hub's long link under its reverse key.
LEMMA LinkStep ==
    ASSUME HubsInv, losses \in Nat, losses' = losses, NEW w \in DOMAIN worker, LinksFit(worker[w], links, activeLink),
           Take(w) \/ CommandStep(w) \/ (ServiceStep(w) /\ UNCHANGED redis)
    PROVE  LinksFit(worker'[w], links', activeLink')
<1>. DEFINE f == worker[w]
            N == worker'[w]
<1>0. Idle.pc = "idle" /\ Idle.pc \notin LinkPcs
  BY DEF Idle, LinkPcs
<1>1. ASSUME N.pc \notin LinkPcs, f.pc \notin LinkPcs, UNCHANGED <<links, activeLink>> PROVE LinksFit(N, links', activeLink')
  BY <1>1 DEF LinksFit, LinkPcs
<1>2. CASE Take(w)
  <2>1. PICK c : Goto(w, FirstStep(c))
    BY <1>2 DEF Take
  <2>2. FirstStep(c).pc # "idle" /\ FirstStep(c).pc \notin LinkPcs
    BY FirstFrame DEF Begins, LinkPcs
  <2>3. N.pc \notin LinkPcs
    BY <2>1, <2>2, Arrives
  <2>4. f.pc \notin LinkPcs /\ UNCHANGED <<links, activeLink>>
    BY <1>2 DEF Take, At, redis, LinkPcs
  <2>. QED BY <1>1, <2>3, <2>4
<1>3. CASE GetActiveLink(w)
  <2>1. f.pc = "get_active" /\ f.pc # "idle" /\ UNCHANGED <<links, activeLink>>
    BY <1>3 DEF GetActiveLink, At, redis
  <2>2. \A t \in DOMAIN links : links[t].ttl = "long" => links[t].hub \in DOMAIN activeLink /\ activeLink[links[t].hub] = t
    BY <2>1 DEF LinksFit
  <2>3. CASE Proceeds(N, f, "set_token") /\ f.hub \notin DOMAIN activeLink
    BY <2>1, <2>2, <2>3 DEF LinksFit, Long, Proceeds, Kept
  <2>4. CASE f.hub \in DOMAIN activeLink /\ Moved(N, f, {"pc", "link"}) /\ N.pc = "ttl" /\ N.link = activeLink[f.hub]
    <3>1. N.hub = f.hub
      BY <2>4 DEF Moved, FrameFields
    <3>2. Long(links, N.hub) \subseteq {N.link}
      BY <2>2, <2>4, <3>1 DEF Long
    <3>. QED BY <2>1, <2>2, <2>4, <3>2 DEF LinksFit
  <2>. QED BY <1>3, <2>1, <2>3, <2>4, EditShapes DEF EditsShape
<1>4. CASE CheckTtl(w)
  <2>1. f.pc = "ttl" /\ f.pc # "idle" /\ UNCHANGED <<links, activeLink>>
    BY <1>4 DEF CheckTtl, At, redis
  <2>2. /\ \A t \in DOMAIN links : links[t].ttl = "long" => links[t].hub \in DOMAIN activeLink /\ activeLink[links[t].hub] = t
        /\ Long(links, f.hub) \subseteq {f.link}
    BY <2>1 DEF LinksFit
  <2>3. CASE Finish(w)
    <3>1. N = Idle
      BY <2>1, <2>3, Moving
    <3>. QED BY <1>0, <2>1, <2>2, <3>1 DEF LinksFit, LinkPcs
  <2>4. CASE ~(f.link \in DOMAIN links /\ links[f.link].ttl = "long") /\ Proceed(w, "set_token")
    <3>1. N.pc = "set_token" /\ N.hub = f.hub
      BY <2>1, <2>4, Moving DEF Proceeds, Kept
    <3>. QED BY ZenonT(30), <2>1, <2>2, <2>4, <3>1 DEF LinksFit, Long
  <2>. QED BY <1>4, <2>3, <2>4 DEF CheckTtl
<1>5. CASE SetToken(w)
  <2>1. f.pc = "set_token" /\ f.pc # "idle" /\ UNCHANGED activeLink
    BY <1>5 DEF SetToken, At
  <2>2. /\ \A t \in DOMAIN links : links[t].ttl = "long" => links[t].hub \in DOMAIN activeLink /\ activeLink[links[t].hub] = t
        /\ Long(links, f.hub) = {}
    BY <2>1 DEF LinksFit
  <2>3. /\ Moved(N, f, {"pc", "link"}) /\ N.pc = "set_active"
        /\ links' = Put(links, N.link, [hub |-> f.hub, ttl |-> "long"])
    BY <1>5, <2>1, EditShapes DEF EditsShape
  <2>. DEFINE t0 == N.link
              row == [hub |-> f.hub, ttl |-> "long"]
  <2>4. row.hub = f.hub
    OBVIOUS
  <2>. HIDE DEF row
  <2>5. /\ DOMAIN links' = DOMAIN links \cup {t0} /\ links'[t0] = row
        /\ \A t \in DOMAIN links : t # t0 => links'[t] = links[t]
    BY <2>3 DEF row, Put
  <2>6. N.hub = f.hub
    BY <2>3 DEF Moved, FrameFields
  <2>7. \A t \in DOMAIN links' : links'[t].ttl = "long" =>
           \/ links'[t].hub \in DOMAIN activeLink' /\ activeLink'[links'[t].hub] = t
           \/ N.pc = "set_active" /\ N.hub = links'[t].hub /\ N.link = t
    BY <2>1, <2>2, <2>3, <2>4, <2>5, <2>6
  <2>8. Long(links', N.hub) \subseteq {N.link}
    BY <2>2, <2>5, <2>6 DEF Long
  <2>. QED BY <2>3, <2>7, <2>8 DEF LinksFit
<1>6. CASE SetActiveLink(w)
  <2>1. f.pc = "set_active" /\ f.pc # "idle" /\ UNCHANGED links /\ activeLink' = Put(activeLink, f.hub, f.link)
    BY <1>6 DEF SetActiveLink, At
  <2>2. N = Idle
    BY <1>6, <2>1, Moving DEF SetActiveLink
  <2>3. /\ DOMAIN activeLink' = DOMAIN activeLink \cup {f.hub} /\ activeLink'[f.hub] = f.link
        /\ \A h \in DOMAIN activeLink : h # f.hub => activeLink'[h] = activeLink[h]
    BY <2>1 DEF Put, Erase, Restrict
  <2>4. \A t \in DOMAIN links : links[t].ttl = "long" => links[t].hub \in DOMAIN activeLink' /\ activeLink'[links[t].hub] = t
    BY <2>1, <2>3 DEF LinksFit, Long
  <2>. QED BY <1>0, <2>1, <2>2, <2>4 DEF LinksFit, LinkPcs
<1>7. CASE RevokeInvites(w)
  <2>1. f.pc = "revoke" /\ f.pc # "idle" /\ UNCHANGED <<links, activeLink>>
    BY <1>7 DEF RevokeInvites, At, redis
  <2>2. \A t \in DOMAIN links : links[t].ttl = "long" => links[t].hub \in DOMAIN activeLink /\ activeLink[links[t].hub] = t
    BY <2>1 DEF LinksFit
  <2>3. CASE Proceeds(N, f, "del_active") /\ f.hub \notin DOMAIN activeLink
    BY <2>1, <2>2, <2>3 DEF LinksFit, Long, Proceeds, Kept
  <2>4. CASE f.hub \in DOMAIN activeLink /\ Moved(N, f, {"pc", "link"}) /\ N.pc = "del_token" /\ N.link = activeLink[f.hub]
    <3>1. N.hub = f.hub
      BY <2>4 DEF Moved, FrameFields
    <3>2. Long(links, N.hub) \subseteq {N.link}
      BY <2>2, <2>4, <3>1 DEF Long
    <3>. QED BY <2>1, <2>2, <2>4, <3>2 DEF LinksFit
  <2>. QED BY <1>7, <2>1, <2>3, <2>4, EditShapes DEF EditsShape
<1>8. CASE DeleteToken(w)
  <2>1. f.pc = "del_token" /\ f.pc # "idle" /\ links' = Erase(links, f.link) /\ UNCHANGED activeLink
    BY <1>8 DEF DeleteToken, At
  <2>2. N.pc = "del_active" /\ N.hub = f.hub
    BY <1>8, <2>1, Moving DEF DeleteToken, Proceeds, Kept
  <2>3. DOMAIN links' = DOMAIN links \ {f.link} /\ \A t \in DOMAIN links' : links'[t] = links[t]
    BY <2>1 DEF Put, Erase, Restrict
  <2>4. Long(links, f.hub) \subseteq {f.link}
    BY <2>1 DEF LinksFit
  <2>. QED BY <2>1, <2>2, <2>3, <2>4 DEF LinksFit, Long
<1>9. CASE DeleteActiveLink(w)
  <2>1. f.pc = "del_active" /\ f.pc # "idle" /\ UNCHANGED links /\ activeLink' = Erase(activeLink, f.hub)
    BY <1>9 DEF DeleteActiveLink, At
  <2>2. N.pc \in {"cut", "drop_topics"}
    BY <1>9, <2>1, Moving DEF DeleteActiveLink, Proceeds
  <2>3. DOMAIN activeLink' = DOMAIN activeLink \ {f.hub} /\ \A h \in DOMAIN activeLink' : activeLink'[h] = activeLink[h]
    BY <2>1 DEF Put, Erase, Restrict
  <2>4. Long(links, f.hub) = {}
    BY <2>1 DEF LinksFit
  <2>5. \A t \in DOMAIN links : links[t].ttl = "long" => links[t].hub \in DOMAIN activeLink' /\ activeLink'[links[t].hub] = t
    BY <2>1, <2>3, <2>4 DEF LinksFit, Long
  <2>. QED BY <2>1, <2>2, <2>5 DEF LinksFit
<1>. QED BY <1>1, <1>2, <1>3, <1>4, <1>5, <1>6, <1>7, <1>8, <1>9, OffLinks

\* A link that gets old is no long link any more, and a reverse key goes after its link.
LEMMA LinksAge ==
    ASSUME HubsInv, NEW f, LinksFit(f, links, activeLink), InviteAges
    PROVE  LinksFit(f, links', activeLink')
<1>1. ASSUME NEW t \in DOMAIN links, links' = Erase(links, t), UNCHANGED activeLink
      PROVE  LinksFit(f, links', activeLink')
  <2>1. DOMAIN links' = DOMAIN links \ {t} /\ \A x \in DOMAIN links' : links'[x] = links[x]
    BY <1>1 DEF Erase, Restrict
  <2>2. \A h : Long(links', h) \subseteq Long(links, h)
    BY <2>1 DEF Long
  <2>. QED BY ZenonT(30), <1>1, <2>1, <2>2 DEF LinksFit
<1>2. ASSUME NEW t \in DOMAIN links, links' = [links EXCEPT ![t].ttl = "short"], UNCHANGED activeLink
      PROVE  LinksFit(f, links', activeLink')
  <2>1. DOMAIN links' = DOMAIN links /\ \A x \in DOMAIN links \ {t} : links'[x] = links[x]
    BY <1>2
  <2>2. links'[t].ttl = "short"
    BY <1>2 DEF HubsInv, LinksOK, IsRecord
  <2>. QED BY <1>2, <2>1, <2>2 DEF LinksFit, Long
<1>3. ASSUME NEW h \in DOMAIN activeLink, activeLink[h] \notin DOMAIN links, activeLink' = Erase(activeLink, h),
             UNCHANGED links
      PROVE  LinksFit(f, links', activeLink')
  <2>1. DOMAIN activeLink' = DOMAIN activeLink \ {h} /\ \A x \in DOMAIN activeLink' : activeLink'[x] = activeLink[x]
    BY <1>3 DEF Erase, Restrict
  <2>. QED BY <1>3, <2>1 DEF LinksFit
<1>. QED BY <1>1, <1>2, <1>3 DEF InviteAges

\* The links fit at the start.
LEMMA LinkInit == HubsInit => LinkInv
<1>. SUFFICES ASSUME HubsInit PROVE LinkInv
  OBVIOUS
<1>1. PICK x \in Configs :
         /\ links = [t \in x.links |-> [hub |-> x.hub, ttl |-> "long"]]
         /\ activeLink = [h \in {x.hub : t \in x.links} |-> CHOOSE t \in x.links : TRUE]
         /\ worker = [w \in 1..x.workers |-> Idle]
         /\ config = x /\ drops = x.drops /\ losses = x.losses
  BY DEF HubsInit
<1>2. x.drops \in Nat /\ x.losses \in Nat /\ \A s, t \in x.links : s = t
  BY ConfigsAssumption
<1>3. Bounded
  <2>1. \A n \in Nat : n <= n
    BY SMT
  <2>. QED BY <1>1, <1>2, <2>1 DEF Bounded
<1>4. \A t \in DOMAIN links : links[t].hub \in DOMAIN activeLink /\ activeLink[links[t].hub] = t
  <2>1. \A t \in x.links : t = CHOOSE s \in x.links : TRUE
    BY <1>2
  <2>. QED BY <1>1, <2>1
<1>5. \A w \in DOMAIN worker : worker[w].pc = "idle"
  BY <1>1 DEF Idle
<1>. QED BY <1>3, <1>4, <1>5 DEF LinkInv, LinksFit

\* Every step keeps the links fitting.
LEMMA LinkNext == HubsInv /\ LinkInv /\ [HubsNext]_hubsVars => LinkInv'
<1>. SUFFICES ASSUME HubsInv, LinkInv, [HubsNext]_hubsVars PROVE LinkInv'
  OBVIOUS
<1>1. Bounded' /\ DOMAIN worker' = DOMAIN worker
  BY BoundedKeeps DEF LinkInv
<1>. SUFFICES ASSUME Alone', NoFaults', NEW v \in DOMAIN worker
              PROVE  LinksFit(worker'[v], links', activeLink')
  BY <1>1 DEF LinkInv
<1>2. /\ losses \in Nat /\ losses' = losses /\ drops \in Nat /\ drops' = drops
      /\ \A w \in DOMAIN worker : w = v /\ LinksFit(worker[w], links, activeLink)
  BY BoundedKeeps DEF LinkInv
<1>3. CASE UNCHANGED hubsVars
  BY <1>2, <1>3 DEF hubsVars, serviceVars, redis
<1>4. CASE InviteAges
  BY <1>2, <1>4, LinksAge DEF InviteAges, serviceVars
<1>5. ASSUME NEW w \in DOMAIN worker, Take(w) \/ CommandStep(w) \/ (ServiceStep(w) /\ UNCHANGED <<input, redis, delivery>>)
      PROVE  LinksFit(worker'[v], links', activeLink')
  BY <1>2, <1>5, LinkStep
<1>6. ASSUME NEW w \in DOMAIN worker, CallFails(w) PROVE FALSE
  <2>1. drops' = drops - 1
    BY <1>6 DEF CallFails
  <2>. QED BY SMT, <1>2, <2>1
<1>. QED BY <1>3, <1>4, <1>5, <1>6 DEF HubsNext

\* The theorem for OneLongLink: with one thread and no failure createInvite leaves
\* a hub one link at most that has MIN_REUSE_TTL or more to live, and
\* revokeInvitesForHub takes that one away, whatever the users send.
THEOREM OneLongLinkAlways == HubsSpec => []OneLongLink
<1>1. HubsInv /\ LinkInv => OneLongLink
  <2>. SUFFICES ASSUME LinkInv, Alone, NoFaults, Quiet, NEW t \in DOMAIN links, links[t].ttl = "long"
                PROVE  links[t].hub \in DOMAIN activeLink /\ activeLink[links[t].hub] = t
    BY DEF OneLongLink
  <2>1. 1 \in DOMAIN worker
    BY SMT DEF LinkInv, Bounded, Alone
  <2>. QED BY <2>1 DEF LinkInv, LinksFit, Quiet, At
<1>. QED BY <1>1, HubsAlways, LinkInit, LinkNext, PTL DEF HubsSpec

-----------------------------------------------------------------------------
(* The caches of a single thread.                                          *)

AllExact(hc, cc, d) == /\ \A h \in DOMAIN hc : HubExact(h, hc, d)
                       /\ \A c \in DOMAIN cc : ChannelExact(c, cc, d)

DirtyPcs == {"invalidate", "invalidate_channels", "cache_channel", "copy_snapshot", "put_copy", "copy_channel",
             "put_channel"}
OpPcs    == {"count_hubs", "insert_hub", "user_hubs", "count_channels", "insert_channel", "delete_channel"}

\* Steps that hold something of the tables.
HoldPcs  == {"keep_rows"} \cup Reading \cup (LoadRets \ {"topology"})
AskPcs   == DirtyPcs \cup OpPcs \cup HoldPcs

\* Caches are exact before and after the steps that edit them.
LEMMA Clean ==
    ASSUME NEW f, NEW hc, NEW cc, NEW d
    PROVE  /\ CachesFit(f, hc, cc, d) /\ f.pc \notin DirtyPcs => AllExact(hc, cc, d)
           /\ AllExact(hc, cc, d) => CachesFit(f, hc, cc, d)
           /\ AllExact(hc, cc, d) /\ f.pc \notin DirtyPcs \cup OpPcs /\ HoldsNow(f, d) => Exact(f, hc, cc, d)
           /\ AllExact(hc, cc, d) /\ f.pc \notin AskPcs => Exact(f, hc, cc, d)
<1>1. CachesFit(f, hc, cc, d) /\ f.pc \notin DirtyPcs => AllExact(hc, cc, d)
  BY DEF CachesFit, AllExact, HubDirty, ChannelDirty, DirtyPcs
<1>2. AllExact(hc, cc, d) => CachesFit(f, hc, cc, d)
  BY DEF CachesFit, AllExact
<1>3. f.pc \notin DirtyPcs \cup OpPcs => OpFits(f) /\ EditFits(f, hc, cc, d)
  BY DEF DirtyPcs, OpPcs, OpFits, EditFits
<1>4. f.pc \notin AskPcs => HoldsNow(f, d)
  BY DEF AskPcs, DirtyPcs, HoldPcs, Reading, Putting, LoadRets, HoldsNow
<1>. QED BY <1>1, <1>2, <1>3, <1>4 DEF Exact, AskPcs

\* The abbreviations go to a step that asks for nothing, unless they say so.
LEMMA CalmMoves ==
    ASSUME HubsInv, NEW w \in DOMAIN worker, worker[w].pc # "idle"
    PROVE  /\ Idle.pc \notin AskPcs
           /\ worker[w].pc \in LookPcs \cup EditPcs => worker[w].ret \notin AskPcs
           /\ Finish(w) \/ LoadTarget(w) \/ AfterFailure(w) => worker'[w].pc \notin AskPcs
           /\ \A pc : Proceed(w, pc) /\ pc \notin AskPcs /\ pc # "idle" => worker'[w].pc \notin AskPcs
           /\ \A ret : Load(w, ret) \/ LoadFull(w, ret) => worker'[w].pc \notin AskPcs
           /\ \A cs, ret : LookUp(w, cs, ret) => worker'[w].pc \notin AskPcs
           /\ \A s, fd : Return(w, s, fd) /\ worker[w].pc \in LookPcs \cup EditPcs => worker'[w].pc \notin AskPcs
<1>. DEFINE f == worker[w]
            Off == worker'[w].pc \notin AskPcs
<1>1. Idle.pc \notin AskPcs /\ "load" \notin AskPcs /\ "look_up" \notin AskPcs /\ "subscribe" \notin AskPcs
  BY DEF Idle, AskPcs, DirtyPcs, OpPcs, HoldPcs, Reading, Putting, LoadRets
<1>2. (LookRets \cup EditRets) \cap AskPcs = {}
  BY DEF LookRets, EditRets, AskPcs, DirtyPcs, OpPcs, HoldPcs, Reading, Putting, LoadRets
<1>3. f.pc \in LookPcs \cup EditPcs => f.ret \notin AskPcs
  BY <1>2, Active DEF FrameOK, Returns
<1>4. Finish(w) \/ LoadTarget(w) \/ AfterFailure(w) => Off
  BY <1>1, Moving DEF Calls, Proceeds
<1>5. \A pc : Proceed(w, pc) /\ pc \notin AskPcs /\ pc # "idle" => Off
  BY Moving DEF Proceeds
<1>6. \A ret : Load(w, ret) \/ LoadFull(w, ret) => Off
  BY <1>1, Moving DEF Calls
<1>7. \A cs, ret : LookUp(w, cs, ret) => Off
  BY <1>1, Moving DEF Calls
<1>8. \A s, fd : Return(w, s, fd) /\ f.pc \in LookPcs \cup EditPcs => Off
  BY <1>1, <1>3, Moving DEF Back
<1>. QED BY <1>1, <1>3, <1>4, <1>5, <1>6, <1>7, <1>8

\* The steps that neither touch the caches and the tables nor go to a step that asks for something.
CalmStep(w) ==
    \/ Subscribe(w) \/ Filter(w) \/ Synced(w) \/ AuthoriseDelete(w) \/ DropTopics(w) \/ AuthoriseLeave(w)
    \/ AuthoriseKick(w) \/ KickFromVoice(w) \/ VoiceKicked(w) \/ CutOff(w) \/ Unsubscribe(w) \/ AuthoriseSetRole(w)
    \/ CheckSetRole(w) \/ AuthoriseUpdate(w) \/ JoinHub(w) \/ AuthoriseCreateChannel(w) \/ CheckLimit(w) \/ FoundForRename(w)
    \/ AuthoriseRename(w) \/ GetSiblings(w) \/ FoundForRemove(w) \/ DropChannelTopic(w) \/ FoundForSelect(w) \/ SelectActiveChannel(w)
    \/ AuthoriseInvite(w) \/ CheckTtl(w) \/ SetActiveLink(w) \/ DeleteToken(w) \/ DeleteActiveLink(w) \/ Topology(w)
    \/ Gather(w) \/ KeepTopics(w) \/ ResolveInvite(w) \/ GetActiveLink(w) \/ SetToken(w) \/ RevokeInvites(w)
    \/ LookUpChannels(w)

\* Most steps of the commands.
LEMMA CalmSteps ==
    ASSUME HubsInv, NEW w \in DOMAIN worker, CalmStep(w) \/ CallFails(w)
    PROVE  worker[w].pc \notin DirtyPcs /\ worker'[w].pc \notin AskPcs /\ UNCHANGED <<db, hubCache, channelCache>>
<1>. DEFINE f == worker[w]
            Off == worker'[w].pc \notin AskPcs
            Keep == f.pc # "idle" /\ f.pc \notin DirtyPcs /\ UNCHANGED <<db, hubCache, channelCache>>
<1>0. /\ {"remove_member", "add_member", "rename_hub", "seed_hub", "subscribe", "cut", "get_active"} \cap AskPcs = {}
      /\ {"set_token", "set_active", "ttl", "del_token", "del_active", "drop_topics"} \cap AskPcs = {}
      /\ {"load", "look_up", "get_rows", "topology"} \cap AskPcs = {}
  BY DEF AskPcs, DirtyPcs, OpPcs, HoldPcs, Reading, Putting, LoadRets
<1>1. CASE Subscribe(w) \/ Filter(w) \/ Synced(w) \/ AuthoriseDelete(w) \/ DropTopics(w)
  <2>1. Keep
    BY <1>1 DEF Subscribe, Filter, Synced, AuthoriseDelete, DropTopics, On, At, tables, caches, DirtyPcs
  <2>2. Off
    BY <1>1, <1>0, <2>1, CalmMoves DEF Subscribe, Filter, Synced, AuthoriseDelete, DropTopics
  <2>. QED BY <2>1, <2>2
<1>2. CASE AuthoriseLeave(w) \/ AuthoriseKick(w) \/ KickFromVoice(w) \/ VoiceKicked(w) \/ CutOff(w)
  <2>1. Keep
    BY <1>2 DEF AuthoriseLeave, AuthoriseKick, KickFromVoice, VoiceKicked, CutOff, On, At, tables, caches, DirtyPcs
  <2>2. Off
    BY <1>2, <1>0, <2>1, CalmMoves DEF AuthoriseLeave, AuthoriseKick, KickFromVoice, VoiceKicked, CutOff
  <2>. QED BY <2>1, <2>2
<1>3. CASE Unsubscribe(w) \/ AuthoriseSetRole(w) \/ CheckSetRole(w) \/ AuthoriseUpdate(w) \/ JoinHub(w)
  <2>1. Keep
    BY <1>3 DEF Unsubscribe, AuthoriseSetRole, CheckSetRole, AuthoriseUpdate, JoinHub, On, At, tables, caches,
           DirtyPcs
  <2>2. Off
    BY <1>3, <1>0, <2>1, CalmMoves DEF Unsubscribe, AuthoriseSetRole, CheckSetRole, AuthoriseUpdate, JoinHub
  <2>. QED BY <2>1, <2>2
<1>4. CASE AuthoriseCreateChannel(w) \/ CheckLimit(w) \/ FoundForRename(w) \/ AuthoriseRename(w) \/ GetSiblings(w)
  <2>1. Keep
    BY <1>4 DEF AuthoriseCreateChannel, CheckLimit, FoundForRename, AuthoriseRename, GetSiblings, On, At, tables,
           caches, DirtyPcs
  <2>2. Off
    BY <1>4, <1>0, <2>1, CalmMoves DEF AuthoriseCreateChannel, CheckLimit, FoundForRename, AuthoriseRename,
           GetSiblings
  <2>. QED BY <2>1, <2>2
<1>5. CASE FoundForRemove(w) \/ DropChannelTopic(w) \/ FoundForSelect(w) \/ SelectActiveChannel(w) \/
           AuthoriseInvite(w)
  <2>1. Keep
    BY <1>5 DEF FoundForRemove, DropChannelTopic, FoundForSelect, SelectActiveChannel, AuthoriseInvite, On, At,
           tables, caches, DirtyPcs
  <2>2. Off
    BY <1>5, <1>0, <2>1, CalmMoves DEF FoundForRemove, DropChannelTopic, FoundForSelect, SelectActiveChannel,
           AuthoriseInvite
  <2>. QED BY <2>1, <2>2
<1>6. CASE CheckTtl(w) \/ SetActiveLink(w) \/ DeleteToken(w) \/ DeleteActiveLink(w)
  <2>1. Keep
    BY <1>6 DEF CheckTtl, SetActiveLink, DeleteToken, DeleteActiveLink, At, tables, caches, DirtyPcs
  <2>2. Off
    BY <1>6, <1>0, <2>1, CalmMoves DEF CheckTtl, SetActiveLink, DeleteToken, DeleteActiveLink
  <2>. QED BY <2>1, <2>2
<1>7. CASE Topology(w) \/ Gather(w) \/ KeepTopics(w) \/ ResolveInvite(w)
  <2>1. Keep
    BY <1>7 DEF Topology, Gather, KeepTopics, ResolveInvite, At, tables, caches, DirtyPcs
  <2>2. Off
    BY <1>7, <1>0, <2>1, CalmMoves, SyncShapes DEF Calls, Proceeds, SyncsShape
  <2>. QED BY <2>1, <2>2
<1>8. CASE GetActiveLink(w) \/ SetToken(w) \/ RevokeInvites(w)
  <2>1. Keep
    BY <1>8 DEF GetActiveLink, SetToken, RevokeInvites, At, tables, caches, DirtyPcs
  <2>2. Off
    BY <1>8, <1>0, <2>1, CalmMoves, EditShapes DEF Calls, Proceeds, EditsShape
  <2>. QED BY <2>1, <2>2
<1>9. CASE LookUpChannels(w)
  <2>1. Keep /\ f.pc \in LookPcs
    BY <1>9 DEF LookUpChannels, At, tables, caches, DirtyPcs, LookPcs
  <2>2. Off
    BY <1>9, <1>0, <2>1, CalmMoves, ReadShapes DEF Back, ReadsShape
  <2>. QED BY <2>1, <2>2
<1>10. CASE CallFails(w)
  <2>1. Keep
    BY <1>10 DEF CallFails, Statements, RedisCalls, tables, caches, DirtyPcs
  <2>2. Off
    BY <1>10, <1>0, <2>1, CalmMoves DEF CallFails
  <2>. QED BY <2>1, <2>2
<1>. HIDE DEF f, Off, Keep
<1>. QED BY <1>1, <1>2, <1>3, <1>4, <1>5, <1>6, <1>7, <1>8, <1>9, <1>10 DEF CalmStep, f, Off, Keep

\* Steps that choose by what the command is.
LEMMA OpSteps ==
    ASSUME HubsInv, NEW w \in DOMAIN worker, Exact(worker[w], hubCache, channelCache, db),
           Take(w) \/ CountHubs(w) \/ CountChannels(w) \/ CheckName(w) \/ AuthoriseRemove(w)
    PROVE  Exact(worker'[w], hubCache', channelCache', db')
<1>. DEFINE f == worker[w]
            N == worker'[w]
<1>1. /\ UNCHANGED <<db, hubCache, channelCache>>
      /\ f.pc \in {"idle", "count_hubs", "count_channels", "check_name", "authorise"}
  BY DEF Take, CountHubs, CountChannels, CheckName, AuthoriseRemove, On, At, tables, caches
<1>2. AllExact(hubCache, channelCache, db)
  BY <1>1, Clean DEF Exact, DirtyPcs
<1>3. {"idle", "look_up", "load", "resolve", "rename_channel"} \cap AskPcs = {}
  BY DEF AskPcs, DirtyPcs, OpPcs, HoldPcs, Reading, Putting, LoadRets
<1>4. ASSUME N.pc \in OpPcs, OpFits(N) PROVE Exact(N, hubCache', channelCache', db')
  <2>1. EditFits(N, hubCache, channelCache, db)
    BY <1>4 DEF EditFits, OpPcs
  <2>2. HoldsNow(N, db)
    BY <1>4 DEF HoldsNow, OpPcs, Reading, Putting, LoadRets
  <2>. QED BY <1>1, <1>2, <1>4, <2>1, <2>2, Clean DEF Exact
<1>5. CASE Take(w)
  <2>1. PICK c : Goto(w, FirstStep(c))
    BY <1>5 DEF Take
  <2>2. Begins(N, c)
    <3>1. FirstStep(c).pc # "idle"
      BY FirstFrame DEF Begins
    <3>2. N = FirstStep(c)
      BY <2>1, <3>1, Arrives
    <3>. QED BY <3>2, FirstFrame
  <2>3. N.pc \notin AskPcs \/ (N.pc \in OpPcs /\ OpFits(N))
    BY <1>3, <2>2 DEF Begins, OpPcs, OpFits
  <2>. QED BY <1>1, <1>2, <1>4, <2>3, Clean
<1>6. CASE f.pc # "idle" /\ f.pc \notin DirtyPcs /\ (Finish(w) \/ AfterFailure(w))
  BY <1>1, <1>2, <1>6, CalmMoves, Clean
<1>7. CASE At(w, "count_hubs") /\ Proceed(w, "insert_hub")
  <2>1. N.pc = "insert_hub" /\ N.cmd.op = "create_hub"
    BY <1>7, Moving DEF At, Proceeds, Kept, Exact, OpFits
  <2>. QED BY <1>4, <2>1 DEF OpPcs, OpFits
<1>8. CASE At(w, "count_channels") /\ Proceed(w, "insert_channel")
  <2>1. N.pc = "insert_channel" /\ N.cmd.op \in {"create_hub", "create_channel"}
    BY <1>8, Moving DEF At, Proceeds, Kept, Exact, OpFits
  <2>. QED BY <1>4, <2>1 DEF OpPcs, OpFits
<1>9. CASE At(w, "check_name") /\ Proceed(w, IF f.cmd.op = "create_channel" THEN "count_channels" ELSE "rename_channel")
  <2>1. CASE f.cmd.op = "create_channel"
    <3>1. N.pc = "count_channels" /\ N.cmd.op = "create_channel"
      BY <1>9, <2>1, Moving DEF At, Proceeds, Kept
    <3>. QED BY <1>4, <3>1 DEF OpPcs, OpFits
  <2>2. CASE f.cmd.op # "create_channel"
    <3>1. N.pc = "rename_channel"
      BY <1>9, <2>2, Moving DEF At, Proceeds
    <3>. QED BY <1>1, <1>2, <1>3, <3>1, Clean
  <2>. QED BY <2>1, <2>2
<1>10. CASE On(w, "remove_channel", "authorise") /\ Proceed(w, "delete_channel")
  <2>1. N.pc = "delete_channel" /\ N.cmd.op = "remove_channel"
    BY <1>10, Moving DEF On, At, Proceeds, Kept
  <2>. QED BY <1>4, <2>1 DEF OpPcs, OpFits
<1>. QED BY <1>1, <1>5, <1>6, <1>7, <1>8, <1>9, <1>10 DEF CountHubs, CountChannels, CheckName, AuthoriseRemove, On, At, DirtyPcs

\* How snapshots are put together.
LEMMA SnapshotParts ==
    ASSUME NEW d, NEW h
    PROVE  /\ [[BlankSnapshot(d.hubs[h]) EXCEPT !.channels = ChannelsOf(d, h)] EXCEPT !.roles = RolesIn(d, h)] =
                 SnapshotIn(d, h)
           /\ \A r : BlankSnapshot(BlankSnapshot(r)) = BlankSnapshot(r)
           /\ BlankSnapshot(SnapshotIn(d, h)) = BlankSnapshot(d.hubs[h])
           /\ \A cs : [SnapshotIn(d, h) EXCEPT !.channels = cs] =
                 [owner |-> d.hubs[h].owner, name |-> d.hubs[h].name, seed |-> d.hubs[h].seed,
                  channels |-> cs, roles |-> RolesIn(d, h)]
<1>1. [[BlankSnapshot(d.hubs[h]) EXCEPT !.channels = ChannelsOf(d, h)] EXCEPT !.roles = RolesIn(d, h)] = SnapshotIn(d, h)
  <2>. DEFINE o == d.hubs[h].owner
              n == d.hubs[h].name
              s == d.hubs[h].seed
              cs == ChannelsOf(d, h)
              rs == RolesIn(d, h)
  <2>1. BlankSnapshot(d.hubs[h]) = [owner |-> o, name |-> n, seed |-> s, channels |-> {}, roles |-> EmptyMap]
    BY DEF BlankSnapshot
  <2>2. SnapshotIn(d, h) = [owner |-> o, name |-> n, seed |-> s, channels |-> cs, roles |-> rs]
    BY DEF SnapshotIn
  <2>. HIDE DEF o, n, s, cs, rs
  <2>3. [BlankSnapshot(d.hubs[h]) EXCEPT !.channels = cs] =
           [owner |-> o, name |-> n, seed |-> s, channels |-> cs, roles |-> EmptyMap]
    BY SMT, <2>1
  <2>4. [[owner |-> o, name |-> n, seed |-> s, channels |-> cs, roles |-> EmptyMap] EXCEPT !.roles = rs] =
           [owner |-> o, name |-> n, seed |-> s, channels |-> cs, roles |-> rs]
    BY SMT
  <2>. QED BY <2>2, <2>3, <2>4 DEF cs, rs
<1>2. \A r : BlankSnapshot(BlankSnapshot(r)) = BlankSnapshot(r)
  BY DEF BlankSnapshot
<1>3. BlankSnapshot(SnapshotIn(d, h)) = BlankSnapshot(d.hubs[h])
  BY DEF BlankSnapshot, SnapshotIn
<1>4. ASSUME NEW cs
      PROVE  [SnapshotIn(d, h) EXCEPT !.channels = cs] =
                 [owner |-> d.hubs[h].owner, name |-> d.hubs[h].name, seed |-> d.hubs[h].seed,
                  channels |-> cs, roles |-> RolesIn(d, h)]
  BY SMT DEF SnapshotIn
<1>. QED BY <1>1, <1>2, <1>3, <1>4

\* What loadSnapshot returns is exact.
LEMMA BackHolds ==
    ASSUME NEW f, NEW g, NEW d, NEW s, NEW fd, Back(g, f, s, fd), f.ret \in LoadRets,
           \/ f.ret = "topology"
           \/ s = NoSnapshot /\ f.hub \notin DOMAIN d.hubs
           \/ s # NoSnapshot /\ f.hub \in DOMAIN d.hubs /\ s = SnapshotIn(d, f.hub)
    PROVE  HoldsNow(g, d) /\ g.pc \notin DirtyPcs \cup OpPcs
<1>1. g.pc = f.ret /\ g.hub = f.hub /\ g.snap = s /\ DOMAIN g.rows = {}
  BY DEF Back, EmptyMap
<1>2. LoadRets \cap (DirtyPcs \cup OpPcs \cup Reading \cup {"keep_rows"}) = {}
  BY DEF LoadRets, DirtyPcs, OpPcs, Reading, Putting
<1>3. g.pc \notin DirtyPcs \cup OpPcs \cup Reading \cup {"keep_rows"}
  BY <1>1, <1>2
<1>. QED BY <1>1, <1>3 DEF HoldsNow, Reading, Putting, DirtyPcs

\* What the statements read is exact.
LEMMA ReadsExact ==
    ASSUME HubsInv, NEW w \in DOMAIN worker, Exact(worker[w], hubCache, channelCache, db),
           \/ LoadSnapshot(w) \/ GetHub(w) \/ GetChannels(w) \/ GetRoles(w) \/ GetChannelRows(w)
           \/ GetUserHubs(w) \/ WarmSnapshots(w)
    PROVE  Exact(worker'[w], hubCache', channelCache', db')
<1>. DEFINE f == worker[w]
            N == worker'[w]
<1>1. /\ UNCHANGED <<db, hubCache, channelCache>>
      /\ f.pc \in {"load", "get_hub", "get_channels", "get_roles", "get_rows", "user_hubs", "warm"}
  BY DEF LoadSnapshot, GetHub, GetChannels, GetRoles, GetChannelRows, GetUserHubs, WarmSnapshots, At, tables, caches
<1>2. AllExact(hubCache, channelCache, db) /\ f.pc # "idle" /\ OpFits(f) /\ HoldsNow(f, db)
  BY <1>1, Clean DEF Exact, DirtyPcs
<1>3. ASSUME HoldsNow(N, db), N.pc \notin DirtyPcs \cup OpPcs PROVE Exact(N, hubCache', channelCache', db')
  BY <1>1, <1>2, <1>3, Clean
<1>4. f.pc \in {"load", "get_hub"} => f.ret \in LoadRets /\ f.ret # "idle"
  BY <1>1, Active DEF FrameOK, Returns, LoadPcs, LoadRets
<1>5. ASSUME N.pc = "get_channels", DOMAIN N.rows \subseteq DOMAIN db.hubs,
             \A h \in DOMAIN N.rows : N.rows[h] = BlankSnapshot(db.hubs[h])
      PROVE  Exact(N, hubCache', channelCache', db')
  <2>1. "get_channels" \notin DirtyPcs \cup OpPcs \cup LoadRets \cup Putting
    BY DEF DirtyPcs, OpPcs, LoadRets, Putting
  <2>2. HoldsNow(N, db)
    BY <1>5, <2>1 DEF HoldsNow
  <2>. QED BY <1>3, <1>5, <2>1, <2>2
<1>6. CASE LoadSnapshot(w)
  <2>1. CASE f.hub \in DOMAIN hubCache /\ Return(w, hubCache[f.hub], EmptyMap)
    <3>1. hubCache[f.hub] # NoSnapshot
      BY <2>1, SnapshotAssumption DEF HubsInv, CachesOK, SnapOK
    <3>2. Back(N, f, hubCache[f.hub], EmptyMap) /\ f.ret \in LoadRets
      BY <1>2, <1>4, <1>6, <2>1, Moving DEF LoadSnapshot, At
    <3>3. f.hub \in DOMAIN db.hubs /\ hubCache[f.hub] = SnapshotIn(db, f.hub)
      BY <1>2, <2>1 DEF AllExact, HubExact
    <3>. QED BY <1>3, <3>1, <3>2, <3>3, BackHolds
  <2>2. CASE Proceed(w, "get_hub")
    <3>1. "get_hub" \notin AskPcs
      BY DEF AskPcs, DirtyPcs, OpPcs, HoldPcs, Reading, Putting, LoadRets
    <3>. QED BY <1>1, <1>2, <2>2, <3>1, CalmMoves, Clean
  <2>. QED BY <1>6, <2>1, <2>2 DEF LoadSnapshot
<1>7. CASE GetHub(w)
  <2>1. CASE f.hub \in DOMAIN db.hubs /\ N.pc = "get_channels" /\ N.rows = BlankSnapshots(RowsOf(db, {f.hub}))
    <3>1. DOMAIN N.rows = {f.hub} /\ \A h \in DOMAIN N.rows : N.rows[h] = BlankSnapshot(db.hubs[h])
      BY <2>1 DEF BlankSnapshots, RowsOf, Restrict
    <3>. QED BY <1>5, <2>1, <3>1
  <2>2. CASE f.hub \notin DOMAIN db.hubs /\ Back(N, f, NoSnapshot, EmptyMap)
    <3>1. f.ret \in LoadRets
      BY <1>4, <1>7 DEF GetHub, At
    <3>. QED BY <1>3, <2>2, <3>1, BackHolds
  <2>3. f.ret # "idle"
    BY <1>4, <1>7 DEF GetHub, At
  <2>. QED BY <1>2, <1>7, <2>1, <2>2, <2>3, ReadShapes DEF ReadsShape
<1>8. CASE GetChannels(w)
  <2>1. /\ N.pc = "get_roles"
        /\ N.rows = [h \in DOMAIN f.rows |-> [f.rows[h] EXCEPT !.channels = ChannelsOf(db, h)]]
        /\ N.pend = EmptyMap \/ \E cs : N.pend = ChannelRows(db, cs)
    BY <1>2, <1>8, ReadShapes DEF ReadsShape
  <2>2. DOMAIN f.rows \subseteq DOMAIN db.hubs /\ \A h \in DOMAIN f.rows : f.rows[h] = BlankSnapshot(db.hubs[h])
    BY <1>2, <1>8 DEF GetChannels, At, HoldsNow, Reading
  <2>3. \A c \in DOMAIN N.pend : ChannelExact(c, N.pend, db)
    BY <2>1 DEF ChannelExact, EmptyMap, ChannelRows, Restrict
  <2>4. "get_roles" \notin DirtyPcs \cup OpPcs \cup LoadRets \cup Putting \cup {"get_channels", "warm"}
    BY DEF DirtyPcs, OpPcs, LoadRets, Putting
  <2>5. HoldsNow(N, db)
    BY <2>1, <2>2, <2>3, <2>4 DEF HoldsNow
  <2>. QED BY <1>3, <2>1, <2>4, <2>5
<1>9. CASE GetRoles(w)
  <2>1. /\ N.pc \in Putting /\ Moved(N, f, {"pc", "rows"})
        /\ N.rows = [h \in DOMAIN f.rows |-> [f.rows[h] EXCEPT !.roles = RolesIn(db, h)]]
    BY <1>2, <1>9, ReadShapes DEF ReadsShape
  <2>2. /\ DOMAIN f.rows \subseteq DOMAIN db.hubs
        /\ \A h \in DOMAIN f.rows : f.rows[h] = [BlankSnapshot(db.hubs[h]) EXCEPT !.channels = ChannelsOf(db, h)]
        /\ \A c \in DOMAIN f.pend : ChannelExact(c, f.pend, db)
    BY <1>2, <1>9 DEF GetRoles, At, HoldsNow, Reading
  <2>3. N.pend = f.pend
    BY <2>1 DEF Moved, FrameFields
  <2>4. ASSUME NEW h \in DOMAIN f.rows PROVE N.rows[h] = SnapshotIn(db, h)
    <3>1. N.rows[h] = [[BlankSnapshot(db.hubs[h]) EXCEPT !.channels = ChannelsOf(db, h)] EXCEPT !.roles = RolesIn(db, h)]
      BY <2>1, <2>2
    <3>. QED BY <3>1, SnapshotParts
  <2>5. N.pc \notin DirtyPcs \cup OpPcs \cup LoadRets \cup {"get_channels", "warm", "get_roles"}
    BY <2>1 DEF DirtyPcs, OpPcs, LoadRets, Putting
  <2>6. HoldsNow(N, db)
    BY <2>1, <2>2, <2>3, <2>4, <2>5 DEF HoldsNow
  <2>. QED BY <1>3, <2>5, <2>6
<1>10. CASE GetChannelRows(w)
  <2>1. N.pc = "keep_rows" /\ \E cs : N.pend = ChannelRows(db, cs)
    BY <1>2, <1>10, ReadShapes DEF ReadsShape
  <2>2. \A c \in DOMAIN N.pend : ChannelExact(c, N.pend, db)
    BY <2>1 DEF ChannelExact, ChannelRows, Restrict
  <2>3. "keep_rows" \notin DirtyPcs \cup OpPcs \cup LoadRets \cup Reading \cup Putting \cup {"warm"}
    BY DEF DirtyPcs, OpPcs, LoadRets, Reading, Putting
  <2>4. HoldsNow(N, db)
    BY <2>1, <2>2, <2>3 DEF HoldsNow, Reading
  <2>. QED BY <1>3, <2>1, <2>3, <2>4
<1>11. CASE GetUserHubs(w)
  <2>1. /\ N.pc = "warm" /\ Moved(N, f, {"pc", "rows"})
        /\ N.rows = BlankSnapshots(RowsOf(db, HubsOfUser(db, f.cmd.by)))
    BY <1>2, <1>11, SyncShapes DEF SyncsShape
  <2>2. N.cmd = f.cmd /\ f.cmd.op = "sync"
    BY <1>2, <1>11, <2>1 DEF GetUserHubs, At, OpFits, Moved, FrameFields
  <2>3. DOMAIN N.rows \subseteq DOMAIN db.hubs /\ \A h \in DOMAIN N.rows : N.rows[h] = BlankSnapshot(db.hubs[h])
    BY <2>1 DEF BlankSnapshots, RowsOf, Restrict
  <2>4. "warm" \notin DirtyPcs \cup OpPcs \cup Putting
    BY DEF DirtyPcs, OpPcs, Putting
  <2>5. HoldsNow(N, db)
    BY <2>1, <2>2, <2>3, <2>4 DEF HoldsNow
  <2>. QED BY <1>3, <2>1, <2>4, <2>5
<1>12. CASE WarmSnapshots(w)
  <2>1. CASE N.pc = "topology"
    <3>1. "topology" \notin AskPcs
      BY DEF AskPcs, DirtyPcs, OpPcs, HoldPcs, Reading, Putting, LoadRets
    <3>. QED BY <1>1, <1>2, <2>1, <3>1, Clean
  <2>2. CASE N.pc = "get_channels" /\ N.rows = BlankSnapshots(WarmRows(f))
    <3>1. f.pc = "warm"
      BY <1>12 DEF WarmSnapshots, At
    <3>2. CASE f.cmd.op = "sync"
      <4>1. DOMAIN f.rows \subseteq DOMAIN db.hubs /\ \A h \in DOMAIN f.rows : f.rows[h] = BlankSnapshot(db.hubs[h])
        BY <1>2, <3>1, <3>2 DEF HoldsNow
      <4>2. N.rows = [h \in DOMAIN f.rows |-> BlankSnapshot(f.rows[h])]
        BY <2>2, <3>2 DEF WarmRows, BlankSnapshots
      <4>3. ASSUME NEW h \in DOMAIN f.rows PROVE N.rows[h] = BlankSnapshot(db.hubs[h])
        <5>1. N.rows[h] = BlankSnapshot(BlankSnapshot(db.hubs[h]))
          BY <4>1, <4>2
        <5>. QED BY <5>1, SnapshotParts
      <4>. QED BY <1>5, <2>2, <4>1, <4>2, <4>3
    <3>3. CASE f.cmd.op # "sync" /\ f.snap = NoSnapshot
      <4>1. DOMAIN N.rows = {}
        BY <2>2, <3>3 DEF WarmRows, BlankSnapshots, EmptyMap
      <4>. QED BY <1>5, <2>2, <4>1
    <3>4. CASE f.cmd.op # "sync" /\ f.snap # NoSnapshot
      <4>1. f.hub \in DOMAIN db.hubs /\ f.snap = SnapshotIn(db, f.hub)
        BY <1>2, <3>1, <3>4 DEF HoldsNow, LoadRets
      <4>2. DOMAIN N.rows = {f.hub} /\ N.rows[f.hub] = BlankSnapshot(f.snap)
        BY <2>2, <3>4 DEF WarmRows, BlankSnapshots, Put, EmptyMap
      <4>3. N.rows[f.hub] = BlankSnapshot(db.hubs[f.hub])
        <5>1. N.rows[f.hub] = BlankSnapshot(SnapshotIn(db, f.hub))
          BY <4>1, <4>2
        <5>. QED BY <5>1, SnapshotParts
      <4>. QED BY <1>5, <2>2, <4>1, <4>2, <4>3
    <3>. QED BY <3>2, <3>3, <3>4
  <2>. QED BY <1>2, <1>12, <2>1, <2>2, SyncShapes DEF SyncsShape
<1>. QED BY <1>6, <1>7, <1>8, <1>9, <1>10, <1>11, <1>12

\* What is put into the caches is exact, and what the tables no longer hold is dropped.
LEMMA PutsExact ==
    ASSUME HubsInv, NEW w \in DOMAIN worker, Exact(worker[w], hubCache, channelCache, db),
           PutChannels(w) \/ PutSnapshots(w) \/ KeepChannelRows(w) \/ InvalidateHub(w) \/ InvalidateChannels(w)
    PROVE  Exact(worker'[w], hubCache', channelCache', db')
<1>. DEFINE f == worker[w]
            N == worker'[w]
<1>1. UNCHANGED db /\ f.pc \in {"put_channels", "put_snapshots", "keep_rows", "invalidate", "invalidate_channels"}
  BY DEF PutChannels, PutSnapshots, KeepChannelRows, InvalidateHub, InvalidateChannels, At, tables
<1>2. f.pc # "idle" /\ CachesFit(f, hubCache, channelCache, db) /\ OpFits(f) /\ HoldsNow(f, db)
  BY <1>1 DEF Exact
<1>3. CASE PutChannels(w)
  <2>1. f.pc = "put_channels" /\ UNCHANGED hubCache /\ channelCache' = PutAll(channelCache, f.pend)
    BY <1>3 DEF PutChannels, At
  <2>2. Proceeds(N, f, "put_snapshots")
    BY <1>2, <1>3, Moving DEF PutChannels
  <2>3. AllExact(hubCache, channelCache, db)
    BY <1>2, <2>1, Clean DEF DirtyPcs
  <2>4. \A c \in DOMAIN f.pend : ChannelExact(c, f.pend, db)
    BY <1>2, <2>1 DEF HoldsNow
  <2>5. DOMAIN f.rows \subseteq DOMAIN db.hubs /\ \A h \in DOMAIN f.rows : f.rows[h] = SnapshotIn(db, h)
    BY <1>2, <2>1 DEF HoldsNow, Reading, Putting
  <2>6. AllExact(hubCache', channelCache', db)
    BY <2>1, <2>3, <2>4 DEF AllExact, ChannelExact, PutAll
  <2>7. "put_snapshots" \notin DirtyPcs \cup OpPcs \cup LoadRets \cup {"get_channels", "get_roles", "keep_rows"}
    BY DEF DirtyPcs, OpPcs, LoadRets
  <2>8. N.pc = "put_snapshots" /\ N.rows = f.rows
    BY <2>2 DEF Proceeds, Kept
  <2>9. HoldsNow(N, db)
    BY <2>5, <2>7, <2>8 DEF HoldsNow, DirtyPcs, LoadRets
  <2>. QED BY <1>1, <2>6, <2>7, <2>8, <2>9, Clean
<1>4. CASE PutSnapshots(w)
  <2>1. f.pc = "put_snapshots" /\ UNCHANGED channelCache /\ hubCache' = PutAll(hubCache, f.rows)
    BY <1>4 DEF PutSnapshots, At
  <2>2. f.ret \in LoadRets /\ f.ret # "idle"
    BY <1>2, <2>1, Active DEF FrameOK, Returns, LoadPcs, LoadRets, Reading, Putting
  <2>3. Back(N, f, IF f.hub \in DOMAIN f.rows THEN f.rows[f.hub] ELSE NoSnapshot, EmptyMap)
    BY <1>2, <1>4, <2>2, Moving DEF PutSnapshots
  <2>4. AllExact(hubCache, channelCache, db)
    BY <1>2, <2>1, Clean DEF DirtyPcs
  <2>5. DOMAIN f.rows \subseteq DOMAIN db.hubs /\ \A h \in DOMAIN f.rows : f.rows[h] = SnapshotIn(db, h)
    BY <1>2, <2>1 DEF HoldsNow, Reading, Putting
  <2>6. AllExact(hubCache', channelCache', db)
    BY <2>1, <2>4, <2>5 DEF AllExact, HubExact, PutAll
  <2>7. f.ret # "topology" => f.hub \in DOMAIN f.rows /\ f.rows[f.hub] # NoSnapshot
    BY <1>2, <2>1, Active, SnapshotAssumption DEF FrameOK, RowsOK, Reading, Putting
  <2>8. CASE f.hub \in DOMAIN f.rows /\ f.rows[f.hub] # NoSnapshot
    <3>1. Back(N, f, f.rows[f.hub], EmptyMap)
      BY <2>3, <2>8
    <3>2. HoldsNow(N, db) /\ N.pc \notin DirtyPcs \cup OpPcs
      BY <2>2, <2>5, <2>8, <3>1, BackHolds
    <3>. QED BY <1>1, <2>6, <3>2, Clean
  <2>9. CASE f.ret = "topology"
    <3>1. N.pc = "topology"
      BY <2>3, <2>9 DEF Back
    <3>2. "topology" \notin AskPcs
      BY DEF AskPcs, DirtyPcs, OpPcs, HoldPcs, Reading, Putting, LoadRets
    <3>. QED BY <1>1, <2>6, <3>1, <3>2, Clean
  <2>. QED BY <2>7, <2>8, <2>9
<1>5. CASE KeepChannelRows(w)
  <2>1. f.pc = "keep_rows" /\ UNCHANGED hubCache /\ channelCache' = PutAll(channelCache, f.pend)
    BY <1>5 DEF KeepChannelRows, At
  <2>2. N.pc \notin AskPcs
    BY <1>2, <1>5, <2>1, CalmMoves DEF KeepChannelRows, LookPcs
  <2>3. AllExact(hubCache, channelCache, db)
    BY <1>2, <2>1, Clean DEF DirtyPcs
  <2>4. \A c \in DOMAIN f.pend : ChannelExact(c, f.pend, db)
    BY <1>2, <2>1 DEF HoldsNow
  <2>5. AllExact(hubCache', channelCache', db)
    BY <2>1, <2>3, <2>4 DEF AllExact, ChannelExact, PutAll
  <2>. QED BY <1>1, <2>2, <2>5, Clean
<1>6. CASE InvalidateHub(w)
  <2>1. f.pc = "invalidate" /\ UNCHANGED channelCache /\ hubCache' = Erase(hubCache, f.hub) /\ Proceed(w, f.ret)
    BY <1>6 DEF InvalidateHub, At
  <2>2. f.ret \in HubRets
    BY <1>2, <2>1, Active DEF FrameOK, Returns
  <2>3. \A h \in DOMAIN hubCache' : HubExact(h, hubCache', db)
    BY <1>2, <2>1 DEF CachesFit, HubDirty, HubExact, Erase, Restrict
  <2>4. \A c \in DOMAIN channelCache : (f.ret = "invalidate_channels" /\ c \in f.ids) \/ ChannelExact(c, channelCache, db)
    BY <1>2, <2>1 DEF CachesFit, ChannelDirty
  <2>5. CASE f.ret = "invalidate_channels"
    <3>1. N.pc = "invalidate_channels" /\ N.ids = f.ids
      BY <1>2, <2>1, <2>5, Moving DEF Proceeds, Rest
    <3>2. CachesFit(N, hubCache', channelCache', db)
      BY <2>1, <2>3, <2>4, <3>1 DEF CachesFit, ChannelDirty
    <3>3. OpFits(N) /\ EditFits(N, hubCache', channelCache', db)
      BY <3>1 DEF OpFits, EditFits
    <3>4. HoldsNow(N, db)
      BY <3>1 DEF HoldsNow, Reading, Putting, LoadRets
    <3>. QED BY <1>1, <3>2, <3>3, <3>4 DEF Exact
  <2>6. CASE f.ret = "count_channels"
    <3>1. N.pc = "count_channels" /\ N.cmd = f.cmd
      BY <1>2, <2>1, <2>6, Moving DEF Proceeds, Kept
    <3>2. AllExact(hubCache', channelCache', db)
      BY <2>1, <2>3, <2>4, <2>6 DEF AllExact
    <3>3. OpFits(N) /\ EditFits(N, hubCache', channelCache', db)
      BY <1>2, <2>1, <2>6, <3>1 DEF OpFits, EditFits
    <3>4. HoldsNow(N, db)
      BY <3>1 DEF HoldsNow, Reading, Putting, LoadRets
    <3>. QED BY <1>1, <3>2, <3>3, <3>4, Clean DEF Exact
  <2>7. CASE f.ret \in {"revoke", "cut", "subscribe", "idle", "seed_hub"}
    <3>1. f.ret \notin AskPcs
      BY <2>7 DEF AskPcs, DirtyPcs, OpPcs, HoldPcs, Reading, Putting, LoadRets
    <3>2. N.pc \notin AskPcs
      <4>1. CASE f.ret = "idle"
        <5>1. [f EXCEPT !.pc = f.ret].pc = "idle"
          BY <1>2, <4>1, Active DEF IsRecord, FrameFields
        <5>2. worker'[w] = Idle
          BY <2>1, <5>1, Arrives DEF Proceed
        <5>. QED BY <1>2, <5>2, CalmMoves
      <4>. QED BY <1>2, <2>1, <3>1, <4>1, CalmMoves
    <3>3. AllExact(hubCache', channelCache', db)
      BY <2>1, <2>3, <2>4, <2>7 DEF AllExact
    <3>. QED BY <1>1, <3>2, <3>3, Clean
  <2>. QED BY <2>2, <2>5, <2>6, <2>7 DEF HubRets
<1>7. CASE InvalidateChannels(w)
  <2>1. /\ f.pc = "invalidate_channels" /\ UNCHANGED hubCache /\ Proceed(w, "revoke")
        /\ channelCache' = Restrict(channelCache, DOMAIN channelCache \ f.ids)
    BY <1>7 DEF InvalidateChannels, At
  <2>2. AllExact(hubCache', channelCache', db)
    BY <1>2, <2>1 DEF AllExact, CachesFit, HubDirty, ChannelDirty, ChannelExact, Restrict
  <2>3. "revoke" \notin AskPcs
    BY DEF AskPcs, DirtyPcs, OpPcs, HoldPcs, Reading, Putting, LoadRets
  <2>4. N.pc \notin AskPcs
    BY <1>2, <2>1, <2>3, CalmMoves
  <2>. QED BY <1>1, <2>2, <2>4, Clean
<1>. QED BY <1>3, <1>4, <1>5, <1>6, <1>7

\* The copies that are edited and put back are exact.
LEMMA EditsExact ==
    ASSUME HubsInv, NEW w \in DOMAIN worker, Exact(worker[w], hubCache, channelCache, db),
           CacheChannel(w) \/ CopySnapshot(w) \/ PutCopy(w) \/ CopyChannel(w) \/ PutChannel(w)
    PROVE  Exact(worker'[w], hubCache', channelCache', db')
<1>. DEFINE f == worker[w]
            N == worker'[w]
<1>1. UNCHANGED db /\ f.pc \in EditPcs /\ f.pc # "idle"
  BY DEF CacheChannel, CopySnapshot, PutCopy, CopyChannel, PutChannel, At, tables, EditPcs
<1>2. CachesFit(f, hubCache, channelCache, db) /\ EditFits(f, hubCache, channelCache, db) /\ HoldsNow(f, db)
  BY <1>1 DEF Exact
<1>3. ASSUME N.pc \in {"copy_snapshot", "put_copy", "put_channel"}, CachesFit(N, hubCache', channelCache', db),
             EditFits(N, hubCache', channelCache', db),
             N.pc = "put_channel" => \A c \in DOMAIN N.pend : ChannelExact(c, N.pend, db)
      PROVE  Exact(N, hubCache', channelCache', db')
  <2>1. OpFits(N)
    BY <1>3 DEF OpFits
  <2>2. N.pc \notin Reading \cup Putting \cup LoadRets \cup {"cache_channel", "keep_rows", "warm"}
    BY <1>3 DEF Reading, Putting, LoadRets
  <2>3. HoldsNow(N, db)
    BY <1>3, <2>2 DEF HoldsNow, Reading, Putting
  <2>. QED BY <1>1, <1>3, <2>1, <2>3 DEF Exact
<1>4. ASSUME AllExact(hubCache', channelCache', db), NEW s, NEW fd, Return(w, s, fd)
      PROVE  Exact(N, hubCache', channelCache', db')
  BY <1>1, <1>4, CalmMoves, Clean
<1>5. CASE CacheChannel(w)
  <2>1. /\ f.pc = "cache_channel" /\ UNCHANGED hubCache
        /\ channelCache' = IF f.cmd.op = "remove_channel" THEN Erase(channelCache, f.cmd.ch) ELSE PutAll(channelCache, f.pend)
    BY <1>5 DEF CacheChannel, At
  <2>2. N.pc = "copy_snapshot" /\ N.hub = f.hub /\ N.cmd = f.cmd /\ N.pend = f.pend
    BY <1>1, <1>5, Moving DEF CacheChannel, Proceeds, Kept
  <2>3. \A h \in DOMAIN hubCache : h = f.hub \/ HubExact(h, hubCache, db)
    BY <1>2, <2>1 DEF CachesFit, HubDirty
  <2>6. \A c \in DOMAIN channelCache' : ChannelExact(c, channelCache', db)
    <3>1. CASE f.cmd.op = "remove_channel"
      <4>1. channelCache' = Erase(channelCache, f.cmd.ch)
        BY <2>1, <3>1
      <4>. QED BY <1>2, <2>1, <4>1 DEF CachesFit, ChannelDirty, ChannelExact, Erase, Restrict
    <3>2. CASE f.cmd.op # "remove_channel"
      <4>1. channelCache' = PutAll(channelCache, f.pend) /\ \A c \in DOMAIN f.pend : ChannelExact(c, f.pend, db)
        BY <1>2, <2>1, <3>2 DEF HoldsNow
      <4>2. \A c \in DOMAIN channelCache : ChannelExact(c, channelCache, db)
        BY <1>2, <2>1, <3>2 DEF CachesFit, ChannelDirty
      <4>. QED BY <4>1, <4>2 DEF ChannelExact, PutAll
    <3>. QED BY <3>1, <3>2
  <2>7. CachesFit(N, hubCache', channelCache', db)
    BY <2>1, <2>2, <2>3, <2>6 DEF CachesFit, HubDirty
  <2>8. EditFits(N, hubCache', channelCache', db)
    BY <1>2, <2>1, <2>2 DEF EditFits
  <2>. QED BY <1>3, <2>2, <2>7, <2>8
<1>6. CASE CopySnapshot(w)
  <2>1. f.pc = "copy_snapshot" /\ UNCHANGED <<hubCache, channelCache>>
    BY <1>6 DEF CopySnapshot, At, caches
  <2>2. /\ \A h \in DOMAIN hubCache : h = f.hub \/ HubExact(h, hubCache, db)
        /\ \A c \in DOMAIN channelCache : ChannelExact(c, channelCache, db)
    BY <1>2, <2>1 DEF CachesFit, HubDirty, ChannelDirty
  <2>3. CASE f.hub \notin DOMAIN hubCache
    <3>1. AllExact(hubCache', channelCache', db)
      BY <2>1, <2>2, <2>3 DEF AllExact
    <3>. QED BY <1>4, <1>6, <2>3, <3>1 DEF CopySnapshot
  <2>4. CASE f.hub \in DOMAIN hubCache
    <3>1. /\ Moved(N, f, {"pc", "snap"}) /\ N.pc = "put_copy"
          /\ N.snap = [hubCache[f.hub] EXCEPT !.channels =
                          IF f.cmd.op = "remove_channel" THEN @ \ {f.cmd.ch} ELSE @ \cup DOMAIN f.pend]
      BY <1>1, <1>6, <2>4, EditShapes DEF EditsShape
    <3>2. N.hub = f.hub
      BY <3>1 DEF Moved, FrameFields
    <3>3. CachesFit(N, hubCache', channelCache', db)
      BY <2>1, <2>2, <3>1, <3>2 DEF CachesFit, HubDirty
    <3>4. f.hub \in DOMAIN db.hubs /\ N.snap = SnapshotIn(db, f.hub)
      BY <1>2, <2>1, <2>4, <3>1 DEF EditFits
    <3>5. EditFits(N, hubCache', channelCache', db)
      BY <3>1, <3>2, <3>4 DEF EditFits
    <3>. QED BY <1>3, <3>1, <3>3, <3>5
  <2>. QED BY <2>3, <2>4
<1>7. CASE PutCopy(w)
  <2>1. f.pc = "put_copy" /\ UNCHANGED channelCache /\ hubCache' = Put(hubCache, f.hub, f.snap)
    BY <1>7 DEF PutCopy, At
  <2>2. /\ \A h \in DOMAIN hubCache : h = f.hub \/ HubExact(h, hubCache, db)
        /\ \A c \in DOMAIN channelCache : ChannelExact(c, channelCache, db)
    BY <1>2, <2>1 DEF CachesFit, HubDirty, ChannelDirty
  <2>3. f.hub \in DOMAIN db.hubs /\ f.snap = SnapshotIn(db, f.hub)
    BY <1>2, <2>1 DEF EditFits
  <2>4. AllExact(hubCache', channelCache', db)
    BY <2>1, <2>2, <2>3 DEF AllExact, HubExact, Put
  <2>. QED BY <1>4, <1>7, <2>4 DEF PutCopy
<1>8. CASE CopyChannel(w)
  <2>1. f.pc = "copy_channel" /\ UNCHANGED <<hubCache, channelCache>>
    BY <1>8 DEF CopyChannel, At, caches
  <2>2. /\ Moved(N, f, {"pc", "pend"}) /\ N.pc = "put_channel"
        /\ N.pend = IF f.cmd.ch \in DOMAIN channelCache
                    THEN Put(EmptyMap, f.cmd.ch, [channelCache[f.cmd.ch] EXCEPT !.name = f.cmd.name]) ELSE EmptyMap
    BY <1>1, <1>8, EditShapes DEF EditsShape
  <2>3. N.cmd = f.cmd
    BY <2>2 DEF Moved, FrameFields
  <2>4. /\ f.cmd.ch \in DOMAIN db.channels
        /\ f.cmd.ch \in DOMAIN channelCache => db.channels[f.cmd.ch] = [channelCache[f.cmd.ch] EXCEPT !.name = f.cmd.name]
    BY <1>2, <2>1 DEF EditFits
  <2>5. (N.pend = EmptyMap \/ f.cmd.ch \in DOMAIN N.pend) /\ \A c \in DOMAIN N.pend : ChannelExact(c, N.pend, db)
    <3>1. CASE f.cmd.ch \in DOMAIN channelCache
      <4>1. N.pend = Put(EmptyMap, f.cmd.ch, db.channels[f.cmd.ch])
        BY <2>2, <2>4, <3>1
      <4>2. DOMAIN N.pend = {f.cmd.ch} /\ N.pend[f.cmd.ch] = db.channels[f.cmd.ch]
        BY <4>1 DEF Put, EmptyMap
      <4>. QED BY <2>4, <4>2 DEF ChannelExact
    <3>2. CASE f.cmd.ch \notin DOMAIN channelCache
      BY <2>2, <3>2 DEF EmptyMap
    <3>. QED BY <3>1, <3>2
  <2>6. CachesFit(N, hubCache', channelCache', db)
    BY <1>2, <2>1, <2>2, <2>3 DEF CachesFit, HubDirty, ChannelDirty
  <2>7. EditFits(N, hubCache', channelCache', db)
    BY <2>2, <2>3, <2>5 DEF EditFits
  <2>. QED BY <1>3, <2>2, <2>5, <2>6, <2>7
<1>9. CASE PutChannel(w)
  <2>1. /\ f.pc = "put_channel" /\ UNCHANGED hubCache
        /\ channelCache' = IF f.pend = EmptyMap THEN Erase(channelCache, f.cmd.ch) ELSE PutAll(channelCache, f.pend)
    BY <1>9 DEF PutChannel, At
  <2>2. /\ \A h \in DOMAIN hubCache : HubExact(h, hubCache, db)
        /\ \A c \in DOMAIN channelCache : c = f.cmd.ch \/ ChannelExact(c, channelCache, db)
    BY <1>2, <2>1 DEF CachesFit, HubDirty, ChannelDirty
  <2>3. /\ f.pend = EmptyMap \/ f.cmd.ch \in DOMAIN f.pend
        /\ \A c \in DOMAIN f.pend : ChannelExact(c, f.pend, db)
    BY <1>2, <2>1 DEF EditFits, HoldsNow
  <2>4. CASE f.pend = EmptyMap
    <3>1. channelCache' = Erase(channelCache, f.cmd.ch)
      BY <2>1, <2>4
    <3>2. AllExact(hubCache', channelCache', db)
      BY <2>1, <2>2, <3>1 DEF AllExact, ChannelExact, Erase, Restrict
    <3>. QED BY <1>4, <1>9, <3>2 DEF PutChannel
  <2>5. CASE f.pend # EmptyMap
    <3>1. channelCache' = PutAll(channelCache, f.pend)
      BY <2>1, <2>5
    <3>2. AllExact(hubCache', channelCache', db)
      BY ZenonT(30), <2>1, <2>2, <2>3, <2>5, <3>1 DEF AllExact, ChannelExact, PutAll
    <3>. QED BY <1>4, <1>9, <3>2 DEF PutChannel
  <2>. QED BY <2>4, <2>5
<1>. QED BY <1>5, <1>6, <1>7, <1>8, <1>9

\* The snapshot of a hub whose rows stay.
LEMMA SameSnapshot ==
    ASSUME NEW d, NEW e, NEW h, e.hubs[h] = d.hubs[h], ChannelsOf(e, h) = ChannelsOf(d, h),
           \A u \in Users : /\ <<h, u>> \in DOMAIN e.members <=> <<h, u>> \in DOMAIN d.members
                            /\ <<h, u>> \in DOMAIN d.members => e.members[<<h, u>>] = d.members[<<h, u>>]
    PROVE  SnapshotIn(e, h) = SnapshotIn(d, h)
<1>1. MembersOf(e, h) = MembersOf(d, h)
  BY DEF MembersOf
<1>2. \A u \in MembersOf(d, h) : e.members[<<h, u>>] = d.members[<<h, u>>]
  BY DEF MembersOf
<1>3. RolesIn(e, h) = RolesIn(d, h)
  BY <1>1, <1>2 DEF RolesIn
<1>. QED BY <1>3 DEF SnapshotIn

\* All hubs but g look the same.
Apart(d, e, g) == \A h \in DOMAIN d.hubs \ {g} : h \in DOMAIN e.hubs /\ SnapshotIn(e, h) = SnapshotIn(d, h)

\* The statements about a hub's row are about one hub: a new hub,
LEMMA CreateApart ==
    ASSUME NEW d, TablesOK(d), NEW g, NEW u, NEW n, g \notin DOMAIN d.hubs
    PROVE  Apart(d, CreateHubRow(d, g, u, n), g) /\ CreateHubRow(d, g, u, n).channels = d.channels
<1>. DEFINE e   == CreateHubRow(d, g, u, n)
            row == [owner |-> u, name |-> n, seed |-> "Felix"]
<1>1. e.hubs = Put(d.hubs, g, row) /\ e.channels = d.channels /\ e.members = Put(d.members, <<g, u>>, "OWNER")
  BY DEF CreateHubRow, WithOwnerMembership, TablesOK, IsRecord
<1>. HIDE DEF e, row
<1>2. ASSUME NEW h \in DOMAIN d.hubs \ {g} PROVE h \in DOMAIN e.hubs /\ SnapshotIn(e, h) = SnapshotIn(d, h)
  <2>1. h \in DOMAIN e.hubs /\ e.hubs[h] = d.hubs[h]
    BY <1>1 DEF Put
  <2>2. \A v : <<h, v>> # <<g, u>>
    BY SMT
  <2>3. \A v \in Users : /\ <<h, v>> \in DOMAIN e.members <=> <<h, v>> \in DOMAIN d.members
                         /\ <<h, v>> \in DOMAIN d.members => e.members[<<h, v>>] = d.members[<<h, v>>]
    BY <1>1, <2>2 DEF Put
  <2>4. ChannelsOf(e, h) = ChannelsOf(d, h)
    BY <1>1 DEF ChannelsOf
  <2>. QED BY <2>1, <2>3, <2>4, SameSnapshot
<1>. QED BY <1>1, <1>2 DEF Apart, e

\* a deleted one, with its channels,
LEMMA DeleteApart ==
    ASSUME NEW d, TablesOK(d), NEW g
    PROVE  /\ Apart(d, DeleteHubRow(d, g), g)
           /\ DeleteHubRow(d, g).channels = Restrict(d.channels, DOMAIN d.channels \ ChannelsOf(d, g))
<1>. DEFINE e == DeleteHubRow(d, g)
<1>1. /\ e.hubs = Erase(d.hubs, g) /\ e.channels = Restrict(d.channels, DOMAIN d.channels \ ChannelsOf(d, g))
      /\ e.members = Restrict(d.members, {p \in DOMAIN d.members : p[1] # g})
  BY DEF DeleteHubRow, TablesOK, IsRecord
<1>. HIDE DEF e
<1>2. ASSUME NEW h \in DOMAIN d.hubs \ {g} PROVE h \in DOMAIN e.hubs /\ SnapshotIn(e, h) = SnapshotIn(d, h)
  <2>1. h \in DOMAIN e.hubs /\ e.hubs[h] = d.hubs[h]
    BY <1>1 DEF Erase, Restrict
  <2>2. \A v : <<h, v>>[1] # g
    BY SMT
  <2>3. \A v \in Users : /\ <<h, v>> \in DOMAIN e.members <=> <<h, v>> \in DOMAIN d.members
                         /\ <<h, v>> \in DOMAIN d.members => e.members[<<h, v>>] = d.members[<<h, v>>]
    BY <1>1, <2>2 DEF Restrict
  <2>4. ChannelsOf(e, h) = ChannelsOf(d, h)
    BY <1>1 DEF ChannelsOf, Restrict
  <2>. QED BY <2>1, <2>3, <2>4, SameSnapshot
<1>. QED BY <1>1, <1>2 DEF Apart, e

\* and one whose name or seed changes.
LEMMA HubRowApart ==
    ASSUME NEW d, TablesOK(d), NEW g, NEW n
    PROVE  /\ Apart(d, RenameHubRow(d, g, n), g) /\ RenameHubRow(d, g, n).channels = d.channels
           /\ Apart(d, UpdateHubSeedRow(d, g, n), g) /\ UpdateHubSeedRow(d, g, n).channels = d.channels
<1>1. ASSUME NEW e, NEW row, e = [d EXCEPT !.hubs = [d.hubs EXCEPT ![g] = row]]
      PROVE  Apart(d, e, g) /\ e.channels = d.channels
  <2>1. e.hubs = [d.hubs EXCEPT ![g] = row] /\ e.channels = d.channels /\ e.members = d.members
    BY <1>1 DEF TablesOK, IsRecord
  <2>2. ASSUME NEW h \in DOMAIN d.hubs \ {g} PROVE h \in DOMAIN e.hubs /\ SnapshotIn(e, h) = SnapshotIn(d, h)
    <3>1. h \in DOMAIN e.hubs /\ e.hubs[h] = d.hubs[h] /\ ChannelsOf(e, h) = ChannelsOf(d, h)
      BY <2>1 DEF ChannelsOf
    <3>. QED BY <2>1, <3>1, SameSnapshot
  <2>. QED BY <2>1, <2>2 DEF Apart
<1>2. /\ RenameHubRow(d, g, n) = [d EXCEPT !.hubs = [d.hubs EXCEPT ![g] = [d.hubs[g] EXCEPT !.name = n]]]
      /\ UpdateHubSeedRow(d, g, n) = [d EXCEPT !.hubs = [d.hubs EXCEPT ![g] = [d.hubs[g] EXCEPT !.seed = n]]]
  BY DEF RenameHubRow, UpdateHubSeedRow
<1>. QED BY <1>1, <1>2

\* So are the statements about its members.
LEMMA RowsApart ==
    ASSUME NEW d, TablesOK(d), NEW g
    PROVE  /\ \A u, r : Apart(d, AddMemberRow(d, g, u, r), g) /\ AddMemberRow(d, g, u, r).channels = d.channels
           /\ \A u : Apart(d, RemoveMemberRow(d, g, u), g) /\ RemoveMemberRow(d, g, u).channels = d.channels
<1>1. ASSUME NEW e, e.hubs = d.hubs, e.channels = d.channels, NEW u, NEW r,
             e.members = Put(d.members, <<g, u>>, r) \/ e.members = Erase(d.members, <<g, u>>)
      PROVE  Apart(d, e, g)
  <2>1. ASSUME NEW h \in DOMAIN d.hubs \ {g} PROVE h \in DOMAIN e.hubs /\ SnapshotIn(e, h) = SnapshotIn(d, h)
    <3>1. \A v : <<h, v>> # <<g, u>>
      BY SMT
    <3>2. \A v \in Users : /\ <<h, v>> \in DOMAIN e.members <=> <<h, v>> \in DOMAIN d.members
                           /\ <<h, v>> \in DOMAIN d.members => e.members[<<h, v>>] = d.members[<<h, v>>]
      BY ZenonT(30), <1>1, <3>1 DEF Put, Erase, Restrict
    <3>3. ChannelsOf(e, h) = ChannelsOf(d, h)
      BY <1>1 DEF ChannelsOf
    <3>. QED BY <1>1, <3>2, <3>3, SameSnapshot
  <2>. QED BY <2>1 DEF Apart
<1>2. ASSUME NEW u, NEW r PROVE Apart(d, AddMemberRow(d, g, u, r), g) /\ AddMemberRow(d, g, u, r).channels = d.channels
  <2>. DEFINE e == AddMemberRow(d, g, u, r)
  <2>1. e.hubs = d.hubs /\ e.channels = d.channels /\ e.members = Put(d.members, <<g, u>>, r)
    BY DEF AddMemberRow, TablesOK, IsRecord
  <2>. HIDE DEF e
  <2>2. Apart(d, e, g)
    BY <1>1, <2>1
  <2>. QED BY <2>1, <2>2 DEF e
<1>3. ASSUME NEW u PROVE Apart(d, RemoveMemberRow(d, g, u), g) /\ RemoveMemberRow(d, g, u).channels = d.channels
  <2>. DEFINE e == RemoveMemberRow(d, g, u)
  <2>1. e.hubs = d.hubs /\ e.channels = d.channels /\ e.members = Erase(d.members, <<g, u>>)
    BY DEF RemoveMemberRow, TablesOK, IsRecord
  <2>. HIDE DEF e
  <2>2. Apart(d, e, g)
    BY <1>1, <2>1
  <2>. QED BY <2>1, <2>2 DEF e
<1>. QED BY <1>2, <1>3

\* A statement about a hub is followed by the invalidation of what it makes old.
LEMMA HubWritesExact ==
    ASSUME HubsInv, losses \in Nat, losses' = losses, NEW w \in DOMAIN worker,
           Exact(worker[w], hubCache, channelCache, db),
           CreateHub(w) \/ DeleteHub(w) \/ RenameHub(w) \/ UpdateHubAvatarSeed(w) \/ RemoveMember(w) \/ AddMember(w)
    PROVE  Exact(worker'[w], hubCache', channelCache', db')
<1>. DEFINE f == worker[w]
            N == worker'[w]
<1>1. f.pc \in {"insert_hub", "service_ids", "rename_hub", "seed_hub", "remove_member", "add_member"} /\ f.pc # "idle"
  BY DEF CreateHub, DeleteHub, RenameHub, UpdateHubAvatarSeed, RemoveMember, AddMember, At
<1>2. AllExact(hubCache, channelCache, db) /\ OpFits(f) /\ HoldsNow(f, db) /\ TablesOK(db)
  BY <1>1, Clean DEF Exact, DirtyPcs, HubsInv
<1>3. UNCHANGED <<hubCache, channelCache>>
  BY <1>1, HubWriteShapes DEF HubWritesShape
<1>4. CASE N = Idle /\ UNCHANGED db
  BY <1>1, <1>2, <1>3, <1>4, CalmMoves, Clean
<1>5. ASSUME N.pc = "invalidate", Apart(db, db', N.hub), N.ret = "count_channels" => N.cmd.op = "create_hub",
             \A c \in DOMAIN channelCache : (N.ret = "invalidate_channels" /\ c \in N.ids) \/ ChannelExact(c, channelCache, db')
      PROVE  Exact(N, hubCache', channelCache', db')
  <2>1. \A h \in DOMAIN hubCache : h = N.hub \/ HubExact(h, hubCache, db')
    BY <1>2, <1>5 DEF AllExact, HubExact, Apart
  <2>2. CachesFit(N, hubCache, channelCache, db')
    BY <1>5, <2>1 DEF CachesFit, HubDirty, ChannelDirty
  <2>3. OpFits(N) /\ EditFits(N, hubCache, channelCache, db')
    BY <1>5 DEF OpFits, EditFits
  <2>4. HoldsNow(N, db')
    BY <1>5 DEF HoldsNow, Reading, Putting, LoadRets
  <2>. QED BY <1>3, <2>2, <2>3, <2>4 DEF Exact
<1>6. ASSUME N.pc = "invalidate", Apart(db, db', N.hub), db'.channels = db.channels,
             N.ret = "count_channels" => N.cmd.op = "create_hub"
      PROVE  Exact(N, hubCache', channelCache', db')
  <2>1. \A c \in DOMAIN channelCache : ChannelExact(c, channelCache, db')
    BY <1>2, <1>6 DEF AllExact, ChannelExact
  <2>. QED BY <1>5, <1>6, <2>1
<1>7. CASE CreateHub(w)
  <2>1. ASSUME Moved(N, f, {"pc", "ret", "hub"}), N.pc = "invalidate", NEW h \in Hubs \ db.issued,
               db' = CreateHubRow(db, h, f.cmd.by, f.cmd.name), N.hub = h
        PROVE  Exact(N, hubCache', channelCache', db')
    <3>1. N.cmd.op = "create_hub"
      BY <1>2, <1>7, <2>1 DEF CreateHub, At, OpFits, Moved, FrameFields
    <3>2. h \notin DOMAIN db.hubs
      BY <1>2 DEF TablesOK
    <3>3. Apart(db, db', N.hub) /\ db'.channels = db.channels
      <4>. DEFINE e == CreateHubRow(db, h, f.cmd.by, f.cmd.name)
      <4>1. Apart(db, e, h) /\ e.channels = db.channels
        BY SMT, <1>2, <3>2, CreateApart
      <4>. HIDE DEF e
      <4>. QED BY <2>1, <4>1 DEF e
    <3>. QED BY <1>6, <2>1, <3>1, <3>3
  <2>. QED BY <1>1, <1>4, <1>7, <2>1, HubWriteShapes DEF HubWritesShape
<1>8. CASE DeleteHub(w)
  <2>1. ASSUME DeletesHub(db, f.hub, f.cmd.by), db' = DeleteHubRow(db, f.hub), Moved(N, f, {"pc", "ret", "ids"}),
               N.pc = "invalidate", N.ret = "invalidate_channels", N.ids = ChannelsIn(f.snap)
        PROVE  Exact(N, hubCache', channelCache', db')
    <3>1. N.hub = f.hub
      BY <2>1 DEF Moved, FrameFields
    <3>2. /\ Apart(db, db', N.hub)
          /\ db'.channels = Restrict(db.channels, DOMAIN db.channels \ ChannelsOf(db, f.hub))
      BY <1>2, <2>1, <3>1, DeleteApart
    <3>3. f.snap # NoSnapshot /\ f.snap = SnapshotIn(db, f.hub)
      BY <1>2, <1>8, <2>1 DEF DeleteHub, At, HoldsNow, LoadRets, DeletesHub
    <3>4. N.ids = ChannelsOf(db, f.hub)
      <4>1. SnapshotIn(db, f.hub).channels = ChannelsOf(db, f.hub)
        BY DEF SnapshotIn
      <4>. QED BY <2>1, <3>3, <4>1 DEF ChannelsIn
    <3>5. \A c \in DOMAIN channelCache : c \in N.ids \/ ChannelExact(c, channelCache, db')
      BY <1>2, <3>2, <3>4 DEF AllExact, ChannelExact, Restrict
    <3>. QED BY <1>5, <2>1, <3>2, <3>5
  <2>. QED BY <1>1, <1>4, <1>8, <2>1, HubWriteShapes DEF HubWritesShape
<1>9. CASE RenameHub(w) \/ UpdateHubAvatarSeed(w)
  <2>1. ASSUME \/ db' = RenameHubRow(db, f.hub, f.cmd.name)
               \/ db' = UpdateHubSeedRow(db, f.hub, f.cmd.seed),
               Moved(N, f, {"pc", "ret"}), N.pc = "invalidate", N.ret \in {"seed_hub", "idle"}
        PROVE  Exact(N, hubCache', channelCache', db')
    <3>1. N.hub = f.hub
      BY <2>1 DEF Moved, FrameFields
    <3>2. Apart(db, db', N.hub) /\ db'.channels = db.channels
      <4>. DEFINE d == RenameHubRow(db, f.hub, f.cmd.name)
                  e == UpdateHubSeedRow(db, f.hub, f.cmd.seed)
      <4>1. Apart(db, d, f.hub) /\ d.channels = db.channels
        BY ZenonT(30), <1>2, HubRowApart
      <4>2. Apart(db, e, f.hub) /\ e.channels = db.channels
        BY <1>2, HubRowApart
      <4>3. db' = d \/ db' = e
        BY <2>1
      <4>. HIDE DEF d, e
      <4>. QED BY <3>1, <4>1, <4>2, <4>3
    <3>. QED BY <1>6, <2>1, <3>2
  <2>. QED BY <1>1, <1>4, <1>9, <2>1, HubWriteShapes DEF HubWritesShape
<1>10. CASE RemoveMember(w) \/ AddMember(w)
  <2>1. ASSUME \/ db' = RemoveMemberRow(db, f.hub, f.cmd.who)
               \/ db' = AddMemberRow(db, f.hub, f.cmd.who, f.cmd.role),
               Moved(N, f, {"pc", "ret"}), N.pc = "invalidate", N.ret \in {"revoke", "cut", "subscribe", "idle"}
        PROVE  Exact(N, hubCache', channelCache', db')
    <3>1. N.hub = f.hub
      BY <2>1 DEF Moved, FrameFields
    <3>2. Apart(db, db', N.hub) /\ db'.channels = db.channels
      <4>. DEFINE d == RemoveMemberRow(db, f.hub, f.cmd.who)
                  e == AddMemberRow(db, f.hub, f.cmd.who, f.cmd.role)
      <4>1. Apart(db, d, f.hub) /\ d.channels = db.channels
        BY <1>2, RowsApart
      <4>2. Apart(db, e, f.hub) /\ e.channels = db.channels
        BY SMT, <1>2, RowsApart
      <4>3. db' = d \/ db' = e
        BY <2>1
      <4>. HIDE DEF d, e
      <4>. QED BY <3>1, <4>1, <4>2, <4>3
    <3>. QED BY <1>6, <2>1, <3>2
  <2>. QED BY <1>1, <1>4, <1>10, <2>1, HubWriteShapes DEF HubWritesShape
<1>. QED BY <1>7, <1>8, <1>9, <1>10

\* A snapshot of which only the channels differ.
WithChannels(s, cs) == [s EXCEPT !.channels = cs]

\* What makes it of another one.
LEMMA EditedSnapshot ==
    ASSUME NEW d, NEW e, NEW h, e.hubs = d.hubs, e.members = d.members
    PROVE  SnapshotIn(e, h) = WithChannels(SnapshotIn(d, h), ChannelsOf(e, h))
<1>. DEFINE cs == ChannelsOf(e, h)
            rs == RolesIn(d, h)
            r  == d.hubs[h]
<1>1. RolesIn(e, h) = rs
  BY DEF RolesIn, MembersOf
<1>2. SnapshotIn(e, h) = [owner |-> r.owner, name |-> r.name, seed |-> r.seed, channels |-> cs, roles |-> rs]
  BY <1>1 DEF SnapshotIn
<1>3. WithChannels(SnapshotIn(d, h), cs) =
         [owner |-> r.owner, name |-> r.name, seed |-> r.seed, channels |-> cs, roles |-> rs]
  BY SMT DEF SnapshotIn, WithChannels
<1>. QED BY <1>2, <1>3

\* Only the channels of g differ.
OneHubsChannels(d, e, g, cs) ==
    Apart(d, e, g) /\ e.hubs = d.hubs /\ SnapshotIn(e, g) = WithChannels(SnapshotIn(d, g), cs)

\* A new channel is in the snapshot of its hub,
LEMMA NewChannelApart ==
    ASSUME NEW d, TablesOK(d), NEW g, NEW c, c \notin DOMAIN d.channels, NEW n, NEW t
    PROVE  OneHubsChannels(d, CreateChannelRow(d, c, g, n, t), g, ChannelsOf(d, g) \cup {c})
<1>. DEFINE e   == CreateChannelRow(d, c, g, n, t)
            row == [hub |-> g, name |-> n, type |-> t]
<1>1. e.hubs = d.hubs /\ e.channels = Put(d.channels, c, row) /\ e.members = d.members /\ row.hub = g
  BY DEF CreateChannelRow, TablesOK, IsRecord
<1>. HIDE DEF e, row
<1>2. \A h \in DOMAIN d.hubs \ {g} : ChannelsOf(e, h) = ChannelsOf(d, h)
  BY <1>1 DEF ChannelsOf, Put
<1>3. ChannelsOf(e, g) = ChannelsOf(d, g) \cup {c}
  BY <1>1 DEF ChannelsOf, Put
<1>4. Apart(d, e, g)
  BY <1>1, <1>2, SameSnapshot DEF Apart
<1>5. SnapshotIn(e, g) = WithChannels(SnapshotIn(d, g), ChannelsOf(e, g))
  BY SMT, <1>1, EditedSnapshot
<1>. QED BY <1>1, <1>3, <1>4, <1>5 DEF e, OneHubsChannels

\* a deleted one is not,
LEMMA GoneChannelApart ==
    ASSUME NEW d, TablesOK(d), NEW g, NEW c, c \in ChannelsOf(d, g)
    PROVE  OneHubsChannels(d, DeleteChannelRow(d, c), g, ChannelsOf(d, g) \ {c})
<1>. DEFINE e == DeleteChannelRow(d, c)
<1>1. e.hubs = d.hubs /\ e.channels = Erase(d.channels, c) /\ e.members = d.members
  BY DEF DeleteChannelRow, TablesOK, IsRecord
<1>. HIDE DEF e
<1>2. \A h \in DOMAIN d.hubs \ {g} : ChannelsOf(e, h) = ChannelsOf(d, h)
  BY <1>1 DEF ChannelsOf, Erase, Restrict
<1>3. ChannelsOf(e, g) = ChannelsOf(d, g) \ {c}
  BY <1>1 DEF ChannelsOf, Erase, Restrict
<1>4. Apart(d, e, g)
  BY <1>1, <1>2, SameSnapshot DEF Apart
<1>5. SnapshotIn(e, g) = WithChannels(SnapshotIn(d, g), ChannelsOf(e, g))
  BY SMT, <1>1, EditedSnapshot
<1>. QED BY <1>1, <1>3, <1>4, <1>5 DEF e, OneHubsChannels

\* and a snapshot does not know the names of channels.
LEMMA RenamedChannelApart ==
    ASSUME NEW d, TablesOK(d), NEW c \in DOMAIN d.channels, NEW n, NEW e, e = RenameChannelRow(d, c, n)
    PROVE  /\ \A h \in DOMAIN d.hubs : h \in DOMAIN e.hubs /\ SnapshotIn(e, h) = SnapshotIn(d, h)
           /\ e.channels = [d.channels EXCEPT ![c] = [d.channels[c] EXCEPT !.name = n]]
<1>. DEFINE row == [d.channels[c] EXCEPT !.name = n]
<1>1. e.hubs = d.hubs /\ e.members = d.members /\ e.channels = [d.channels EXCEPT ![c] = row]
  BY DEF RenameChannelRow, TablesOK, IsRecord
<1>2. row.hub = d.channels[c].hub
  <2>1. d.channels[c] \in ChannelType
    BY DEF TablesOK
  <2>. QED BY <2>1 DEF ChannelType
<1>. HIDE DEF row
<1>3. \A h : ChannelsOf(e, h) = ChannelsOf(d, h)
  BY <1>1, <1>2 DEF ChannelsOf
<1>4. ASSUME NEW h \in DOMAIN d.hubs PROVE h \in DOMAIN e.hubs /\ SnapshotIn(e, h) = SnapshotIn(d, h)
  BY SMT, <1>1, <1>3, SameSnapshot
<1>. QED BY <1>1, <1>4 DEF row

\* A statement about a channel is followed by the edit of the caches that makes them exact again.
LEMMA ChannelWritesExact ==
    ASSUME HubsInv, losses \in Nat, losses' = losses, NEW w \in DOMAIN worker,
           Exact(worker[w], hubCache, channelCache, db), InsertChannel(w) \/ RenameChannel(w) \/ RemoveChannel(w)
    PROVE  Exact(worker'[w], hubCache', channelCache', db')
<1>. DEFINE f == worker[w]
            N == worker'[w]
<1>1. f.pc \in {"insert_channel", "rename_channel", "delete_channel"} /\ f.pc # "idle"
  BY DEF InsertChannel, RenameChannel, RemoveChannel, At
<1>2. AllExact(hubCache, channelCache, db) /\ OpFits(f) /\ TablesOK(db)
  BY <1>1, Clean DEF Exact, DirtyPcs, HubsInv
<1>3. UNCHANGED <<hubCache, channelCache>>
  BY <1>1, ChannelWriteShapes DEF ChannelWritesShape
<1>4. CASE UNCHANGED db /\ (N = Idle \/ Proceeds(N, f, "subscribe"))
  <2>1. N.pc \notin AskPcs
    BY <1>1, <1>4, CalmMoves DEF Proceeds, AskPcs, DirtyPcs, OpPcs, HoldPcs, Reading, Putting, LoadRets
  <2>. QED BY <1>2, <1>3, <1>4, <2>1, Clean
<1>5. ASSUME N.pc = "cache_channel", NEW cs, OneHubsChannels(db, db', N.hub, cs),
             cs = IF N.cmd.op = "remove_channel" THEN ChannelsOf(db, N.hub) \ {N.cmd.ch} ELSE ChannelsOf(db, N.hub) \cup DOMAIN N.pend,
             \A c \in DOMAIN channelCache : (N.cmd.op = "remove_channel" /\ c = N.cmd.ch) \/ ChannelExact(c, channelCache, db'),
             N.cmd.op # "remove_channel" => \A c \in DOMAIN N.pend : ChannelExact(c, N.pend, db')
      PROVE  Exact(N, hubCache', channelCache', db')
  <2>1. \A h \in DOMAIN hubCache : h = N.hub \/ HubExact(h, hubCache, db')
    BY <1>2, <1>5 DEF AllExact, HubExact, OneHubsChannels, Apart
  <2>2. CachesFit(N, hubCache, channelCache, db')
    BY <1>5, <2>1 DEF CachesFit, HubDirty, ChannelDirty
  <2>3. ASSUME N.hub \in DOMAIN hubCache
        PROVE  /\ N.hub \in DOMAIN db'.hubs
               /\ SnapshotIn(db', N.hub) =
                     [hubCache[N.hub] EXCEPT !.channels =
                         IF N.cmd.op = "remove_channel" THEN @ \ {N.cmd.ch} ELSE @ \cup DOMAIN N.pend]
    <3>. DEFINE S == hubCache[N.hub]
    <3>1. N.hub \in DOMAIN db'.hubs /\ S = SnapshotIn(db, N.hub)
      BY <1>2, <1>5, <2>3 DEF AllExact, HubExact, OneHubsChannels
    <3>. HIDE DEF S
    <3>2. S.channels = ChannelsOf(db, N.hub)
      <4>1. SnapshotIn(db, N.hub).channels = ChannelsOf(db, N.hub)
        BY DEF SnapshotIn
      <4>. QED BY <3>1, <4>1
    <3>3. cs = IF N.cmd.op = "remove_channel" THEN S.channels \ {N.cmd.ch} ELSE S.channels \cup DOMAIN N.pend
      BY <1>5, <3>2
    <3>. QED BY <1>5, <3>1, <3>3 DEF S, WithChannels, OneHubsChannels
  <2>4. OpFits(N) /\ EditFits(N, hubCache, channelCache, db')
    BY <1>5, <2>3 DEF OpFits, EditFits
  <2>5. HoldsNow(N, db')
    BY <1>5 DEF HoldsNow, Reading, Putting, LoadRets
  <2>. QED BY <1>3, <2>2, <2>4, <2>5 DEF Exact
<1>6. CASE InsertChannel(w)
  <2>1. ASSUME f.hub \in DOMAIN db.hubs, Moved(N, f, {"pc", "ret", "pend"}), N.pc = "cache_channel", NEW c \in Channels \ db.issued,
               db' = CreateChannelRow(db, c, f.hub, NewRow(f).name, NewRow(f).type), N.pend = Put(EmptyMap, c, NewRow(f))
        PROVE  Exact(N, hubCache', channelCache', db')
    <3>1. N.hub = f.hub /\ N.cmd = f.cmd
      BY <2>1 DEF Moved, FrameFields
    <3>2. N.cmd.op # "remove_channel"
      BY <1>2, <1>6, <3>1 DEF InsertChannel, At, OpFits
    <3>3. c \notin DOMAIN db.channels
      BY <1>2, <2>1 DEF TablesOK
    <3>4. NewRow(f) = [hub |-> f.hub, name |-> NewRow(f).name, type |-> NewRow(f).type]
      BY DEF NewRow
    <3>5. OneHubsChannels(db, db', f.hub, ChannelsOf(db, f.hub) \cup {c}) /\ db'.channels = Put(db.channels, c, NewRow(f))
      <4>. DEFINE e == CreateChannelRow(db, c, f.hub, NewRow(f).name, NewRow(f).type)
      <4>1. OneHubsChannels(db, e, f.hub, ChannelsOf(db, f.hub) \cup {c})
        BY <1>2, <3>3, NewChannelApart
      <4>2. e.channels = Put(db.channels, c, [hub |-> f.hub, name |-> NewRow(f).name, type |-> NewRow(f).type])
        BY <1>2 DEF CreateChannelRow, TablesOK, IsRecord
      <4>3. db' = e
        BY <2>1
      <4>. HIDE DEF e
      <4>. QED BY <3>4, <4>1, <4>2, <4>3
    <3>6. DOMAIN N.pend = {c} /\ N.pend[c] = NewRow(f)
      BY <2>1 DEF Put, EmptyMap
    <3>7. \A x \in DOMAIN channelCache : ChannelExact(x, channelCache, db')
      BY <1>2, <3>3, <3>5 DEF AllExact, ChannelExact, Put
    <3>8. \A x \in DOMAIN N.pend : ChannelExact(x, N.pend, db')
      BY <3>5, <3>6 DEF ChannelExact, Put
    <3>. QED BY <1>5, <2>1, <3>1, <3>2, <3>5, <3>6, <3>7, <3>8
  <2>. QED BY <1>1, <1>4, <1>6, <2>1, ChannelWriteShapes DEF ChannelWritesShape
<1>7. CASE RemoveChannel(w)
  <2>1. ASSUME DeletesChannel(db, f.cmd.ch, f.hub), db' = DeleteChannelRow(db, f.cmd.ch), Moved(N, f, {"pc", "ret"}),
               N.pc = "cache_channel"
        PROVE  Exact(N, hubCache', channelCache', db')
    <3>1. N.hub = f.hub /\ N.cmd = f.cmd
      BY <2>1 DEF Moved, FrameFields
    <3>2. N.cmd.op = "remove_channel"
      BY <1>2, <1>7, <3>1 DEF RemoveChannel, At, OpFits
    <3>3. OneHubsChannels(db, db', f.hub, ChannelsOf(db, f.hub) \ {f.cmd.ch}) /\ db'.channels = Erase(db.channels, f.cmd.ch)
      <4>. DEFINE e == DeleteChannelRow(db, f.cmd.ch)
      <4>1. f.cmd.ch \in ChannelsOf(db, f.hub) /\ db' = e
        BY <2>1 DEF DeletesChannel
      <4>2. OneHubsChannels(db, e, f.hub, ChannelsOf(db, f.hub) \ {f.cmd.ch})
        BY <1>2, <4>1, GoneChannelApart
      <4>3. e.channels = Erase(db.channels, f.cmd.ch)
        BY <1>2 DEF DeleteChannelRow, TablesOK, IsRecord
      <4>. HIDE DEF e
      <4>. QED BY <4>1, <4>2, <4>3
    <3>4. \A x \in DOMAIN channelCache : x = f.cmd.ch \/ ChannelExact(x, channelCache, db')
      BY <1>2, <3>3 DEF AllExact, ChannelExact, Erase, Restrict
    <3>. QED BY <1>5, <2>1, <3>1, <3>2, <3>3, <3>4
  <2>. QED BY <1>1, <1>4, <1>7, <2>1, ChannelWriteShapes DEF ChannelWritesShape
<1>8. CASE RenameChannel(w)
  <2>1. ASSUME f.cmd.ch \in DOMAIN db.channels, db' = RenameChannelRow(db, f.cmd.ch, f.cmd.name),
               Moved(N, f, {"pc", "ret"}), N.pc = "copy_channel"
        PROVE  Exact(N, hubCache', channelCache', db')
    <3>1. N.cmd = f.cmd
      BY <2>1 DEF Moved, FrameFields
    <3>. DEFINE row == [db.channels[f.cmd.ch] EXCEPT !.name = f.cmd.name]
    <3>2. /\ \A h \in DOMAIN db.hubs : h \in DOMAIN db'.hubs /\ SnapshotIn(db', h) = SnapshotIn(db, h)
          /\ db'.channels = [db.channels EXCEPT ![f.cmd.ch] = row]
      BY SMT, <1>2, <2>1, RenamedChannelApart
    <3>3. f.cmd.ch \in DOMAIN channelCache => row = [channelCache[f.cmd.ch] EXCEPT !.name = f.cmd.name]
      BY <1>2 DEF AllExact, ChannelExact
    <3>. HIDE DEF row
    <3>4. f.cmd.ch \in DOMAIN db'.channels /\ db'.channels[f.cmd.ch] = row
      BY <2>1, <3>2
    <3>5. CachesFit(N, hubCache, channelCache, db')
      <4>1. \A h \in DOMAIN hubCache : HubExact(h, hubCache, db')
        BY <1>2, <3>2 DEF AllExact, HubExact
      <4>2. \A c \in DOMAIN channelCache : c = f.cmd.ch \/ ChannelExact(c, channelCache, db')
        BY <1>2, <3>2 DEF AllExact, ChannelExact
      <4>. QED BY <2>1, <3>1, <4>1, <4>2 DEF CachesFit, ChannelDirty
    <3>6. OpFits(N) /\ EditFits(N, hubCache, channelCache, db')
      BY <2>1, <3>1, <3>3, <3>4 DEF OpFits, EditFits
    <3>7. HoldsNow(N, db')
      BY <2>1 DEF HoldsNow, Reading, Putting, LoadRets
    <3>. QED BY <1>3, <3>5, <3>6, <3>7 DEF Exact
  <2>. QED BY <1>1, <1>4, <1>8, <2>1, ChannelWriteShapes DEF ChannelWritesShape
<1>. QED BY <1>6, <1>7, <1>8

\* Every step of the only thread keeps the caches exact.
LEMMA ExactStep ==
    ASSUME HubsInv, losses \in Nat, losses' = losses, NEW w \in DOMAIN worker,
           Exact(worker[w], hubCache, channelCache, db),
           Take(w) \/ CommandStep(w) \/ CallFails(w) \/ ServiceStep(w)
    PROVE  Exact(worker'[w], hubCache', channelCache', db')
<1>1. CASE CalmStep(w) \/ CallFails(w)
  <2>1. worker[w].pc \notin DirtyPcs /\ worker'[w].pc \notin AskPcs /\ UNCHANGED <<db, hubCache, channelCache>>
    BY <1>1, CalmSteps
  <2>. QED BY <2>1, Clean DEF Exact
<1>2. CASE Take(w) \/ CountHubs(w) \/ CountChannels(w) \/ CheckName(w) \/ AuthoriseRemove(w)
  BY <1>2, OpSteps
<1>3. CASE \/ LoadSnapshot(w) \/ GetHub(w) \/ GetChannels(w) \/ GetRoles(w) \/ GetChannelRows(w) \/ GetUserHubs(w)
           \/ WarmSnapshots(w)
  BY <1>3, ReadsExact
<1>4. CASE PutChannels(w) \/ PutSnapshots(w) \/ KeepChannelRows(w) \/ InvalidateHub(w) \/ InvalidateChannels(w)
  BY <1>4, PutsExact
<1>5. CASE CacheChannel(w) \/ CopySnapshot(w) \/ PutCopy(w) \/ CopyChannel(w) \/ PutChannel(w)
  BY <1>5, EditsExact
<1>6. CASE CreateHub(w) \/ DeleteHub(w) \/ RenameHub(w) \/ UpdateHubAvatarSeed(w) \/ RemoveMember(w) \/ AddMember(w)
  BY <1>6, HubWritesExact
<1>7. CASE InsertChannel(w) \/ RenameChannel(w) \/ RemoveChannel(w)
  BY <1>7, ChannelWritesExact
<1>. QED BY <1>1, <1>2, <1>3, <1>4, <1>5, <1>6, <1>7 DEF CommandStep, ServiceStep, CalmStep

\* A warm start has the snapshot and the channel of the first hub.
LEMMA ExactInit == HubsInit => ExactInv
<1>. SUFFICES ASSUME HubsInit PROVE ExactInv
  OBVIOUS
<1>1. PICK x \in Configs :
         /\ db = StartStore(x)
         /\ hubCache = IF x.warm THEN [h \in {x.hub} |-> SnapshotIn(db, h)] ELSE EmptyMap
         /\ channelCache = IF x.warm THEN db.channels ELSE EmptyMap
         /\ worker = [w \in 1..x.workers |-> Idle]
  BY DEF HubsInit
<1>2. x.hub \in DOMAIN db.hubs
  BY <1>1, StartOK
<1>3. \A h \in DOMAIN hubCache : HubExact(h, hubCache, db)
  <2>1. CASE hubCache = [h \in {x.hub} |-> SnapshotIn(db, h)]
    BY <1>2, <2>1 DEF HubExact
  <2>2. CASE hubCache = EmptyMap
    BY <2>2, MapFacts
  <2>. QED BY <1>1, <2>1, <2>2
<1>4. \A c \in DOMAIN channelCache : ChannelExact(c, channelCache, db)
  <2>1. CASE channelCache = db.channels
    BY <2>1 DEF ChannelExact
  <2>2. CASE channelCache = EmptyMap
    BY <2>2, MapFacts
  <2>. QED BY <1>1, <2>1, <2>2
<1>5. \A w \in DOMAIN worker : worker[w].pc = "idle"
  BY <1>1 DEF Idle
<1>6. Bounded
  BY LinkInit DEF LinkInv
<1>. QED BY <1>3, <1>4, <1>5, <1>6 DEF ExactInv, Exact, CachesFit

\* Every step keeps the caches exact, or says which entry it is about to mend.
LEMMA ExactNext == HubsInv /\ ExactInv /\ [HubsNext]_hubsVars => ExactInv'
<1>. SUFFICES ASSUME HubsInv, ExactInv, [HubsNext]_hubsVars PROVE ExactInv'
  OBVIOUS
<1>1. Bounded' /\ DOMAIN worker' = DOMAIN worker
  BY BoundedKeeps DEF ExactInv
<1>. SUFFICES ASSUME Alone', NEW v \in DOMAIN worker
              PROVE  Exact(worker'[v], hubCache', channelCache', db')
  BY <1>1 DEF ExactInv
<1>2. /\ losses \in Nat /\ losses' = losses
      /\ \A w \in DOMAIN worker : w = v /\ Exact(worker[w], hubCache, channelCache, db)
  BY BoundedKeeps DEF ExactInv
<1>3. CASE UNCHANGED hubsVars \/ InviteAges
  BY <1>2, <1>3 DEF hubsVars, serviceVars, InviteAges
<1>4. ASSUME NEW w \in DOMAIN worker, Take(w) \/ CommandStep(w) \/ CallFails(w) \/ ServiceStep(w)
      PROVE  Exact(worker'[v], hubCache', channelCache', db')
  BY <1>2, <1>4, ExactStep
<1>. QED BY <1>3, <1>4 DEF HubsNext

\* ExactInv is an invariant, whatever the commands are and whichever calls fail.
THEOREM ExactAlways == HubsSpec => []ExactInv
  BY HubsAlways, ExactInit, ExactNext, PTL DEF HubsSpec

\* The theorem for CachesExact: with one thread and no lost answer, a snapshot or
\* a channel that HubService has cached is what the tables hold whenever no command
\* runs, although each write first changes the tables and then edits or drops the
\* entry, and although any read or write on the way may fail.
THEOREM CachesAlwaysExact == HubsSpec => []CachesExact
<1>1. ExactInv => CachesExact
  <2>. SUFFICES ASSUME ExactInv, Alone, Quiet PROVE AllExact(hubCache, channelCache, db)
    BY DEF CachesExact, AllExact, HubExact, ChannelExact
  <2>1. 1 \in DOMAIN worker
    BY SMT DEF ExactInv, Bounded, Alone
  <2>2. worker[1].pc \notin DirtyPcs
    BY <2>1 DEF Quiet, At, DirtyPcs
  <2>. QED BY <2>1, <2>2, Clean DEF ExactInv, Exact
<1>. QED BY <1>1, ExactAlways, PTL

=============================================================================
