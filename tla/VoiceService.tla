----------------------------- MODULE VoiceService -----------------------------
(***************************************************************************)
(* Voice membership: app/services/voice/VoiceService.cpp with the commands *)
(* that drive it.  Four kinds of threads act on the state.                 *)
(*                                                                         *)
(*   workers       open and close sessions, resume voice, run the join     *)
(*                 command.  The join command is two steps: it reads the   *)
(*                 current owner and calls LiveKit to evict it, and only   *)
(*                 then mints the token and stages the intent.             *)
(*   webhook       handles one LiveKit webhook at a time (one step each)   *)
(*   reconciler    queries LiveKit, then decides, then acts: a step each,  *)
(*                 so that the others can move between them                *)
(*   LiveKit and the clients: connect, disconnect, deliver webhooks        *)
(*                                                                         *)
(* Clients and network are the scenario of a behaviour: it is drawn from   *)
(* the constant Scenarios at the start and says who takes part, how much   *)
(* they do, and which of the mishaps below may befall them.                *)
(***************************************************************************)
EXTENDS VoiceSessionManager, ReconcileEvidenceTracker, LiveKit

CONSTANTS Nonces,       \* 1..n: intent nonces, one per join command
          MaxHooks,     \* clients stay put while so many webhooks are in flight
          Scenarios

Mishaps == {"late_hooks",      \* a reconcile query may overtake webhooks
            "reorder",         \* webhooks may overtake one another
            "lose",            \* a webhook may never arrive
            "redeliver",       \* a webhook may be posted twice
            "redis_outage",    \* dedup and staging may fail
            "bare",            \* a webhook may carry no parsable metadata
            "reuse_token",     \* a client may connect twice with one token
            "two_rooms",       \* a client may enter a room before leaving another
            "resume",          \* a new session may resume voice
            "query_failure",   \* ListParticipants may fail
            "false_empty",     \* ... or answer an empty list for a live room
            "kick_failure",    \* RemoveParticipant may fail
            "room_events",     \* LiveKit opens and closes rooms
            "expiry",          \* tokens, and then intents, expire
            "restart"}         \* the process may restart

\* Who takes part, where, with which [muted, deafened] wishes; and bounds on the
\* sessions of one process, the join commands and LiveKit's clock.
Scenario == [may : SUBSET Mishaps, users : SUBSET Users, channels : SUBSET Channels,
             wishes : SUBSET ParticipantState,
             sessions : Sessions, joins : Nonces, seconds : Nat]

ASSUME ScenariosKnown == Scenarios \subseteq Scenario
ASSUME NoncesNat      == Nonces \subseteq Nat \ {0}
ASSUME SessionsNat    == \A n \in Sessions : n \in Nat \ {0} /\ 1..n \subseteq Sessions

VARIABLES
    sessions,   \* live session id -> user (SessionManager)
    minted,     \* the user each session id was minted for, in order
    joining,    \* session id -> what its join command read before evicting
    intent,     \* user -> pending join intent (Redis)
    resume,     \* the users that hold a resume id
    evidence,   \* ReconcileEvidenceTracker
    requested,  \* pending_channels_ of the reconciler
    guard,      \* channels with a takeover guard
    stamps,     \* [user, room]: newest timestamps handled
    started,    \* channels with a start time
    rec,        \* what the reconciler thread is doing
    lk,         \* LiveKit
    tokens,     \* the tokens handed to clients: valid until they expire
    nonce,      \* the last nonce generated
    owed        \* history: <<c, u>>, u was moved out of c and c not rekeyed since

workerVars  == <<sessions, minted, joining, tokens, nonce>>
vars == <<voice, sessions, minted, joining, intent, resume, evidence, requested, guard,
          stamps, started, rec, lk, tokens, nonce, owed>>

-----------------------------------------------------------------------------
Idle == [phase |-> "idle"]

\* The scenario is a part of the world outside the process, kept with LiveKit.
Environment == lk.scenario.may

HasIntent(u) == u \in DOMAIN intent

\* Variant: the sessions of everybody.
AnySessionIds(u) == DOMAIN sessions

UserSessionIds(u) == {s \in DOMAIN sessions : sessions[s] = u}

ChannelOf(u) == voice.user_to_channel[u].channel
OwnerOf(u)   == voice.user_to_channel[u].owner_session

\* An intent that moves the user between two channels.
Switches(i) == i.from # {} /\ i.from # {i.to}

\* The user's intent once the webhook for one end of a switch was handled.
AfterJoinSeen(u) ==
    IF Switches(intent[u]) /\ ~intent[u].old_leave_seen
    THEN Put(intent, u, [intent[u] EXCEPT !.new_join_seen = TRUE])
    ELSE Erase(intent, u)

AfterLeaveSeen(u) ==
    IF intent[u].new_join_seen
    THEN Erase(intent, u)
    ELSE Put(intent, u, [intent[u] EXCEPT !.old_leave_seen = TRUE])

\* RemoveParticipant against LiveKit l: it works, or the call fails.
Evictions(l, c, u) ==
    {Removed(l, c, u)} \cup (IF "kick_failure" \in Environment THEN {l} ELSE {})


\* The channel's key is rotated, or discarded with the channel.
Rekeyed(c) == {p \in owed : p[1] # c}

-----------------------------------------------------------------------------
(* Sessions, on the workers                                                *)

ServiceInit ==
    /\ voice = NoVoice
    /\ sessions = EmptyMap /\ minted = <<>> /\ joining = EmptyMap
    /\ intent = EmptyMap /\ resume = {}
    /\ evidence = NoEvidence /\ requested = {} /\ guard = {}
    /\ stamps = [user |-> [u \in Users |-> 0], room |-> [c \in Channels |-> 0]]
    /\ started = {} /\ rec = Idle
    /\ \E sc \in Scenarios :
          lk = NoRooms(Channels, IF "room_events" \in sc.may THEN {} ELSE Channels, sc)
    /\ tokens = {} /\ nonce = 0
    /\ owed = {}

\* attachConnection: session ids count up from 1 in every process.
OpenSession(u) ==
    LET s == Len(minted) + 1
    IN  /\ u \in lk.scenario.users /\ s <= lk.scenario.sessions
        /\ sessions' = Put(sessions, s, u)
        /\ minted' = Append(minted, u)
        /\ UNCHANGED <<voice, joining, intent, resume, evidence, requested, guard,
                       stamps, started, rec, lk, tokens, nonce, owed>>

\* DisconnectionCommand: with the user's last session gone, on_session_destroyed
\* asks for a reconcile and removes nobody.
CloseSession(s) ==
    LET u == sessions[s]
    IN  /\ sessions' = Erase(sessions, s)
        /\ requested' = IF UserSessionIds(u) = {s} /\ InVoice(voice, u)
                        THEN requested \cup {ChannelOf(u)} ELSE requested
        /\ UNCHANGED <<voice, minted, joining, intent, resume, evidence, guard,
                       stamps, started, rec, lk, tokens, nonce, owed>>

\* AuthenticateCommand's voice resume, for the session it has minted and with the
\* current resume id (any other id changes nothing).  It precedes every other
\* command of the session, whose connection may be closed by then.
ResumeVoice(s) ==
    LET u == minted[s]
    IN  /\ "resume" \in Environment
        /\ s \notin DOMAIN joining /\ \A t \in tokens : t.session # s
        /\ InVoice(voice, u) /\ OwnerOf(u) # s
        /\ u \in resume
        /\ voice' = TransferOwnerSession(voice, u, OwnerOf(u), s)
        /\ UNCHANGED <<workerVars, intent, resume, evidence, requested, guard,
                       stamps, started, rec, lk, owed>>

\* VoiceChannelActivityCommand: only the owner session, only in its channel.
\* Its two calls of the manager are one step: commands of one user that overlap
\* are left out.
SetActivity(s, p) ==
    LET u     == sessions[s]
        muted == p.muted \/ p.deafened
        d     == IF EntryOf(voice, u).deafened # p.deafened
                 THEN SetDeafened(voice, u, p.deafened) ELSE voice
    IN  /\ InVoice(voice, u) /\ OwnerOf(u) = s
        /\ voice' = IF EntryOf(d, u).muted # muted THEN SetMuted(d, u, muted) ELSE d
        /\ UNCHANGED <<workerVars, intent, resume, evidence, requested, guard,
                       stamps, started, rec, lk, owed>>

-----------------------------------------------------------------------------
(* JoinVoiceChannelCommand, on the workers                                 *)

\* Reads the current voice of the user and, if another session or another
\* channel has it, evicts it from LiveKit; the command fails if that fails.
JoinBegin(s, c) ==
    LET u         == sessions[s]
        owned     == InVoice(voice, u)
        takeover  == owned /\ OwnerOf(u) # s
        switching == owned /\ OwnerOf(u) = s /\ ChannelOf(u) # c
    IN  /\ s \notin DOMAIN joining
        /\ c \in lk.scenario.channels /\ nonce < lk.scenario.joins
        /\ guard' = IF takeover /\ ChannelOf(u) = c /\ UsersIn(voice, c) = {u}
                    THEN guard \cup {c} ELSE guard
        /\ \/ /\ lk' = IF takeover \/ switching THEN Removed(lk, ChannelOf(u), u) ELSE lk
              /\ nonce' = nonce + 1
              /\ joining' = Put(joining, s,
                    [user |-> u, channel |-> c, nonce |-> nonce + 1,
                     from |-> IF owned /\ ChannelOf(u) # c THEN {ChannelOf(u)} ELSE {}])
           \/ /\ "kick_failure" \in Environment /\ (takeover \/ switching)
              /\ InRoom(lk, ChannelOf(u), u)
              /\ UNCHANGED <<lk, nonce, joining>>
        /\ UNCHANGED <<voice, sessions, minted, intent, resume, evidence, requested,
                       stamps, started, rec, tokens, owed>>

\* join_voice and stage: the token is minted and the intent overwrites the one
\* that was pending.  The session may be gone by now; the command does not look.
JoinIssue(s, p) ==
    LET j == joining[s]
    IN  /\ joining' = Erase(joining, s)
        /\ evidence' = ClearChannelMissing(evidence, j.channel)
        /\ resume' = resume \cup {j.user}
        /\ intent' = Put(intent, j.user,
              [session |-> s, nonce |-> j.nonce, to |-> j.channel, from |-> j.from,
               muted |-> p.muted \/ p.deafened, deafened |-> p.deafened,
               old_leave_seen |-> FALSE, new_join_seen |-> FALSE])
        /\ tokens' = tokens \cup
              {[user |-> j.user, channel |-> j.channel, session |-> s, nonce |-> j.nonce,
                valid |-> TRUE, used |-> FALSE]}
        /\ UNCHANGED <<voice, sessions, minted, requested, guard, stamps, started,
                       rec, lk, nonce, owed>>

\* The key is unavailable (no resume id yet) or staging the intent fails.
JoinAbort(s) ==
    LET j == joining[s]
    IN  /\ "redis_outage" \in Environment
        /\ joining' = Erase(joining, s)
        /\ evidence' = ClearChannelMissing(evidence, j.channel)
        /\ resume' \in {resume, resume \cup {j.user}}
        /\ UNCHANGED <<voice, sessions, minted, intent, requested, guard, stamps,
                       started, rec, lk, tokens, nonce, owed>>

\* KickVoiceParticipantCommand: a moderator evicts a member from LiveKit; the
\* membership follows when participant_left arrives.
KickParticipant(u) ==
    /\ InVoice(voice, u)
    /\ lk' = Removed(lk, ChannelOf(u), u)
    /\ lk' # lk
    /\ UNCHANGED <<voice, workerVars, intent, resume, evidence, requested, guard,
                   stamps, started, rec, owed>>

-----------------------------------------------------------------------------
(* Clients, LiveKit and time                                               *)

Connect(t) ==
    /\ t.valid
    /\ ~t.used \/ "reuse_token" \in Environment
    /\ \/ "two_rooms" \in Environment
       \/ \A c \in Channels \ {t.channel} : ~InRoom(lk, c, t.user)
    /\ Len(lk.hooks) < MaxHooks
    /\ lk' = Connected(Opened(lk, t.channel), t.channel, t.user, [session |-> t.session, nonce |-> t.nonce])
    /\ tokens' = (tokens \ {t}) \cup {[t EXCEPT !.used = TRUE]}
    /\ UNCHANGED <<voice, sessions, minted, joining, intent, resume, evidence, requested,
                   guard, stamps, started, rec, nonce, owed>>

\* The client hangs up, or LiveKit gives up on its transport.
Disconnect(c, u) ==
    /\ InRoom(lk, c, u)
    /\ Len(lk.hooks) < MaxHooks
    /\ lk' = Removed(lk, c, u)
    /\ UNCHANGED <<voice, workerVars, intent, resume, evidence, requested, guard,
                   stamps, started, rec, owed>>

CloseRoom(c) ==
    /\ "room_events" \in Environment
    /\ c \in lk.open /\ DOMAIN lk.room[c] = {}
    /\ Len(lk.hooks) < MaxHooks
    /\ lk' = Closed(lk, c)
    /\ UNCHANGED <<voice, workerVars, intent, resume, evidence, requested, guard,
                   stamps, started, rec, owed>>

\* A second goes by on LiveKit's clock.
SecondPasses ==
    /\ lk.second < lk.scenario.seconds
    /\ lk' = [lk EXCEPT !.second = @ + 1]
    /\ UNCHANGED <<voice, workerVars, intent, resume, evidence, requested, guard,
                   stamps, started, rec, owed>>

ExpireToken(t) ==
    /\ "expiry" \in Environment
    /\ t.valid
    /\ tokens' = (tokens \ {t}) \cup {[t EXCEPT !.valid = FALSE]}
    /\ UNCHANGED <<voice, sessions, minted, joining, intent, resume, evidence, requested,
                   guard, stamps, started, rec, lk, nonce, owed>>

\* The intent outlives its token by ten seconds, which covers the webhooks of a
\* connection made with it unless they are late.
ExpireIntent(u) ==
    /\ \A t \in tokens : t.nonce = intent[u].nonce => ~t.valid
    /\ \/ "late_hooks" \in Environment
       \/ \A k \in DOMAIN lk.hooks :
             lk.hooks[k].kind = "joined" => lk.hooks[k].nonce # intent[u].nonce
    /\ intent' = Erase(intent, u)
    /\ UNCHANGED <<voice, workerVars, resume, evidence, requested, guard,
                   stamps, started, rec, lk, owed>>

\* The steady clock of the process: evidence ages and takeover guards lapse.
Tick ==
    /\ evidence' = Age(evidence)
    /\ guard' \in SUBSET guard
    /\ <<evidence', guard'>> # <<evidence, guard>>
    /\ UNCHANGED <<voice, workerVars, intent, resume, requested,
                   stamps, started, rec, lk, owed>>

LoseHook(k) ==
    /\ "lose" \in Environment
    /\ lk' = WithoutHook(lk, k)
    /\ UNCHANGED <<voice, workerVars, intent, resume, evidence, requested, guard,
                   stamps, started, rec, owed>>

-----------------------------------------------------------------------------
(* handle_participant_joined: the webhook e, or the reconciler's synthetic   *)
(* one, on the LiveKit state l that it leaves behind.                        *)

\* Variant: the channel alone decides, session and nonce are not compared.
CorrelatedByChannel(e) == HasIntent(e.user) /\ e.channel = intent[e.user].to

\* Does the pending intent, or failing metadata the user's only session, answer
\* for this connection?
Correlated(e) ==
    LET bare == e.session = 0 /\ e.nonce = 0
        i    == intent[e.user]
    IN  IF HasIntent(e.user)
        THEN /\ e.channel = i.to
             /\ IF bare THEN UserSessionIds(e.user) = {i.session}
                        ELSE e.session = i.session /\ e.nonce = i.nonce
        ELSE bare /\ \E s \in DOMAIN sessions : UserSessionIds(e.user) = {s}

IntentFor(e) ==
    IF HasIntent(e.user)
    THEN intent[e.user]
    ELSE [session |-> CHOOSE s \in UserSessionIds(e.user) : TRUE,
          muted |-> FALSE, deafened |-> FALSE]

Admit(e, l) ==
    LET i == IntentFor(e)
        u == e.user
        d == SetDeafened(Join(voice, e.channel, u, i.session), u, i.deafened)
    IN  /\ voice' = IF i.deafened THEN d ELSE SetMuted(d, u, i.muted)
        /\ started' = IF JoinWasEmpty(voice, e.channel, u)
                      THEN started \cup {e.channel} ELSE started
        /\ resume' = resume \cup {u}
        /\ intent' = IF HasIntent(u) THEN AfterJoinSeen(u) ELSE intent
        /\ owed' = IF Moved(voice, e.channel, u) THEN owed \cup {<<ChannelOf(u), u>>} ELSE owed
        /\ lk' = l
        /\ UNCHANGED requested

AlreadyOwner(e) ==
    /\ e.session # 0
    /\ InVoice(voice, e.user)
    /\ ChannelOf(e.user) = e.channel /\ OwnerOf(e.user) = e.session

\* A join nobody asked for: kick_user, by identity.
Refuse(e, l) ==
    /\ requested' = requested \cup {e.channel}
    /\ lk' \in Evictions(l, e.channel, e.user)
    /\ UNCHANGED <<voice, started, resume, intent, owed>>

\* Variant: the evidence of an earlier absence is kept.
HandleJoinedOnly(e, l) ==
    /\ UNCHANGED evidence
    /\ \/ Correlated(e) /\ Admit(e, l)
       \/ ~Correlated(e) /\ Refuse(e, l)

HandleJoined(e, l) ==
    /\ evidence' = ClearParticipantMissing(
                       ClearChannelMissing(evidence, e.channel), e.channel, e.user)
    /\ \/ Correlated(e) /\ Admit(e, l)
       \/ /\ ~Correlated(e) /\ AlreadyOwner(e)
          /\ lk' = l
          /\ UNCHANGED <<voice, started, resume, intent, requested, owed>>
       \/ ~Correlated(e) /\ ~AlreadyOwner(e) /\ Refuse(e, l)

-----------------------------------------------------------------------------
(* handle_participant_left                                                 *)

LeavingCurrent(e) ==
    /\ InVoice(voice, e.user) /\ ChannelOf(e.user) = e.channel
    /\ e.session = 0 \/ OwnerOf(e.user) = e.session
    /\ ~(/\ HasIntent(e.user) /\ intent[e.user].to = e.channel
         /\ e.nonce # 0 /\ e.nonce # intent[e.user].nonce)

\* The departure from the old channel that a pending switch waits for.
OldLeaveForSwitch(e) ==
    HasIntent(e.user) /\ Switches(intent[e.user]) /\ intent[e.user].from = {e.channel}

\* Both branches end with the channel rekeyed if members remain, and with its
\* key, start time and node binding dropped if none do.  The branch of a mere
\* switch re-reads is_empty, the other uses what leave answered.
Vacated(e) ==
    IF LeavingCurrent(e) THEN LeaveBecameEmpty(voice, e.channel, e.user)
                         ELSE IsEmpty(voice', e.channel)

HandleLeft(e) ==
    \/ /\ LeavingCurrent(e) \/ OldLeaveForSwitch(e)
       /\ evidence' = ClearParticipantMissing(evidence, e.channel, e.user)
       /\ voice' = Leave(voice, e.channel, e.user)
       /\ resume' = IF LeavingCurrent(e) /\ ~OldLeaveForSwitch(e)
                    THEN resume \ {e.user} ELSE resume
       /\ started' = IF Vacated(e) THEN started \ {e.channel} ELSE started
       /\ owed' = Rekeyed(e.channel)
       /\ intent' = IF OldLeaveForSwitch(e) THEN AfterLeaveSeen(e.user) ELSE intent
       /\ UNCHANGED requested
    \/ /\ ~LeavingCurrent(e) /\ ~OldLeaveForSwitch(e)
       /\ requested' = requested \cup {e.channel}
       /\ UNCHANGED <<evidence, voice, resume, started, intent, owed>>

-----------------------------------------------------------------------------
(* on_livekit_event, on the webhook thread                                 *)

Stale(e)     == e.ts < stamps.user[e.user]
StaleRoom(e) == e.ts < stamps.room[e.channel]

\* A stale event is dropped; all it does is ask for a reconcile.
DropStale(e, l) ==
    /\ requested' = requested \cup {e.channel}
    /\ lk' = l
    /\ UNCHANGED <<voice, evidence, guard, stamps, started, resume, intent, owed>>

ParticipantEvent(e, l) ==
    \/ Stale(e) /\ DropStale(e, l)
    \/ /\ ~Stale(e)
       /\ stamps' = [stamps EXCEPT !.user[e.user] = e.ts]
       /\ UNCHANGED guard
       /\ \/ e.kind = "joined" /\ HandleJoined(e, l)
          \/ e.kind = "left" /\ HandleLeft(e) /\ lk' = l

\* room_started touches only the node registry.
RoomEvent(e, l) ==
    \/ StaleRoom(e) /\ DropStale(e, l)
    \/ /\ ~StaleRoom(e)
       /\ stamps' = [stamps EXCEPT !.room[e.channel] = e.ts]
       /\ lk' = l
       /\ guard' = IF e.kind = "finished" THEN guard \ {e.channel} ELSE guard
       /\ IF e.kind = "finished" /\ e.channel \notin guard
          THEN /\ evidence' = ResetChannel(evidence, e.channel)
               /\ requested' = requested \cup {e.channel}
          ELSE UNCHANGED <<evidence, requested>>
       /\ UNCHANGED <<voice, started, resume, intent, owed>>

\* A delivered webhook is gone, or is posted once more later on.
Deliveries(k) ==
    {WithoutHook(lk, k)} \cup
    (IF "redeliver" \in Environment /\ ~lk.hooks[k].seen
     THEN {Posted(WithoutHook(lk, k), [lk.hooks[k] EXCEPT !.seen = TRUE])}
     ELSE {})

\* What the event parser makes of a webhook.
Readings(h) ==
    {h} \cup (IF "bare" \in Environment /\ h.kind \in {"joined", "left"}
              THEN {[h EXCEPT !.session = 0, !.nonce = 0]} ELSE {})

\* A webhook whose dedup key is in Redis is skipped, unless Redis cannot tell.
DeliverHook(k) ==
    /\ k = 1 \/ "reorder" \in Environment
    /\ \E l \in Deliveries(k), e \in Readings(lk.hooks[k]) :
          \/ /\ ~e.seen \/ "redis_outage" \in Environment
             /\ \/ e.kind \in {"joined", "left"} /\ ParticipantEvent(e, l)
                \/ e.kind \in {"started", "finished"} /\ RoomEvent(e, l)
          \/ /\ e.seen
             /\ lk' = l
             /\ UNCHANGED <<voice, evidence, requested, guard, stamps, started, resume,
                            intent, owed>>
    /\ UNCHANGED <<workerVars, rec>>

-----------------------------------------------------------------------------
(* reconcile_channel_state, on the reconciler thread                       *)

\* The loops over the absent and over the arrivals end the run.
Resumed(r) == IF r.absent = {} /\ r.arrivals = {} THEN Idle ELSE r

\* Variant: an owner counts, whether or not its session is still connected.
HasOwner(u, c) == InVoice(voice, u) /\ ChannelOf(u) = c

HasActiveOwnerConnection(u, c) ==
    InVoice(voice, u) /\ ChannelOf(u) = c /\ OwnerOf(u) \in DOMAIN sessions

\* reconcile_full_state: the channels a periodic run visits.
Sweep == DOMAIN voice.channels \cup TrackedMissingChannels(evidence)
           \cup {c \in lk.open : DOMAIN lk.room[c] # {}}

\* ListParticipants: the room as it is, an empty list in its stead, or failure.
Answers(c) ==
    {[ok |-> TRUE, remote |-> lk.room[c]]}
    \cup (IF "false_empty" \in Environment THEN {[ok |-> TRUE, remote |-> EmptyMap]} ELSE {})
    \cup (IF "query_failure" \in Environment THEN {[ok |-> FALSE, remote |-> EmptyMap]} ELSE {})

ReconcileQuery(c) ==
    /\ rec = Idle
    /\ c \in requested \cup Sweep
    /\ lk.hooks = <<>> \/ "late_hooks" \in Environment
    /\ requested' = requested \ {c}
    /\ \E a \in Answers(c) :
          rec' = [phase |-> "queried", channel |-> c, ok |-> a.ok, remote |-> a.remote]
    /\ UNCHANGED <<voice, workerVars, intent, resume, evidence, guard, stamps, started,
                   lk, owed>>

\* Nobody is there.  A failed query is no evidence, a live owner is evidence to
\* the contrary; otherwise the second sighting after the grace period counts.
ReconcileEmpty ==
    LET c    == rec.channel
        held == IsEmpty(voice, c) \/ \E u \in UsersIn(voice, c) : HasActiveOwnerConnection(u, c)
    IN  /\ rec.phase = "queried" /\ DOMAIN rec.remote = {}
        /\ evidence' = CASE ~rec.ok -> ResetChannel(evidence, c)
                         [] rec.ok /\ held -> ClearChannelMissing(evidence, c)
                         [] rec.ok /\ ~held -> ObserveChannelMissing(evidence, c)
        /\ rec' = IF rec.ok /\ ~held /\ ChannelConfirmed(evidence, c)
                  THEN [phase |-> "finish", channel |-> c] ELSE Idle
        /\ UNCHANGED <<voice, workerVars, intent, resume, requested, guard, stamps, started,
                       lk, owed>>

\* on_channel_finish
ReconcileFinish ==
    LET c == rec.channel
    IN  /\ rec.phase = "finish"
        /\ rec' = Idle
        /\ evidence' = ResetChannel(evidence, c)
        /\ voice' = ClearChannel(voice, c)
        /\ resume' = resume \ UsersIn(voice, c)
        /\ started' = started \ {c}
        /\ owed' = Rekeyed(c)
        /\ UNCHANGED <<workerVars, intent, requested, guard, stamps, lk>>

\* Somebody is there: the local members to look for, the strangers to judge.
ReconcileScan ==
    LET c == rec.channel
    IN  /\ rec.phase = "queried" /\ DOMAIN rec.remote # {}
        /\ rec' = Resumed([phase    |-> "scan", channel |-> c, remote |-> rec.remote,
                           absent   |-> UsersIn(voice, c) \ DOMAIN rec.remote,
                           arrivals |-> DOMAIN rec.remote \ UsersIn(voice, c)])
        /\ evidence' = [ClearChannelMissing(evidence, c) EXCEPT !.participants =
              Restrict(@, {p \in DOMAIN @ : ~(p[1] = c /\ p[2] \in DOMAIN rec.remote)})]
        /\ UNCHANGED <<voice, workerVars, intent, resume, requested, guard, stamps, started,
                       lk, owed>>

ReconcileAbsent(u) ==
    LET c    == rec.channel
        held == HasActiveOwnerConnection(u, c)
        next == [rec EXCEPT !.absent = @ \ {u}]
    IN  /\ rec.phase = "scan" /\ u \in rec.absent
        /\ evidence' = IF held THEN ClearParticipantMissing(evidence, c, u)
                               ELSE ObserveParticipantMissing(evidence, c, u)
        /\ rec' = IF ~held /\ ParticipantConfirmed(evidence, c, u)
                  THEN [phase |-> "eject", user |-> u, then |-> next]
                  ELSE Resumed(next)
        /\ UNCHANGED <<voice, workerVars, intent, resume, requested, guard, stamps, started,
                       lk, owed>>

ForceLocalLeave ==
    LET c == rec.then.channel
        u == rec.user
    IN  /\ rec.phase = "eject"
        /\ rec' = Resumed(rec.then)
        /\ evidence' = ClearParticipantMissing(evidence, c, u)
        /\ voice' = Leave(voice, c, u)
        /\ resume' = resume \ {u}
        /\ started' = IF LeaveBecameEmpty(voice, c, u) THEN started \ {c} ELSE started
        /\ owed' = Rekeyed(c)
        /\ UNCHANGED <<workerVars, intent, requested, guard, stamps, lk>>

\* Variant: only a pending intent answers for a participant.
TrustedByIntent(u) ==
    /\ HasIntent(u) /\ intent[u].to = rec.channel
    /\ rec.remote[u].session = intent[u].session /\ rec.remote[u].nonce = intent[u].nonce

\* A participant the server does not know is trusted if the pending intent, or
\* a live session of the user, answers for it.
Trusted(u) ==
    LET p == rec.remote[u]
    IN  IF HasIntent(u) /\ intent[u].to = rec.channel
        THEN p.session = intent[u].session /\ p.nonce = intent[u].nonce
        ELSE p.session \in UserSessionIds(u)

SyntheticJoin(u) ==
    [kind |-> "joined", channel |-> rec.channel, user |-> u,
     session |-> rec.remote[u].session, nonce |-> rec.remote[u].nonce]

ReconcileArrival(u) ==
    /\ rec.phase = "scan" /\ rec.absent = {} /\ u \in rec.arrivals
    /\ rec' = Resumed([rec EXCEPT !.arrivals = @ \ {u}])
    /\ \/ Trusted(u) /\ HandleJoined(SyntheticJoin(u), lk)
       \/ /\ ~Trusted(u)
          /\ lk' \in Evictions(lk, rec.channel, u)
          /\ UNCHANGED <<voice, evidence, requested, started, resume, intent, owed>>
    /\ UNCHANGED <<workerVars, guard, stamps>>

-----------------------------------------------------------------------------
(* recover_from_restart: the process state is rebuilt from LiveKit; Redis    *)
(* (intents, dedup keys) and LiveKit carry on.                               *)

\* A user found in several rooms is seated in the first that is listed.
Seatings(listed) ==
    LET present == {u \in Users : \E c \in listed : InRoom(lk, c, u)}
    IN  {f \in [present -> listed] : \A u \in present : InRoom(lk, f[u], u)}

Seated(f) ==
    [channels |-> [c \in Range(f) |-> [u \in {v \in DOMAIN f : f[v] = c} |-> Unmuted]],
     user_to_channel |-> [u \in DOMAIN f |->
         [channel |-> f[u], owner_session |-> lk.room[f[u]][u].session]]]

\* ListRooms or some ListParticipants may fail.  Session ids restart from 1.
Restart ==
    /\ "restart" \in Environment
    /\ \E known \in {lk.open} \cup (IF "query_failure" \in Environment THEN {{}} ELSE {}) :
       \E listed \in IF "query_failure" \in Environment THEN SUBSET known ELSE {known} :
       \E f \in Seatings(listed) :
          /\ voice' = Seated(f)
          /\ resume' = DOMAIN f
          /\ started' = known
          /\ owed' = owed \cup {p \in Channels \X Users :
                                   p[2] \in UsersIn(voice, p[1]) \ UsersIn(voice', p[1])}
    /\ sessions' = EmptyMap /\ minted' = <<>> /\ joining' = EmptyMap
    /\ evidence' = NoEvidence /\ requested' = {} /\ guard' = {} /\ rec' = Idle
    /\ stamps' = [user |-> [u \in Users |-> 0], room |-> [c \in Channels |-> 0]]
    /\ UNCHANGED <<intent, lk, tokens, nonce>>

-----------------------------------------------------------------------------
Workers ==
    \/ \E u \in Users : OpenSession(u) \/ KickParticipant(u)
    \/ \E s \in DOMAIN sessions :
          \/ CloseSession(s)
          \/ \E p \in lk.scenario.wishes : SetActivity(s, p)
          \/ \E c \in Channels : JoinBegin(s, c)
    \/ \E s \in DOMAIN minted : ResumeVoice(s)
    \/ \E s \in DOMAIN joining : JoinAbort(s) \/ \E p \in lk.scenario.wishes : JoinIssue(s, p)

Clients ==
    \/ \E t \in tokens : Connect(t) \/ ExpireToken(t)
    \/ \E c \in Channels : CloseRoom(c) \/ \E u \in Users : Disconnect(c, u)
    \/ \E u \in DOMAIN intent : ExpireIntent(u)
    \/ SecondPasses
    \/ \E k \in DOMAIN lk.hooks : LoseHook(k)

Webhook == \E k \in DOMAIN lk.hooks : DeliverHook(k)

ReconcileStep ==
    \/ ReconcileEmpty \/ ReconcileFinish \/ ReconcileScan \/ ForceLocalLeave
    \/ \E u \in Users : ReconcileAbsent(u) \/ ReconcileArrival(u)

Reconciler == ReconcileStep \/ \E c \in Channels : ReconcileQuery(c)

ServiceNext == Workers \/ Clients \/ Webhook \/ Reconciler \/ Tick \/ Restart

ServiceSpec == ServiceInit /\ [][ServiceNext]_vars

\* The process keeps running: the webhook thread and the reconciler thread take
\* their steps, the clock moves, and every sweep comes to every channel.
FairSpec ==
    /\ ServiceSpec
    /\ WF_vars(Webhook) /\ WF_vars(ReconcileStep) /\ WF_vars(Tick)
    /\ \A c \in Channels : SF_vars(ReconcileQuery(c))

-----------------------------------------------------------------------------
(* Properties                                                              *)

\* The two halves of the membership map stay one relation through every handler
\* of the service, whichever thread runs it.
MembershipConsistent == Agree(voice) /\ Inhabited(voice)

\* Unless a webhook came without metadata or voice was resumed, a member of a voice
\* channel has connected to its LiveKit room from the owner session, with the token
\* issued to that session for that channel: no event of another connection ever
\* makes a session the owner.
MembersConnected ==
    Environment \cap {"bare", "resume"} = {} =>
    \A u \in DOMAIN voice.user_to_channel :
       \E t \in tokens : /\ t.user = u /\ t.channel = ChannelOf(u)
                          /\ t.session = OwnerOf(u) /\ t.used

\* In the life of one process, a user's voice is owned by a session minted for that
\* very user.
OwnerIsOwn ==
    "restart" \notin Environment =>
    \A u \in DOMAIN voice.user_to_channel :
       OwnerOf(u) \in DOMAIN minted /\ minted[OwnerOf(u)] = u

\* u is in the room under the owner session, which is a live session of u (ids start
\* over with the process, so it could be somebody else's), no other join is pending,
\* and the reconciler was told nothing else.
Settled(c, u) ==
    /\ InRoom(lk, c, u) /\ lk.room[c][u].session = OwnerOf(u)
    /\ OwnerOf(u) \in UserSessionIds(u) /\ ~HasIntent(u)
    /\ rec.phase = "scan" /\ c = rec.channel /\ u \in DOMAIN rec.remote
          => rec.remote[u].session = OwnerOf(u)

\* "It never kicks healthy users": the reconciler evicts no settled member from LiveKit,
\* not even one whose webhook came while it was going through its list.
ReconcileSparesSettled ==
    [][\A c \in Channels : \A u \in UsersIn(voice, c) :
          Settled(c, u) /\ ~InRoom(lk', c, u) => ~ReconcileStep]_vars

\* A membership never starts with evidence against it: what the reconciler saw
\* of an earlier stay cannot shorten the grace period of this one.
EvidenceReset ==
    [][\A c \in Channels : \A u \in UsersIn(voice', c) \ UsersIn(voice, c) :
          /\ c \notin DOMAIN evidence'.channels
          /\ <<c, u>> \notin DOMAIN evidence'.participants]_vars

AtRest == lk.hooks = <<>> /\ rec = Idle /\ requested = {} /\ DOMAIN joining = {}

\* "Departures always rotate": with all webhooks handled, no channel still uses
\* a key known to somebody who has moved out of it.
DeparturesRotate == AtRest => \A p \in owed : InRoom(lk, p[1], p[2])

\* The server and LiveKit agree on channel c, but for members whose owner session
\* is alive: those are held whatever LiveKit says.
Agreed(c) ==
    /\ DOMAIN lk.room[c] \subseteq UsersIn(voice, c)
    /\ \A u \in UsersIn(voice, c) : InRoom(lk, c, u) \/ OwnerOf(u) \in DOMAIN sessions

\* Whatever webhooks were lost or reordered, once the clients keep still the
\* reconcile loop brings the server and LiveKit to agree for good.
Convergence == <>[](\A c \in Channels : Agreed(c))

=============================================================================
