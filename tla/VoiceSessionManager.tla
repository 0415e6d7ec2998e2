------------------------- MODULE VoiceSessionManager -------------------------
(***************************************************************************)
(* Who is in which voice channel, and which app session owns the user's    *)
(* voice: app/services/voice/VoiceSessionManager.cpp.  The manager keeps   *)
(* the relation twice,                                                     *)
(*                                                                         *)
(*   channels         channel -> user -> [muted, deafened]                 *)
(*   user_to_channel  user -> [channel, owner_session]                     *)
(*                                                                         *)
(* and every method runs under one mutex.  A method is an operator from    *)
(* the manager m (a record of the two maps) to the manager it leaves       *)
(* behind, so that VoiceService can apply several in one handler; what     *)
(* the method returns is an operator of its own.                           *)
(***************************************************************************)
EXTENDS Maps

CONSTANTS Channels, Users, Sessions

VARIABLE voice

-----------------------------------------------------------------------------
ParticipantState == [muted : BOOLEAN, deafened : BOOLEAN]
UserVoiceState   == [channel : Channels, owner_session : Sessions]

\* A default-constructed ParticipantState.
Unmuted == [muted |-> FALSE, deafened |-> FALSE]

NoVoice == [channels |-> EmptyMap, user_to_channel |-> EmptyMap]

InVoice(m, u) == u \in DOMAIN m.user_to_channel

\* users_in_channel, and the emptiness test is_empty.
UsersIn(m, c)  == IF c \in DOMAIN m.channels THEN DOMAIN m.channels[c] ELSE {}
IsEmpty(m, c)  == UsersIn(m, c) = {}

\* Variant: the channel entry stays when its last participant goes.
DepartKeepingEmpty(chs, c, u) ==
    IF c \in DOMAIN chs THEN Put(chs, c, Erase(chs[c], u)) ELSE chs

\* The channel map after u is erased from c and c is dropped if it has become
\* empty: the tail join, leave, leave_user and leave_if_owner share.
Depart(chs, c, u) ==
    IF c \notin DOMAIN chs
    THEN chs
    ELSE LET rest == Erase(chs[c], u)
         IN  IF DOMAIN rest = {} THEN Erase(chs, c) ELSE Put(chs, c, rest)

-----------------------------------------------------------------------------
(* join                                                                    *)

\* Variant: the old seat is forgotten, not vacated.
UnseatNobody(m, u) == m.channels

\* The channel map once the user has been taken out of the old channel.
Unseat(m, u) ==
    IF InVoice(m, u) THEN Depart(m.channels, m.user_to_channel[u].channel, u)
                     ELSE m.channels

\* Variant: the flags are carried to whichever session joins.
CarryAlways(m, u, s) ==
    IF InVoice(m, u) /\ u \in UsersIn(m, m.user_to_channel[u].channel)
    THEN m.channels[m.user_to_channel[u].channel][u]
    ELSE Unmuted

\* Mute and deafen survive a join only for the session that owned them.
CarryState(m, u, s) ==
    IF /\ InVoice(m, u)
       /\ m.user_to_channel[u].owner_session = s
       /\ u \in UsersIn(m, m.user_to_channel[u].channel)
    THEN m.channels[m.user_to_channel[u].channel][u]
    ELSE Unmuted

\* The result of join: is the user the channel's first participant?
JoinWasEmpty(m, c, u) ==
    LET chs == Unseat(m, u) IN c \notin DOMAIN chs \/ DOMAIN chs[c] = {}

Join(m, c, u, s) ==
    LET chs     == Unseat(m, u)
        present == IF c \in DOMAIN chs THEN chs[c] ELSE EmptyMap
    IN  [channels |-> Put(chs, c, TryEmplace(present, u, CarryState(m, u, s))),
         user_to_channel |->
             Put(m.user_to_channel, u, [channel |-> c, owner_session |-> s])]

-----------------------------------------------------------------------------
(* leave, leave_user, leave_if_owner, clear_channel                        *)

\* The user has moved on: a leave of channel c is about a previous channel.
Moved(m, c, u) == InVoice(m, u) /\ m.user_to_channel[u].channel # c

Leave(m, c, u) ==
    IF Moved(m, c, u)
    THEN m
    ELSE [channels |-> Depart(m.channels, c, u),
          user_to_channel |-> Erase(m.user_to_channel, u)]

\* Variant: the channel is looked at before the user is removed from it.
BecameEmptyEarly(m, c, u) ==
    /\ ~Moved(m, c, u)
    /\ c \in DOMAIN m.channels
    /\ DOMAIN m.channels[c] = {}

\* The result of leave: did this call empty the channel?
LeaveBecameEmpty(m, c, u) ==
    /\ ~Moved(m, c, u)
    /\ c \in DOMAIN m.channels
    /\ DOMAIN m.channels[c] \ {u} = {}

LeaveUser(m, u) ==
    IF InVoice(m, u) THEN Leave(m, m.user_to_channel[u].channel, u) ELSE m

LeaveIfOwner(m, u, s) ==
    IF InVoice(m, u) /\ m.user_to_channel[u].owner_session = s
    THEN LeaveUser(m, u)
    ELSE m

\* Drops the channel; a user is unmapped only while mapped to this channel.
ClearChannel(m, c) ==
    [channels |-> Erase(m.channels, c),
     user_to_channel |->
         Restrict(m.user_to_channel,
                  {u \in DOMAIN m.user_to_channel :
                      ~(u \in UsersIn(m, c) /\ m.user_to_channel[u].channel = c)})]

-----------------------------------------------------------------------------
(* set_muted, set_deafened, transfer_owner_session                         *)

\* set_muted and set_deafened reach a participant entry through both maps and
\* do nothing when either half is missing.
HasEntry(m, u) == InVoice(m, u) /\ u \in UsersIn(m, m.user_to_channel[u].channel)

SetEntry(m, u, state) ==
    LET c == m.user_to_channel[u].channel
    IN  [m EXCEPT !.channels = Put(@, c, Put(@[c], u, state))]

EntryOf(m, u) == m.channels[m.user_to_channel[u].channel][u]

SetMuted(m, u, muted) ==
    IF HasEntry(m, u)
    THEN SetEntry(m, u, [EntryOf(m, u) EXCEPT !.muted = muted])
    ELSE m

\* Deafening mutes, and undeafening unmutes.
SetDeafened(m, u, deafened) ==
    IF HasEntry(m, u)
    THEN SetEntry(m, u, [muted |-> deafened, deafened |-> deafened])
    ELSE m

\* A compare-and-swap on the owner session.
TransferOwnerSession(m, u, expected, next) ==
    IF InVoice(m, u) /\ m.user_to_channel[u].owner_session = expected
    THEN [m EXCEPT !.user_to_channel =
             Put(@, u, [channel |-> @[u].channel, owner_session |-> next])]
    ELSE m

-----------------------------------------------------------------------------
(* The manager as a state machine: any method, in any order.               *)

Init == voice = NoVoice

DoJoin         == \E c \in Channels, u \in Users, s \in Sessions : voice' = Join(voice, c, u, s)
DoLeave        == \E c \in Channels, u \in Users : voice' = Leave(voice, c, u)
DoLeaveUser    == \E u \in Users : voice' = LeaveUser(voice, u)
DoLeaveIfOwner == \E u \in Users, s \in Sessions : voice' = LeaveIfOwner(voice, u, s)
DoClear        == \E c \in Channels : voice' = ClearChannel(voice, c)
DoSetMuted     == \E u \in Users, b \in BOOLEAN : voice' = SetMuted(voice, u, b)
DoSetDeafened  == \E u \in Users, b \in BOOLEAN : voice' = SetDeafened(voice, u, b)
DoTransfer     == \E u \in Users, s, t \in Sessions :
                      voice' = TransferOwnerSession(voice, u, s, t)

Next == \/ DoJoin \/ DoLeave \/ DoLeaveUser \/ DoLeaveIfOwner
        \/ DoClear \/ DoSetMuted \/ DoSetDeafened \/ DoTransfer

Spec == Init /\ [][Next]_voice

-----------------------------------------------------------------------------
(* What the manager promises.                                              *)

Typed(m) ==
    /\ m = [channels |-> m.channels, user_to_channel |-> m.user_to_channel]
    /\ DOMAIN m.channels \subseteq Channels
    /\ \A c \in DOMAIN m.channels :
          /\ DOMAIN m.channels[c] \subseteq Users
          /\ m.channels[c] \in [DOMAIN m.channels[c] -> ParticipantState]
    /\ m.channels = [c \in DOMAIN m.channels |-> m.channels[c]]
    /\ DOMAIN m.user_to_channel \subseteq Users
    /\ m.user_to_channel \in [DOMAIN m.user_to_channel -> UserVoiceState]

Agree(m) ==
    /\ \A u \in DOMAIN m.user_to_channel :
          /\ m.user_to_channel[u].channel \in DOMAIN m.channels
          /\ u \in DOMAIN m.channels[m.user_to_channel[u].channel]
    /\ \A c \in DOMAIN m.channels : \A u \in DOMAIN m.channels[c] :
          /\ u \in DOMAIN m.user_to_channel
          /\ m.user_to_channel[u].channel = c

Inhabited(m) == \A c \in DOMAIN m.channels : DOMAIN m.channels[c] # {}

\* Type invariant: every entry of the two maps holds a channel, a session or a
\* participant state.
TypeOK == Typed(voice)

\* The two maps are one relation: a user is listed in exactly the channel the
\* user is mapped to, so nobody is ever in two channels.
MapsAgree == Agree(voice)

\* No channel entry outlives its last participant; active_channels() lists
\* every entry, and the reconcile sweep visits what it lists.
NoEmptyChannel == Inhabited(voice)

\* The booleans callers act on are exact.  leave answers TRUE only to the call
\* that removes the last participant (VoiceService then discards the channel's
\* key), and join answers TRUE only if nobody else is there.
RepliesExact ==
    \A c \in Channels, u \in Users :
       /\ LeaveBecameEmpty(voice, c, u) <=>
              /\ ~IsEmpty(voice, c)
              /\ IsEmpty(Leave(voice, c, u), c)
       /\ JoinWasEmpty(voice, c, u) <=> UsersIn(voice, c) \subseteq {u}

MoveKeepsFlags ==
    \A u \in Users :
       (/\ InVoice(voice, u) /\ InVoice(voice', u)
        /\ voice'.user_to_channel[u].channel # voice.user_to_channel[u].channel)
       => EntryOf(voice', u) =
             IF voice'.user_to_channel[u].owner_session
                  = voice.user_to_channel[u].owner_session
             THEN EntryOf(voice, u) ELSE Unmuted

\* "Preserve mute/deafen only when the same app session switches channels":
\* a user who turns up in another channel under the same owner session keeps
\* the flags, and under another session starts unmuted.
FlagsFollowSession == [][MoveKeepsFlags]_voice

=============================================================================
