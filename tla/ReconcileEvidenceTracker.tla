----------------------- MODULE ReconcileEvidenceTracker -----------------------
(***************************************************************************)
(* The grace period before the reconcile loop believes that LiveKit has    *)
(* lost a room or a participant:                                           *)
(* app/services/voice/ReconcileEvidenceTracker.cpp.                        *)
(*                                                                         *)
(* The tracker e is a record of two maps: channels, and participants       *)
(* keyed by <<channel, user>>.  The code stores when an absence was first  *)
(* observed and confirms it at an observation at least missing_ttl_ later. *)
(* Here an entry is its AGE, now - first_seen, which Age advances up to    *)
(* MissingTTL: the test is >= missing_ttl_, so nothing older matters.      *)
(***************************************************************************)
EXTENDS Maps, Naturals

CONSTANT MissingTTL

ASSUME MissingTTLNat == MissingTTL \in Nat

-----------------------------------------------------------------------------
NoEvidence == [channels |-> EmptyMap, participants |-> EmptyMap]

ClearChannelMissing(e, c) == [e EXCEPT !.channels = Erase(@, c)]

ClearParticipantMissing(e, c, u) == [e EXCEPT !.participants = Erase(@, <<c, u>>)]

\* missing_participants_.erase(channel)
ForgetParticipants(e, c) ==
    [e EXCEPT !.participants = Restrict(@, {p \in DOMAIN @ : p[1] # c})]

ResetChannel(e, c) == ForgetParticipants(ClearChannelMissing(e, c), c)

\* An observation is confirmed when it is not the first and the first is old.
ChannelConfirmed(e, c) ==
    c \in DOMAIN e.channels /\ e.channels[c] >= MissingTTL

ObserveChannelMissing(e, c) ==
    IF ChannelConfirmed(e, c)
    THEN ResetChannel(e, c)
    ELSE [e EXCEPT !.channels = TryEmplace(@, c, 0)]

ParticipantConfirmed(e, c, u) ==
    <<c, u>> \in DOMAIN e.participants /\ e.participants[<<c, u>>] >= MissingTTL

ObserveParticipantMissing(e, c, u) ==
    IF ParticipantConfirmed(e, c, u)
    THEN ClearParticipantMissing(e, c, u)
    ELSE [e EXCEPT !.participants = TryEmplace(@, <<c, u>>, 0)]

TrackedMissingChannels(e) == DOMAIN e.channels

-----------------------------------------------------------------------------
\* steady_clock moves on for every entry.
Older(m) == [k \in DOMAIN m |-> IF m[k] < MissingTTL THEN m[k] + 1 ELSE m[k]]

Age(e) == [channels |-> Older(e.channels), participants |-> Older(e.participants)]

=============================================================================
