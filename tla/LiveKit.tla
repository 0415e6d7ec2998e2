-------------------------------- MODULE LiveKit --------------------------------
(***************************************************************************)
(* The media server, as far as VoiceService sees it: the participants of   *)
(* each room (ListParticipants), the rooms it keeps open (ListRooms),      *)
(* removal by identity (RemoveParticipant) and the webhooks it posts.      *)
(*                                                                         *)
(* l is a record:                                                          *)
(*   room    channel -> user -> [session, nonce], the metadata of the      *)
(*           token the participant connected with                          *)
(*   open    the rooms that exist; a room outlives its last participant    *)
(*   hooks   the webhooks posted and not yet handled, oldest first         *)
(*   second  createdAt of a webhook posted now.  LiveKit stamps webhooks   *)
(*           in whole seconds, so events close together carry one stamp.   *)
(*   scenario  what clients and network may do; it never changes           *)
(***************************************************************************)
EXTENDS Maps, Sequences, Naturals

NoRooms(channels, open, scenario) ==
    [room   |-> [c \in channels |-> EmptyMap],
     open   |-> open,
     hooks  |-> <<>>,
     second |-> 1,
     scenario |-> scenario]

InRoom(l, c, u) == u \in DOMAIN l.room[c]

-----------------------------------------------------------------------------
\* seen: the dedup key of this webhook is in Redis, it was delivered before.
ParticipantHook(l, kind, c, u, p) ==
    [kind |-> kind, channel |-> c, user |-> u, session |-> p.session,
     nonce |-> p.nonce, ts |-> l.second, seen |-> FALSE]

RoomHook(l, kind, c) == [kind |-> kind, channel |-> c, ts |-> l.second, seen |-> FALSE]

Posted(l, h) == [l EXCEPT !.hooks = Append(@, h)]

\* The participant goes and participant_left is posted; a no-op for a stranger.
Removed(l, c, u) ==
    IF InRoom(l, c, u)
    THEN [Posted(l, ParticipantHook(l, "left", c, u, l.room[c][u]))
            EXCEPT !.room[c] = Erase(@, u)]
    ELSE l

\* A room opens with its first participant and closes some time after its last.
Opened(l, c) ==
    IF c \in l.open THEN l
    ELSE [Posted(l, RoomHook(l, "started", c)) EXCEPT !.open = @ \cup {c}]

Closed(l, c) ==
    [Posted(l, RoomHook(l, "finished", c)) EXCEPT !.open = @ \ {c}]

\* A second connection under one identity first evicts the other one.
Connected(l, c, u, p) ==
    LET l1 == Removed(l, c, u)
    IN  [Posted(l1, ParticipantHook(l1, "joined", c, u, p))
           EXCEPT !.room[c] = Put(@, u, p)]

\* The hooks without the i-th.
WithoutHook(l, i) ==
    [l EXCEPT !.hooks = SubSeq(@, 1, i - 1) \o SubSeq(@, i + 1, Len(@))]

=============================================================================
