---------------------------- MODULE MCVoiceService ----------------------------
(* Sessions and nonces are numbers because the code compares them with 0.   *)
EXTENDS VoiceService, TLC

CONSTANTS c1, c2, u1, u2

MCUsers    == {u1, u2}
MCChannels == {c1, c2}

\* One user in one channel with two sessions, two joins and a clock that stands
\* still, unless the scenario says otherwise.
Plain(may) == [may |-> may, users |-> {u1}, channels |-> {c1}, wishes |-> {Unmuted},
               sessions |-> 2, joins |-> 2, seconds |-> 1]

Webhooks == [Plain({"late_hooks", "reorder"}) EXCEPT !.seconds = 2]
Lossy    == Plain({"late_hooks", "reorder", "lose"})

Redis == [Plain({"late_hooks", "redeliver", "redis_outage", "expiry", "two_rooms"})
            EXCEPT !.channels = MCChannels, !.sessions = 1]

\* Deafening a user who did not ask to be muted takes both branches on the flags.
Flags == [Plain({"redis_outage", "expiry"})
            EXCEPT !.wishes = {Unmuted, [muted |-> FALSE, deafened |-> TRUE]}]

Owners == [Plain({"bare", "resume", "reuse_token"}) EXCEPT !.users = MCUsers]

Media == [Plain({"query_failure", "false_empty", "kick_failure", "room_events"})
            EXCEPT !.users = MCUsers]

Restarts == [Plain({"restart", "query_failure"}) EXCEPT !.channels = MCChannels]

\* After the restart the first session may be somebody else's.
Strangers == [Plain({"restart", "query_failure", "late_hooks"})
                EXCEPT !.users = MCUsers, !.sessions = 1, !.joins = 1]

Ghosts == [Plain({"lose"}) EXCEPT !.users = MCUsers]

EveryScenario == {Webhooks, Lossy, Ghosts, Redis, Flags, Owners, Media, Restarts, Strangers}

LossyNetwork == {Lossy}

\* One session that moves between two channels, undisturbed.
Moving == {[Plain({}) EXCEPT !.channels = MCChannels, !.sessions = 1, !.joins = 3]}

Interchangeable == Permutations(MCUsers) \cup Permutations(MCChannels)

=============================================================================
