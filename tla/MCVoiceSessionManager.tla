----------------------- MODULE MCVoiceSessionManager -----------------------
(* Three users, so that a channel keeps members when one leaves; two        *)
(* channels and two sessions, so that switches and takeovers both happen.   *)
EXTENDS VoiceSessionManager, TLC

CONSTANTS c1, c2, u1, u2, u3, s1, s2

MCChannels == {c1, c2}
MCUsers    == {u1, u2, u3}
MCSessions == {s1, s2}

Interchangeable ==
    Permutations(MCChannels) \cup Permutations(MCUsers) \cup Permutations(MCSessions)

=============================================================================
