SPECIFICATION Spec
CONSTANTS
    c1 = c1  c2 = c2
    u1 = u1  u2 = u2  u3 = u3
    s1 = s1  s2 = s2
    Channels <- MCChannels
    Users <- MCUsers
    Sessions <- MCSessions
SYMMETRY Interchangeable
INVARIANTS MapsAgree RepliesExact
PROPERTY FlagsFollowSession
