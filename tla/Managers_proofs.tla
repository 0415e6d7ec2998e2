---------------------------- MODULE Managers_proofs ---------------------------
(***************************************************************************)
(* Every method of VoiceSessionManager keeps the two maps one relation, for *)
(* any sets of channels, users and sessions.  Those lemmas are about the    *)
(* methods as operators, so a handler that applies several of them keeps    *)
(* the relation too.  Then what the handlers of VoiceService keep, in any   *)
(* scenario, whichever thread runs them and whatever LiveKit, the clients   *)
(* and the network do in between.                                           *)
(*                                                                          *)
(* The two indexes of SubscriptionManager stay one relation, and the        *)
(* manager implements its promise, for any sets of connections, topics,     *)
(* readers and vectors.                                                     *)
(***************************************************************************)
EXTENDS VoiceService, SubscriptionManager, SequenceTheorems, TLAPS

-----------------------------------------------------------------------------
(* VoiceSessionManager.                                                    *)

Good(m) == Typed(m) /\ Agree(m) /\ Inhabited(m)

\* Channel map out is chs without u in c, and without c when nobody is left;
\* every other channel is untouched.
Departed(chs, c, u, out) ==
    /\ (c \in DOMAIN chs /\ DOMAIN chs[c] \ {u} = {}) => DOMAIN out = DOMAIN chs \ {c}
    /\ ~(c \in DOMAIN chs /\ DOMAIN chs[c] \ {u} = {}) => DOMAIN out = DOMAIN chs
    /\ \A d \in DOMAIN out : d # c => out[d] = chs[d]
    /\ c \in DOMAIN out =>
          /\ DOMAIN out[c] = DOMAIN chs[c] \ {u}
          /\ DOMAIN out[c] # {}
          /\ \A x \in DOMAIN out[c] : out[c][x] = chs[c][x]
          /\ out[c] = [x \in DOMAIN out[c] |-> out[c][x]]
    /\ out = [d \in DOMAIN out |-> out[d]]

\* What the tail shared by join and the leaves does to the channel map.
LEMMA DepartFacts ==
    ASSUME NEW chs, chs = [d \in DOMAIN chs |-> chs[d]],
           NEW c, c \in DOMAIN chs => DOMAIN chs[c] # {}, NEW u
    PROVE  Departed(chs, c, u, Depart(chs, c, u))
<1>1. CASE c \notin DOMAIN chs
  BY Zenon, <1>1 DEF Depart, Departed
<1>2. CASE c \in DOMAIN chs /\ DOMAIN chs[c] \ {u} = {}
  <2>1. Depart(chs, c, u) = Erase(chs, c)
    BY Zenon, <1>2 DEF Depart, Erase, Restrict
  <2>. QED BY Zenon, <1>2, <2>1 DEF Erase, Restrict, Departed
<1>3. CASE c \in DOMAIN chs /\ DOMAIN chs[c] \ {u} # {}
  <2>. DEFINE rest == Erase(chs[c], u)
  <2>1. /\ DOMAIN rest = DOMAIN chs[c] \ {u}
        /\ \A x \in DOMAIN rest : rest[x] = chs[c][x]
        /\ rest = [x \in DOMAIN rest |-> rest[x]]
    BY Zenon DEF Erase, Restrict
  <2>2. Depart(chs, c, u) = Put(chs, c, rest)
    BY Zenon, <1>3, <2>1 DEF Depart
  <2>. HIDE DEF rest
  <2>3. /\ DOMAIN Put(chs, c, rest) = DOMAIN chs
        /\ Put(chs, c, rest)[c] = rest
        /\ \A d \in DOMAIN chs : d # c => Put(chs, c, rest)[d] = chs[d]
        /\ Put(chs, c, rest) = [d \in DOMAIN Put(chs, c, rest) |-> Put(chs, c, rest)[d]]
    BY Zenon, <1>3 DEF Put
  <2>. QED BY ZenonT(30), <1>3, <2>1, <2>2, <2>3 DEF Departed
<1>. QED BY Zenon, <1>1, <1>2, <1>3

-----------------------------------------------------------------------------
(* The methods.                                                            *)

\* leave: the mapping and the participant entry go together.
LEMMA LeaveGood ==
    ASSUME NEW m, Good(m), NEW c \in Channels, NEW u \in Users
    PROVE  Good(Leave(m, c, u))
<1>1. CASE Moved(m, c, u)
  BY Zenon, <1>1 DEF Leave
<1>2. CASE ~Moved(m, c, u)
  <2>. DEFINE chs == Depart(m.channels, c, u)
              utc == Erase(m.user_to_channel, u)
              n   == [channels |-> chs, user_to_channel |-> utc]
  <2>1. Leave(m, c, u) = n
    BY Zenon, <1>2 DEF Leave
  <2>2. /\ DOMAIN utc = DOMAIN m.user_to_channel \ {u}
        /\ \A x \in DOMAIN utc : utc[x] = m.user_to_channel[x]
        /\ utc \in [DOMAIN utc -> UserVoiceState]
    BY Zenon DEF Erase, Restrict, Good, Typed
  <2>3. Departed(m.channels, c, u, chs)
    BY Zenon, DepartFacts DEF Good, Typed, Inhabited
  <2>. HIDE DEF chs, utc
  <2>4. Typed(n)
    BY <2>2, <2>3 DEF Good, Typed, Departed
  <2>5. Agree(n)
    BY <1>2, <2>2, <2>3 DEF Good, Typed, Agree, Moved, InVoice, Departed
  <2>6. Inhabited(n)
    BY Zenon, <2>3 DEF Good, Inhabited, Departed
  <2>. QED BY Zenon, <2>1, <2>4, <2>5, <2>6 DEF Good
<1>. QED BY Zenon, <1>1, <1>2

\* leave_user and leave_if_owner are leave of the user's own channel.
LEMMA LeaveUserGood ==
    ASSUME NEW m, Good(m), NEW u \in Users
    PROVE  Good(LeaveUser(m, u))
<1>1. CASE InVoice(m, u)
  <2>1. m.user_to_channel[u].channel \in Channels
    BY Zenon, <1>1 DEF Good, Typed, InVoice, UserVoiceState
  <2>. QED BY Zenon, <1>1, <2>1, LeaveGood DEF LeaveUser
<1>. QED BY Zenon, <1>1 DEF LeaveUser

\* leave_if_owner leaves or does nothing.
LEMMA LeaveIfOwnerGood ==
    ASSUME NEW m, Good(m), NEW u \in Users, NEW s \in Sessions
    PROVE  Good(LeaveIfOwner(m, u, s))
BY Zenon, LeaveUserGood DEF LeaveIfOwner

\* The channel map once u has been taken out of the old channel: nobody else
\* has moved, and u is in no channel.
Unseated(m, u, out) ==
    /\ DOMAIN out \subseteq DOMAIN m.channels
    /\ out = [d \in DOMAIN out |-> out[d]]
    /\ \A d \in DOMAIN m.channels : DOMAIN m.channels[d] \ {u} # {} => d \in DOMAIN out
    /\ \A d \in DOMAIN out : /\ DOMAIN m.channels[d] \ {u} # {}
                             /\ out[d] \in [DOMAIN m.channels[d] \ {u} -> ParticipantState]

\* The first half of join empties the user's old seat and no other.
LEMMA UnseatFacts ==
    ASSUME NEW m, Good(m), NEW u \in Users
    PROVE  Unseated(m, u, Unseat(m, u))
<1>1. CASE ~InVoice(m, u)
  <2>1. Unseat(m, u) = m.channels
    BY Zenon, <1>1 DEF Unseat
  <2>2. \A d \in DOMAIN m.channels : u \notin DOMAIN m.channels[d]
    BY Zenon, <1>1 DEF InVoice, Good, Agree
  <2>3. \A d \in DOMAIN m.channels : DOMAIN m.channels[d] \ {u} = DOMAIN m.channels[d]
    BY Zenon, <2>2
  <2>. QED BY Zenon, <2>1, <2>3 DEF Unseated, Good, Typed, Inhabited
<1>2. CASE InVoice(m, u)
  <2>. DEFINE c == m.user_to_channel[u].channel
              out == Depart(m.channels, c, u)
  <2>1. Unseat(m, u) = out
    BY Zenon, <1>2 DEF Unseat
  <2>2. Departed(m.channels, c, u, out)
    BY Zenon, DepartFacts DEF Good, Typed, Inhabited
  <2>3. /\ c \in DOMAIN m.channels
        /\ \A d \in DOMAIN m.channels : d # c => u \notin DOMAIN m.channels[d]
    BY Zenon, <1>2 DEF InVoice, Good, Agree
  <2>. HIDE DEF c, out
  <2>4. \A d \in DOMAIN out : /\ DOMAIN m.channels[d] \ {u} # {}
                              /\ out[d] \in [DOMAIN m.channels[d] \ {u} -> ParticipantState]
    <3>. SUFFICES ASSUME NEW d \in DOMAIN out
                  PROVE  /\ DOMAIN m.channels[d] \ {u} # {}
                         /\ out[d] \in [DOMAIN m.channels[d] \ {u} -> ParticipantState]
      BY Zenon
    <3>1. CASE d = c
      <4>1. /\ DOMAIN out[c] = DOMAIN m.channels[c] \ {u} /\ DOMAIN out[c] # {}
            /\ \A x \in DOMAIN out[c] : out[c][x] = m.channels[c][x]
            /\ out[c] = [x \in DOMAIN out[c] |-> out[c][x]]
        BY Zenon, <2>2, <3>1 DEF Departed
      <4>2. \A x \in DOMAIN m.channels[c] : m.channels[c][x] \in ParticipantState
        BY Zenon, <2>3 DEF Good, Typed
      <4>. QED BY Zenon, <3>1, <4>1, <4>2
    <3>2. CASE d # c
      <4>1. d \in DOMAIN m.channels /\ out[d] = m.channels[d]
        BY Zenon, <2>2, <3>2 DEF Departed
      <4>. QED BY Zenon, <2>3, <3>2, <4>1 DEF Good, Typed, Inhabited
    <3>. QED BY Zenon, <3>1, <3>2
  <2>5. /\ DOMAIN out \subseteq DOMAIN m.channels
        /\ out = [d \in DOMAIN out |-> out[d]]
        /\ \A d \in DOMAIN m.channels : DOMAIN m.channels[d] \ {u} # {} => d \in DOMAIN out
    BY Zenon, <2>2 DEF Departed
  <2>. QED BY Zenon, <2>1, <2>4, <2>5 DEF Unseated
<1>. QED BY Zenon, <1>1, <1>2

\* The flags a join carries over are a participant state.
LEMMA CarryStateType ==
    ASSUME NEW m, Good(m), NEW u \in Users, NEW s \in Sessions
    PROVE  CarryState(m, u, s) \in ParticipantState
<1>1. Unmuted \in ParticipantState
  BY Zenon DEF Unmuted, ParticipantState
<1>2. CASE InVoice(m, u)
  <2>1. m.channels[m.user_to_channel[u].channel][u] \in ParticipantState
    BY Zenon, <1>2 DEF InVoice, Good, Typed, Agree
  <2>. QED BY Zenon, <1>1, <2>1 DEF CarryState
<1>. QED BY Zenon, <1>1, <1>2 DEF CarryState

\* join: whatever the user was in before, afterwards the user is in c alone.
LEMMA JoinGood ==
    ASSUME NEW m, Good(m), NEW c \in Channels, NEW u \in Users, NEW s \in Sessions
    PROVE  Good(Join(m, c, u, s))
<1>. DEFINE chs     == Unseat(m, u)
            present == IF c \in DOMAIN chs THEN chs[c] ELSE EmptyMap
            carry   == CarryState(m, u, s)
            seat    == TryEmplace(present, u, carry)
            out     == Put(chs, c, seat)
            utc     == Put(m.user_to_channel, u, [channel |-> c, owner_session |-> s])
            n       == [channels |-> out, user_to_channel |-> utc]
<1>1. Join(m, c, u, s) = n
  BY Zenon DEF Join
<1>2. Unseated(m, u, chs)
  BY Zenon, UnseatFacts
<1>3. carry \in ParticipantState
  BY Zenon, CarryStateType
<1>4. /\ DOMAIN utc = DOMAIN m.user_to_channel \cup {u}
      /\ utc[u] = [channel |-> c, owner_session |-> s]
      /\ \A x \in DOMAIN m.user_to_channel : x # u => utc[x] = m.user_to_channel[x]
      /\ utc \in [DOMAIN utc -> UserVoiceState]
  BY Zenon DEF Put, Good, Typed, UserVoiceState
<1>. HIDE DEF chs, carry, utc
<1>5. /\ DOMAIN present = IF c \in DOMAIN chs THEN DOMAIN m.channels[c] \ {u} ELSE {}
      /\ present \in [DOMAIN present -> ParticipantState]
  <2>1. CASE c \in DOMAIN chs
    BY Zenon, <1>2, <2>1 DEF Unseated, Good, Typed
  <2>2. CASE c \notin DOMAIN chs
    BY Zenon, <2>2 DEF EmptyMap
  <2>. QED BY Zenon, <2>1, <2>2
<1>. HIDE DEF present
<1>6. /\ DOMAIN seat = DOMAIN present \cup {u}
      /\ seat \in [DOMAIN seat -> ParticipantState]
  BY Zenon, <1>3, <1>5 DEF TryEmplace, Put
<1>. HIDE DEF seat
<1>7. /\ DOMAIN out = DOMAIN chs \cup {c}
      /\ out[c] = seat
      /\ \A d \in DOMAIN chs : d # c => out[d] = chs[d]
      /\ out = [d \in DOMAIN out |-> out[d]]
  BY Zenon DEF Put
<1>. HIDE DEF out
<1>8. \A d \in DOMAIN out :
          /\ d # c => d \in DOMAIN m.channels /\ DOMAIN out[d] = DOMAIN m.channels[d] \ {u}
          /\ d = c => DOMAIN out[d] = DOMAIN present \cup {u}
          /\ out[d] \in [DOMAIN out[d] -> ParticipantState]
  BY Zenon, <1>2, <1>6, <1>7 DEF Unseated
<1>9. Typed(n)
  <2>1. DOMAIN out \subseteq Channels
    BY Zenon, <1>2, <1>7 DEF Unseated, Good, Typed
  <2>2. \A d \in DOMAIN out : DOMAIN out[d] \subseteq Users
    <3>1. DOMAIN present \subseteq Users
      BY Zenon, <1>2, <1>5 DEF Unseated, Good, Typed
    <3>. QED BY ZenonT(30), <1>8, <3>1 DEF Good, Typed
  <2>. QED BY Zenon, <1>4, <1>7, <1>8, <2>1, <2>2 DEF Typed, Good
<1>10. Inhabited(n)
  <2>. SUFFICES ASSUME NEW d \in DOMAIN out PROVE DOMAIN out[d] # {}
    BY Zenon DEF Inhabited
  <2>1. CASE d = c
    BY Zenon, <1>8, <2>1
  <2>2. CASE d # c
    <3>1. d \in DOMAIN chs
      BY Zenon, <1>7, <2>2
    <3>. QED BY Zenon, <1>2, <1>8, <2>2, <3>1 DEF Unseated
  <2>. QED BY Zenon, <2>1, <2>2
<1>11. Agree(n)
  <2>1. ASSUME NEW x \in DOMAIN utc
        PROVE  utc[x].channel \in DOMAIN out /\ x \in DOMAIN out[utc[x].channel]
    <3>1. CASE x = u
      BY <1>4, <1>6, <1>7, <3>1
    <3>2. CASE x # u
      <4>. DEFINE d == m.user_to_channel[x].channel
      <4>1. utc[x].channel = d /\ d \in DOMAIN m.channels /\ x \in DOMAIN m.channels[d]
        BY Zenon, <1>4, <3>2 DEF Good, Agree
      <4>. HIDE DEF d
      <4>2. d \in DOMAIN chs
        BY Zenon, <1>2, <3>2, <4>1 DEF Unseated
      <4>3. CASE d = c
        BY Zenon, <1>5, <1>6, <1>7, <3>2, <4>1, <4>2, <4>3
      <4>4. CASE d # c
        BY Zenon, <1>7, <1>8, <3>2, <4>1, <4>2, <4>4
      <4>. QED BY Zenon, <4>3, <4>4
    <3>. QED BY Zenon, <3>1, <3>2
  <2>2. ASSUME NEW d \in DOMAIN out, NEW x \in DOMAIN out[d]
        PROVE  x \in DOMAIN utc /\ utc[x].channel = d
    <3>1. CASE x = u
      <4>1. d = c
        BY Zenon, <1>8, <3>1
      <4>. QED BY <1>4, <3>1, <4>1
    <3>2. CASE x # u
      <4>1. d \in DOMAIN m.channels /\ x \in DOMAIN m.channels[d]
        <5>1. CASE d = c
          <6>1. x \in DOMAIN present
            BY Zenon, <1>8, <3>2, <5>1
          <6>. QED BY Zenon, <1>2, <1>5, <5>1, <6>1 DEF Unseated
        <5>2. CASE d # c
          BY Zenon, <1>8, <5>2
        <5>. QED BY Zenon, <5>1, <5>2
      <4>. QED BY Zenon, <1>4, <3>2, <4>1 DEF Good, Agree
    <3>. QED BY Zenon, <3>1, <3>2
  <2>. QED BY Zenon, <2>1, <2>2 DEF Agree
<1>. QED BY Zenon, <1>1, <1>9, <1>10, <1>11 DEF Good

\* clear_channel: exactly the channel's participants lose their mapping.
LEMMA ClearChannelGood ==
    ASSUME NEW m, Good(m), NEW c \in Channels
    PROVE  Good(ClearChannel(m, c))
<1>. DEFINE chs  == Erase(m.channels, c)
            kept == {u \in DOMAIN m.user_to_channel :
                        ~(u \in UsersIn(m, c) /\ m.user_to_channel[u].channel = c)}
            utc  == Restrict(m.user_to_channel, kept)
            n    == [channels |-> chs, user_to_channel |-> utc]
<1>1. ClearChannel(m, c) = n
  BY Zenon DEF ClearChannel
<1>2. /\ DOMAIN chs = DOMAIN m.channels \ {c}
      /\ \A d \in DOMAIN chs : chs[d] = m.channels[d]
      /\ chs = [d \in DOMAIN chs |-> chs[d]]
  BY Zenon DEF Erase, Restrict
<1>3. /\ DOMAIN utc = kept
      /\ \A u \in kept : utc[u] = m.user_to_channel[u]
      /\ utc \in [DOMAIN utc -> UserVoiceState]
  BY Zenon DEF Restrict, Good, Typed
<1>4. kept = {u \in DOMAIN m.user_to_channel : m.user_to_channel[u].channel # c}
  BY DEF UsersIn, Good, Agree
<1>. HIDE DEF chs, utc, kept
<1>5. Typed(n)
  BY Zenon, <1>2, <1>3, <1>4 DEF Good, Typed
<1>6. Agree(n)
  BY <1>2, <1>3, <1>4 DEF Good, Agree
<1>7. Inhabited(n)
  BY Zenon, <1>2 DEF Good, Inhabited
<1>. QED BY Zenon, <1>1, <1>5, <1>6, <1>7 DEF Good

\* set_muted and set_deafened replace one participant's flags.
LEMMA SetEntryGood ==
    ASSUME NEW m, Good(m), NEW u \in Users, HasEntry(m, u), NEW state \in ParticipantState
    PROVE  Good(SetEntry(m, u, state))
<1>. DEFINE c    == m.user_to_channel[u].channel
            seat == Put(m.channels[c], u, state)
            chs  == Put(m.channels, c, seat)
            n    == [channels |-> chs, user_to_channel |-> m.user_to_channel]
<1>1. SetEntry(m, u, state) = n
  BY DEF SetEntry, Good, Typed
<1>2. c \in DOMAIN m.channels /\ u \in DOMAIN m.channels[c]
  BY Zenon DEF HasEntry, InVoice, Good, Agree
<1>. HIDE DEF c
<1>3. DOMAIN seat = DOMAIN m.channels[c] /\ seat \in [DOMAIN seat -> ParticipantState]
  BY Zenon, <1>2 DEF Put, Good, Typed
<1>. HIDE DEF seat
<1>4. /\ DOMAIN chs = DOMAIN m.channels
      /\ chs[c] = seat
      /\ \A d \in DOMAIN chs : d # c => chs[d] = m.channels[d]
      /\ chs = [d \in DOMAIN chs |-> chs[d]]
  BY Zenon, <1>2 DEF Put
<1>. HIDE DEF chs
<1>5. Typed(n)
  BY Zenon, <1>2, <1>3, <1>4 DEF Good, Typed
<1>6. Agree(n)
  BY Zenon, <1>2, <1>3, <1>4 DEF Good, Agree
<1>7. Inhabited(n)
  BY Zenon, <1>2, <1>3, <1>4 DEF Good, Inhabited
<1>. QED BY Zenon, <1>1, <1>5, <1>6, <1>7 DEF Good

\* The setters of the flags change an entry that is there.
LEMMA SetFlagsGood ==
    ASSUME NEW m, Good(m), NEW u \in Users, NEW b \in BOOLEAN
    PROVE  Good(SetMuted(m, u, b)) /\ Good(SetDeafened(m, u, b))
<1>1. CASE HasEntry(m, u)
  <2>1. EntryOf(m, u) \in ParticipantState
    BY Zenon, <1>1 DEF HasEntry, InVoice, EntryOf, Good, Agree, Typed
  <2>2. /\ [EntryOf(m, u) EXCEPT !.muted = b] \in ParticipantState
        /\ [muted |-> b, deafened |-> b] \in ParticipantState
    BY Zenon, <2>1 DEF ParticipantState
  <2>. QED BY Zenon, <1>1, <2>2, SetEntryGood DEF SetMuted, SetDeafened
<1>. QED BY Zenon, <1>1 DEF SetMuted, SetDeafened

\* transfer_owner_session touches only the owner.
LEMMA TransferGood ==
    ASSUME NEW m, Good(m), NEW u \in Users, NEW s \in Sessions, NEW t \in Sessions
    PROVE  Good(TransferOwnerSession(m, u, s, t))
<1>1. CASE InVoice(m, u) /\ m.user_to_channel[u].owner_session = s
  <2>. DEFINE to  == [channel |-> m.user_to_channel[u].channel, owner_session |-> t]
              utc == Put(m.user_to_channel, u, to)
              n   == [channels |-> m.channels, user_to_channel |-> utc]
  <2>1. TransferOwnerSession(m, u, s, t) = n
    BY Zenon, <1>1 DEF TransferOwnerSession, Good, Typed
  <2>2. to \in UserVoiceState
    BY Zenon, <1>1 DEF InVoice, Good, Typed, UserVoiceState
  <2>3. /\ DOMAIN utc = DOMAIN m.user_to_channel
        /\ utc \in [DOMAIN utc -> UserVoiceState]
        /\ \A x \in DOMAIN utc : utc[x].channel = m.user_to_channel[x].channel
    BY Zenon, <1>1, <2>2 DEF Put, InVoice, Good, Typed
  <2>. HIDE DEF utc
  <2>4. n.channels = m.channels /\ n.user_to_channel = utc
    BY Zenon
  <2>5. n = [channels |-> n.channels, user_to_channel |-> n.user_to_channel]
    BY Zenon, <2>4
  <2>. HIDE DEF n
  <2>6. Typed(n)
    BY Zenon, <2>3, <2>4, <2>5 DEF Good, Typed
  <2>7. Agree(n)
    BY Zenon, <2>3, <2>4 DEF Good, Agree
  <2>8. Inhabited(n)
    BY Zenon, <2>4 DEF Good, Inhabited
  <2>. QED BY Zenon, <2>1, <2>6, <2>7, <2>8 DEF Good
<1>. QED BY Zenon, <1>1 DEF TransferOwnerSession

-----------------------------------------------------------------------------
(* The theorems.                                                           *)

IInv == Good(voice)

\* No method sequence breaks the inductive invariant.
LEMMA Inductive == Spec => []IInv
<1>1. Init => IInv
  BY DEF Init, IInv, Good, Typed, Agree, Inhabited, NoVoice, EmptyMap
<1>2. IInv /\ [Next]_voice => IInv'
  <2>. SUFFICES ASSUME IInv, [Next]_voice PROVE IInv'
    BY Zenon
  <2>. USE DEF IInv
  <2>1. CASE DoJoin
    BY Zenon, <2>1, JoinGood DEF DoJoin
  <2>2. CASE DoLeave
    BY Zenon, <2>2, LeaveGood DEF DoLeave
  <2>3. CASE DoLeaveUser
    BY Zenon, <2>3, LeaveUserGood DEF DoLeaveUser
  <2>4. CASE DoLeaveIfOwner
    BY Zenon, <2>4, LeaveIfOwnerGood DEF DoLeaveIfOwner
  <2>5. CASE DoClear
    BY Zenon, <2>5, ClearChannelGood DEF DoClear
  <2>6. CASE DoSetMuted
    BY Zenon, <2>6, SetFlagsGood DEF DoSetMuted
  <2>7. CASE DoSetDeafened
    BY Zenon, <2>7, SetFlagsGood DEF DoSetDeafened
  <2>8. CASE DoTransfer
    BY Zenon, <2>8, TransferGood DEF DoTransfer
  <2>9. CASE UNCHANGED voice
    BY Zenon, <2>9
  <2>. QED BY Zenon, <2>1, <2>2, <2>3, <2>4, <2>5, <2>6, <2>7, <2>8, <2>9 DEF Next
<1>. QED BY <1>1, <1>2, PTL DEF Spec

\* Every entry of the maps stays well typed.
THEOREM Typing == Spec => []TypeOK
<1>1. IInv => TypeOK
  BY Zenon DEF IInv, Good, TypeOK
<1>. QED BY <1>1, Inductive, PTL

\* Single source of truth for voice channel participation: the two maps are
\* always one relation, so a user is in at most one channel.
THEOREM OneRelation == Spec => []MapsAgree
<1>1. IInv => MapsAgree
  BY Zenon DEF IInv, Good, MapsAgree
<1>. QED BY <1>1, Inductive, PTL

\* No channel entry outlives its last participant.
THEOREM NoGhostChannel == Spec => []NoEmptyChannel
<1>1. IInv => NoEmptyChannel
  BY Zenon DEF IInv, Good, NoEmptyChannel
<1>. QED BY <1>1, Inductive, PTL

\* What leave and join answer is what they did.
THEOREM ExactReplies == Spec => []RepliesExact
<1>1. ASSUME IInv, NEW c \in Channels, NEW u \in Users
      PROVE  LeaveBecameEmpty(voice, c, u) <=>
                 ~IsEmpty(voice, c) /\ IsEmpty(Leave(voice, c, u), c)
  <2>1. CASE Moved(voice, c, u)
    BY Zenon, <2>1 DEF LeaveBecameEmpty, Leave
  <2>2. CASE ~Moved(voice, c, u)
    <3>. DEFINE chs == Depart(voice.channels, c, u)
    <3>1. Departed(voice.channels, c, u, chs)
      BY Zenon, <1>1, DepartFacts DEF IInv, Good, Typed, Inhabited
    <3>2. Leave(voice, c, u).channels = chs
      BY Zenon, <2>2 DEF Leave
    <3>. HIDE DEF chs
    <3>3. IsEmpty(Leave(voice, c, u), c) <=> c \notin DOMAIN chs
      BY Zenon, <3>1, <3>2 DEF IsEmpty, UsersIn, Departed
    <3>4. ~IsEmpty(voice, c) <=> c \in DOMAIN voice.channels
      BY Zenon, <1>1 DEF IsEmpty, UsersIn, IInv, Good, Inhabited
    <3>. QED BY Zenon, <2>2, <3>1, <3>3, <3>4 DEF LeaveBecameEmpty, Departed
  <2>. QED BY Zenon, <2>1, <2>2
<1>2. ASSUME IInv, NEW c \in Channels, NEW u \in Users
      PROVE  JoinWasEmpty(voice, c, u) <=> UsersIn(voice, c) \subseteq {u}
  <2>. DEFINE chs == Unseat(voice, u)
  <2>1. Unseated(voice, u, chs)
    BY Zenon, <1>2, UnseatFacts DEF IInv
  <2>2. JoinWasEmpty(voice, c, u) <=> (c \notin DOMAIN chs \/ DOMAIN chs[c] = {})
    BY Zenon DEF JoinWasEmpty
  <2>. HIDE DEF chs
  <2>3. CASE c \in DOMAIN chs
    <3>1. DOMAIN chs[c] = DOMAIN voice.channels[c] \ {u} /\ DOMAIN voice.channels[c] \ {u} # {}
      BY Zenon, <2>1, <2>3 DEF Unseated
    <3>2. UsersIn(voice, c) = DOMAIN voice.channels[c]
      BY Zenon, <2>1, <2>3 DEF Unseated, UsersIn
    <3>. QED BY Zenon, <2>2, <2>3, <3>1, <3>2
  <2>4. CASE c \notin DOMAIN chs
    <3>1. c \in DOMAIN voice.channels => DOMAIN voice.channels[c] \ {u} = {}
      BY Zenon, <2>1, <2>4 DEF Unseated
    <3>. QED BY Zenon, <2>2, <2>4, <3>1 DEF UsersIn
  <2>. QED BY Zenon, <2>3, <2>4
<1>3. IInv => RepliesExact
  BY Zenon, <1>1, <1>2 DEF RepliesExact
<1>. QED BY <1>3, Inductive, PTL

\* A user keeps the channel in every step but a join of that very user.
LEMMA OnlyJoinMoves ==
    ASSUME IInv, Next, NEW u \in Users, InVoice(voice, u), InVoice(voice', u),
           voice'.user_to_channel[u].channel # voice.user_to_channel[u].channel
    PROVE  \E c \in Channels, s \in Sessions : voice' = Join(voice, c, u, s)
<1>0. ASSUME NEW c, NEW w, voice' = Leave(voice, c, w) PROVE FALSE
  BY Zenon, <1>0 DEF Leave, Erase, Restrict, InVoice
<1>1. CASE DoJoin
  <2>1. PICK c \in Channels, w \in Users, s \in Sessions : voice' = Join(voice, c, w, s)
    BY Zenon, <1>1 DEF DoJoin
  <2>2. w = u
    BY Zenon, <2>1 DEF Join, Put, InVoice
  <2>. QED BY Zenon, <2>1, <2>2
<1>2. CASE DoLeave
  BY Zenon, <1>0, <1>2 DEF DoLeave
<1>3. CASE DoLeaveUser
  BY Zenon, <1>0, <1>3 DEF DoLeaveUser, LeaveUser
<1>4. CASE DoLeaveIfOwner
  BY Zenon, <1>0, <1>4 DEF DoLeaveIfOwner, LeaveIfOwner, LeaveUser
<1>5. CASE DoClear
  BY <1>5 DEF DoClear, ClearChannel, Restrict, InVoice
<1>6. CASE DoSetMuted
  BY Zenon, <1>6 DEF DoSetMuted, SetMuted, SetEntry, IInv, Good, Typed
<1>7. CASE DoSetDeafened
  BY Zenon, <1>7 DEF DoSetDeafened, SetDeafened, SetEntry, IInv, Good, Typed
<1>8. CASE DoTransfer
  <2>1. PICK w \in Users, s \in Sessions, t \in Sessions :
           voice' = TransferOwnerSession(voice, w, s, t)
    BY Zenon, <1>8 DEF DoTransfer
  <2>2. CASE InVoice(voice, w) /\ voice.user_to_channel[w].owner_session = s
    <3>1. voice'.user_to_channel =
             Put(voice.user_to_channel, w,
                 [channel |-> voice.user_to_channel[w].channel, owner_session |-> t])
      BY Zenon, <2>1, <2>2 DEF TransferOwnerSession, IInv, Good, Typed
    <3>. QED BY <3>1 DEF Put, InVoice
  <2>. QED BY Zenon, <2>1, <2>2 DEF TransferOwnerSession
<1>. QED BY Zenon, <1>1, <1>2, <1>3, <1>4, <1>5, <1>6, <1>7, <1>8 DEF Next

\* Mute and deafen follow the owner session, never the user: a takeover by
\* another session starts unmuted, a switch by the same one keeps its flags.
THEOREM FlagsFollow == Spec => FlagsFollowSession
<1>. DEFINE Moves(u) == /\ InVoice(voice, u) /\ InVoice(voice', u)
                        /\ voice'.user_to_channel[u].channel # voice.user_to_channel[u].channel
            Kept(u)  == EntryOf(voice', u) =
                           IF voice'.user_to_channel[u].owner_session
                                = voice.user_to_channel[u].owner_session
                           THEN EntryOf(voice, u) ELSE Unmuted
<1>1. ASSUME IInv, Next, NEW u \in Users, Moves(u) PROVE Kept(u)
  <2>1. PICK c \in Channels, s \in Sessions : voice' = Join(voice, c, u, s)
    BY Zenon, <1>1, OnlyJoinMoves
  <2>. DEFINE chs     == Unseat(voice, u)
              present == IF c \in DOMAIN chs THEN chs[c] ELSE EmptyMap
              carry   == CarryState(voice, u, s)
  <2>2. /\ voice'.channels = Put(chs, c, TryEmplace(present, u, carry))
        /\ voice'.user_to_channel[u] = [channel |-> c, owner_session |-> s]
    BY Zenon, <2>1 DEF Join, Put
  <2>3. u \notin DOMAIN present
    <3>1. Unseated(voice, u, chs)
      BY Zenon, <1>1, UnseatFacts DEF IInv
    <3>. QED BY Zenon, <3>1 DEF Unseated, EmptyMap
  <2>4. carry = IF voice.user_to_channel[u].owner_session = s
                THEN EntryOf(voice, u) ELSE Unmuted
    <3>1. u \in UsersIn(voice, voice.user_to_channel[u].channel)
      BY Zenon, <1>1 DEF IInv, Good, Agree, UsersIn, InVoice
    <3>. QED BY Zenon, <1>1, <3>1 DEF CarryState, EntryOf
  <2>. HIDE DEF chs, present, carry
  <2>5. EntryOf(voice', u) = carry
    BY <2>2, <2>3 DEF EntryOf, TryEmplace, Put
  <2>. QED BY <2>2, <2>4, <2>5
<1>2. IInv /\ [Next]_voice => [MoveKeepsFlags]_voice
  BY Zenon, <1>1 DEF MoveKeepsFlags
<1>. QED BY <1>2, Inductive, PTL DEF Spec, FlagsFollowSession

-----------------------------------------------------------------------------
(* The types of VoiceService.                                              *)

Metadata == [session : Sessions, nonce : Nat]
ParticipantHooks == [kind : {"joined", "left"}, channel : Channels, user : Users,
                     session : Sessions, nonce : Nat, ts : Nat, seen : BOOLEAN]
RoomHooks == [kind : {"started", "finished"}, channel : Channels, ts : Nat, seen : BOOLEAN]
Tokens    == [user : Users, channel : Channels, session : Sessions, nonce : Nat,
              valid : BOOLEAN, used : BOOLEAN]
Commands  == [user : Users, channel : Channels, nonce : Nat, from : SUBSET Channels]
Intents   == [session : Sessions, nonce : Nat, to : Channels, from : SUBSET Channels,
              muted : BOOLEAN, deafened : BOOLEAN,
              old_leave_seen : BOOLEAN, new_join_seen : BOOLEAN]

-----------------------------------------------------------------------------
(* The invariant.                                                          *)

\* Somebody connected to c as u with a token of the session s.
Backed(tk, u, c, s) == \E t \in tk : t.user = u /\ t.channel = c /\ t.session = s /\ t.used

\* The participants of a room, as LiveKit has them or as it listed them.
Attends(tk, c, room) ==
    \A u \in DOMAIN room : u \in Users /\ room[u] \in Metadata /\ Backed(tk, u, c, room[u].session)

Hooks(tk) == RoomHooks \cup {h \in ParticipantHooks : Backed(tk, h.user, h.channel, h.session)}

IsRecord(r, fields) == DOMAIN r = fields /\ r = [x \in fields |-> r[x]]

LiveKitFields == {"room", "open", "hooks", "second", "scenario"}

\* Nobody is in a room, and no webhook tells of anybody, without a token.
LiveKitOK(l, tk) ==
    /\ IsRecord(l, LiveKitFields)
    /\ l.room = [c \in Channels |-> l.room[c]]
    /\ \A c \in Channels : Attends(tk, c, l.room[c])
    /\ l.open \subseteq Channels /\ l.second \in Nat /\ l.scenario \in Scenarios
    /\ l.hooks \in Seq(Hooks(tk))

\* What the reconciler holds between its steps.
ScanOK(r, tk) ==
    /\ r.phase = "scan"
    /\ IsRecord(r, {"phase", "channel", "remote", "absent", "arrivals"})
    /\ r.channel \in Channels /\ Attends(tk, r.channel, r.remote)
    /\ r.absent \subseteq Users /\ r.arrivals \subseteq DOMAIN r.remote

QueriedOK(r, tk) ==
    /\ r.phase = "queried"
    /\ r.channel \in Channels /\ Attends(tk, r.channel, r.remote)

EjectOK(r, tk) ==
    /\ r.phase = "eject" /\ r.user \in Users /\ ScanOK(r.then, tk)

FinishOK(r) == r.phase = "finish" /\ r.channel \in Channels

ReconcilerOK(r, tk) ==
    r = Idle \/ QueriedOK(r, tk) \/ ScanOK(r, tk) \/ EjectOK(r, tk) \/ FinishOK(r)

\* The session s was minted for u, in this process.
Mine(mt, u, s) == s \in DOMAIN mt /\ mt[s] = u

\* Sessions are minted in order, and commands, intents and tokens name those they serve.
SessionsOK(l, live, mt) ==
    /\ mt \in Seq(Users) /\ Len(mt) <= l.scenario.sessions
    /\ \A s \in DOMAIN live : Mine(mt, live[s], s)

JoiningOK(js, mt) == \A s \in DOMAIN js : js[s] \in Commands /\ Mine(mt, js[s].user, s)

IntentsOK(l, is, mt) ==
    \A u \in DOMAIN is : /\ u \in Users /\ is[u] \in Intents
                         /\ "restart" \notin l.scenario.may => Mine(mt, u, is[u].session)

EvidenceOK(e) == IsRecord(e, {"channels", "participants"})

\* Members own their voice with a session of theirs, and connected from it.
MembersOK(l, m, mt, tk) ==
    \A u \in DOMAIN m.user_to_channel :
       /\ "restart" \notin l.scenario.may => Mine(mt, u, m.user_to_channel[u].owner_session)
       /\ l.scenario.may \cap {"bare", "resume"} = {} =>
             Backed(tk, u, m.user_to_channel[u].channel, m.user_to_channel[u].owner_session)

ServiceInv ==
    /\ Good(voice) /\ MembersOK(lk, voice, minted, tokens)
    /\ LiveKitOK(lk, tokens) /\ ReconcilerOK(rec, tokens)
    /\ SessionsOK(lk, sessions, minted) /\ JoiningOK(joining, minted)
    /\ IntentsOK(lk, intent, minted)
    /\ tokens \subseteq Tokens /\ nonce \in Nat /\ EvidenceOK(evidence)

-----------------------------------------------------------------------------
(* LiveKit.                                                                *)

\* The updates of LiveKit, and what they leave as it is.
WithHooks(l, hs) == [l EXCEPT !.hooks = hs]
WithRoom(l, r)   == [l EXCEPT !.room = r]
WithOpen(l, o)   == [l EXCEPT !.open = o]
WithSecond(l, n) == [l EXCEPT !.second = n]

Changes(l2, room, open, hooks, second, scenario) ==
    /\ IsRecord(l2, LiveKitFields)
    /\ l2.room = room /\ l2.open = open /\ l2.hooks = hooks
    /\ l2.second = second /\ l2.scenario = scenario

\* An update of one field of LiveKit leaves the other fields as they are.
LEMMA LiveKitUpdates ==
    ASSUME NEW l, IsRecord(l, LiveKitFields), NEW x
    PROVE  /\ Changes(WithHooks(l, x), l.room, l.open, x, l.second, l.scenario)
           /\ Changes(WithRoom(l, x), x, l.open, l.hooks, l.second, l.scenario)
           /\ Changes(WithOpen(l, x), l.room, x, l.hooks, l.second, l.scenario)
           /\ Changes(WithSecond(l, x), l.room, l.open, l.hooks, x, l.scenario)
<1>1. Changes(WithHooks(l, x), l.room, l.open, x, l.second, l.scenario)
  BY Zenon DEF Changes, IsRecord, LiveKitFields, WithHooks
<1>2. Changes(WithRoom(l, x), x, l.open, l.hooks, l.second, l.scenario)
  BY Zenon DEF Changes, IsRecord, LiveKitFields, WithRoom
<1>3. Changes(WithOpen(l, x), l.room, x, l.hooks, l.second, l.scenario)
  BY Zenon DEF Changes, IsRecord, LiveKitFields, WithOpen
<1>4. Changes(WithSecond(l, x), l.room, l.open, l.hooks, x, l.scenario)
  BY Zenon DEF Changes, IsRecord, LiveKitFields, WithSecond
<1>. QED BY Zenon, <1>1, <1>2, <1>3, <1>4

\* Posting a webhook of somebody who has a token.
LEMMA PostedOK ==
    ASSUME NEW tk, NEW l, LiveKitOK(l, tk), NEW h \in Hooks(tk)
    PROVE  /\ LiveKitOK(Posted(l, h), tk)
           /\ Posted(l, h).room = l.room /\ Posted(l, h).open = l.open
           /\ Posted(l, h).second = l.second /\ Posted(l, h).scenario = l.scenario
<1>. DEFINE p == Posted(l, h)
<1>1. Changes(p, l.room, l.open, Append(l.hooks, h), l.second, l.scenario)
  BY Zenon, LiveKitUpdates DEF Posted, LiveKitOK, WithHooks
<1>. HIDE DEF p
<1>2. Append(l.hooks, h) \in Seq(Hooks(tk))
  <2>1. l.hooks \in Seq(Hooks(tk))
    BY Zenon DEF LiveKitOK
  <2>. QED BY <2>1
<1>3. LiveKitOK(p, tk)
  BY Zenon, <1>1, <1>2 DEF LiveKitOK, Changes
<1>. QED BY Zenon, <1>1, <1>3 DEF Changes, p

\* Taking the k-th webhook out.
LEMMA WithoutHookOK ==
    ASSUME NEW tk, NEW l, LiveKitOK(l, tk), NEW k \in DOMAIN l.hooks
    PROVE  /\ LiveKitOK(WithoutHook(l, k), tk)
           /\ WithoutHook(l, k).room = l.room /\ WithoutHook(l, k).open = l.open
           /\ WithoutHook(l, k).scenario = l.scenario
<1>. DEFINE hs == SubSeq(l.hooks, 1, k - 1) \o SubSeq(l.hooks, k + 1, Len(l.hooks))
            p == WithoutHook(l, k)
<1>1. Changes(p, l.room, l.open, hs, l.second, l.scenario)
  BY Zenon, LiveKitUpdates DEF WithoutHook, LiveKitOK, WithHooks
<1>. HIDE DEF p
<1>2. hs \in Seq(Hooks(tk))
  <2>1. l.hooks \in Seq(Hooks(tk))
    BY Zenon DEF LiveKitOK
  <2>2. k \in 1..Len(l.hooks) /\ Len(l.hooks) \in Nat
    BY <2>1
  <2>3. SubSeq(l.hooks, 1, k - 1) \in Seq(Hooks(tk))
    BY <2>1, <2>2
  <2>4. SubSeq(l.hooks, k + 1, Len(l.hooks)) \in Seq(Hooks(tk))
    BY <2>1, <2>2
  <2>. QED BY <2>3, <2>4
<1>3. LiveKitOK(p, tk)
  BY Zenon, <1>1, <1>2 DEF LiveKitOK, Changes
<1>. QED BY Zenon, <1>1, <1>3 DEF Changes, p

\* The rooms of r2 are those of r, but for u in c.
OnlyAt(r2, r, c, u) ==
    /\ \A d \in Channels \ {c} : r2[d] = r[d]
    /\ \A x \in DOMAIN r[c] \ {u} : x \in DOMAIN r2[c] /\ r2[c][x] = r[c][x]
    /\ \A x \in DOMAIN r2[c] \ {u} : x \in DOMAIN r[c]

\* RemoveParticipant: the user goes, and a webhook with the user's own metadata comes.
LEMMA RemovedOK ==
    ASSUME NEW tk, NEW l, LiveKitOK(l, tk), NEW c \in Channels, NEW u \in Users
    PROVE  /\ LiveKitOK(Removed(l, c, u), tk) /\ OnlyAt(Removed(l, c, u).room, l.room, c, u)
           /\ Removed(l, c, u).open = l.open /\ Removed(l, c, u).scenario = l.scenario
<1>1. CASE ~InRoom(l, c, u)
  <2>1. Removed(l, c, u) = l
    BY Zenon, <1>1 DEF Removed
  <2>. QED BY Zenon, <2>1 DEF OnlyAt
<1>2. CASE InRoom(l, c, u)
  <2>. DEFINE h == ParticipantHook(l, "left", c, u, l.room[c][u])
              q == Posted(l, h)
              rest == Erase(l.room[c], u)
              room == [d \in Channels |-> IF d = c THEN rest ELSE l.room[d]]
              p == Removed(l, c, u)
  <2>1. l.room[c][u] \in Metadata /\ Backed(tk, u, c, l.room[c][u].session) /\ l.second \in Nat
    BY Zenon, <1>2 DEF LiveKitOK, Attends, InRoom
  <2>2. h \in ParticipantHooks /\ h.user = u /\ h.channel = c /\ h.session = l.room[c][u].session
    BY <2>1 DEF ParticipantHook, ParticipantHooks, Metadata
  <2>3. h \in Hooks(tk)
    BY Zenon, <2>1, <2>2 DEF Hooks
  <2>. HIDE DEF h
  <2>4. LiveKitOK(q, tk) /\ q.room = l.room /\ q.open = l.open /\ q.scenario = l.scenario
    BY Zenon, <2>3, PostedOK
  <2>5. p = WithRoom(q, [q.room EXCEPT ![c] = Erase(q.room[c], u)])
    BY Zenon, <1>2 DEF Removed, WithRoom, h
  <2>. HIDE DEF q, p
  <2>6. [q.room EXCEPT ![c] = Erase(q.room[c], u)] = room
    BY Zenon, <2>4 DEF LiveKitOK
  <2>7. DOMAIN rest = DOMAIN l.room[c] \ {u} /\ \A x \in DOMAIN rest : rest[x] = l.room[c][x]
    BY Zenon DEF Erase, Restrict
  <2>. HIDE DEF rest
  <2>8. \A d \in Channels : Attends(tk, d, room[d])
    BY Zenon, <2>7 DEF Attends, LiveKitOK
  <2>9. room = [d \in Channels |-> room[d]]
    BY Zenon
  <2>10. OnlyAt(room, l.room, c, u)
    BY Zenon, <2>7 DEF OnlyAt
  <2>. HIDE DEF room
  <2>11. Changes(p, room, q.open, q.hooks, q.second, q.scenario)
    BY Zenon, <2>4, <2>5, <2>6, LiveKitUpdates DEF LiveKitOK
  <2>12. LiveKitOK(p, tk)
    BY Zenon, <2>4, <2>8, <2>9, <2>11 DEF LiveKitOK, Changes
  <2>. QED BY Zenon, <2>4, <2>10, <2>11, <2>12 DEF Changes, p
<1>. QED BY Zenon, <1>1, <1>2

\* A room opens.
LEMMA OpenedOK ==
    ASSUME NEW tk, NEW l, LiveKitOK(l, tk), NEW c \in Channels
    PROVE  LiveKitOK(Opened(l, c), tk) /\ Opened(l, c).scenario = l.scenario
<1>1. CASE c \in l.open
  BY Zenon, <1>1 DEF Opened
<1>2. CASE c \notin l.open
  <2>. DEFINE h == RoomHook(l, "started", c)
              q == Posted(l, h)
  <2>1. h \in RoomHooks
    <3>1. l.second \in Nat
      BY Zenon DEF LiveKitOK
    <3>. QED BY <3>1 DEF RoomHook, RoomHooks
  <2>2. LiveKitOK(q, tk) /\ q.scenario = l.scenario
    BY Zenon, <2>1, PostedOK DEF Hooks
  <2>3. Opened(l, c) = WithOpen(q, q.open \cup {c})
    BY Zenon, <1>2 DEF Opened, WithOpen
  <2>. HIDE DEF q
  <2>4. Changes(Opened(l, c), q.room, q.open \cup {c}, q.hooks, q.second, q.scenario)
    BY Zenon, <2>2, <2>3, LiveKitUpdates DEF LiveKitOK
  <2>. QED BY Zenon, <2>2, <2>4 DEF LiveKitOK, Changes
<1>. QED BY Zenon, <1>1, <1>2

\* A room closes.
LEMMA ClosedOK ==
    ASSUME NEW tk, NEW l, LiveKitOK(l, tk), NEW c \in Channels
    PROVE  LiveKitOK(Closed(l, c), tk) /\ Closed(l, c).scenario = l.scenario
<1>. DEFINE h == RoomHook(l, "finished", c)
            q == Posted(l, h)
<1>1. h \in RoomHooks
  <2>1. l.second \in Nat
    BY Zenon DEF LiveKitOK
  <2>. QED BY <2>1 DEF RoomHook, RoomHooks
<1>2. LiveKitOK(q, tk) /\ q.scenario = l.scenario
  BY Zenon, <1>1, PostedOK DEF Hooks
<1>3. Closed(l, c) = WithOpen(q, q.open \ {c})
  BY Zenon DEF Closed, WithOpen
<1>. HIDE DEF q
<1>4. Changes(Closed(l, c), q.room, q.open \ {c}, q.hooks, q.second, q.scenario)
  BY Zenon, <1>2, <1>3, LiveKitUpdates DEF LiveKitOK
<1>. QED BY Zenon, <1>2, <1>4 DEF LiveKitOK, Changes

\* A second goes by.
LEMMA SecondOK ==
    ASSUME NEW tk, NEW l, LiveKitOK(l, tk)
    PROVE  LiveKitOK(WithSecond(l, l.second + 1), tk)
           /\ WithSecond(l, l.second + 1).scenario = l.scenario
<1>1. Changes(WithSecond(l, l.second + 1), l.room, l.open, l.hooks, l.second + 1, l.scenario)
  BY Zenon, LiveKitUpdates DEF LiveKitOK
<1>2. l.second + 1 \in Nat
  <2>1. l.second \in Nat
    BY Zenon DEF LiveKitOK
  <2>. QED BY <2>1
<1>. QED BY Zenon, <1>1, <1>2 DEF LiveKitOK, Changes

\* A client connects with a token that is marked as used.
LEMMA ConnectedOK ==
    ASSUME NEW tk, NEW l, LiveKitOK(l, tk), NEW c \in Channels, NEW u \in Users,
           NEW p \in Metadata, Backed(tk, u, c, p.session)
    PROVE  LiveKitOK(Connected(l, c, u, p), tk) /\ Connected(l, c, u, p).scenario = l.scenario
<1>. DEFINE l1 == Removed(l, c, u)
            h == ParticipantHook(l1, "joined", c, u, p)
            q == Posted(l1, h)
            seats == Put(q.room[c], u, p)
            room == [d \in Channels |-> IF d = c THEN seats ELSE q.room[d]]
            n == Connected(l, c, u, p)
<1>1. LiveKitOK(l1, tk) /\ l1.scenario = l.scenario
  BY Zenon, RemovedOK
<1>2. l1.second \in Nat
  BY Zenon, <1>1 DEF LiveKitOK
<1>. HIDE DEF l1
<1>3. h \in ParticipantHooks /\ h.user = u /\ h.channel = c /\ h.session = p.session
  BY <1>2 DEF ParticipantHook, ParticipantHooks, Metadata
<1>4. h \in Hooks(tk)
  BY Zenon, <1>3 DEF Hooks
<1>5. LiveKitOK(q, tk) /\ q.scenario = l.scenario
  BY ZenonT(30), <1>1, <1>4, PostedOK
<1>6. n = WithRoom(q, [q.room EXCEPT ![c] = Put(q.room[c], u, p)])
  BY Zenon DEF Connected, WithRoom, l1
<1>. HIDE DEF h, q, n
<1>7. [q.room EXCEPT ![c] = Put(q.room[c], u, p)] = room
  BY Zenon, <1>5 DEF LiveKitOK
<1>8. DOMAIN seats = DOMAIN q.room[c] \cup {u} /\ seats[u] = p
  BY Zenon DEF Put
<1>9. \A x \in DOMAIN seats \ {u} : seats[x] = q.room[c][x]
  BY Zenon DEF Put
<1>. HIDE DEF seats
<1>10. Attends(tk, c, seats)
  BY Zenon, <1>5, <1>8, <1>9 DEF Attends, LiveKitOK
<1>11. (\A d \in Channels : Attends(tk, d, room[d])) /\ room = [d \in Channels |-> room[d]]
  BY Zenon, <1>5, <1>10 DEF LiveKitOK
<1>. HIDE DEF room
<1>12. Changes(n, room, q.open, q.hooks, q.second, q.scenario)
  BY Zenon, <1>5, <1>6, <1>7, LiveKitUpdates DEF LiveKitOK
<1>13. LiveKitOK(n, tk)
  BY Zenon, <1>5, <1>11, <1>12 DEF LiveKitOK, Changes
<1>. QED BY Zenon, <1>5, <1>12, <1>13 DEF Changes, n

-----------------------------------------------------------------------------
(* Tokens: one that is used or expires still vouches for what it did.       *)

Covers(tk2, tk) ==
    \A t \in tk : \E t2 \in tk2 : /\ t2.user = t.user /\ t2.channel = t.channel
                                  /\ t2.session = t.session /\ (t.used => t2.used)

\* What a set of tokens vouches for, a set that covers it does.
LEMMA BackedCovered ==
    ASSUME NEW tk, NEW tk2, Covers(tk2, tk), NEW u, NEW c, NEW s, Backed(tk, u, c, s)
    PROVE  Backed(tk2, u, c, s)
<1>1. PICK t \in tk : t.user = u /\ t.channel = c /\ t.session = s /\ t.used
  BY Zenon DEF Backed
<1>2. PICK t2 \in tk2 : /\ t2.user = t.user /\ t2.channel = t.channel
                        /\ t2.session = t.session /\ (t.used => t2.used)
  BY Zenon DEF Covers
<1>. QED BY Zenon, <1>1, <1>2 DEF Backed

\* What LiveKit knows stays vouched for when tokens are renewed or added ...
LEMMA LiveKitCovered ==
    ASSUME NEW tk, NEW tk2, Covers(tk2, tk), NEW l, LiveKitOK(l, tk)
    PROVE  LiveKitOK(l, tk2)
<1>1. ASSUME NEW c \in Channels PROVE Attends(tk2, c, l.room[c])
  BY Zenon, BackedCovered DEF LiveKitOK, Attends
<1>2. Hooks(tk) \subseteq Hooks(tk2)
  BY Zenon, BackedCovered DEF Hooks
<1>3. l.hooks \in Seq(Hooks(tk))
  BY Zenon DEF LiveKitOK
<1>4. l.hooks \in Seq(Hooks(tk2))
  BY <1>2, <1>3
<1>. QED BY Zenon, <1>1, <1>4 DEF LiveKitOK

\* ... as does what the reconciler was told ...
LEMMA ReconcilerCovered ==
    ASSUME NEW tk, NEW tk2, Covers(tk2, tk), NEW r, ReconcilerOK(r, tk)
    PROVE  ReconcilerOK(r, tk2)
<1>1. ASSUME NEW c, NEW room, Attends(tk, c, room) PROVE Attends(tk2, c, room)
  BY Zenon, <1>1, BackedCovered DEF Attends
<1>2. ASSUME NEW x, ScanOK(x, tk) PROVE ScanOK(x, tk2)
  BY Zenon, <1>1, <1>2 DEF ScanOK
<1>. QED BY Zenon, <1>1, <1>2 DEF ReconcilerOK, QueriedOK, EjectOK

\* ... and every membership.
LEMMA MembersCovered ==
    ASSUME NEW tk, NEW tk2, Covers(tk2, tk), NEW l, NEW m, NEW mt, MembersOK(l, m, mt, tk)
    PROVE  MembersOK(l, m, mt, tk2)
BY Zenon, BackedCovered DEF MembersOK

\* A token replaced by one that differs in used and valid.
LEMMA TokenRenewed ==
    ASSUME NEW tk, tk \subseteq Tokens, NEW t \in tk
    PROVE  LET t1 == [t EXCEPT !.used = TRUE]
               t2 == [t EXCEPT !.valid = FALSE]
           IN  /\ (tk \ {t}) \cup {t1} \subseteq Tokens /\ Covers((tk \ {t}) \cup {t1}, tk)
               /\ (tk \ {t}) \cup {t2} \subseteq Tokens /\ Covers((tk \ {t}) \cup {t2}, tk)
               /\ Backed((tk \ {t}) \cup {t1}, t.user, t.channel, t.session)
<1>. DEFINE t1 == [t EXCEPT !.used = TRUE]
            t2 == [t EXCEPT !.valid = FALSE]
<1>1. t \in Tokens
  BY Zenon
<1>2. /\ t1 \in Tokens /\ t1.user = t.user /\ t1.channel = t.channel
      /\ t1.session = t.session /\ t1.used
  BY Zenon, <1>1 DEF Tokens
<1>3. /\ t2 \in Tokens /\ t2.user = t.user /\ t2.channel = t.channel
      /\ t2.session = t.session /\ t2.used = t.used
  BY Zenon, <1>1 DEF Tokens
<1>. HIDE DEF t1, t2
<1>4. (tk \ {t}) \cup {t1} \subseteq Tokens /\ (tk \ {t}) \cup {t2} \subseteq Tokens
  BY Zenon, <1>2, <1>3
<1>5. Covers((tk \ {t}) \cup {t1}, tk)
  BY Zenon, <1>2 DEF Covers
<1>6. Covers((tk \ {t}) \cup {t2}, tk)
  BY Zenon, <1>3 DEF Covers
<1>7. Backed((tk \ {t}) \cup {t1}, t.user, t.channel, t.session)
  BY Zenon, <1>2 DEF Backed
<1>. QED BY Zenon, <1>4, <1>5, <1>6, <1>7 DEF t1, t2

-----------------------------------------------------------------------------
(* Members.                                                                *)

\* Members of n are members of m, in the same channel and under the same session.
Fewer(n, m) ==
    \A u \in DOMAIN n.user_to_channel :
       u \in DOMAIN m.user_to_channel /\ n.user_to_channel[u] = m.user_to_channel[u]

\* What holds of all members holds of fewer.
LEMMA FewerMembers ==
    ASSUME NEW l, NEW m, NEW n, NEW mt, NEW tk, MembersOK(l, m, mt, tk), Fewer(n, m)
    PROVE  MembersOK(l, n, mt, tk)
BY Zenon DEF MembersOK, Fewer

\* Who is listed in a channel is who is mapped to it.
LEMMA ListedIsMapped ==
    ASSUME NEW m, Good(m), NEW c, NEW u
    PROVE  u \in UsersIn(m, c) <=> InVoice(m, u) /\ m.user_to_channel[u].channel = c
BY Zenon DEF Good, Agree, UsersIn, InVoice

\* A user starts in a channel: listed there now and not before.
Starts(m, n, c, u) == u \in UsersIn(n, c) \ UsersIn(m, c)

\* Nobody starts anywhere when everybody stays in their channel or goes.
LEMMA NobodyStarts ==
    ASSUME NEW m, NEW n, Good(m), Good(n),
           \A u \in DOMAIN n.user_to_channel :
              /\ u \in DOMAIN m.user_to_channel
              /\ n.user_to_channel[u].channel = m.user_to_channel[u].channel,
           NEW c, NEW u
    PROVE  ~Starts(m, n, c, u)
<1>. SUFFICES ASSUME Starts(m, n, c, u) PROVE FALSE
  BY Zenon
<1>0. u \in UsersIn(n, c)
  BY Zenon DEF Starts
<1>1. u \in DOMAIN n.user_to_channel /\ n.user_to_channel[u].channel = c
  BY Zenon, <1>0 DEF Good, Agree, UsersIn
<1>2. u \in DOMAIN m.user_to_channel /\ m.user_to_channel[u].channel = c
  BY Zenon, <1>1
<1>3. u \in UsersIn(m, c)
  BY Zenon, <1>2, ListedIsMapped DEF InVoice
<1>. QED BY Zenon, <1>3 DEF Starts

\* leave takes members away and moves nobody.
LEMMA LeaveFewer ==
    ASSUME NEW m, NEW c, NEW u
    PROVE  Fewer(Leave(m, c, u), m)
<1>1. CASE Moved(m, c, u)
  BY Zenon, <1>1 DEF Fewer, Leave
<1>2. CASE ~Moved(m, c, u)
  <2>1. Leave(m, c, u).user_to_channel = Erase(m.user_to_channel, u)
    BY <1>2 DEF Leave
  <2>. QED BY Zenon, <2>1 DEF Fewer, Erase, Restrict
<1>. QED BY Zenon, <1>1, <1>2

\* clear_channel takes members away and moves nobody.
LEMMA ClearFewer ==
    ASSUME NEW m, NEW c
    PROVE  Fewer(ClearChannel(m, c), m)
<1>. DEFINE kept == {u \in DOMAIN m.user_to_channel :
                        ~(u \in UsersIn(m, c) /\ m.user_to_channel[u].channel = c)}
<1>1. ClearChannel(m, c).user_to_channel = Restrict(m.user_to_channel, kept)
  BY DEF ClearChannel
<1>2. kept \subseteq DOMAIN m.user_to_channel
  BY Zenon
<1>. HIDE DEF kept
<1>. QED BY Zenon, <1>1, <1>2 DEF Fewer, Restrict

\* The flags are no part of the mapping.
LEMMA FlagsFewer ==
    ASSUME NEW m, Good(m), NEW u \in Users, NEW b \in BOOLEAN
    PROVE  /\ SetMuted(m, u, b).user_to_channel = m.user_to_channel
           /\ SetDeafened(m, u, b).user_to_channel = m.user_to_channel
<1>1. ASSUME NEW state PROVE SetEntry(m, u, state).user_to_channel = m.user_to_channel
  BY DEF SetEntry, Good, Typed
<1>. QED BY Zenon, <1>1 DEF SetMuted, SetDeafened

-----------------------------------------------------------------------------
(* Evidence.                                                               *)

WithChannels(e, x)     == [e EXCEPT !.channels = x]
WithParticipants(e, x) == [e EXCEPT !.participants = x]

\* An update of one map of the tracker leaves the other.
LEMMA EvidenceUpdates ==
    ASSUME NEW e, EvidenceOK(e), NEW x
    PROVE  /\ EvidenceOK(WithChannels(e, x)) /\ WithChannels(e, x).channels = x
           /\ WithChannels(e, x).participants = e.participants
           /\ EvidenceOK(WithParticipants(e, x)) /\ WithParticipants(e, x).participants = x
           /\ WithParticipants(e, x).channels = e.channels
<1>1. /\ EvidenceOK(WithChannels(e, x)) /\ WithChannels(e, x).channels = x
      /\ WithChannels(e, x).participants = e.participants
  BY Zenon DEF EvidenceOK, IsRecord, WithChannels
<1>2. /\ EvidenceOK(WithParticipants(e, x)) /\ WithParticipants(e, x).participants = x
      /\ WithParticipants(e, x).channels = e.channels
  BY Zenon DEF EvidenceOK, IsRecord, WithParticipants
<1>. QED BY Zenon, <1>1, <1>2

\* The methods of the tracker leave a tracker.
LEMMA EvidenceKept ==
    ASSUME NEW e, EvidenceOK(e), NEW c, NEW u
    PROVE  /\ EvidenceOK(ClearChannelMissing(e, c)) /\ EvidenceOK(ClearParticipantMissing(e, c, u))
           /\ EvidenceOK(ResetChannel(e, c)) /\ EvidenceOK(ObserveChannelMissing(e, c))
           /\ EvidenceOK(ObserveParticipantMissing(e, c, u)) /\ EvidenceOK(Age(e))
<1>1. EvidenceOK(ClearChannelMissing(e, c))
  BY Zenon, EvidenceUpdates DEF ClearChannelMissing, WithChannels
<1>2. EvidenceOK(ClearParticipantMissing(e, c, u))
  BY Zenon, EvidenceUpdates DEF ClearParticipantMissing, WithParticipants
<1>3. ASSUME NEW x, EvidenceOK(x) PROVE EvidenceOK(ForgetParticipants(x, c))
  BY Zenon, <1>3, EvidenceUpdates DEF ForgetParticipants, WithParticipants
<1>4. EvidenceOK(ResetChannel(e, c))
  BY Zenon, <1>1, <1>3 DEF ResetChannel
<1>5. EvidenceOK(ObserveChannelMissing(e, c))
  BY Zenon, <1>4, EvidenceUpdates DEF ObserveChannelMissing, WithChannels
<1>6. EvidenceOK(ObserveParticipantMissing(e, c, u))
  BY Zenon, <1>2, EvidenceUpdates DEF ObserveParticipantMissing, WithParticipants
<1>7. EvidenceOK(Age(e))
  BY DEF EvidenceOK, IsRecord, Age
<1>. QED BY Zenon, <1>1, <1>2, <1>4, <1>5, <1>6, <1>7

\* handle_participant_joined clears what speaks against the channel and the user.
LEMMA EvidenceCleared ==
    ASSUME NEW e, EvidenceOK(e), NEW c, NEW u
    PROVE  LET e2 == ClearParticipantMissing(ClearChannelMissing(e, c), c, u)
           IN  /\ EvidenceOK(e2) /\ c \notin DOMAIN e2.channels
               /\ <<c, u>> \notin DOMAIN e2.participants
<1>. DEFINE e1 == ClearChannelMissing(e, c)
            e2 == ClearParticipantMissing(e1, c, u)
<1>1. EvidenceOK(e1) /\ e1.channels = Erase(e.channels, c)
  BY ZenonT(30), EvidenceUpdates DEF ClearChannelMissing, WithChannels
<1>. HIDE DEF e1
<1>2. /\ EvidenceOK(e2) /\ e2.channels = e1.channels
      /\ e2.participants = Erase(e1.participants, <<c, u>>)
  BY Zenon, <1>1, EvidenceUpdates DEF ClearParticipantMissing, WithParticipants
<1>. HIDE DEF e2
<1>3. ASSUME NEW f, NEW k PROVE k \notin DOMAIN Erase(f, k)
  BY Zenon DEF Erase, Restrict
<1>4. c \notin DOMAIN e2.channels /\ <<c, u>> \notin DOMAIN e2.participants
  BY Zenon, <1>1, <1>2, <1>3
<1>. QED BY Zenon, <1>2, <1>4 DEF e1, e2

-----------------------------------------------------------------------------
(* The steps.                                                              *)

\* Whoever starts in a channel starts without evidence (EvidenceReset, of a step).
FreshStart ==
    \A c \in Channels : \A u \in UsersIn(voice', c) \ UsersIn(voice, c) :
       c \notin DOMAIN evidence'.channels /\ <<c, u>> \notin DOMAIN evidence'.participants

\* While the membership stays, nobody starts.
LEMMA NoStart ==
    ASSUME voice' = voice
    PROVE  FreshStart
BY Zenon DEF FreshStart

\* What is left to show of a step that leaves the scenario alone.
LEMMA StepKeeps ==
    ASSUME lk'.scenario = lk.scenario,
           Good(voice'), MembersOK(lk, voice', minted', tokens'),
           LiveKitOK(lk', tokens'), ReconcilerOK(rec', tokens'),
           SessionsOK(lk, sessions', minted'), JoiningOK(joining', minted'),
           IntentsOK(lk, intent', minted'),
           tokens' \subseteq Tokens, nonce' \in Nat, EvidenceOK(evidence')
    PROVE  ServiceInv'
<1>1. MembersOK(lk', voice', minted', tokens')
  BY Zenon DEF MembersOK
<1>2. SessionsOK(lk', sessions', minted') /\ IntentsOK(lk', intent', minted')
  BY Zenon DEF SessionsOK, IntentsOK
<1>. QED BY Zenon, <1>1, <1>2 DEF ServiceInv

\* Steps that concern LiveKit, the reconciler and the evidence only.
LEMMA OutsideKeeps ==
    ASSUME ServiceInv, UNCHANGED <<voice, sessions, minted, joining, intent, tokens, nonce>>,
           lk'.scenario = lk.scenario, LiveKitOK(lk', tokens), ReconcilerOK(rec', tokens),
           EvidenceOK(evidence')
    PROVE  ServiceInv' /\ FreshStart
BY Zenon, StepKeeps, NoStart DEF ServiceInv

\* A session that is minted takes none from anybody.
LEMMA MintedGrows ==
    ASSUME NEW mt \in Seq(Users), NEW u \in Users
    PROVE  /\ Append(mt, u) \in Seq(Users) /\ Len(Append(mt, u)) = Len(mt) + 1
           /\ Mine(Append(mt, u), u, Len(mt) + 1)
           /\ \A x, s : Mine(mt, x, s) => Mine(Append(mt, u), x, s)
<1>1. /\ Append(mt, u) \in Seq(Users) /\ Len(Append(mt, u)) = Len(mt) + 1 /\ Len(mt) \in Nat
      /\ DOMAIN mt = 1..Len(mt) /\ DOMAIN Append(mt, u) = 1..(Len(mt) + 1)
      /\ Append(mt, u)[Len(mt) + 1] = u
      /\ \A i \in 1..Len(mt) : Append(mt, u)[i] = mt[i]
  OBVIOUS
<1>2. Len(mt) + 1 \in 1..(Len(mt) + 1) /\ 1..Len(mt) \subseteq 1..(Len(mt) + 1)
  BY <1>1
<1>. QED BY Zenon, <1>1, <1>2 DEF Mine

\* attachConnection
LEMMA OpenSessionKeeps ==
    ASSUME ServiceInv, NEW u \in Users, OpenSession(u)
    PROVE  ServiceInv' /\ FreshStart
<1>. DEFINE s == Len(minted) + 1
<1>1. /\ s <= lk.scenario.sessions /\ sessions' = Put(sessions, s, u)
      /\ minted' = Append(minted, u)
      /\ UNCHANGED <<voice, joining, intent, evidence, rec, lk, tokens, nonce>>
  BY Zenon DEF OpenSession
<1>2. /\ minted' \in Seq(Users) /\ Len(minted') = s /\ Mine(minted', u, s)
      /\ \A x, y : Mine(minted, x, y) => Mine(minted', x, y)
  BY Zenon, <1>1, MintedGrows DEF ServiceInv, SessionsOK
<1>. HIDE DEF s
<1>3. /\ DOMAIN sessions' = DOMAIN sessions \cup {s} /\ sessions'[s] = u
      /\ \A x \in DOMAIN sessions \ {s} : sessions'[x] = sessions[x]
  BY Zenon, <1>1 DEF Put
<1>4. SessionsOK(lk, sessions', minted')
  BY Zenon, <1>1, <1>2, <1>3 DEF ServiceInv, SessionsOK
<1>5. JoiningOK(joining', minted')
  BY Zenon, <1>1, <1>2 DEF ServiceInv, JoiningOK
<1>6. IntentsOK(lk, intent', minted')
  BY Zenon, <1>1, <1>2 DEF ServiceInv, IntentsOK
<1>7. MembersOK(lk, voice', minted', tokens')
  BY Zenon, <1>1, <1>2 DEF ServiceInv, MembersOK
<1>8. ServiceInv'
  BY Zenon, <1>1, <1>4, <1>5, <1>6, <1>7, StepKeeps DEF ServiceInv
<1>. QED BY Zenon, <1>1, <1>8, NoStart

\* DisconnectionCommand
LEMMA CloseSessionKeeps ==
    ASSUME ServiceInv, NEW s, CloseSession(s)
    PROVE  ServiceInv' /\ FreshStart
<1>1. /\ sessions' = Erase(sessions, s)
      /\ UNCHANGED <<voice, minted, joining, intent, evidence, rec, lk, tokens, nonce>>
  BY Zenon DEF CloseSession
<1>2. \A x \in DOMAIN sessions' : x \in DOMAIN sessions /\ sessions'[x] = sessions[x]
  BY Zenon, <1>1 DEF Erase, Restrict
<1>3. SessionsOK(lk, sessions', minted')
  BY Zenon, <1>1, <1>2 DEF ServiceInv, SessionsOK
<1>4. ServiceInv'
  BY Zenon, <1>1, <1>3, StepKeeps DEF ServiceInv
<1>. QED BY Zenon, <1>1, <1>4, NoStart

\* A minted session has a proper id.
LEMMA MintedSession ==
    ASSUME ServiceInv, NEW s \in DOMAIN minted
    PROVE  s \in Sessions /\ minted[s] \in Users
<1>1. minted \in Seq(Users) /\ Len(minted) <= lk.scenario.sessions /\ lk.scenario \in Scenario
  BY Zenon, ScenariosKnown DEF ServiceInv, SessionsOK, LiveKitOK
<1>2. lk.scenario.sessions \in Sessions
  BY <1>1 DEF Scenario
<1>3. lk.scenario.sessions \in Nat /\ 1..lk.scenario.sessions \subseteq Sessions
  BY Zenon, <1>2, SessionsNat
<1>4. s \in 1..lk.scenario.sessions /\ minted[s] \in Users
  BY <1>1, <1>3
<1>. QED BY Zenon, <1>3, <1>4

\* AuthenticateCommand's resume: the new session is one of the user.
LEMMA ResumeVoiceKeeps ==
    ASSUME ServiceInv, NEW s \in DOMAIN minted, ResumeVoice(s)
    PROVE  ServiceInv' /\ FreshStart
<1>. DEFINE u == minted[s]
            now == [channel |-> ChannelOf(u), owner_session |-> s]
<1>1. /\ "resume" \in lk.scenario.may /\ InVoice(voice, u)
      /\ voice' = TransferOwnerSession(voice, u, OwnerOf(u), s)
      /\ UNCHANGED <<sessions, minted, joining, intent, evidence, rec, lk, tokens, nonce>>
  BY Zenon DEF ResumeVoice, Environment, workerVars
<1>2. s \in Sessions /\ u \in Users
  BY Zenon, MintedSession
<1>3. OwnerOf(u) \in Sessions
  BY Zenon, <1>1 DEF ServiceInv, Good, Typed, InVoice, OwnerOf, UserVoiceState
<1>4. Good(voice')
  BY Zenon, <1>1, <1>2, <1>3, TransferGood DEF ServiceInv
<1>5. voice'.user_to_channel = Put(voice.user_to_channel, u, now)
  BY <1>1 DEF TransferOwnerSession, OwnerOf, ChannelOf, ServiceInv, Good, Typed
<1>6. /\ DOMAIN voice'.user_to_channel = DOMAIN voice.user_to_channel
      /\ voice'.user_to_channel[u] = now
      /\ \A x \in DOMAIN voice.user_to_channel \ {u} :
            voice'.user_to_channel[x] = voice.user_to_channel[x]
  BY Zenon, <1>1, <1>5 DEF Put, InVoice
<1>7. now.channel = ChannelOf(u) /\ now.owner_session = s
  BY Zenon
<1>. HIDE DEF now
<1>8. Mine(minted, u, s)
  BY Zenon DEF Mine
<1>. HIDE DEF u
<1>9. MembersOK(lk, voice', minted', tokens')
  BY Zenon, <1>1, <1>6, <1>7, <1>8 DEF ServiceInv, MembersOK
<1>10. ServiceInv'
  BY Zenon, <1>1, <1>4, <1>9, StepKeeps DEF ServiceInv
<1>11. \A x \in DOMAIN voice'.user_to_channel :
          /\ x \in DOMAIN voice.user_to_channel
          /\ voice'.user_to_channel[x].channel = voice.user_to_channel[x].channel
  BY Zenon, <1>6, <1>7 DEF ChannelOf
<1>12. FreshStart
  BY Zenon, <1>4, <1>11, NobodyStarts DEF FreshStart, Starts, ServiceInv
<1>. QED BY Zenon, <1>10, <1>12


\* A live session is one of its user.
LEMMA LiveSession ==
    ASSUME ServiceInv, NEW s \in DOMAIN sessions
    PROVE  s \in Sessions /\ sessions[s] \in Users /\ Mine(minted, sessions[s], s)
<1>1. Mine(minted, sessions[s], s)
  BY Zenon DEF ServiceInv, SessionsOK
<1>. QED BY Zenon, <1>1, MintedSession DEF Mine

\* Of a step that changes nothing but flags, or takes members away.
LEMMA FewerKeeps ==
    ASSUME ServiceInv, Good(voice'), Fewer(voice', voice),
           UNCHANGED <<sessions, minted, joining, tokens, nonce>>,
           lk'.scenario = lk.scenario, LiveKitOK(lk', tokens), ReconcilerOK(rec', tokens),
           IntentsOK(lk, intent', minted), EvidenceOK(evidence')
    PROVE  ServiceInv' /\ FreshStart
<1>1. MembersOK(lk, voice', minted', tokens')
  BY Zenon, FewerMembers DEF ServiceInv
<1>2. ServiceInv'
  BY Zenon, <1>1, StepKeeps DEF ServiceInv
<1>3. FreshStart
  BY Zenon, NobodyStarts DEF FreshStart, Starts, Fewer, ServiceInv
<1>. QED BY Zenon, <1>2, <1>3

\* VoiceChannelActivityCommand
LEMMA SetActivityKeeps ==
    ASSUME ServiceInv, NEW s \in DOMAIN sessions, NEW p \in lk.scenario.wishes, SetActivity(s, p)
    PROVE  ServiceInv' /\ FreshStart
<1>. DEFINE u     == sessions[s]
            muted == p.muted \/ p.deafened
            d     == IF EntryOf(voice, u).deafened # p.deafened
                     THEN SetDeafened(voice, u, p.deafened) ELSE voice
<1>1. /\ voice' = IF EntryOf(d, u).muted # muted THEN SetMuted(d, u, muted) ELSE d
      /\ UNCHANGED <<sessions, minted, joining, intent, evidence, rec, lk, tokens, nonce>>
  BY Zenon DEF SetActivity, workerVars
<1>2. u \in Users
  BY Zenon, LiveSession
<1>3. p \in ParticipantState
  <2>1. lk.scenario \in Scenario
    BY Zenon, ScenariosKnown DEF ServiceInv, LiveKitOK
  <2>. QED BY <2>1 DEF Scenario
<1>4. p.deafened \in BOOLEAN /\ muted \in BOOLEAN
  BY <1>3 DEF ParticipantState
<1>5. Good(d) /\ d.user_to_channel = voice.user_to_channel
  BY Zenon, <1>2, <1>4, SetFlagsGood, FlagsFewer DEF ServiceInv
<1>. HIDE DEF u, muted, d
<1>6. Good(voice') /\ voice'.user_to_channel = voice.user_to_channel
  BY Zenon, <1>1, <1>2, <1>4, <1>5, SetFlagsGood, FlagsFewer
<1>7. Fewer(voice', voice)
  BY Zenon, <1>6 DEF Fewer
<1>. QED BY Zenon, <1>1, <1>6, <1>7, FewerKeeps DEF ServiceInv

\* JoinVoiceChannelCommand, up to the eviction.
LEMMA JoinBeginKeeps ==
    ASSUME ServiceInv, NEW s \in DOMAIN sessions, NEW c \in Channels, JoinBegin(s, c)
    PROVE  ServiceInv' /\ FreshStart
<1>. DEFINE u    == sessions[s]
            from == IF InVoice(voice, u) /\ ChannelOf(u) # c THEN {ChannelOf(u)} ELSE {}
            j    == [user |-> u, channel |-> c, nonce |-> nonce + 1, from |-> from]
<1>1. /\ UNCHANGED <<voice, sessions, minted, intent, evidence, rec, tokens>>
      /\ lk' = lk \/ (InVoice(voice, u) /\ lk' = Removed(lk, ChannelOf(u), u))
      /\ UNCHANGED <<nonce, joining>> \/ (nonce' = nonce + 1 /\ joining' = Put(joining, s, j))
  <2>1. UNCHANGED <<voice, sessions, minted, intent, evidence, rec, tokens>>
    BY Zenon DEF JoinBegin
  <2>2. UNCHANGED <<nonce, joining>> \/ (nonce' = nonce + 1 /\ joining' = Put(joining, s, j))
    BY Zenon DEF JoinBegin
  <2>3. lk' = lk \/ (InVoice(voice, u) /\ lk' = Removed(lk, ChannelOf(u), u))
    BY DEF JoinBegin
  <2>. QED BY Zenon, <2>1, <2>2, <2>3
<1>2. u \in Users /\ Mine(minted, u, s)
  BY Zenon, LiveSession
<1>3. InVoice(voice, u) => ChannelOf(u) \in Channels
  BY Zenon DEF ServiceInv, Good, Typed, InVoice, ChannelOf, UserVoiceState
<1>4. from \subseteq Channels
  BY Zenon, <1>3
<1>5. nonce \in Nat
  BY Zenon DEF ServiceInv
<1>. HIDE DEF u, from
<1>6. j \in Commands /\ nonce + 1 \in Nat /\ j.user = u
  BY <1>2, <1>4, <1>5 DEF Commands
<1>. HIDE DEF j
<1>7. JoiningOK(joining', minted)
  <2>1. CASE joining' = joining
    BY Zenon, <2>1 DEF ServiceInv, JoiningOK
  <2>2. CASE joining' = Put(joining, s, j)
    <3>1. /\ DOMAIN joining' = DOMAIN joining \cup {s} /\ joining'[s] = j
          /\ \A x \in DOMAIN joining \ {s} : joining'[x] = joining[x]
      BY Zenon, <2>2 DEF Put
    <3>. QED BY Zenon, <1>2, <1>6, <3>1 DEF ServiceInv, JoiningOK
  <2>. QED BY Zenon, <1>1, <2>1, <2>2
<1>8. LiveKitOK(lk', tokens) /\ lk'.scenario = lk.scenario
  <2>1. CASE lk' = lk
    BY Zenon, <2>1 DEF ServiceInv
  <2>2. CASE InVoice(voice, u) /\ lk' = Removed(lk, ChannelOf(u), u)
    <3>1. LiveKitOK(lk, tokens) /\ ChannelOf(u) \in Channels
      BY Zenon, <1>3, <2>2 DEF ServiceInv
    <3>. QED BY Zenon, <1>2, <2>2, <3>1, RemovedOK
  <2>. QED BY Zenon, <1>1, <2>1, <2>2
<1>9. nonce' \in Nat
  BY Zenon, <1>1, <1>5, <1>6
<1>10. ServiceInv'
  BY Zenon, <1>1, <1>7, <1>8, <1>9, StepKeeps DEF ServiceInv
<1>. QED BY Zenon, <1>1, <1>10, NoStart

\* join_voice and stage.
LEMMA JoinIssueKeeps ==
    ASSUME ServiceInv, NEW s \in DOMAIN joining, NEW p \in lk.scenario.wishes, JoinIssue(s, p)
    PROVE  ServiceInv' /\ FreshStart
<1>. DEFINE j == joining[s]
            i == [session |-> s, nonce |-> j.nonce, to |-> j.channel, from |-> j.from,
                  muted |-> p.muted \/ p.deafened, deafened |-> p.deafened,
                  old_leave_seen |-> FALSE, new_join_seen |-> FALSE]
            t == [user |-> j.user, channel |-> j.channel, session |-> s, nonce |-> j.nonce,
                  valid |-> TRUE, used |-> FALSE]
<1>1. /\ UNCHANGED <<voice, sessions, minted, rec, lk, nonce>>
      /\ joining' = Erase(joining, s) /\ intent' = Put(intent, j.user, i)
      /\ evidence' = ClearChannelMissing(evidence, j.channel)
      /\ tokens' = tokens \cup {t}
  BY Zenon DEF JoinIssue
<1>2. j \in Commands /\ Mine(minted, j.user, s)
  BY Zenon DEF ServiceInv, JoiningOK
<1>3. s \in Sessions
  BY Zenon, <1>2, MintedSession DEF Mine
<1>4. p \in ParticipantState
  <2>1. lk.scenario \in Scenario
    BY Zenon, ScenariosKnown DEF ServiceInv, LiveKitOK
  <2>. QED BY <2>1 DEF Scenario
<1>. HIDE DEF j
<1>5. i \in Intents /\ i.session = s
  BY <1>2, <1>3, <1>4 DEF Intents, Commands, ParticipantState
<1>6. t \in Tokens /\ j.user \in Users
  BY <1>2, <1>3 DEF Tokens, Commands
<1>. HIDE DEF i, t
<1>7. tokens' \subseteq Tokens /\ Covers(tokens', tokens)
  BY Zenon, <1>1, <1>6 DEF Covers, ServiceInv
<1>8. /\ DOMAIN intent' = DOMAIN intent \cup {j.user} /\ intent'[j.user] = i
      /\ \A x \in DOMAIN intent \ {j.user} : intent'[x] = intent[x]
  BY Zenon, <1>1 DEF Put
<1>9. IntentsOK(lk, intent', minted)
  BY Zenon, <1>2, <1>5, <1>6, <1>8 DEF ServiceInv, IntentsOK
<1>10. JoiningOK(joining', minted)
  BY Zenon, <1>1 DEF ServiceInv, JoiningOK, Erase, Restrict
<1>11. /\ LiveKitOK(lk, tokens') /\ ReconcilerOK(rec, tokens')
       /\ MembersOK(lk, voice, minted, tokens')
  BY Zenon, <1>7, LiveKitCovered, ReconcilerCovered, MembersCovered DEF ServiceInv
<1>12. EvidenceOK(evidence')
  BY Zenon, <1>1, EvidenceKept DEF ServiceInv
<1>13. ServiceInv'
  BY Zenon, <1>1, <1>7, <1>9, <1>10, <1>11, <1>12, StepKeeps DEF ServiceInv
<1>. QED BY Zenon, <1>1, <1>13, NoStart

\* The join command fails after the eviction.
LEMMA JoinAbortKeeps ==
    ASSUME ServiceInv, NEW s \in DOMAIN joining, JoinAbort(s)
    PROVE  ServiceInv' /\ FreshStart
<1>1. /\ UNCHANGED <<voice, sessions, minted, intent, rec, lk, tokens, nonce>>
      /\ joining' = Erase(joining, s)
      /\ evidence' = ClearChannelMissing(evidence, joining[s].channel)
  BY Zenon DEF JoinAbort
<1>2. JoiningOK(joining', minted)
  BY Zenon, <1>1 DEF ServiceInv, JoiningOK, Erase, Restrict
<1>3. EvidenceOK(evidence')
  BY Zenon, <1>1, EvidenceKept DEF ServiceInv
<1>4. ServiceInv'
  BY Zenon, <1>1, <1>2, <1>3, StepKeeps DEF ServiceInv
<1>. QED BY Zenon, <1>1, <1>4, NoStart


\* Of a step of LiveKit alone.
LEMMA LiveKitKeeps ==
    ASSUME ServiceInv,
           UNCHANGED <<voice, sessions, minted, joining, intent, evidence, rec, tokens, nonce>>,
           lk'.scenario = lk.scenario, LiveKitOK(lk', tokens)
    PROVE  ServiceInv' /\ FreshStart
BY Zenon, OutsideKeeps DEF ServiceInv

\* KickVoiceParticipantCommand
LEMMA KickParticipantKeeps ==
    ASSUME ServiceInv, NEW u \in Users, KickParticipant(u)
    PROVE  ServiceInv' /\ FreshStart
<1>1. /\ UNCHANGED <<voice, sessions, minted, joining, intent, evidence, rec, tokens, nonce>>
      /\ InVoice(voice, u) /\ lk' = Removed(lk, ChannelOf(u), u)
  BY Zenon DEF KickParticipant, workerVars
<1>2. ChannelOf(u) \in Channels /\ LiveKitOK(lk, tokens)
  BY Zenon, <1>1 DEF ServiceInv, Good, Typed, InVoice, ChannelOf, UserVoiceState
<1>3. LiveKitOK(lk', tokens) /\ lk'.scenario = lk.scenario
  BY Zenon, <1>1, <1>2, RemovedOK
<1>. QED BY Zenon, <1>1, <1>3, LiveKitKeeps

\* A client hangs up.
LEMMA DisconnectKeeps ==
    ASSUME ServiceInv, NEW c \in Channels, NEW u \in Users, Disconnect(c, u)
    PROVE  ServiceInv' /\ FreshStart
<1>1. /\ UNCHANGED <<voice, sessions, minted, joining, intent, evidence, rec, tokens, nonce>>
      /\ lk' = Removed(lk, c, u)
  BY Zenon DEF Disconnect, workerVars
<1>2. LiveKitOK(lk, tokens)
  BY Zenon DEF ServiceInv
<1>3. LiveKitOK(lk', tokens) /\ lk'.scenario = lk.scenario
  BY Zenon, <1>1, <1>2, RemovedOK
<1>. QED BY Zenon, <1>1, <1>3, LiveKitKeeps

\* LiveKit closes a room.
LEMMA CloseRoomKeeps ==
    ASSUME ServiceInv, NEW c \in Channels, CloseRoom(c)
    PROVE  ServiceInv' /\ FreshStart
<1>1. /\ UNCHANGED <<voice, sessions, minted, joining, intent, evidence, rec, tokens, nonce>>
      /\ lk' = Closed(lk, c)
  BY Zenon DEF CloseRoom, workerVars
<1>2. LiveKitOK(lk, tokens)
  BY Zenon DEF ServiceInv
<1>3. LiveKitOK(lk', tokens) /\ lk'.scenario = lk.scenario
  BY Zenon, <1>1, <1>2, ClosedOK
<1>. QED BY Zenon, <1>1, <1>3, LiveKitKeeps

\* LiveKit's clock moves.
LEMMA SecondPassesKeeps ==
    ASSUME ServiceInv, SecondPasses
    PROVE  ServiceInv' /\ FreshStart
<1>1. /\ UNCHANGED <<voice, sessions, minted, joining, intent, evidence, rec, tokens, nonce>>
      /\ lk' = WithSecond(lk, lk.second + 1)
  BY Zenon DEF SecondPasses, workerVars, WithSecond
<1>2. LiveKitOK(lk, tokens)
  BY Zenon DEF ServiceInv
<1>3. LiveKitOK(lk', tokens) /\ lk'.scenario = lk.scenario
  BY Zenon, <1>1, <1>2, SecondOK
<1>. QED BY Zenon, <1>1, <1>3, LiveKitKeeps

\* A webhook is lost.
LEMMA LoseHookKeeps ==
    ASSUME ServiceInv, NEW k \in DOMAIN lk.hooks, LoseHook(k)
    PROVE  ServiceInv' /\ FreshStart
<1>1. /\ UNCHANGED <<voice, sessions, minted, joining, intent, evidence, rec, tokens, nonce>>
      /\ lk' = WithoutHook(lk, k)
  BY Zenon DEF LoseHook, workerVars
<1>2. LiveKitOK(lk, tokens)
  BY Zenon DEF ServiceInv
<1>3. LiveKitOK(lk', tokens) /\ lk'.scenario = lk.scenario
  BY Zenon, <1>1, <1>2, WithoutHookOK
<1>. QED BY Zenon, <1>1, <1>3, LiveKitKeeps

\* Of a step that changes tokens, and LiveKit with them.
LEMMA TokensKeep ==
    ASSUME ServiceInv,
           UNCHANGED <<voice, sessions, minted, joining, intent, evidence, rec, nonce>>,
           tokens' \subseteq Tokens, Covers(tokens', tokens),
           lk'.scenario = lk.scenario, LiveKitOK(lk', tokens')
    PROVE  ServiceInv' /\ FreshStart
<1>1. ReconcilerOK(rec, tokens') /\ MembersOK(lk, voice, minted, tokens')
  BY Zenon, ReconcilerCovered, MembersCovered DEF ServiceInv
<1>2. ServiceInv'
  BY Zenon, <1>1, StepKeeps DEF ServiceInv
<1>. QED BY Zenon, <1>2, NoStart

\* A token expires.
LEMMA ExpireTokenKeeps ==
    ASSUME ServiceInv, NEW t \in tokens, ExpireToken(t)
    PROVE  ServiceInv' /\ FreshStart
<1>1. /\ UNCHANGED <<voice, sessions, minted, joining, intent, evidence, rec, nonce, lk>>
      /\ tokens' = (tokens \ {t}) \cup {[t EXCEPT !.valid = FALSE]}
  BY Zenon DEF ExpireToken
<1>2. tokens \subseteq Tokens /\ LiveKitOK(lk, tokens)
  BY Zenon DEF ServiceInv
<1>3. tokens' \subseteq Tokens /\ Covers(tokens', tokens)
  BY Zenon, <1>1, <1>2, TokenRenewed
<1>4. LiveKitOK(lk, tokens')
  BY Zenon, <1>2, <1>3, LiveKitCovered
<1>. QED BY Zenon, <1>1, <1>3, <1>4, TokensKeep

\* A client connects: from now on its token is used.
LEMMA ConnectKeeps ==
    ASSUME ServiceInv, NEW t \in tokens, Connect(t)
    PROVE  ServiceInv' /\ FreshStart
<1>. DEFINE p == [session |-> t.session, nonce |-> t.nonce]
            o == Opened(lk, t.channel)
<1>1. /\ UNCHANGED <<voice, sessions, minted, joining, intent, evidence, rec, nonce>>
      /\ tokens' = (tokens \ {t}) \cup {[t EXCEPT !.used = TRUE]}
      /\ lk' = Connected(o, t.channel, t.user, p)
  BY Zenon DEF Connect
<1>2. tokens \subseteq Tokens /\ LiveKitOK(lk, tokens)
  BY Zenon DEF ServiceInv
<1>3. /\ tokens' \subseteq Tokens /\ Covers(tokens', tokens)
      /\ Backed(tokens', t.user, t.channel, t.session)
  BY Zenon, <1>1, <1>2, TokenRenewed
<1>4. /\ t.channel \in Channels /\ t.user \in Users
      /\ p \in Metadata /\ p.session = t.session
  <2>1. t \in Tokens
    BY Zenon, <1>2
  <2>. QED BY <2>1 DEF Tokens, Metadata
<1>. HIDE DEF p
<1>5. LiveKitOK(lk, tokens')
  BY Zenon, <1>2, <1>3, LiveKitCovered
<1>6. LiveKitOK(o, tokens') /\ o.scenario = lk.scenario
  BY Zenon, <1>4, <1>5, OpenedOK
<1>. HIDE DEF o
<1>7. LiveKitOK(lk', tokens') /\ lk'.scenario = lk.scenario
  <2>1. Backed(tokens', t.user, t.channel, p.session)
    BY Zenon, <1>3, <1>4
  <2>2. LiveKitOK(Connected(o, t.channel, t.user, p), tokens')
        /\ Connected(o, t.channel, t.user, p).scenario = o.scenario
    <3>1. \A l : LiveKitOK(l, tokens') => /\ LiveKitOK(Connected(l, t.channel, t.user, p), tokens')
                                          /\ Connected(l, t.channel, t.user, p).scenario = l.scenario
      BY SMT, <1>4, <2>1, ConnectedOK
    <3>. QED BY Zenon, <1>6, <3>1
  <2>. QED BY Zenon, <1>1, <1>6, <2>2
<1>. QED BY Zenon, <1>1, <1>3, <1>7, TokensKeep

\* An intent expires.
LEMMA ExpireIntentKeeps ==
    ASSUME ServiceInv, NEW u, ExpireIntent(u)
    PROVE  ServiceInv' /\ FreshStart
<1>1. /\ UNCHANGED <<voice, sessions, minted, joining, evidence, rec, lk, tokens, nonce>>
      /\ intent' = Erase(intent, u)
  BY Zenon DEF ExpireIntent, workerVars
<1>2. IntentsOK(lk, intent', minted)
  BY Zenon, <1>1 DEF ServiceInv, IntentsOK, Erase, Restrict
<1>3. ServiceInv'
  BY Zenon, <1>1, <1>2, StepKeeps DEF ServiceInv
<1>. QED BY Zenon, <1>1, <1>3, NoStart

\* Time passes in the process.
LEMMA TickKeeps ==
    ASSUME ServiceInv, Tick
    PROVE  ServiceInv' /\ FreshStart
<1>1. /\ UNCHANGED <<voice, sessions, minted, joining, intent, rec, lk, tokens, nonce>>
      /\ evidence' = Age(evidence)
  BY Zenon DEF Tick, workerVars
<1>2. EvidenceOK(evidence')
  BY Zenon, <1>1, EvidenceKept DEF ServiceInv
<1>. QED BY Zenon, <1>1, <1>2, OutsideKeeps DEF ServiceInv


-----------------------------------------------------------------------------
(* The handlers of LiveKit's events.                                       *)

\* An event the handlers see: its metadata is that of a connection, or was lost.
EventOK(e) ==
    /\ e.channel \in Channels /\ e.user \in Users
    /\ \/ e.session \in Sessions /\ Backed(tokens, e.user, e.channel, e.session)
       \/ "bare" \in lk.scenario.may

\* An intent that has seen one end of its switch is the intent it was otherwise.
LEMMA IntentSeen ==
    ASSUME ServiceInv, NEW u, HasIntent(u)
    PROVE  IntentsOK(lk, AfterJoinSeen(u), minted) /\ IntentsOK(lk, AfterLeaveSeen(u), minted)
<1>. DEFINE j == [intent[u] EXCEPT !.new_join_seen = TRUE]
            k == [intent[u] EXCEPT !.old_leave_seen = TRUE]
<1>1. u \in Users /\ intent[u] \in Intents
  BY Zenon DEF ServiceInv, IntentsOK, HasIntent
<1>2. /\ j \in Intents /\ j.session = intent[u].session
      /\ k \in Intents /\ k.session = intent[u].session
  BY Zenon, <1>1 DEF Intents
<1>. HIDE DEF j, k
<1>3. IntentsOK(lk, Erase(intent, u), minted)
  BY Zenon DEF ServiceInv, IntentsOK, Erase, Restrict
<1>4. ASSUME NEW x \in Intents, x.session = intent[u].session
      PROVE  IntentsOK(lk, Put(intent, u, x), minted)
  <2>1. /\ DOMAIN Put(intent, u, x) = DOMAIN intent /\ Put(intent, u, x)[u] = x
        /\ \A y \in DOMAIN intent \ {u} : Put(intent, u, x)[y] = intent[y]
    BY Zenon DEF Put, HasIntent
  <2>. QED BY Zenon, <1>4, <2>1 DEF ServiceInv, IntentsOK
<1>5. IntentsOK(lk, Put(intent, u, j), minted) /\ IntentsOK(lk, Put(intent, u, k), minted)
  BY Zenon, <1>2, <1>4
<1>. QED BY Zenon, <1>3, <1>5 DEF AfterJoinSeen, AfterLeaveSeen, j, k

\* What is known of the session that a correlated event makes the owner.
LEMMA CorrelatedSession ==
    ASSUME ServiceInv, NEW e, EventOK(e), Correlated(e)
    PROVE  LET i == IntentFor(e)
           IN  /\ i.session \in Sessions /\ i.muted \in BOOLEAN /\ i.deafened \in BOOLEAN
               /\ "restart" \notin lk.scenario.may => Mine(minted, e.user, i.session)
               /\ lk.scenario.may \cap {"bare", "resume"} = {} =>
                     Backed(tokens, e.user, e.channel, i.session)
<1>. DEFINE u == e.user
            i == IntentFor(e)
<1>0. "bare" \notin lk.scenario.may => ~(e.session = 0 /\ e.nonce = 0)
  <2>1. 0 \notin Sessions
    BY SessionsNat
  <2>. QED BY Zenon, <2>1 DEF EventOK
<1>1. CASE HasIntent(u)
  <2>1. i = intent[u]
    BY Zenon, <1>1 DEF IntentFor
  <2>2. intent[u] \in Intents /\ ("restart" \notin lk.scenario.may => Mine(minted, u, intent[u].session))
    BY Zenon, <1>1 DEF ServiceInv, IntentsOK, HasIntent
  <2>3. i.session \in Sessions /\ i.muted \in BOOLEAN /\ i.deafened \in BOOLEAN
    BY <2>1, <2>2 DEF Intents
  <2>4. ~(e.session = 0 /\ e.nonce = 0) => e.session = i.session
    BY Zenon, <1>1, <2>1 DEF Correlated
  <2>. HIDE DEF i
  <2>5. lk.scenario.may \cap {"bare", "resume"} = {} => Backed(tokens, u, e.channel, i.session)
    BY Zenon, <1>0, <2>4 DEF EventOK
  <2>. QED BY Zenon, <2>1, <2>2, <2>3, <2>5 DEF i
<1>2. CASE ~HasIntent(u)
  <2>1. PICK s \in DOMAIN sessions : UserSessionIds(u) = {s}
    BY Zenon, <1>2 DEF Correlated
  <2>2. (CHOOSE x \in UserSessionIds(u) : TRUE) = s
    BY Zenon, <2>1
  <2>3. i.session = s /\ i.muted = FALSE /\ i.deafened = FALSE
    BY <1>2, <2>2 DEF IntentFor
  <2>4. s \in Sessions /\ sessions[s] = u /\ Mine(minted, u, s)
    BY Zenon, <2>1, LiveSession DEF UserSessionIds
  <2>5. "bare" \in lk.scenario.may
    BY Zenon, <1>0, <1>2 DEF Correlated
  <2>. HIDE DEF i
  <2>. QED BY Zenon, <2>3, <2>4, <2>5 DEF i
<1>. QED BY Zenon, <1>1, <1>2

\* After a join everybody else is where they were.
JoinedAs(n, m, c, u, s) ==
    /\ DOMAIN n.user_to_channel = DOMAIN m.user_to_channel \cup {u}
    /\ n.user_to_channel[u].channel = c /\ n.user_to_channel[u].owner_session = s
    /\ \A x \in DOMAIN m.user_to_channel \ {u} : n.user_to_channel[x] = m.user_to_channel[x]

\* join maps the user, and nobody else.
LEMMA JoinMaps ==
    ASSUME NEW m, NEW c, NEW u, NEW s
    PROVE  JoinedAs(Join(m, c, u, s), m, c, u, s)
<1>. DEFINE v == [channel |-> c, owner_session |-> s]
<1>1. Join(m, c, u, s).user_to_channel = Put(m.user_to_channel, u, v)
  BY DEF Join
<1>2. v.channel = c /\ v.owner_session = s
  BY Zenon
<1>. HIDE DEF v
<1>. QED BY Zenon, <1>1, <1>2 DEF Put, JoinedAs

\* handle_participant_joined lets a user in.
LEMMA AdmitKeeps ==
    ASSUME ServiceInv, NEW e, EventOK(e), Correlated(e), NEW l, Admit(e, l),
           evidence' = ClearParticipantMissing(
                           ClearChannelMissing(evidence, e.channel), e.channel, e.user),
           LiveKitOK(l, tokens), l.scenario = lk.scenario,
           UNCHANGED workerVars, ReconcilerOK(rec', tokens)
    PROVE  ServiceInv' /\ FreshStart
<1>. DEFINE i == IntentFor(e)
            u == e.user
            c == e.channel
            n == Join(voice, c, u, i.session)
            d == SetDeafened(n, u, i.deafened)
<1>1. /\ voice' = IF i.deafened THEN d ELSE SetMuted(d, u, i.muted)
      /\ intent' = IF HasIntent(u) THEN AfterJoinSeen(u) ELSE intent
      /\ lk' = l
      /\ UNCHANGED <<sessions, minted, joining, tokens, nonce>>
  BY Zenon DEF Admit, workerVars
<1>2. c \in Channels /\ u \in Users
  BY Zenon DEF EventOK
<1>3. /\ i.session \in Sessions /\ i.muted \in BOOLEAN /\ i.deafened \in BOOLEAN
      /\ "restart" \notin lk.scenario.may => Mine(minted, u, i.session)
      /\ lk.scenario.may \cap {"bare", "resume"} = {} => Backed(tokens, u, c, i.session)
  BY Zenon, CorrelatedSession
<1>4. /\ EvidenceOK(evidence') /\ c \notin DOMAIN evidence'.channels
      /\ <<c, u>> \notin DOMAIN evidence'.participants
  BY Zenon, EvidenceCleared DEF ServiceInv
<1>. HIDE DEF i, u, c
<1>5. JoinedAs(n, voice, c, u, i.session)
  BY Zenon, JoinMaps
<1>6. Good(n)
  BY Zenon, <1>2, <1>3, JoinGood DEF ServiceInv
<1>. HIDE DEF n
<1>7. Good(d) /\ d.user_to_channel = n.user_to_channel
  BY Zenon, <1>2, <1>3, <1>6, SetFlagsGood, FlagsFewer
<1>. HIDE DEF d
<1>8. Good(voice') /\ voice'.user_to_channel = n.user_to_channel
  BY Zenon, <1>1, <1>2, <1>3, <1>7, SetFlagsGood, FlagsFewer
<1>9. MembersOK(lk, voice', minted, tokens)
  BY Zenon, <1>3, <1>5, <1>8 DEF MembersOK, ServiceInv, JoinedAs
<1>10. IntentsOK(lk, intent', minted)
  BY Zenon, <1>1, IntentSeen DEF ServiceInv
<1>11. ServiceInv'
  BY Zenon, <1>1, <1>4, <1>8, <1>9, <1>10, StepKeeps DEF ServiceInv
<1>12. ASSUME NEW x, NEW y, y \in UsersIn(voice', x), y \notin UsersIn(voice, x)
       PROVE  x = c /\ y = u
  <2>1. y \in DOMAIN voice'.user_to_channel /\ voice'.user_to_channel[y].channel = x
    BY Zenon, <1>8, <1>12 DEF Good, Agree, UsersIn
  <2>2. ~(y \in DOMAIN voice.user_to_channel /\ voice.user_to_channel[y].channel = x)
    BY Zenon, <1>12, ListedIsMapped DEF InVoice, ServiceInv
  <2>. QED BY Zenon, <1>5, <1>8, <2>1, <2>2 DEF JoinedAs
<1>13. FreshStart
  BY Zenon, <1>4, <1>12 DEF FreshStart
<1>. QED BY Zenon, <1>11, <1>13


\* RemoveParticipant, whether or not the call fails.
LEMMA EvictionsOK ==
    ASSUME NEW l, LiveKitOK(l, tokens), NEW c \in Channels, NEW u \in Users,
           NEW l2 \in Evictions(l, c, u)
    PROVE  LiveKitOK(l2, tokens) /\ l2.scenario = l.scenario /\ OnlyAt(l2.room, l.room, c, u)
<1>1. l2 = l \/ l2 = Removed(l, c, u)
  BY Zenon DEF Evictions
<1>2. OnlyAt(l.room, l.room, c, u)
  BY Zenon DEF OnlyAt
<1>. QED BY ZenonT(30), <1>1, <1>2, RemovedOK

\* handle_participant_joined
LEMMA HandleJoinedKeeps ==
    ASSUME ServiceInv, NEW e, EventOK(e), NEW l, HandleJoined(e, l),
           LiveKitOK(l, tokens), l.scenario = lk.scenario,
           UNCHANGED workerVars, ReconcilerOK(rec', tokens)
    PROVE  ServiceInv' /\ FreshStart
<1>1. evidence' = ClearParticipantMissing(
                      ClearChannelMissing(evidence, e.channel), e.channel, e.user)
  BY Zenon DEF HandleJoined
<1>2. EvidenceOK(evidence')
  BY Zenon, <1>1, EvidenceKept DEF ServiceInv
<1>3. UNCHANGED <<sessions, minted, joining, tokens, nonce>>
  BY Zenon DEF workerVars
<1>4. CASE Correlated(e) /\ Admit(e, l)
  BY Zenon, <1>1, <1>4, AdmitKeeps
<1>5. CASE lk' = l /\ UNCHANGED <<voice, intent>>
  BY Zenon, <1>2, <1>3, <1>5, OutsideKeeps
<1>6. CASE Refuse(e, l)
  <2>1. lk' \in Evictions(l, e.channel, e.user) /\ UNCHANGED <<voice, intent>>
    BY Zenon, <1>6 DEF Refuse
  <2>2. LiveKitOK(lk', tokens) /\ lk'.scenario = lk.scenario
    <3>1. e.channel \in Channels /\ e.user \in Users
      BY Zenon DEF EventOK
    <3>2. LiveKitOK(lk', tokens) /\ lk'.scenario = l.scenario
      BY SMT, <2>1, <3>1, EvictionsOK
    <3>. QED BY Zenon, <3>2
  <2>. QED BY Zenon, <1>2, <1>3, <2>1, <2>2, OutsideKeeps
<1>. QED BY Zenon, <1>4, <1>5, <1>6 DEF HandleJoined

\* handle_participant_left
LEMMA HandleLeftKeeps ==
    ASSUME ServiceInv, NEW e, e.channel \in Channels, e.user \in Users, HandleLeft(e),
           LiveKitOK(lk', tokens), lk'.scenario = lk.scenario,
           UNCHANGED workerVars, rec' = rec
    PROVE  ServiceInv' /\ FreshStart
<1>1. UNCHANGED <<sessions, minted, joining, tokens, nonce>>
  BY Zenon DEF workerVars
<1>2. CASE /\ evidence' = ClearParticipantMissing(evidence, e.channel, e.user)
           /\ voice' = Leave(voice, e.channel, e.user)
           /\ intent' = IF OldLeaveForSwitch(e) THEN AfterLeaveSeen(e.user) ELSE intent
  <2>1. Good(voice')
    BY Zenon, <1>2, LeaveGood DEF ServiceInv
  <2>2. Fewer(voice', voice)
    BY Zenon, <1>2, LeaveFewer
  <2>3. IntentsOK(lk, intent', minted)
    BY Zenon, <1>2, IntentSeen DEF ServiceInv, OldLeaveForSwitch
  <2>4. EvidenceOK(evidence')
    BY Zenon, <1>2, EvidenceKept DEF ServiceInv
  <2>. QED BY Zenon, <1>1, <2>1, <2>2, <2>3, <2>4, FewerKeeps DEF ServiceInv
<1>3. CASE UNCHANGED <<evidence, voice, intent>>
  BY Zenon, <1>1, <1>3, OutsideKeeps DEF ServiceInv
<1>. QED BY Zenon, <1>2, <1>3 DEF HandleLeft

\* What LiveKit and the parser make of the k-th webhook.
LEMMA DeliveryOK ==
    ASSUME ServiceInv, NEW k \in DOMAIN lk.hooks,
           NEW l \in Deliveries(k), NEW e \in Readings(lk.hooks[k])
    PROVE  /\ LiveKitOK(l, tokens) /\ l.scenario = lk.scenario /\ e.channel \in Channels
           /\ e.kind \in {"joined", "left"} => EventOK(e)
<1>. DEFINE h  == lk.hooks[k]
            h2 == [h EXCEPT !.seen = TRUE]
            w  == WithoutHook(lk, k)
<1>1. lk.hooks \in Seq(Hooks(tokens)) /\ LiveKitOK(lk, tokens)
  BY Zenon DEF ServiceInv, LiveKitOK
<1>2. h \in Hooks(tokens)
  BY <1>1
<1>3. LiveKitOK(w, tokens) /\ w.scenario = lk.scenario
  BY Zenon, <1>1, WithoutHookOK
<1>. HIDE DEF h, w
<1>4. CASE h \in RoomHooks
  <2>1. h2 \in RoomHooks /\ h.channel \in Channels /\ h.kind \notin {"joined", "left"}
    BY Zenon, <1>4 DEF RoomHooks
  <2>. HIDE DEF h2
  <2>2. l = w \/ l = Posted(w, h2)
    BY Zenon DEF Deliveries, h, h2, w
  <2>3. LiveKitOK(l, tokens) /\ l.scenario = lk.scenario
    <3>1. h2 \in Hooks(tokens)
      BY Zenon, <2>1 DEF Hooks
    <3>2. LiveKitOK(Posted(w, h2), tokens) /\ Posted(w, h2).scenario = w.scenario
      BY Zenon, <1>3, <3>1, PostedOK
    <3>. QED BY Zenon, <1>3, <2>2, <3>2
  <2>4. e = h
    BY Zenon, <2>1 DEF Readings, h
  <2>. QED BY Zenon, <2>1, <2>3, <2>4
<1>5. CASE h \in ParticipantHooks /\ Backed(tokens, h.user, h.channel, h.session)
  <2>1. /\ h2 \in ParticipantHooks /\ h2.user = h.user /\ h2.channel = h.channel
        /\ h2.session = h.session
        /\ h.channel \in Channels /\ h.user \in Users /\ h.session \in Sessions
    BY Zenon, <1>5 DEF ParticipantHooks
  <2>. HIDE DEF h2
  <2>2. l = w \/ l = Posted(w, h2)
    BY Zenon DEF Deliveries, h, h2, w
  <2>3. h2 \in Hooks(tokens)
    BY Zenon, <1>5, <2>1 DEF Hooks
  <2>4. LiveKitOK(l, tokens) /\ l.scenario = lk.scenario
    <3>1. LiveKitOK(Posted(w, h2), tokens) /\ Posted(w, h2).scenario = w.scenario
      BY Zenon, <1>3, <2>3, PostedOK
    <3>. QED BY Zenon, <1>3, <2>2, <3>1
  <2>5. e = h \/ ("bare" \in lk.scenario.may /\ e = [h EXCEPT !.session = 0, !.nonce = 0])
    BY Zenon DEF Readings, Environment, h
  <2>6. e.channel = h.channel /\ e.user = h.user
    BY Zenon, <1>5, <2>5 DEF ParticipantHooks
  <2>7. EventOK(e)
    BY Zenon, <1>5, <2>1, <2>5, <2>6 DEF EventOK
  <2>. QED BY Zenon, <2>1, <2>4, <2>6, <2>7
<1>. QED BY Zenon, <1>2, <1>4, <1>5 DEF Hooks

\* on_livekit_event
LEMMA DeliverHookKeeps ==
    ASSUME ServiceInv, NEW k \in DOMAIN lk.hooks, DeliverHook(k)
    PROVE  ServiceInv' /\ FreshStart
<1>1. PICK l \in Deliveries(k), e \in Readings(lk.hooks[k]) :
          \/ e.kind \in {"joined", "left"} /\ ParticipantEvent(e, l)
          \/ RoomEvent(e, l)
          \/ lk' = l /\ UNCHANGED <<voice, evidence, intent>>
  BY Zenon DEF DeliverHook
<1>2. UNCHANGED workerVars /\ rec' = rec /\ UNCHANGED <<sessions, minted, joining, tokens, nonce>>
  BY Zenon DEF DeliverHook, workerVars
<1>3. /\ LiveKitOK(l, tokens) /\ l.scenario = lk.scenario /\ e.channel \in Channels
      /\ e.kind \in {"joined", "left"} => EventOK(e)
  BY Zenon, DeliveryOK
<1>4. ReconcilerOK(rec', tokens)
  BY Zenon, <1>2 DEF ServiceInv
<1>5. CASE lk' = l /\ UNCHANGED <<voice, evidence, intent>>
  BY Zenon, <1>2, <1>3, <1>4, <1>5, OutsideKeeps DEF ServiceInv
<1>6. CASE DropStale(e, l)
  BY Zenon, <1>5, <1>6 DEF DropStale
<1>7. CASE e.kind \in {"joined", "left"} /\ ParticipantEvent(e, l)
  <2>1. CASE HandleJoined(e, l)
    BY Zenon, <1>2, <1>3, <1>4, <1>7, <2>1, HandleJoinedKeeps
  <2>2. CASE HandleLeft(e) /\ lk' = l
    <3>1. e.user \in Users
      BY Zenon, <1>3, <1>7 DEF EventOK
    <3>. QED BY Zenon, <1>2, <1>3, <2>2, <3>1, HandleLeftKeeps
  <2>. QED BY Zenon, <1>6, <1>7, <2>1, <2>2 DEF ParticipantEvent
<1>8. CASE RoomEvent(e, l)
  <2>1. CASE ~DropStale(e, l)
    <3>1. lk' = l /\ UNCHANGED <<voice, intent>>
      BY Zenon, <1>8, <2>1 DEF RoomEvent
    <3>2. evidence' = evidence \/ evidence' = ResetChannel(evidence, e.channel)
      BY Zenon, <1>8, <2>1 DEF RoomEvent
    <3>3. EvidenceOK(evidence')
      BY Zenon, <3>2, EvidenceKept DEF ServiceInv
    <3>. QED BY Zenon, <1>2, <1>3, <1>4, <3>1, <3>3, OutsideKeeps
  <2>. QED BY Zenon, <1>6, <2>1
<1>. QED BY Zenon, <1>1, <1>5, <1>7, <1>8


-----------------------------------------------------------------------------
(* The reconciler.                                                         *)

\* What the reconciler holds in each of its phases.
LEMMA Phases ==
    ASSUME ServiceInv
    PROVE  /\ rec.phase = "queried" => QueriedOK(rec, tokens)
           /\ rec.phase = "scan" => ScanOK(rec, tokens)
           /\ rec.phase = "eject" => EjectOK(rec, tokens)
           /\ rec.phase = "finish" => FinishOK(rec)
<1>1. Idle.phase = "idle"
  BY DEF Idle
<1>2. ReconcilerOK(rec, tokens)
  BY Zenon DEF ServiceInv
<1>. QED BY <1>1, <1>2 DEF ReconcilerOK, QueriedOK, ScanOK, EjectOK, FinishOK

\* A run goes on or ends.
LEMMA ResumedOK ==
    ASSUME NEW r, ScanOK(r, tokens)
    PROVE  ReconcilerOK(Resumed(r), tokens)
BY Zenon DEF Resumed, ReconcilerOK

\* ListParticipants answers, or does not.
LEMMA ReconcileQueryKeeps ==
    ASSUME ServiceInv, NEW c \in Channels, ReconcileQuery(c)
    PROVE  ServiceInv' /\ FreshStart
<1>1. PICK a \in Answers(c) :
         rec' = [phase |-> "queried", channel |-> c, ok |-> a.ok, remote |-> a.remote]
  BY Zenon DEF ReconcileQuery
<1>2. UNCHANGED <<voice, sessions, minted, joining, intent, evidence, lk, tokens, nonce>>
  BY Zenon DEF ReconcileQuery, workerVars
<1>3. a.remote = lk.room[c] \/ a.remote = EmptyMap
  BY DEF Answers
<1>4. Attends(tokens, c, lk.room[c]) /\ Attends(tokens, c, EmptyMap)
  BY Zenon DEF ServiceInv, LiveKitOK, Attends, EmptyMap
<1>5. rec'.phase = "queried" /\ rec'.channel = c /\ rec'.remote = a.remote
  BY <1>1
<1>6. ReconcilerOK(rec', tokens)
  BY Zenon, <1>3, <1>4, <1>5 DEF ReconcilerOK, QueriedOK
<1>. QED BY Zenon, <1>2, <1>6, OutsideKeeps DEF ServiceInv

\* Nobody is there.
LEMMA ReconcileEmptyKeeps ==
    ASSUME ServiceInv, ReconcileEmpty
    PROVE  ServiceInv' /\ FreshStart
<1>. DEFINE c == rec.channel
            done == [phase |-> "finish", channel |-> c]
<1>1. UNCHANGED <<voice, sessions, minted, joining, intent, lk, tokens, nonce>>
  BY Zenon DEF ReconcileEmpty, workerVars
<1>2. c \in Channels
  BY Zenon, Phases DEF ReconcileEmpty, QueriedOK
<1>3. \/ evidence' = ResetChannel(evidence, c)
      \/ evidence' = ClearChannelMissing(evidence, c)
      \/ evidence' = ObserveChannelMissing(evidence, c)
  BY DEF ReconcileEmpty
<1>4. rec' = done \/ rec' = Idle
  BY DEF ReconcileEmpty
<1>5. done.phase = "finish" /\ done.channel = c
  BY Zenon
<1>. HIDE DEF c, done
<1>6. EvidenceOK(evidence')
  BY Zenon, <1>3, EvidenceKept DEF ServiceInv
<1>7. ReconcilerOK(rec', tokens)
  BY Zenon, <1>2, <1>4, <1>5 DEF ReconcilerOK, FinishOK
<1>. QED BY Zenon, <1>1, <1>6, <1>7, OutsideKeeps DEF ServiceInv

\* on_channel_finish
LEMMA ReconcileFinishKeeps ==
    ASSUME ServiceInv, ReconcileFinish
    PROVE  ServiceInv' /\ FreshStart
<1>1. /\ UNCHANGED <<sessions, minted, joining, intent, lk, tokens, nonce>>
      /\ rec' = Idle /\ evidence' = ResetChannel(evidence, rec.channel)
      /\ voice' = ClearChannel(voice, rec.channel)
  BY Zenon DEF ReconcileFinish, workerVars
<1>2. rec.channel \in Channels
  BY Zenon, Phases DEF ReconcileFinish, FinishOK
<1>3. Good(voice') /\ Fewer(voice', voice)
  BY Zenon, <1>1, <1>2, ClearChannelGood, ClearFewer DEF ServiceInv
<1>4. EvidenceOK(evidence')
  BY Zenon, <1>1, EvidenceKept DEF ServiceInv
<1>5. ReconcilerOK(rec', tokens)
  BY Zenon, <1>1 DEF ReconcilerOK
<1>. QED BY Zenon, <1>1, <1>3, <1>4, <1>5, FewerKeeps DEF ServiceInv

\* Somebody is there.
LEMMA ReconcileScanKeeps ==
    ASSUME ServiceInv, ReconcileScan
    PROVE  ServiceInv' /\ FreshStart
<1>. DEFINE c == rec.channel
            r == [phase    |-> "scan", channel |-> c, remote |-> rec.remote,
                  absent   |-> UsersIn(voice, c) \ DOMAIN rec.remote,
                  arrivals |-> DOMAIN rec.remote \ UsersIn(voice, c)]
            e == ClearChannelMissing(evidence, c)
<1>1. UNCHANGED <<voice, sessions, minted, joining, intent, lk, tokens, nonce>>
  BY Zenon DEF ReconcileScan, workerVars
<1>2. rec' = Resumed(r)
  BY Zenon DEF ReconcileScan
<1>3. \E x : evidence' = WithParticipants(e, x)
  BY Zenon DEF ReconcileScan, WithParticipants
<1>4. c \in Channels /\ Attends(tokens, c, rec.remote)
  BY Zenon, Phases DEF ReconcileScan, QueriedOK
<1>5. UsersIn(voice, c) \subseteq Users
  BY Zenon DEF ServiceInv, Good, Typed, UsersIn
<1>. HIDE DEF c
<1>6. /\ IsRecord(r, {"phase", "channel", "remote", "absent", "arrivals"})
      /\ r.phase = "scan" /\ r.channel = c /\ r.remote = rec.remote
      /\ r.absent = UsersIn(voice, c) \ DOMAIN rec.remote
      /\ r.arrivals = DOMAIN rec.remote \ UsersIn(voice, c)
  BY DEF IsRecord
<1>. HIDE DEF r
<1>7. ScanOK(r, tokens)
  BY Zenon, <1>4, <1>5, <1>6 DEF ScanOK
<1>8. ReconcilerOK(rec', tokens)
  BY Zenon, <1>2, <1>7, ResumedOK
<1>9. EvidenceOK(evidence')
  BY ZenonT(30), <1>3, EvidenceKept, EvidenceUpdates DEF ServiceInv
<1>. QED BY Zenon, <1>1, <1>8, <1>9, OutsideKeeps DEF ServiceInv

\* One of the absent or of the arrivals is dealt with.
LEMMA ScanShrinks ==
    ASSUME NEW r, ScanOK(r, tokens), NEW u
    PROVE  /\ ScanOK([r EXCEPT !.absent = @ \ {u}], tokens)
           /\ ScanOK([r EXCEPT !.arrivals = @ \ {u}], tokens)
<1>. DEFINE x == [r EXCEPT !.absent = @ \ {u}]
            y == [r EXCEPT !.arrivals = @ \ {u}]
            F == {"phase", "channel", "remote", "absent", "arrivals"}
<1>1. DOMAIN r = F /\ r = [z \in F |-> r[z]]
  BY Zenon DEF ScanOK, IsRecord
<1>2. /\ DOMAIN x = F /\ x = [z \in F |-> x[z]]
      /\ x.phase = r.phase /\ x.channel = r.channel /\ x.remote = r.remote
      /\ x.absent = r.absent \ {u} /\ x.arrivals = r.arrivals
  BY Zenon, <1>1
<1>3. /\ DOMAIN y = F /\ y = [z \in F |-> y[z]]
      /\ y.phase = r.phase /\ y.channel = r.channel /\ y.remote = r.remote
      /\ y.absent = r.absent /\ y.arrivals = r.arrivals \ {u}
  BY Zenon, <1>1
<1>. HIDE DEF x, y
<1>4. ScanOK(x, tokens)
  BY Zenon, <1>2 DEF ScanOK, IsRecord
<1>5. ScanOK(y, tokens)
  BY Zenon, <1>3 DEF ScanOK, IsRecord
<1>. QED BY Zenon, <1>4, <1>5 DEF x, y


\* A local member LiveKit did not list.
LEMMA ReconcileAbsentKeeps ==
    ASSUME ServiceInv, NEW u \in Users, ReconcileAbsent(u)
    PROVE  ServiceInv' /\ FreshStart
<1>. DEFINE next == [rec EXCEPT !.absent = @ \ {u}]
            out  == [phase |-> "eject", user |-> u, then |-> next]
<1>1. /\ UNCHANGED <<voice, sessions, minted, joining, intent, lk, tokens, nonce>>
      /\ rec.phase = "scan"
  BY Zenon DEF ReconcileAbsent, workerVars
<1>2. \/ evidence' = ClearParticipantMissing(evidence, rec.channel, u)
      \/ evidence' = ObserveParticipantMissing(evidence, rec.channel, u)
  BY Zenon DEF ReconcileAbsent
<1>3. rec' = out \/ rec' = Resumed(next)
  BY Zenon DEF ReconcileAbsent
<1>4. ScanOK(next, tokens)
  BY Zenon, <1>1, Phases, ScanShrinks
<1>. HIDE DEF next
<1>5. out.phase = "eject" /\ out.user = u /\ out.then = next
  BY Zenon
<1>. HIDE DEF out
<1>6. ReconcilerOK(out, tokens)
  BY Zenon, <1>4, <1>5 DEF ReconcilerOK, EjectOK
<1>7. ReconcilerOK(rec', tokens)
  BY Zenon, <1>3, <1>4, <1>6, ResumedOK
<1>8. EvidenceOK(evidence')
  BY Zenon, <1>2, EvidenceKept DEF ServiceInv
<1>. QED BY Zenon, <1>1, <1>7, <1>8, OutsideKeeps DEF ServiceInv

\* force_local_leave
LEMMA ForceLocalLeaveKeeps ==
    ASSUME ServiceInv, ForceLocalLeave
    PROVE  ServiceInv' /\ FreshStart
<1>1. /\ UNCHANGED <<sessions, minted, joining, intent, lk, tokens, nonce>>
      /\ rec' = Resumed(rec.then)
      /\ evidence' = ClearParticipantMissing(evidence, rec.then.channel, rec.user)
      /\ voice' = Leave(voice, rec.then.channel, rec.user)
  BY Zenon DEF ForceLocalLeave, workerVars
<1>2. rec.user \in Users /\ ScanOK(rec.then, tokens)
  BY Zenon, Phases DEF ForceLocalLeave, EjectOK
<1>3. rec.then.channel \in Channels
  BY Zenon, <1>2 DEF ScanOK
<1>4. Good(voice') /\ Fewer(voice', voice)
  BY Zenon, <1>1, <1>2, <1>3, LeaveGood, LeaveFewer DEF ServiceInv
<1>5. EvidenceOK(evidence')
  BY Zenon, <1>1, EvidenceKept DEF ServiceInv
<1>6. ReconcilerOK(rec', tokens)
  BY Zenon, <1>1, <1>2, ResumedOK
<1>. QED BY Zenon, <1>1, <1>4, <1>5, <1>6, FewerKeeps DEF ServiceInv

\* The synthetic event carries what LiveKit listed.
LEMMA SyntheticOK ==
    ASSUME ServiceInv, ScanOK(rec, tokens), NEW u \in rec.arrivals
    PROVE  /\ EventOK(SyntheticJoin(u)) /\ rec.channel \in Channels /\ u \in Users
           /\ SyntheticJoin(u).channel = rec.channel /\ SyntheticJoin(u).user = u
           /\ SyntheticJoin(u).session = rec.remote[u].session
           /\ rec.remote[u].session \in Sessions
<1>1. /\ rec.channel \in Channels /\ u \in Users /\ rec.remote[u] \in Metadata
      /\ Backed(tokens, u, rec.channel, rec.remote[u].session)
  BY Zenon DEF ScanOK, Attends
<1>2. rec.remote[u].session \in Sessions
  BY Zenon, <1>1 DEF Metadata
<1>3. /\ SyntheticJoin(u).channel = rec.channel /\ SyntheticJoin(u).user = u
      /\ SyntheticJoin(u).session = rec.remote[u].session
  BY Zenon DEF SyntheticJoin
<1>. QED BY Zenon, <1>1, <1>2, <1>3 DEF EventOK

\* A participant the server does not know.
LEMMA ReconcileArrivalKeeps ==
    ASSUME ServiceInv, NEW u \in Users, ReconcileArrival(u)
    PROVE  ServiceInv' /\ FreshStart
<1>1. /\ UNCHANGED workerVars /\ rec.phase = "scan" /\ u \in rec.arrivals
      /\ rec' = Resumed([rec EXCEPT !.arrivals = @ \ {u}])
      /\ UNCHANGED <<sessions, minted, joining, tokens, nonce>>
  BY Zenon DEF ReconcileArrival, workerVars
<1>2. ScanOK(rec, tokens)
  BY Zenon, <1>1, Phases
<1>3. ReconcilerOK(rec', tokens)
  BY Zenon, <1>1, <1>2, ResumedOK, ScanShrinks
<1>4. EventOK(SyntheticJoin(u)) /\ rec.channel \in Channels /\ LiveKitOK(lk, tokens)
  BY Zenon, <1>1, <1>2, SyntheticOK DEF ServiceInv
<1>5. CASE HandleJoined(SyntheticJoin(u), lk)
  BY Zenon, <1>1, <1>3, <1>4, <1>5, HandleJoinedKeeps
<1>6. CASE lk' \in Evictions(lk, rec.channel, u) /\ UNCHANGED <<voice, evidence, intent>>
  <2>1. LiveKitOK(lk', tokens) /\ lk'.scenario = lk.scenario
    BY Zenon, <1>4, <1>6, EvictionsOK
  <2>. QED BY Zenon, <1>1, <1>3, <1>6, <2>1, OutsideKeeps DEF ServiceInv
<1>. QED BY Zenon, <1>5, <1>6 DEF ReconcileArrival

\* recover_from_restart seats everybody once, under the session LiveKit knows.
LEMMA SeatedGood ==
    ASSUME ServiceInv, NEW listed, listed \subseteq Channels, NEW f \in Seatings(listed)
    PROVE  /\ Good(Seated(f))
           /\ DOMAIN Seated(f).user_to_channel = DOMAIN f /\ DOMAIN f \subseteq Users
           /\ \A u \in DOMAIN f :
                 Backed(tokens, u, Seated(f).user_to_channel[u].channel,
                                   Seated(f).user_to_channel[u].owner_session)
<1>. DEFINE present == {u \in Users : \E c \in listed : InRoom(lk, c, u)}
            chs == [c \in Range(f) |-> [u \in {v \in DOMAIN f : f[v] = c} |-> Unmuted]]
            row(u) == [channel |-> f[u], owner_session |-> lk.room[f[u]][u].session]
            utc == [u \in DOMAIN f |-> row(u)]
            m == [channels |-> chs, user_to_channel |-> utc]
<1>1. Seated(f) = m
  BY Zenon DEF Seated
<1>2. f \in [present -> listed] /\ \A u \in present : InRoom(lk, f[u], u)
  BY Zenon DEF Seatings
<1>3. DOMAIN f = present /\ DOMAIN f \subseteq Users
  BY Zenon, <1>2
<1>. HIDE DEF present
<1>4. ASSUME NEW u \in DOMAIN f
      PROVE  /\ f[u] \in Channels /\ lk.room[f[u]][u].session \in Sessions
             /\ Backed(tokens, u, f[u], lk.room[f[u]][u].session)
  <2>1. f[u] \in Channels /\ u \in DOMAIN lk.room[f[u]]
    BY Zenon, <1>2, <1>3 DEF InRoom
  <2>2. lk.room[f[u]][u] \in Metadata /\ Backed(tokens, u, f[u], lk.room[f[u]][u].session)
    BY Zenon, <2>1 DEF ServiceInv, LiveKitOK, Attends
  <2>. QED BY Zenon, <2>1, <2>2 DEF Metadata
<1>5. /\ DOMAIN chs = Range(f) /\ Range(f) \subseteq Channels
      /\ chs = [c \in DOMAIN chs |-> chs[c]]
  BY Zenon, <1>4 DEF Range
<1>6. ASSUME NEW c \in Range(f)
      PROVE  /\ DOMAIN chs[c] = {v \in DOMAIN f : f[v] = c}
             /\ chs[c] \in [DOMAIN chs[c] -> ParticipantState]
             /\ DOMAIN chs[c] # {}
  <2>1. chs[c] = [u \in {v \in DOMAIN f : f[v] = c} |-> Unmuted]
    BY Zenon
  <2>2. Unmuted \in ParticipantState
    BY Zenon DEF Unmuted, ParticipantState
  <2>3. \E v \in DOMAIN f : f[v] = c
    BY Zenon DEF Range
  <2>. HIDE DEF chs
  <2>. QED BY Zenon, <2>1, <2>2, <2>3
<1>7. ASSUME NEW u \in DOMAIN f
      PROVE  /\ utc[u] \in UserVoiceState /\ utc[u].channel = f[u]
             /\ utc[u].owner_session = lk.room[f[u]][u].session
  <2>1. utc[u] = row(u)
    BY Zenon
  <2>. HIDE DEF utc
  <2>. QED BY <2>1, <1>4 DEF UserVoiceState
<1>8. DOMAIN utc = DOMAIN f /\ utc \in [DOMAIN utc -> UserVoiceState]
  BY Zenon, <1>7
<1>. HIDE DEF chs, utc
<1>9. m.channels = chs /\ m.user_to_channel = utc
      /\ m = [channels |-> m.channels, user_to_channel |-> m.user_to_channel]
  BY Zenon
<1>. HIDE DEF m
<1>10. \A u \in DOMAIN f : f[u] \in Range(f)
  BY Zenon DEF Range
<1>11. Typed(m)
  BY ZenonT(30), <1>3, <1>5, <1>6, <1>8, <1>9 DEF Typed
<1>12. Agree(m)
  <2>1. ASSUME NEW u \in DOMAIN utc
        PROVE  utc[u].channel \in DOMAIN chs /\ u \in DOMAIN chs[utc[u].channel]
    <3>1. u \in DOMAIN f /\ utc[u].channel = f[u] /\ f[u] \in Range(f)
      BY Zenon, <1>7, <1>8, <1>10
    <3>2. DOMAIN chs[f[u]] = {v \in DOMAIN f : f[v] = f[u]}
      BY Zenon, <1>6, <3>1
    <3>. QED BY Zenon, <1>5, <3>1, <3>2
  <2>2. ASSUME NEW c \in DOMAIN chs, NEW u \in DOMAIN chs[c]
        PROVE  u \in DOMAIN utc /\ utc[u].channel = c
    <3>1. u \in DOMAIN f /\ f[u] = c
      BY Zenon, <1>5, <1>6
    <3>. QED BY Zenon, <1>7, <1>8, <3>1
  <2>. QED BY Zenon, <1>9, <2>1, <2>2 DEF Agree
<1>13. Inhabited(m)
  BY Zenon, <1>5, <1>6, <1>9 DEF Inhabited
<1>14. Good(m)
  BY Zenon, <1>11, <1>12, <1>13 DEF Good
<1>. QED BY Zenon, <1>1, <1>3, <1>4, <1>7, <1>8, <1>9, <1>14


\* A restart: the seats come from LiveKit, and there is no evidence yet.
LEMMA RestartKeeps ==
    ASSUME ServiceInv, Restart
    PROVE  ServiceInv' /\ FreshStart
<1>1. PICK known \in {lk.open} \cup (IF "query_failure" \in Environment THEN {{}} ELSE {}) :
      \E listed \in IF "query_failure" \in Environment THEN SUBSET known ELSE {known} :
      \E f \in Seatings(listed) : voice' = Seated(f)
  BY Zenon DEF Restart
<1>2. PICK listed \in IF "query_failure" \in Environment THEN SUBSET known ELSE {known} :
      \E f \in Seatings(listed) : voice' = Seated(f)
  BY Zenon, <1>1
<1>3. PICK f \in Seatings(listed) : voice' = Seated(f)
  BY Zenon, <1>2
<1>4. /\ "restart" \in lk.scenario.may /\ sessions' = EmptyMap /\ minted' = <<>>
      /\ joining' = EmptyMap /\ evidence' = NoEvidence /\ rec' = Idle
      /\ UNCHANGED <<intent, lk, tokens, nonce>>
  BY Zenon DEF Restart, Environment
<1>5. known \subseteq Channels
  BY Zenon DEF ServiceInv, LiveKitOK
<1>6. listed \subseteq Channels
  BY Zenon, <1>2, <1>5
<1>7. /\ Good(voice')
      /\ \A u \in DOMAIN voice'.user_to_channel :
            Backed(tokens, u, voice'.user_to_channel[u].channel,
                              voice'.user_to_channel[u].owner_session)
  BY Zenon, <1>3, <1>6, SeatedGood
<1>8. MembersOK(lk, voice', minted', tokens)
  BY Zenon, <1>4, <1>7 DEF MembersOK
<1>9. IntentsOK(lk, intent, minted')
  BY Zenon, <1>4 DEF ServiceInv, IntentsOK
<1>10. SessionsOK(lk, sessions', minted') /\ JoiningOK(joining', minted')
  <2>1. DOMAIN EmptyMap = {}
    BY Zenon DEF EmptyMap
  <2>2. lk.scenario \in Scenario
    BY Zenon, ScenariosKnown DEF ServiceInv, LiveKitOK
  <2>3. lk.scenario.sessions \in Nat
    BY <2>2, SessionsNat DEF Scenario
  <2>4. <<>> \in Seq(Users) /\ Len(<<>>) <= lk.scenario.sessions
    BY <2>3
  <2>. QED BY Zenon, <1>4, <2>1, <2>4 DEF SessionsOK, JoiningOK
<1>11. EvidenceOK(evidence') /\ evidence'.channels = EmptyMap /\ evidence'.participants = EmptyMap
  BY <1>4 DEF NoEvidence, EvidenceOK, IsRecord
<1>12. ServiceInv'
  <2>1. ReconcilerOK(rec', tokens)
    BY Zenon, <1>4 DEF ReconcilerOK
  <2>. QED BY Zenon, <1>4, <1>7, <1>8, <1>9, <1>10, <1>11, <2>1, StepKeeps DEF ServiceInv
<1>13. FreshStart
  BY Zenon, <1>11 DEF FreshStart, EmptyMap
<1>. QED BY Zenon, <1>12, <1>13

-----------------------------------------------------------------------------
(* The invariant holds.                                                    *)

\* At the start nobody is anywhere.
LEMMA ServiceInvInit ==
    ASSUME ServiceInit
    PROVE  ServiceInv
<1>1. PICK sc \in Scenarios :
         lk = NoRooms(Channels, IF "room_events" \in sc.may THEN {} ELSE Channels, sc)
  BY Zenon DEF ServiceInit
<1>2. PICK open \in SUBSET Channels : lk = NoRooms(Channels, open, sc)
  BY Zenon, <1>1
<1>3. /\ IsRecord(lk, LiveKitFields)
      /\ lk.room = [c \in Channels |-> EmptyMap] /\ lk.open = open
      /\ lk.hooks = <<>> /\ lk.second = 1 /\ lk.scenario = sc
  BY <1>2 DEF NoRooms, IsRecord, LiveKitFields
<1>4. DOMAIN EmptyMap = {}
  BY Zenon DEF EmptyMap
<1>5. LiveKitOK(lk, tokens)
  <2>1. <<>> \in Seq(Hooks(tokens)) /\ 1 \in Nat
    OBVIOUS
  <2>2. \A c \in Channels : Attends(tokens, c, lk.room[c])
    BY Zenon, <1>3, <1>4 DEF Attends
  <2>3. lk.room = [c \in Channels |-> lk.room[c]]
    BY Zenon, <1>3
  <2>. QED BY Zenon, <1>3, <2>1, <2>2, <2>3 DEF LiveKitOK
<1>6. /\ voice = NoVoice /\ sessions = EmptyMap /\ minted = <<>> /\ joining = EmptyMap
      /\ intent = EmptyMap /\ evidence = NoEvidence /\ rec = Idle /\ tokens = {} /\ nonce = 0
  BY Zenon DEF ServiceInit
<1>7. voice.channels = EmptyMap /\ voice.user_to_channel = EmptyMap
  BY Zenon, <1>6 DEF NoVoice
<1>8. Good(voice)
  BY <1>6 DEF NoVoice, EmptyMap, Good, Typed, Agree, Inhabited
<1>9. MembersOK(lk, voice, minted, tokens)
  BY Zenon, <1>4, <1>7 DEF MembersOK
<1>10. SessionsOK(lk, sessions, minted)
  <2>1. sc \in Scenario
    BY Zenon, ScenariosKnown
  <2>2. sc.sessions \in Nat
    BY <2>1, SessionsNat DEF Scenario
  <2>3. <<>> \in Seq(Users) /\ Len(<<>>) <= sc.sessions
    BY <2>2
  <2>. QED BY Zenon, <1>3, <1>4, <1>6, <2>3 DEF SessionsOK
<1>11. JoiningOK(joining, minted) /\ IntentsOK(lk, intent, minted)
  BY Zenon, <1>4, <1>6 DEF JoiningOK, IntentsOK
<1>12. EvidenceOK(evidence) /\ nonce \in Nat
  BY <1>6 DEF NoEvidence, EvidenceOK, IsRecord
<1>13. ReconcilerOK(rec, tokens) /\ tokens \subseteq Tokens
  BY Zenon, <1>6 DEF ReconcilerOK
<1>. QED BY Zenon, <1>5, <1>8, <1>9, <1>10, <1>11, <1>12, <1>13 DEF ServiceInv

\* Every step of every thread keeps it, and starts nobody with evidence.
LEMMA ServiceInvNext ==
    ASSUME ServiceInv, ServiceNext
    PROVE  ServiceInv' /\ FreshStart
<1>1. CASE Workers
  <2>1. CASE \E u \in Users : OpenSession(u) \/ KickParticipant(u)
    BY Zenon, <2>1, OpenSessionKeeps, KickParticipantKeeps
  <2>2. CASE \E s \in DOMAIN sessions :
                \/ CloseSession(s)
                \/ \E p \in lk.scenario.wishes : SetActivity(s, p)
                \/ \E c \in Channels : JoinBegin(s, c)
    BY Zenon, <2>2, CloseSessionKeeps, SetActivityKeeps, JoinBeginKeeps
  <2>3. CASE \E s \in DOMAIN minted : ResumeVoice(s)
    BY Zenon, <2>3, ResumeVoiceKeeps
  <2>4. CASE \E s \in DOMAIN joining :
                JoinAbort(s) \/ \E p \in lk.scenario.wishes : JoinIssue(s, p)
    BY Zenon, <2>4, JoinAbortKeeps, JoinIssueKeeps
  <2>. QED BY Zenon, <1>1, <2>1, <2>2, <2>3, <2>4 DEF Workers
<1>2. CASE Clients
  <2>1. CASE \E t \in tokens : Connect(t) \/ ExpireToken(t)
    BY Zenon, <2>1, ConnectKeeps, ExpireTokenKeeps
  <2>2. CASE \E c \in Channels : CloseRoom(c) \/ \E u \in Users : Disconnect(c, u)
    BY Zenon, <2>2, CloseRoomKeeps, DisconnectKeeps
  <2>3. CASE \E u \in DOMAIN intent : ExpireIntent(u)
    BY Zenon, <2>3, ExpireIntentKeeps
  <2>4. CASE SecondPasses
    BY Zenon, <2>4, SecondPassesKeeps
  <2>5. CASE \E k \in DOMAIN lk.hooks : LoseHook(k)
    BY Zenon, <2>5, LoseHookKeeps
  <2>. QED BY Zenon, <1>2, <2>1, <2>2, <2>3, <2>4, <2>5 DEF Clients
<1>3. CASE Webhook
  BY Zenon, <1>3, DeliverHookKeeps DEF Webhook
<1>4. CASE Reconciler
  <2>1. CASE ReconcileEmpty \/ ReconcileFinish \/ ReconcileScan \/ ForceLocalLeave
    BY Zenon, <2>1, ReconcileEmptyKeeps, ReconcileFinishKeeps, ReconcileScanKeeps,
       ForceLocalLeaveKeeps
  <2>2. CASE \E u \in Users : ReconcileAbsent(u) \/ ReconcileArrival(u)
    BY Zenon, <2>2, ReconcileAbsentKeeps, ReconcileArrivalKeeps
  <2>3. CASE \E c \in Channels : ReconcileQuery(c)
    BY Zenon, <2>3, ReconcileQueryKeeps
  <2>. QED BY Zenon, <1>4, <2>1, <2>2, <2>3 DEF Reconciler, ReconcileStep
<1>. QED BY Zenon, <1>1, <1>2, <1>3, <1>4, TickKeeps, RestartKeeps DEF ServiceNext


\* The invariant, always.
THEOREM ServiceAlways == ServiceSpec => []ServiceInv
<1>1. ServiceInit => ServiceInv
  BY Zenon, ServiceInvInit
<1>2. ServiceInv /\ [ServiceNext]_vars => ServiceInv'
  <2>1. CASE ServiceNext
    BY Zenon, <2>1, ServiceInvNext
  <2>2. ASSUME ServiceInv, UNCHANGED vars PROVE ServiceInv'
    <3>1. UNCHANGED <<voice, sessions, minted, joining, intent, evidence, rec, lk, tokens, nonce>>
      BY Zenon, <2>2 DEF vars
    <3>. QED BY Zenon, <2>2, <3>1, LiveKitKeeps DEF ServiceInv
  <2>. QED BY Zenon, <2>1, <2>2
<1>. QED BY PTL, <1>1, <1>2 DEF ServiceSpec

\* The two halves of the membership map stay one relation through every handler,
\* whichever thread runs it and through restarts.
THEOREM MembershipStaysConsistent == ServiceSpec => []MembershipConsistent
<1>1. ServiceInv => MembershipConsistent
  BY Zenon DEF ServiceInv, Good, MembershipConsistent
<1>. QED BY PTL, <1>1, ServiceAlways

\* No event of another connection makes a session the owner: a member connected to
\* the channel with a token of the owner session.
THEOREM MembersStayConnected == ServiceSpec => []MembersConnected
<1>1. ServiceInv => MembersConnected
  BY Zenon DEF ServiceInv, MembersOK, Backed, MembersConnected, Environment, ChannelOf, OwnerOf
<1>. QED BY PTL, <1>1, ServiceAlways

\* Until the process restarts, a user's voice is owned by a session minted for that user.
THEOREM OwnersAreOwn == ServiceSpec => []OwnerIsOwn
<1>1. ServiceInv => OwnerIsOwn
  BY Zenon DEF ServiceInv, MembersOK, Mine, OwnerIsOwn, Environment, OwnerOf
<1>. QED BY PTL, <1>1, ServiceAlways

\* A membership never starts with evidence against it.
THEOREM EvidenceAlwaysReset == ServiceSpec => EvidenceReset
<1>1. ServiceInv /\ [ServiceNext]_vars =>
      [\A c \in Channels : \A u \in UsersIn(voice', c) \ UsersIn(voice, c) :
          /\ c \notin DOMAIN evidence'.channels
          /\ <<c, u>> \notin DOMAIN evidence'.participants]_vars
  BY Zenon, ServiceInvNext DEF FreshStart
<1>. QED BY PTL, <1>1, ServiceAlways DEF ServiceSpec, EvidenceReset

\* Handling the arrival w, the reconciler evicts nobody but w, and not a settled one.
LEMMA ArrivalSpares ==
    ASSUME ServiceInv, NEW w \in Users, ReconcileArrival(w),
           NEW c \in Channels, NEW u \in UsersIn(voice, c), Settled(c, u)
    PROVE  InRoom(lk', c, u)
<1>1. ScanOK(rec, tokens) /\ w \in rec.arrivals /\ LiveKitOK(lk, tokens)
  BY Zenon, Phases DEF ReconcileArrival, ServiceInv
<1>2. /\ rec.channel \in Channels /\ SyntheticJoin(w).channel = rec.channel
      /\ SyntheticJoin(w).user = w /\ SyntheticJoin(w).session = rec.remote[w].session
      /\ rec.remote[w].session \in Sessions
  BY Zenon, <1>1, SyntheticOK
<1>3. InRoom(lk, c, u) /\ OwnerOf(u) \in UserSessionIds(u) /\ ~HasIntent(u)
  BY Zenon DEF Settled
<1>4. InVoice(voice, u) /\ ChannelOf(u) = c
  BY Zenon, ListedIsMapped DEF ServiceInv, ChannelOf
<1>5. c = rec.channel /\ u = w => rec.remote[u].session = OwnerOf(u)
  BY Zenon, <1>1 DEF Settled, ScanOK
<1>6. c = rec.channel /\ u = w => Trusted(w)
  BY Zenon, <1>3, <1>5 DEF Trusted
<1>7. 0 \notin Sessions
  BY SessionsNat
<1>8. c = rec.channel /\ u = w => AlreadyOwner(SyntheticJoin(w))
  BY Zenon, <1>2, <1>4, <1>5, <1>7 DEF AlreadyOwner
<1>9. CASE lk' = lk
  BY Zenon, <1>3, <1>9
<1>10. ASSUME lk' \in Evictions(lk, rec.channel, w), ~(c = rec.channel /\ u = w)
       PROVE  InRoom(lk', c, u)
  <2>1. OnlyAt(lk'.room, lk.room, rec.channel, w)
    BY Zenon, <1>1, <1>2, <1>10, EvictionsOK
  <2>2. CASE c = rec.channel
    BY Zenon, <1>3, <1>10, <2>1, <2>2 DEF OnlyAt, InRoom
  <2>3. CASE c # rec.channel
    BY Zenon, <1>3, <2>1, <2>3 DEF OnlyAt, InRoom
  <2>. QED BY Zenon, <2>2, <2>3
<1>11. CASE ~Trusted(w) /\ lk' \in Evictions(lk, rec.channel, w)
  BY Zenon, <1>6, <1>10, <1>11
<1>12. CASE HandleJoined(SyntheticJoin(w), lk)
  <2>1. CASE lk' = lk
    BY Zenon, <1>9, <2>1
  <2>2. CASE ~AlreadyOwner(SyntheticJoin(w)) /\ Refuse(SyntheticJoin(w), lk)
    <3>1. lk' \in Evictions(lk, rec.channel, w)
      BY Zenon, <1>2, <2>2 DEF Refuse
    <3>. QED BY Zenon, <1>8, <1>10, <2>2, <3>1
  <2>. QED BY Zenon, <1>12, <2>1, <2>2 DEF HandleJoined, Admit
<1>. QED BY Zenon, <1>11, <1>12 DEF ReconcileArrival

\* "It never kicks healthy users": the reconciler evicts no settled member from LiveKit.
THEOREM HealthyUsersStay == ServiceSpec => ReconcileSparesSettled
<1>1. ASSUME ServiceInv, ReconcileStep,
             NEW c \in Channels, NEW u \in UsersIn(voice, c), Settled(c, u)
      PROVE  InRoom(lk', c, u)
  <2>1. InRoom(lk, c, u)
    BY Zenon, <1>1 DEF Settled
  <2>2. CASE \E w \in Users : ReconcileArrival(w)
    BY Zenon, <1>1, <2>2, ArrivalSpares
  <2>3. CASE \/ ReconcileEmpty \/ ReconcileFinish \/ ReconcileScan \/ ForceLocalLeave
             \/ \E w \in Users : ReconcileAbsent(w)
    <3>1. lk' = lk
      BY Zenon, <2>3 DEF ReconcileEmpty, ReconcileFinish, ReconcileScan, ForceLocalLeave,
         ReconcileAbsent
    <3>. QED BY Zenon, <2>1, <3>1
  <2>. QED BY Zenon, <1>1, <2>2, <2>3 DEF ReconcileStep
<1>2. ServiceInv /\ [ServiceNext]_vars =>
      [\A c \in Channels : \A u \in UsersIn(voice, c) :
          Settled(c, u) /\ ~InRoom(lk', c, u) => ~ReconcileStep]_vars
  BY Zenon, <1>1
<1>. QED BY PTL, <1>2, ServiceAlways DEF ServiceSpec, ReconcileSparesSettled

-----------------------------------------------------------------------------
(* The subscriptions.                                                      *)

Once(vec) == \A i, j \in DOMAIN vec : vec[i] = vec[j] => i = j

\* A vector belongs to one topic, and a vector somebody points to is there.
SubscriptionTypeOK ==
    /\ DOMAIN conn_to_topics \subseteq Conns /\ DOMAIN topic_to_conns \subseteq Topics
    /\ DOMAIN heap \subseteq Cells
    /\ conn_to_topics \in [DOMAIN conn_to_topics -> SUBSET Topics]
    /\ topic_to_conns \in [DOMAIN topic_to_conns -> DOMAIN heap]
    /\ heap \in [DOMAIN heap -> Seq(Conns)]
    /\ held \in [Readers -> DOMAIN heap \cup {Null}]
    /\ Once(topic_to_conns)

\* IndexesAgree, by what the two lookups answer: the entries are the topics and the
\* connections with something in them, and the answers are one relation.
LookupsAgree ==
    /\ DOMAIN conn_to_topics = {c \in Conns : TopicsOf(c) # {}}
    /\ DOMAIN topic_to_conns = {t \in Topics : VectorOf(t) # <<>>}
    /\ \A t \in Topics : Range(VectorOf(t)) = {c \in Conns : t \in TopicsOf(c)} /\ Once(VectorOf(t))

SubscriptionInv == SubscriptionTypeOK /\ LookupsAgree

-----------------------------------------------------------------------------
(* Vectors                                                                 *)

\* What the lookups answer is of its kind.
LEMMA LookupTypes ==
    ASSUME SubscriptionTypeOK
    PROVE  /\ \A c \in Conns : TopicsOf(c) \subseteq Topics
           /\ \A t \in Topics : VectorOf(t) \in Seq(Conns)
<1>1. \A c \in Conns : TopicsOf(c) \subseteq Topics
  BY Zenon DEF SubscriptionTypeOK, TopicsOf
<1>2. \A t \in DOMAIN topic_to_conns : heap[topic_to_conns[t]] \in Seq(Conns)
  BY Zenon DEF SubscriptionTypeOK
<1>3. <<>> \in Seq(Conns)
  OBVIOUS
<1>. QED BY Zenon, <1>1, <1>2, <1>3 DEF VectorOf

\* A vector is empty when nobody is in it.
LEMMA EmptyVector ==
    ASSUME NEW S, NEW vec \in Seq(S)
    PROVE  vec = <<>> <=> Range(vec) = {}
<1>1. vec = <<>> => Range(vec) = {}
  BY DEF Range
<1>2. ASSUME vec # <<>> PROVE vec[1] \in Range(vec)
  <2>1. 1 \in DOMAIN vec
    BY <1>2
  <2>. QED BY Zenon, <2>1 DEF Range
<1>. QED BY Zenon, <1>1, <1>2

\* The two forms of the invariant are one.
LEMMA LookupsMean ==
    ASSUME SubscriptionInv
    PROVE  IndexesAgree
<1>1. SubscriptionTypeOK /\ LookupsAgree
  BY Zenon DEF SubscriptionInv
<1>2. \A t \in DOMAIN topic_to_conns : t \in Topics /\ VectorOf(t) = heap[topic_to_conns[t]]
  BY Zenon, <1>1 DEF SubscriptionTypeOK, VectorOf
<1>3. \A c \in DOMAIN conn_to_topics : c \in Conns /\ TopicsOf(c) = conn_to_topics[c]
  BY Zenon, <1>1 DEF SubscriptionTypeOK, TopicsOf
<1>4. \A t \in DOMAIN topic_to_conns :
         {c \in Conns : t \in TopicsOf(c)} = {c \in DOMAIN conn_to_topics : t \in conn_to_topics[c]}
  BY Zenon, <1>1, <1>3 DEF LookupsAgree, TopicsOf
<1>5. \A t \in DOMAIN topic_to_conns :
         LET vec == heap[topic_to_conns[t]]
         IN  /\ vec # <<>>
             /\ Range(vec) = {c \in DOMAIN conn_to_topics : t \in conn_to_topics[c]}
             /\ \A i, j \in DOMAIN vec : vec[i] = vec[j] => i = j
  BY Zenon, <1>1, <1>2, <1>4 DEF LookupsAgree, Once
<1>6. \A c \in DOMAIN conn_to_topics : conn_to_topics[c] # {}
  BY Zenon, <1>1, <1>3 DEF LookupsAgree
<1>7. ASSUME NEW c \in DOMAIN conn_to_topics, NEW t \in conn_to_topics[c]
      PROVE  t \in DOMAIN topic_to_conns
  <2>1. t \in Topics /\ t \in TopicsOf(c) /\ c \in Conns
    BY Zenon, <1>1, <1>3, LookupTypes
  <2>2. c \in Range(VectorOf(t))
    BY Zenon, <1>1, <2>1 DEF LookupsAgree
  <2>3. VectorOf(t) # <<>>
    BY Zenon, <2>1, <2>2, <1>1, EmptyVector, LookupTypes
  <2>. QED BY Zenon, <1>1, <2>1, <2>3 DEF LookupsAgree
<1>. QED BY Zenon, <1>5, <1>6, <1>7 DEF IndexesAgree

\* A new subscriber goes to the end.
LEMMA AppendVector ==
    ASSUME NEW S, NEW vec \in Seq(S), NEW c \in S, c \notin Range(vec), Once(vec)
    PROVE  LET new == Append(vec, c)
           IN  new \in Seq(S) /\ new # <<>> /\ Range(new) = Range(vec) \cup {c} /\ Once(new)
<1>. DEFINE new == Append(vec, c)
<1>1. /\ Len(vec) \in Nat /\ DOMAIN vec = 1..Len(vec) /\ new \in Seq(S)
      /\ DOMAIN new = 1..Len(vec) + 1
      /\ new # <<>>
  OBVIOUS
<1>2. \A i \in 1..Len(vec) + 1 : new[i] = IF i <= Len(vec) THEN vec[i] ELSE c
  OBVIOUS
<1>. HIDE DEF new
<1>3. \A i \in DOMAIN vec : vec[i] # c
  BY Zenon DEF Range
<1>4. Once(new)
  BY <1>1, <1>2, <1>3 DEF Once
<1>5. \A x \in Range(new) : x \in Range(vec) \cup {c}
  <2>. SUFFICES ASSUME NEW i \in 1..Len(vec) + 1 PROVE new[i] \in Range(vec) \cup {c}
    BY Zenon, <1>1 DEF Range
  <2>. QED BY <1>1, <1>2 DEF Range
<1>6. c \in Range(new)
  <2>1. Len(vec) + 1 \in DOMAIN new /\ new[Len(vec) + 1] = c
    BY <1>1, <1>2
  <2>. QED BY Zenon, <2>1 DEF Range
<1>7. \A x \in Range(vec) : x \in Range(new)
  <2>. SUFFICES ASSUME NEW i \in 1..Len(vec) PROVE vec[i] \in Range(new)
    BY Zenon, <1>1 DEF Range
  <2>1. i \in DOMAIN new /\ new[i] = vec[i]
    BY <1>1, <1>2
  <2>. QED BY Zenon, <2>1 DEF Range
<1>. QED BY Zenon, <1>1, <1>4, <1>5, <1>6, <1>7 DEF new

\* eraseConnFromTopic takes c out of a vector and nobody else, wherever c was.
LEMMA SwapEraseVector ==
    ASSUME NEW S, NEW vec \in Seq(S), NEW c, Once(vec)
    PROVE  LET new == SwapErase(vec, c)
           IN  new \in Seq(S) /\ Range(new) = Range(vec) \ {c} /\ Once(new)
<1>1. CASE c \notin Range(vec)
  BY Zenon, <1>1 DEF SwapErase
<1>2. CASE c \in Range(vec)
  <2>. DEFINE k   == CHOOSE i \in DOMAIN vec : vec[i] = c
              n   == Len(vec)
              new == [i \in 1..(n - 1) |-> IF i = k THEN vec[n] ELSE vec[i]]
  <2>1. k \in DOMAIN vec /\ vec[k] = c
    BY Zenon, <1>2 DEF Range
  <2>. HIDE DEF k
  <2>2. DOMAIN vec = 1..n /\ n \in Nat /\ n - 1 \in Nat /\ k \in 1..n /\ \A i \in 1..n : vec[i] \in S
    BY <2>1
  <2>3. SwapErase(vec, c) = new
    BY Zenon, <1>2 DEF SwapErase, k
  <2>4. new \in [1..(n - 1) -> S]
    BY <2>2
  <2>5. new \in Seq(S)
    BY <2>2, <2>4, SeqDef
  <2>6. \A i \in 1..(n - 1) : new[i] = IF i = k THEN vec[n] ELSE vec[i]
    BY Zenon
  <2>7. DOMAIN new = 1..(n - 1)
    BY Zenon
  <2>. HIDE DEF new, n
  <2>8. \A i, j \in 1..n : vec[i] = vec[j] => i = j
    BY Zenon, <2>2 DEF Once
  <2>9. Once(new)
    BY <2>2, <2>6, <2>7, <2>8 DEF Once
  <2>10. \A x \in Range(new) : x \in Range(vec) \ {c}
    <3>. SUFFICES ASSUME NEW i \in 1..(n - 1) PROVE new[i] \in Range(vec) \ {c}
      BY Zenon, <2>7 DEF Range
    <3>1. CASE i = k
      BY <3>1, <2>1, <2>2, <2>6, <2>8 DEF Range
    <3>2. CASE i # k
      BY <3>2, <2>1, <2>2, <2>6, <2>8 DEF Range
    <3>. QED BY Zenon, <3>1, <3>2
  <2>11. \A x \in Range(vec) \ {c} : x \in Range(new)
    <3>. SUFFICES ASSUME NEW i \in 1..n, vec[i] # c PROVE vec[i] \in Range(new)
      BY Zenon, <2>2 DEF Range
    <3>1. CASE i # n
      <4>1. i \in DOMAIN new /\ new[i] = vec[i]
        BY <3>1, <2>1, <2>2, <2>6, <2>7
      <4>. QED BY Zenon, <4>1 DEF Range
    <3>2. CASE i = n
      <4>1. k \in DOMAIN new /\ new[k] = vec[i]
        BY <3>2, <2>1, <2>2, <2>6, <2>7
      <4>. QED BY Zenon, <4>1 DEF Range
    <3>. QED BY Zenon, <3>1, <3>2
  <2>. QED BY Zenon, <2>3, <2>5, <2>9, <2>10, <2>11
<1>. QED BY Zenon, <1>1, <1>2

-----------------------------------------------------------------------------
(* The heap                                                                *)

\* Freeing what nobody points to changes no vector somebody points to.
LEMMA Collected ==
    ASSUME NEW cells, heap' = Collect(cells),
           DOMAIN cells \subseteq Cells, cells \in [DOMAIN cells -> Seq(Conns)],
           DOMAIN topic_to_conns' \subseteq Topics,
           topic_to_conns' \in [DOMAIN topic_to_conns' -> DOMAIN cells],
           held' \in [Readers -> DOMAIN cells \cup {Null}]
    PROVE  /\ DOMAIN heap' \subseteq Cells /\ heap' \in [DOMAIN heap' -> Seq(Conns)]
           /\ topic_to_conns' \in [DOMAIN topic_to_conns' -> DOMAIN heap']
           /\ held' \in [Readers -> DOMAIN heap' \cup {Null}]
           /\ \A t \in DOMAIN topic_to_conns' : heap'[topic_to_conns'[t]] = cells[topic_to_conns'[t]]
           /\ \A r \in Readers : held'[r] # Null => heap'[held'[r]] = cells[held'[r]]
<1>. DEFINE kept == DOMAIN cells \cap (Range(topic_to_conns') \cup Range(held'))
<1>1. heap' = [a \in kept |-> cells[a]]
  BY Zenon DEF Collect, Restrict
<1>2. \A t \in DOMAIN topic_to_conns' : topic_to_conns'[t] \in kept
  BY Zenon DEF Range
<1>3. \A r \in Readers : held'[r] # Null => held'[r] \in kept
  BY Zenon DEF Range
<1>. HIDE DEF kept
<1>4. kept \subseteq DOMAIN cells
  BY Zenon DEF kept
<1>. QED BY <1>1, <1>2, <1>3, <1>4

\* A writer goes on with a vector nobody reads and no other topic has.
LEMMA WriterAlone ==
    ASSUME SubscriptionTypeOK, NEW b \in Cells,
           NEW t \in Topics,
           \/ t \in DOMAIN topic_to_conns /\ WritesTo(topic_to_conns[t], b)
           \/ t \notin DOMAIN topic_to_conns /\ b \in FreeCells
    PROVE  /\ \A r \in Readers : held[r] # b
           /\ \A u \in DOMAIN topic_to_conns : u # t => topic_to_conns[u] # b
<1>1. CASE b \in FreeCells
  BY Zenon, <1>1, NullIsNoCell DEF FreeCells, SubscriptionTypeOK
<1>2. CASE t \in DOMAIN topic_to_conns /\ b = topic_to_conns[t] /\ ~Shared(topic_to_conns[t])
  BY Zenon, <1>2 DEF Shared, SubscriptionTypeOK, Once
<1>. QED BY Zenon, <1>1, <1>2 DEF WritesTo

\* What a step does to the readers' vectors: nothing.
ReadersUndisturbed ==
    \A r \in Readers : held[r] # Null => heap'[held[r]] = heap[held[r]]

\* subscribeConnection changes one vector.
LEMMA SubscribeWrites ==
    ASSUME SubscriptionTypeOK, NEW c \in Conns, NEW t \in Topics, SubscribeConnection(c, t)
    PROVE  /\ DOMAIN heap' \subseteq Cells /\ heap' \in [DOMAIN heap' -> Seq(Conns)]
           /\ topic_to_conns' \in [DOMAIN topic_to_conns' -> DOMAIN heap']
           /\ held' \in [Readers -> DOMAIN heap' \cup {Null}]
           /\ DOMAIN topic_to_conns' = DOMAIN topic_to_conns \cup {t} /\ Once(topic_to_conns')
           /\ VectorOf(t)' = Append(VectorOf(t), c)
           /\ \A u \in Topics : u # t => VectorOf(u)' = VectorOf(u)
           /\ ReadersUndisturbed
<1>1. PICK b \in Cells :
         /\ IF t \in DOMAIN topic_to_conns THEN WritesTo(topic_to_conns[t], b) ELSE b \in FreeCells
         /\ topic_to_conns' = Put(topic_to_conns, t, b)
         /\ heap' = Collect(Put(heap, b, Append(VectorOf(t), c)))
  BY Zenon DEF SubscribeConnection
<1>2. /\ \A r \in Readers : held[r] # b
      /\ \A u \in DOMAIN topic_to_conns : u # t => topic_to_conns[u] # b
  BY Zenon, <1>1, WriterAlone
<1>. DEFINE new   == Append(VectorOf(t), c)
            cells == Put(heap, b, new)
<1>3. new \in Seq(Conns)
  BY LookupTypes
<1>. HIDE DEF new
<1>4. /\ DOMAIN heap \subseteq Cells /\ heap \in [DOMAIN heap -> Seq(Conns)]
      /\ topic_to_conns \in [DOMAIN topic_to_conns -> DOMAIN heap]
      /\ held \in [Readers -> DOMAIN heap \cup {Null}] /\ Once(topic_to_conns)
      /\ DOMAIN topic_to_conns \subseteq Topics
  BY Zenon DEF SubscriptionTypeOK
<1>5. /\ DOMAIN cells = DOMAIN heap \cup {b} /\ DOMAIN cells \subseteq Cells
      /\ cells \in [DOMAIN cells -> Seq(Conns)]
      /\ cells[b] = new /\ \A a \in DOMAIN heap : a # b => cells[a] = heap[a]
  BY Zenon, <1>3, <1>4 DEF Put
<1>6. /\ DOMAIN topic_to_conns' = DOMAIN topic_to_conns \cup {t}
      /\ topic_to_conns'[t] = b
      /\ \A u \in DOMAIN topic_to_conns : u # t => topic_to_conns'[u] = topic_to_conns[u]
      /\ topic_to_conns' = [u \in DOMAIN topic_to_conns' |-> topic_to_conns'[u]]
  BY Zenon, <1>1 DEF Put
<1>7. heap' = Collect(cells) /\ held' = held
  BY Zenon, <1>1 DEF SubscribeConnection, new
<1>. HIDE DEF cells
<1>8. /\ topic_to_conns' \in [DOMAIN topic_to_conns' -> DOMAIN cells]
      /\ held' \in [Readers -> DOMAIN cells \cup {Null}]
      /\ DOMAIN topic_to_conns' \subseteq Topics
  BY Zenon, <1>4, <1>5, <1>6, <1>7
<1>9. /\ DOMAIN heap' \subseteq Cells /\ heap' \in [DOMAIN heap' -> Seq(Conns)]
      /\ topic_to_conns' \in [DOMAIN topic_to_conns' -> DOMAIN heap']
      /\ held' \in [Readers -> DOMAIN heap' \cup {Null}]
      /\ \A u \in DOMAIN topic_to_conns' : heap'[topic_to_conns'[u]] = cells[topic_to_conns'[u]]
      /\ \A r \in Readers : held'[r] # Null => heap'[held'[r]] = cells[held'[r]]
  BY Zenon, <1>5, <1>7, <1>8, Collected
<1>10. Once(topic_to_conns')
  BY Zenon, <1>2, <1>4, <1>6 DEF Once
<1>11. VectorOf(t)' = new
  BY Zenon, <1>5, <1>6, <1>9 DEF VectorOf
<1>12. \A u \in Topics : u # t => VectorOf(u)' = VectorOf(u)
  <2>. SUFFICES ASSUME NEW u \in Topics, u # t PROVE VectorOf(u)' = VectorOf(u)
    BY Zenon
  <2>1. CASE u \in DOMAIN topic_to_conns
    BY <2>1, <1>2, <1>4, <1>5, <1>6, <1>9 DEF VectorOf
  <2>2. CASE u \notin DOMAIN topic_to_conns
    BY Zenon, <2>2, <1>6 DEF VectorOf
  <2>. QED BY Zenon, <2>1, <2>2
<1>13. ReadersUndisturbed
  BY Zenon, <1>2, <1>4, <1>5, <1>7, <1>9 DEF ReadersUndisturbed
<1>. QED BY Zenon, <1>6, <1>9, <1>10, <1>11, <1>12, <1>13 DEF new

\* eraseConnFromTopic, for all of the topics ts: each of their vectors loses c, and the
\* topics left with nobody go.
LEMMA EraseWrites ==
    ASSUME SubscriptionTypeOK, NEW c \in Conns, NEW ts, ts \subseteq DOMAIN topic_to_conns,
           \A t \in ts : Once(VectorOf(t)), EraseFrom(ts, c), held' = held
    PROVE  /\ DOMAIN heap' \subseteq Cells /\ heap' \in [DOMAIN heap' -> Seq(Conns)]
           /\ topic_to_conns' \in [DOMAIN topic_to_conns' -> DOMAIN heap']
           /\ held' \in [Readers -> DOMAIN heap' \cup {Null}]
           /\ DOMAIN topic_to_conns' =
                 DOMAIN topic_to_conns \ {t \in ts : SwapErase(VectorOf(t), c) = <<>>}
           /\ Once(topic_to_conns')
           /\ \A t \in ts : VectorOf(t)' = SwapErase(VectorOf(t), c)
           /\ \A t \in Topics \ ts : VectorOf(t)' = VectorOf(t)
           /\ ReadersUndisturbed
<1>0. /\ DOMAIN heap \subseteq Cells /\ heap \in [DOMAIN heap -> Seq(Conns)]
      /\ topic_to_conns \in [DOMAIN topic_to_conns -> DOMAIN heap]
      /\ held \in [Readers -> DOMAIN heap \cup {Null}] /\ Once(topic_to_conns)
      /\ DOMAIN topic_to_conns \subseteq Topics
  BY Zenon DEF SubscriptionTypeOK
<1>. DEFINE rest  == [t \in ts |-> SwapErase(VectorOf(t), c)]
            gone  == {t \in ts : SwapErase(VectorOf(t), c) = <<>>}
<1>1. PICK to \in [ts -> Cells] :
         /\ \A t \in ts : WritesTo(topic_to_conns[t], to[t])
         /\ \A t, u \in ts : to[t] = to[u] => t = u
         /\ topic_to_conns' = [t \in DOMAIN topic_to_conns \ {x \in ts : rest[x] = <<>>} |->
                                 IF t \in ts THEN to[t] ELSE topic_to_conns[t]]
         /\ heap' = Collect([a \in DOMAIN heap \cup Range(to) |->
                IF a \in Range(to) THEN rest[CHOOSE t \in ts : to[t] = a] ELSE heap[a]])
  BY Zenon DEF EraseFrom
<1>. DEFINE cells == [a \in DOMAIN heap \cup Range(to) |->
                        IF a \in Range(to) THEN rest[CHOOSE t \in ts : to[t] = a] ELSE heap[a]]
<1>2. \A t \in ts : /\ \A r \in Readers : held[r] # to[t]
                    /\ \A u \in DOMAIN topic_to_conns : u # t => topic_to_conns[u] # to[t]
  BY Zenon, <1>0, <1>1, WriterAlone
<1>3. \A t \in ts : rest[t] \in Seq(Conns)
  BY Zenon, <1>0, SwapEraseVector, LookupTypes
<1>4. {x \in ts : rest[x] = <<>>} = gone
  BY Zenon
<1>5. \A t \in ts : to[t] \in Range(to) /\ (CHOOSE u \in ts : to[u] = to[t]) = t
  BY Zenon, <1>1 DEF Range
<1>6. \A a \in Range(to) : a \in Cells /\ \E t \in ts : a = to[t]
  BY Zenon DEF Range
<1>7. /\ DOMAIN cells = DOMAIN heap \cup Range(to) /\ DOMAIN cells \subseteq Cells
      /\ \A t \in ts : cells[to[t]] = SwapErase(VectorOf(t), c)
      /\ \A a \in DOMAIN heap \ Range(to) : cells[a] = heap[a]
  BY Zenon, <1>0, <1>5, <1>6
<1>8. cells \in [DOMAIN cells -> Seq(Conns)]
  <2>. SUFFICES ASSUME NEW a \in DOMAIN cells PROVE cells[a] \in Seq(Conns)
    BY Zenon
  <2>. QED BY <1>0, <1>3, <1>6, <1>7
<1>. HIDE DEF rest, cells
<1>9. heap' = Collect(cells)
  BY Zenon, <1>1 DEF cells
<1>10. /\ DOMAIN topic_to_conns' = DOMAIN topic_to_conns \ gone
       /\ topic_to_conns' = [t \in DOMAIN topic_to_conns' |-> topic_to_conns'[t]]
       /\ \A t \in DOMAIN topic_to_conns' :
             topic_to_conns'[t] = IF t \in ts THEN to[t] ELSE topic_to_conns[t]
  BY Zenon, <1>1, <1>4
<1>. HIDE DEF gone
<1>11. /\ topic_to_conns' \in [DOMAIN topic_to_conns' -> DOMAIN cells]
       /\ held' \in [Readers -> DOMAIN cells \cup {Null}]
       /\ DOMAIN topic_to_conns' \subseteq Topics
  BY <1>0, <1>5, <1>7, <1>10
<1>12. /\ DOMAIN heap' \subseteq Cells /\ heap' \in [DOMAIN heap' -> Seq(Conns)]
       /\ topic_to_conns' \in [DOMAIN topic_to_conns' -> DOMAIN heap']
       /\ held' \in [Readers -> DOMAIN heap' \cup {Null}]
       /\ \A u \in DOMAIN topic_to_conns' : heap'[topic_to_conns'[u]] = cells[topic_to_conns'[u]]
       /\ \A r \in Readers : held'[r] # Null => heap'[held'[r]] = cells[held'[r]]
  BY Zenon, <1>7, <1>8, <1>9, <1>11, Collected
<1>13. Once(topic_to_conns')
  BY <1>0, <1>1, <1>2, <1>10 DEF Once
<1>14. \A t \in ts : VectorOf(t)' = SwapErase(VectorOf(t), c)
  <2>. SUFFICES ASSUME NEW t \in ts PROVE VectorOf(t)' = SwapErase(VectorOf(t), c)
    BY Zenon
  <2>1. CASE t \in gone
    BY Zenon, <2>1, <1>10 DEF VectorOf, gone
  <2>2. CASE t \notin gone
    BY Zenon, <2>2, <1>7, <1>10, <1>12 DEF VectorOf
  <2>. QED BY Zenon, <2>1, <2>2
<1>15. \A t \in Topics \ ts : VectorOf(t)' = VectorOf(t)
  <2>. SUFFICES ASSUME NEW t \in Topics \ ts PROVE VectorOf(t)' = VectorOf(t)
    BY Zenon
  <2>1. CASE t \in DOMAIN topic_to_conns
    <3>1. topic_to_conns'[t] = topic_to_conns[t] /\ t \in DOMAIN topic_to_conns'
      BY Zenon, <2>1, <1>10 DEF gone
    <3>2. topic_to_conns[t] \in DOMAIN heap \ Range(to)
      BY Zenon, <2>1, <1>0, <1>2, <1>6
    <3>. QED BY <2>1, <3>1, <3>2, <1>7, <1>12 DEF VectorOf
  <2>2. CASE t \notin DOMAIN topic_to_conns
    BY Zenon, <2>2, <1>10 DEF VectorOf
  <2>. QED BY Zenon, <2>1, <2>2
<1>16. ReadersUndisturbed
  BY <1>0, <1>2, <1>6, <1>7, <1>12 DEF ReadersUndisturbed
<1>. QED BY Zenon, <1>10, <1>12, <1>13, <1>14, <1>15, <1>16 DEF gone

-----------------------------------------------------------------------------
(* The steps.  Each keeps the invariant and is a step of the promise.      *)

\* What a reader goes through stays when the readers are undisturbed.
LEMMA SnapshotsKept ==
    ASSUME ReadersUndisturbed, held' = held
    PROVE  Snapshots' = Snapshots
BY Zenon DEF ReadersUndisturbed, Snapshots

\* subscribeConnection
LEMMA SubscribeKeeps ==
    ASSUME SubscriptionInv, NEW c \in Conns, NEW t \in Topics, SubscribeConnection(c, t)
    PROVE  SubscriptionInv' /\ Abstract!Subscribe(c, t)
<1>0. SubscriptionTypeOK /\ LookupsAgree
  BY Zenon DEF SubscriptionInv
<1>1. /\ DOMAIN heap' \subseteq Cells /\ heap' \in [DOMAIN heap' -> Seq(Conns)]
      /\ topic_to_conns' \in [DOMAIN topic_to_conns' -> DOMAIN heap']
      /\ held' \in [Readers -> DOMAIN heap' \cup {Null}]
      /\ DOMAIN topic_to_conns' = DOMAIN topic_to_conns \cup {t} /\ Once(topic_to_conns')
      /\ VectorOf(t)' = Append(VectorOf(t), c)
      /\ \A u \in Topics : u # t => VectorOf(u)' = VectorOf(u)
      /\ ReadersUndisturbed
  BY Zenon, <1>0, SubscribeWrites
<1>2. conn_to_topics' = Put(conn_to_topics, c, TopicsOf(c) \cup {t}) /\ t \notin TopicsOf(c) /\ held' = held
  BY Zenon DEF SubscribeConnection
<1>3. /\ DOMAIN conn_to_topics' = DOMAIN conn_to_topics \cup {c}
      /\ conn_to_topics' \in [DOMAIN conn_to_topics' -> SUBSET Topics]
      /\ TopicsOf(c)' = TopicsOf(c) \cup {t}
      /\ \A x \in Conns : x # c => TopicsOf(x)' = TopicsOf(x)
  BY Zenon, <1>0, <1>2, LookupTypes DEF Put, TopicsOf, SubscriptionTypeOK
<1>4. c \notin Range(VectorOf(t)) /\ Once(VectorOf(t)) /\ VectorOf(t) \in Seq(Conns)
  BY Zenon, <1>0, <1>2, LookupTypes DEF LookupsAgree
<1>5. VectorOf(t)' # <<>> /\ Range(VectorOf(t)') = Range(VectorOf(t)) \cup {c} /\ Once(VectorOf(t)')
  BY <1>1, <1>4, AppendVector
<1>6. SubscriptionTypeOK'
  BY Zenon, <1>0, <1>1, <1>3 DEF SubscriptionTypeOK
<1>7. LookupsAgree'
  <2>1. (DOMAIN conn_to_topics = {x \in Conns : TopicsOf(x) # {}})'
    BY Zenon, <1>0, <1>3 DEF LookupsAgree
  <2>2. (DOMAIN topic_to_conns = {u \in Topics : VectorOf(u) # <<>>})'
    BY Zenon, <1>0, <1>1, <1>5 DEF LookupsAgree
  <2>3. ASSUME NEW u \in Topics
        PROVE  Range(VectorOf(u)') = {x \in Conns : u \in TopicsOf(x)'} /\ Once(VectorOf(u)')
    <3>1. Range(VectorOf(u)) = {x \in Conns : u \in TopicsOf(x)} /\ Once(VectorOf(u))
      BY Zenon, <1>0 DEF LookupsAgree
    <3>2. CASE u = t
      BY Zenon, <3>1, <3>2, <1>3, <1>5
    <3>3. CASE u # t
      <4>1. VectorOf(u)' = VectorOf(u) /\ \A x \in Conns : u \in TopicsOf(x)' <=> u \in TopicsOf(x)
        BY Zenon, <3>3, <1>1, <1>3
      <4>. QED BY Zenon, <4>1, <3>1
    <3>. QED BY Zenon, <3>2, <3>3
  <2>. QED BY Zenon, <2>1, <2>2, <2>3 DEF LookupsAgree, Range, Once
<1>8. SubscribedPairs' = SubscribedPairs \cup {<<c, t>>}
  BY <1>3 DEF SubscribedPairs
<1>9. Snapshots' = Snapshots
  BY Zenon, <1>1, <1>2, SnapshotsKept
<1>. QED BY Zenon, <1>6, <1>7, <1>8, <1>9 DEF SubscriptionInv, Abstract!Subscribe, Abstract!Subscribed

\* What removing c from the vectors of all of its topics in ts, and the topics from
\* its entry, leaves.
LEMMA EraseKeeps ==
    ASSUME SubscriptionInv, NEW c \in Conns, NEW ts, ts \subseteq TopicsOf(c),
           EraseFrom(ts \cap DOMAIN topic_to_conns, c), held' = held,
           DOMAIN conn_to_topics' = {x \in Conns : TopicsOf(x)' # {}},
           conn_to_topics' \in [DOMAIN conn_to_topics' -> SUBSET Topics],
           TopicsOf(c)' = TopicsOf(c) \ ts,
           \A x \in Conns : x # c => TopicsOf(x)' = TopicsOf(x)
    PROVE  SubscriptionInv' /\ Snapshots' = Snapshots
<1>0. /\ SubscriptionTypeOK /\ LookupsAgree /\ ts \subseteq Topics
      /\ DOMAIN topic_to_conns \subseteq Topics
  BY Zenon, LookupTypes DEF SubscriptionInv, SubscriptionTypeOK
<1>1. ts \cap DOMAIN topic_to_conns = ts
  <2>. SUFFICES ASSUME NEW t \in ts PROVE t \in DOMAIN topic_to_conns
    BY Zenon
  <2>1. c \in Range(VectorOf(t))
    BY Zenon, <1>0 DEF LookupsAgree
  <2>. QED BY Zenon, <1>0, <2>1, EmptyVector, LookupTypes DEF LookupsAgree
<1>2. \A t \in Topics : Once(VectorOf(t)) /\ VectorOf(t) \in Seq(Conns)
  BY Zenon, <1>0, LookupTypes DEF LookupsAgree
<1>3. /\ DOMAIN heap' \subseteq Cells /\ heap' \in [DOMAIN heap' -> Seq(Conns)]
      /\ topic_to_conns' \in [DOMAIN topic_to_conns' -> DOMAIN heap']
      /\ held' \in [Readers -> DOMAIN heap' \cup {Null}]
      /\ DOMAIN topic_to_conns' =
            DOMAIN topic_to_conns \ {t \in ts : SwapErase(VectorOf(t), c) = <<>>}
      /\ Once(topic_to_conns')
      /\ \A t \in ts : VectorOf(t)' = SwapErase(VectorOf(t), c)
      /\ \A t \in Topics \ ts : VectorOf(t)' = VectorOf(t)
      /\ ReadersUndisturbed
  <2>1. EraseFrom(ts, c)
    BY Zenon, <1>1
  <2>2. ts \subseteq DOMAIN topic_to_conns /\ \A t \in ts : Once(VectorOf(t))
    BY Zenon, <1>0, <1>1, <1>2
  <2>. QED BY Zenon, <1>0, <2>1, <2>2, EraseWrites
<1>4. \A t \in ts : Range(VectorOf(t)') = Range(VectorOf(t)) \ {c} /\ Once(VectorOf(t)')
  BY <1>0, <1>2, <1>3, SwapEraseVector
<1>5. SubscriptionTypeOK'
  BY Zenon, <1>0, <1>3 DEF SubscriptionTypeOK
<1>6. LookupsAgree'
  <2>1. (DOMAIN topic_to_conns = {u \in Topics : VectorOf(u) # <<>>})'
    <3>1. DOMAIN topic_to_conns = {u \in Topics : VectorOf(u) # <<>>}
      BY Zenon, <1>0 DEF LookupsAgree
    <3>2. \A u \in ts : u \in DOMAIN topic_to_conns' <=> VectorOf(u)' # <<>>
      BY Zenon, <1>0, <1>1, <1>3
    <3>3. \A u \in Topics \ ts : u \in DOMAIN topic_to_conns' <=> VectorOf(u)' # <<>>
      BY Zenon, <1>3, <3>1
    <3>4. DOMAIN topic_to_conns' \subseteq Topics
      BY Zenon, <1>0, <1>3
    <3>. QED BY Zenon, <3>2, <3>3, <3>4
  <2>2. ASSUME NEW u \in Topics
        PROVE  Range(VectorOf(u)') = {x \in Conns : u \in TopicsOf(x)'} /\ Once(VectorOf(u)')
    <3>1. Range(VectorOf(u)) = {x \in Conns : u \in TopicsOf(x)} /\ Once(VectorOf(u))
      BY Zenon, <1>0 DEF LookupsAgree
    <3>2. CASE u \in ts
      BY Zenon, <3>1, <3>2, <1>4
    <3>3. CASE u \notin ts
      BY Zenon, <3>1, <3>3, <1>3
    <3>. QED BY Zenon, <3>2, <3>3
  <2>. QED BY Zenon, <2>1, <2>2 DEF LookupsAgree, Range, Once
<1>7. Snapshots' = Snapshots
  BY Zenon, <1>3, SnapshotsKept
<1>. QED BY Zenon, <1>5, <1>6, <1>7 DEF SubscriptionInv

\* unsubscribeConnection
LEMMA UnsubscribeKeeps ==
    ASSUME SubscriptionInv, NEW c \in Conns, NEW t \in Topics, UnsubscribeConnection(c, t)
    PROVE  SubscriptionInv' /\ Abstract!Unsubscribe(c, t)
<1>0. SubscriptionTypeOK /\ LookupsAgree
  BY Zenon DEF SubscriptionInv
<1>1. /\ t \in TopicsOf(c) /\ held' = held /\ EraseFrom({t} \cap DOMAIN topic_to_conns, c)
      /\ conn_to_topics' = Without(conn_to_topics, c, {t})
  BY Zenon DEF UnsubscribeConnection
<1>2. c \in DOMAIN conn_to_topics /\ TopicsOf(c) = conn_to_topics[c]
  BY Zenon, <1>1 DEF TopicsOf
<1>3. /\ DOMAIN conn_to_topics' = IF TopicsOf(c) \ {t} = {} THEN DOMAIN conn_to_topics \ {c}
                                                          ELSE DOMAIN conn_to_topics
      /\ \A x \in DOMAIN conn_to_topics' :
            conn_to_topics'[x] = IF x = c THEN TopicsOf(c) \ {t} ELSE conn_to_topics[x]
      /\ conn_to_topics' = [x \in DOMAIN conn_to_topics' |-> conn_to_topics'[x]]
  BY Zenon, <1>1, <1>2 DEF Without, Erase, Put, Restrict
<1>4. /\ TopicsOf(c)' = TopicsOf(c) \ {t}
      /\ \A x \in Conns : x # c => TopicsOf(x)' = TopicsOf(x)
  BY Zenon, <1>2, <1>3 DEF TopicsOf
<1>5. DOMAIN conn_to_topics' = {x \in Conns : TopicsOf(x)' # {}}
  BY Zenon, <1>0, <1>2, <1>3, <1>4 DEF LookupsAgree
<1>6. conn_to_topics' \in [DOMAIN conn_to_topics' -> SUBSET Topics]
  BY <1>0, <1>2, <1>3 DEF SubscriptionTypeOK
<1>7. SubscriptionInv' /\ Snapshots' = Snapshots
  BY Zenon, <1>1, <1>4, <1>5, <1>6, EraseKeeps
<1>8. SubscribedPairs' = SubscribedPairs \ {<<c, t>>}
  BY <1>4 DEF SubscribedPairs
<1>. QED BY Zenon, <1>7, <1>8 DEF Abstract!Unsubscribe, Abstract!Unsubscribed

\* removeAllForConnection
LEMMA RemoveConnectionKeeps ==
    ASSUME SubscriptionInv, NEW c \in Conns, RemoveAllForConnection(c)
    PROVE  SubscriptionInv' /\ Abstract!DropConnection(c)
<1>0. SubscriptionTypeOK /\ LookupsAgree
  BY Zenon DEF SubscriptionInv
<1>1. /\ c \in DOMAIN conn_to_topics /\ TopicsOf(c) = conn_to_topics[c] /\ held' = held
      /\ EraseFrom(TopicsOf(c) \cap DOMAIN topic_to_conns, c)
      /\ conn_to_topics' = Erase(conn_to_topics, c)
  BY Zenon DEF RemoveAllForConnection, TopicsOf
<1>2. /\ DOMAIN conn_to_topics' = DOMAIN conn_to_topics \ {c}
      /\ \A x \in DOMAIN conn_to_topics' : conn_to_topics'[x] = conn_to_topics[x]
      /\ conn_to_topics' = [x \in DOMAIN conn_to_topics' |-> conn_to_topics'[x]]
  BY Zenon, <1>1 DEF Erase, Restrict
<1>3. TopicsOf(c)' = {} /\ \A x \in Conns : x # c => TopicsOf(x)' = TopicsOf(x)
  BY Zenon, <1>2 DEF TopicsOf
<1>4. DOMAIN conn_to_topics' = {x \in Conns : TopicsOf(x)' # {}}
  BY Zenon, <1>0, <1>2, <1>3 DEF LookupsAgree
<1>5. conn_to_topics' \in [DOMAIN conn_to_topics' -> SUBSET Topics]
  BY Zenon, <1>0, <1>2 DEF SubscriptionTypeOK
<1>6. SubscriptionInv' /\ Snapshots' = Snapshots
  BY Zenon, <1>1, <1>3, <1>4, <1>5, EraseKeeps
<1>7. SubscribedPairs' = {p \in SubscribedPairs : p[1] # c}
  BY Zenon, <1>3 DEF SubscribedPairs
<1>. QED BY Zenon, <1>6, <1>7 DEF Abstract!DropConnection, Abstract!WithoutConnection

\* Freeing alone, when the topics' entries go or stay as they are.
LEMMA FreeingKeeps ==
    ASSUME SubscriptionTypeOK, heap' = Collect(heap),
           DOMAIN topic_to_conns' \subseteq DOMAIN topic_to_conns,
           topic_to_conns' = [u \in DOMAIN topic_to_conns' |-> topic_to_conns[u]],
           held' \in [Readers -> DOMAIN heap \cup {Null}]
    PROVE  /\ DOMAIN heap' \subseteq Cells /\ heap' \in [DOMAIN heap' -> Seq(Conns)]
           /\ topic_to_conns' \in [DOMAIN topic_to_conns' -> DOMAIN heap']
           /\ held' \in [Readers -> DOMAIN heap' \cup {Null}]
           /\ Once(topic_to_conns')
           /\ \A u \in DOMAIN topic_to_conns' : VectorOf(u)' = VectorOf(u)
           /\ \A r \in Readers : held'[r] # Null => heap'[held'[r]] = heap[held'[r]]
<1>1. /\ DOMAIN heap \subseteq Cells /\ heap \in [DOMAIN heap -> Seq(Conns)]
      /\ topic_to_conns \in [DOMAIN topic_to_conns -> DOMAIN heap]
      /\ DOMAIN topic_to_conns \subseteq Topics /\ Once(topic_to_conns)
  BY Zenon DEF SubscriptionTypeOK
<1>2. /\ topic_to_conns' \in [DOMAIN topic_to_conns' -> DOMAIN heap]
      /\ \A u \in DOMAIN topic_to_conns' : topic_to_conns'[u] = topic_to_conns[u]
      /\ DOMAIN topic_to_conns' \subseteq Topics
  BY Zenon, <1>1
<1>3. /\ DOMAIN heap' \subseteq Cells /\ heap' \in [DOMAIN heap' -> Seq(Conns)]
      /\ topic_to_conns' \in [DOMAIN topic_to_conns' -> DOMAIN heap']
      /\ held' \in [Readers -> DOMAIN heap' \cup {Null}]
      /\ \A u \in DOMAIN topic_to_conns' : heap'[topic_to_conns'[u]] = heap[topic_to_conns'[u]]
      /\ \A r \in Readers : held'[r] # Null => heap'[held'[r]] = heap[held'[r]]
  BY Zenon, <1>1, <1>2, Collected
<1>4. Once(topic_to_conns')
  BY Zenon, <1>1, <1>2 DEF Once
<1>5. \A u \in DOMAIN topic_to_conns' : VectorOf(u)' = VectorOf(u)
  BY Zenon, <1>2, <1>3 DEF VectorOf
<1>. QED BY Zenon, <1>3, <1>4, <1>5

\* removeAllForTopic: the entries it cleans up by way of the vector are all there are.
LEMMA RemoveTopicKeeps ==
    ASSUME SubscriptionInv, NEW t \in Topics, RemoveAllForTopic(t)
    PROVE  SubscriptionInv' /\ Abstract!DropTopic(t)
<1>0. /\ SubscriptionTypeOK /\ LookupsAgree /\ t \in DOMAIN topic_to_conns
      /\ DOMAIN conn_to_topics \subseteq Conns /\ DOMAIN topic_to_conns \subseteq Topics
      /\ conn_to_topics \in [DOMAIN conn_to_topics -> SUBSET Topics]
  BY Zenon DEF SubscriptionInv, SubscriptionTypeOK, RemoveAllForTopic
<1>. DEFINE listed(c) == c \in DOMAIN conn_to_topics /\ c \in Range(heap[topic_to_conns[t]])
<1>1. \A c \in DOMAIN conn_to_topics : listed(c) <=> t \in conn_to_topics[c]
  <2>1. Range(heap[topic_to_conns[t]]) = {c \in Conns : t \in TopicsOf(c)}
    BY Zenon, <1>0 DEF LookupsAgree, VectorOf
  <2>. QED BY Zenon, <2>1, <1>0 DEF TopicsOf
<1>2. /\ conn_to_topics' =
            [c \in {x \in DOMAIN conn_to_topics : listed(x) => conn_to_topics[x] # {t}} |->
               IF listed(c) THEN conn_to_topics[c] \ {t} ELSE conn_to_topics[c]]
      /\ topic_to_conns' = Erase(topic_to_conns, t) /\ held' = held /\ heap' = Collect(heap)
  BY Zenon DEF RemoveAllForTopic
<1>. HIDE DEF listed
<1>3. /\ DOMAIN conn_to_topics' = {x \in DOMAIN conn_to_topics : listed(x) => conn_to_topics[x] # {t}}
      /\ conn_to_topics' = [c \in DOMAIN conn_to_topics' |-> conn_to_topics'[c]]
      /\ \A c \in DOMAIN conn_to_topics' :
            conn_to_topics'[c] = IF listed(c) THEN conn_to_topics[c] \ {t} ELSE conn_to_topics[c]
  BY Zenon, <1>2
<1>4. \A c \in DOMAIN conn_to_topics' : conn_to_topics'[c] = conn_to_topics[c] \ {t}
  BY Zenon, <1>1, <1>3
<1>5. \A c \in Conns : TopicsOf(c)' = TopicsOf(c) \ {t}
  <2>. SUFFICES ASSUME NEW c \in Conns PROVE TopicsOf(c)' = TopicsOf(c) \ {t}
    BY Zenon
  <2>1. CASE c \in DOMAIN conn_to_topics'
    BY Zenon, <2>1, <1>3, <1>4 DEF TopicsOf
  <2>2. CASE c \in DOMAIN conn_to_topics \ DOMAIN conn_to_topics'
    BY Zenon, <2>2, <1>3 DEF TopicsOf
  <2>3. CASE c \notin DOMAIN conn_to_topics
    BY Zenon, <2>3, <1>3 DEF TopicsOf
  <2>. QED BY Zenon, <2>1, <2>2, <2>3
<1>6. DOMAIN conn_to_topics' = {c \in Conns : TopicsOf(c)' # {}}
  <2>1. DOMAIN conn_to_topics = {c \in Conns : TopicsOf(c) # {}}
    BY Zenon, <1>0 DEF LookupsAgree
  <2>2. \A c \in DOMAIN conn_to_topics : conn_to_topics[c] # {} /\ TopicsOf(c) = conn_to_topics[c]
    BY Zenon, <2>1 DEF TopicsOf
  <2>3. \A c \in DOMAIN conn_to_topics : c \in DOMAIN conn_to_topics' <=> conn_to_topics[c] \ {t} # {}
    BY Zenon, <1>1, <1>3, <2>2
  <2>. QED BY <1>0, <1>3, <1>5, <2>1, <2>2, <2>3
<1>7. /\ DOMAIN topic_to_conns' = DOMAIN topic_to_conns \ {t}
      /\ topic_to_conns' = [u \in DOMAIN topic_to_conns' |-> topic_to_conns[u]]
  BY Zenon, <1>2 DEF Erase, Restrict
<1>8. held' \in [Readers -> DOMAIN heap \cup {Null}]
  BY Zenon, <1>0, <1>2 DEF SubscriptionTypeOK
<1>9. /\ DOMAIN heap' \subseteq Cells /\ heap' \in [DOMAIN heap' -> Seq(Conns)]
      /\ topic_to_conns' \in [DOMAIN topic_to_conns' -> DOMAIN heap']
      /\ held' \in [Readers -> DOMAIN heap' \cup {Null}]
      /\ Once(topic_to_conns')
      /\ \A u \in DOMAIN topic_to_conns' : VectorOf(u)' = VectorOf(u)
      /\ \A r \in Readers : held'[r] # Null => heap'[held'[r]] = heap[held'[r]]
  BY Zenon, <1>0, <1>2, <1>7, <1>8, FreeingKeeps
<1>10. VectorOf(t)' = <<>> /\ \A u \in Topics : u # t => VectorOf(u)' = VectorOf(u)
  <2>1. \A u \in Topics : u \notin DOMAIN topic_to_conns' => VectorOf(u)' = <<>>
    BY Zenon DEF VectorOf
  <2>2. \A u \in Topics : u \notin DOMAIN topic_to_conns => VectorOf(u) = <<>>
    BY Zenon DEF VectorOf
  <2>. QED BY Zenon, <2>1, <2>2, <1>7, <1>9
<1>11. SubscriptionTypeOK'
  BY <1>0, <1>3, <1>4, <1>7, <1>9 DEF SubscriptionTypeOK
<1>12. LookupsAgree'
  <2>1. (DOMAIN topic_to_conns = {u \in Topics : VectorOf(u) # <<>>})'
    BY Zenon, <1>0, <1>7, <1>10 DEF LookupsAgree
  <2>2. ASSUME NEW u \in Topics
        PROVE  Range(VectorOf(u)') = {x \in Conns : u \in TopicsOf(x)'} /\ Once(VectorOf(u)')
    <3>1. Range(VectorOf(u)) = {x \in Conns : u \in TopicsOf(x)} /\ Once(VectorOf(u))
      BY Zenon, <1>0 DEF LookupsAgree
    <3>2. CASE u = t
      <4>1. \A x \in Conns : u \notin TopicsOf(x)'
        BY Zenon, <3>2, <1>5
      <4>. QED BY <4>1, <3>2, <1>10 DEF Range, Once
    <3>3. CASE u # t
      <4>1. VectorOf(u)' = VectorOf(u) /\ \A x \in Conns : u \in TopicsOf(x)' <=> u \in TopicsOf(x)
        BY Zenon, <3>3, <1>5, <1>10
      <4>. QED BY Zenon, <4>1, <3>1
    <3>. QED BY Zenon, <3>2, <3>3
  <2>. QED BY Zenon, <1>6, <2>1, <2>2 DEF LookupsAgree, Range, Once
<1>13. SubscribedPairs' = {p \in SubscribedPairs : p[2] # t}
  BY Zenon, <1>5 DEF SubscribedPairs
<1>14. Snapshots' = Snapshots
  BY Zenon, <1>2, <1>9, SnapshotsKept DEF ReadersUndisturbed
<1>. QED BY Zenon, <1>11, <1>12, <1>13, <1>14 DEF SubscriptionInv, Abstract!DropTopic, Abstract!WithoutTopic

\* What the lookups answer does not depend on the readers.
LEMMA LookupsKept ==
    ASSUME LookupsAgree, UNCHANGED <<conn_to_topics, topic_to_conns>>,
           \A u \in DOMAIN topic_to_conns : VectorOf(u)' = VectorOf(u)
    PROVE  LookupsAgree' /\ SubscribedPairs' = SubscribedPairs
<1>1. \A c : TopicsOf(c)' = TopicsOf(c)
  BY Zenon DEF TopicsOf
<1>2. \A u : VectorOf(u)' = VectorOf(u)
  BY Zenon DEF VectorOf
<1>3. SubscribedPairs' = SubscribedPairs
  BY Zenon, <1>1 DEF SubscribedPairs
<1>. QED BY <1>1, <1>2, <1>3 DEF LookupsAgree, Range, Once

\* getSubscribers: the vector handed out lists the subscribers of this moment.
LEMMA GetKeeps ==
    ASSUME SubscriptionInv, NEW r \in Readers, NEW t \in Topics, GetSubscribers(r, t)
    PROVE  SubscriptionInv' /\ Abstract!Take(r, t)
<1>0. /\ SubscriptionTypeOK /\ LookupsAgree
      /\ held[r] = Null /\ t \in DOMAIN topic_to_conns
      /\ held' = [held EXCEPT ![r] = topic_to_conns[t]]
      /\ UNCHANGED <<conn_to_topics, topic_to_conns, heap>>
  BY Zenon DEF SubscriptionInv, GetSubscribers, managerVars
<1>1. SubscriptionTypeOK'
  BY Zenon, <1>0 DEF SubscriptionTypeOK, Once
<1>2. LookupsAgree' /\ SubscribedPairs' = SubscribedPairs
  BY Zenon, <1>0, LookupsKept DEF VectorOf
<1>3. Range(heap[topic_to_conns[t]]) = {c \in Conns : t \in TopicsOf(c)}
  BY Zenon, <1>0 DEF LookupsAgree, VectorOf
<1>4. {c \in Conns : <<c, t>> \in SubscribedPairs} = {c \in Conns : t \in TopicsOf(c)}
  BY Zenon DEF SubscribedPairs
<1>5. {c \in Conns : t \in TopicsOf(c)} # {}
  <2>1. VectorOf(t) # <<>> /\ VectorOf(t) \in Seq(Conns) /\ Range(VectorOf(t)) = {c \in Conns : t \in TopicsOf(c)}
    BY Zenon, <1>0, LookupTypes DEF LookupsAgree
  <2>. QED BY Zenon, <2>1, EmptyVector
<1>6. topic_to_conns[t] # Null /\ held \in [Readers -> DOMAIN heap \cup {Null}]
  BY Zenon, <1>0, NullIsNoCell DEF SubscriptionTypeOK
<1>7. Snapshots[r] = Null /\ Snapshots' = [Snapshots EXCEPT ![r] = {c \in Conns : t \in TopicsOf(c)}]
  BY Zenon, <1>0, <1>3, <1>6 DEF Snapshots
<1>. QED BY Zenon, <1>1, <1>2, <1>4, <1>5, <1>7 DEF SubscriptionInv, Abstract!Take, Abstract!SubscribersIn

\* A reader drops its pointer, and with it perhaps the vector.
LEMMA DropKeeps ==
    ASSUME SubscriptionInv, NEW r \in Readers, DropSnapshot(r)
    PROVE  SubscriptionInv' /\ Abstract!Release(r)
<1>0. /\ SubscriptionTypeOK /\ LookupsAgree
      /\ held' = [held EXCEPT ![r] = Null] /\ heap' = Collect(heap)
      /\ UNCHANGED <<conn_to_topics, topic_to_conns>>
      /\ held \in [Readers -> DOMAIN heap \cup {Null}]
      /\ topic_to_conns \in [DOMAIN topic_to_conns -> DOMAIN heap]
  BY Zenon DEF SubscriptionInv, DropSnapshot, SubscriptionTypeOK
<1>1. held' \in [Readers -> DOMAIN heap \cup {Null}]
  BY Zenon, <1>0
<1>2. /\ DOMAIN heap' \subseteq Cells /\ heap' \in [DOMAIN heap' -> Seq(Conns)]
      /\ topic_to_conns' \in [DOMAIN topic_to_conns' -> DOMAIN heap']
      /\ held' \in [Readers -> DOMAIN heap' \cup {Null}]
      /\ Once(topic_to_conns')
      /\ \A u \in DOMAIN topic_to_conns' : VectorOf(u)' = VectorOf(u)
      /\ \A x \in Readers : held'[x] # Null => heap'[held'[x]] = heap[held'[x]]
  BY Zenon, <1>0, <1>1, FreeingKeeps
<1>3. SubscriptionTypeOK'
  BY Zenon, <1>0, <1>2 DEF SubscriptionTypeOK
<1>4. LookupsAgree' /\ SubscribedPairs' = SubscribedPairs
  BY Zenon, <1>0, <1>2, LookupsKept
<1>5. Snapshots' = [Snapshots EXCEPT ![r] = Null]
  BY Zenon, <1>0, <1>2 DEF Snapshots
<1>. QED BY Zenon, <1>3, <1>4, <1>5 DEF SubscriptionInv, Abstract!Release

-----------------------------------------------------------------------------
(* The theorems                                                            *)

\* The maps start empty, as the promise does.
LEMMA SubscriptionInvInit == SubscriptionInit => SubscriptionInv /\ Abstract!Start
<1>. SUFFICES ASSUME SubscriptionInit PROVE SubscriptionInv /\ Abstract!Start
  BY Zenon
<1>1. /\ DOMAIN conn_to_topics = {} /\ DOMAIN topic_to_conns = {} /\ DOMAIN heap = {}
      /\ conn_to_topics = [x \in {} |-> x] /\ topic_to_conns = [x \in {} |-> x] /\ heap = [x \in {} |-> x]
      /\ held = [r \in Readers |-> Null]
  BY Zenon DEF SubscriptionInit, EmptyMap
<1>2. SubscriptionTypeOK
  BY Zenon, <1>1 DEF SubscriptionTypeOK, Once
<1>3. \A c : TopicsOf(c) = {}
  BY Zenon, <1>1 DEF TopicsOf
<1>4. \A t : VectorOf(t) = <<>>
  BY Zenon, <1>1 DEF VectorOf
<1>5. LookupsAgree
  BY <1>1, <1>3, <1>4 DEF LookupsAgree, Range, Once
<1>6. SubscribedPairs = {} /\ Snapshots = [r \in Readers |-> Null]
  BY Zenon, <1>1, <1>3 DEF SubscribedPairs, Snapshots
<1>. QED BY Zenon, <1>2, <1>5, <1>6 DEF SubscriptionInv, Abstract!Start

\* Every step keeps the invariant and is a step of the promise, or none.
LEMMA SubscriptionInvNext ==
    SubscriptionInv /\ [SubscriptionNext]_subscriptionVars
       => SubscriptionInv' /\ [Abstract!Step]_<<SubscribedPairs, Snapshots>>
<1>. SUFFICES ASSUME SubscriptionInv, [SubscriptionNext]_subscriptionVars
              PROVE  SubscriptionInv' /\ [Abstract!Step]_<<SubscribedPairs, Snapshots>>
  BY Zenon
<1>1. ASSUME NEW c \in Conns, NEW t \in Topics, SubscribeConnection(c, t)
      PROVE  SubscriptionInv' /\ Abstract!Step
  BY Zenon, <1>1, SubscribeKeeps DEF Abstract!Step
<1>2. ASSUME NEW c \in Conns, NEW t \in Topics, UnsubscribeConnection(c, t)
      PROVE  SubscriptionInv' /\ Abstract!Step
  BY Zenon, <1>2, UnsubscribeKeeps DEF Abstract!Step
<1>3. ASSUME NEW c \in Conns, RemoveAllForConnection(c)
      PROVE  SubscriptionInv' /\ Abstract!Step
  BY Zenon, <1>3, RemoveConnectionKeeps DEF Abstract!Step
<1>4. ASSUME NEW t \in Topics, RemoveAllForTopic(t)
      PROVE  SubscriptionInv' /\ Abstract!Step
  BY Zenon, <1>4, RemoveTopicKeeps DEF Abstract!Step
<1>5. ASSUME NEW r \in Readers, DropSnapshot(r)
      PROVE  SubscriptionInv' /\ Abstract!Step
  BY Zenon, <1>5, DropKeeps DEF Abstract!Step
<1>6. ASSUME NEW r \in Readers, NEW t \in Topics, GetSubscribers(r, t)
      PROVE  SubscriptionInv' /\ Abstract!Step
  BY Zenon, <1>6, GetKeeps DEF Abstract!Step
<1>7. CASE UNCHANGED subscriptionVars
  <2>1. \A c, u : TopicsOf(c)' = TopicsOf(c) /\ VectorOf(u)' = VectorOf(u)
    BY Zenon, <1>7 DEF subscriptionVars, TopicsOf, VectorOf
  <2>2. SubscribedPairs' = SubscribedPairs /\ Snapshots' = Snapshots
    BY Zenon, <1>7, <2>1 DEF subscriptionVars, SubscribedPairs, Snapshots
  <2>3. SubscriptionTypeOK' /\ LookupsAgree'
    BY <1>7, <2>1 DEF subscriptionVars, SubscriptionInv, SubscriptionTypeOK, LookupsAgree, Range, Once
  <2>. QED BY Zenon, <2>2, <2>3 DEF SubscriptionInv
<1>. QED BY Zenon, <1>1, <1>2, <1>3, <1>4, <1>5, <1>6, <1>7 DEF SubscriptionNext

\* The invariant holds of every behaviour.
LEMMA SubscriptionAlways == SubscriptionSpec => []SubscriptionInv
BY SubscriptionInvInit, SubscriptionInvNext, PTL DEF SubscriptionSpec

\* conn_to_topics and topic_to_conns are one relation, without doubles and without
\* empty entries, after any calls of the manager and whoever holds its vectors.
THEOREM IndexesAlwaysAgree == SubscriptionSpec => []IndexesAgree
BY SubscriptionAlways, LookupsMean, PTL

\* The manager implements its promise: each of its methods is one step of the relation,
\* and the vector a reader holds stays what it was when getSubscribers returned it,
\* however it is copied, changed and freed behind the map.
THEOREM ManagerKeepsPromise == SubscriptionSpec => KeepsPromise
BY SubscriptionInvInit, SubscriptionInvNext, SubscriptionAlways, PTL
   DEF SubscriptionSpec, KeepsPromise, Abstract!Promise

===============================================================================
