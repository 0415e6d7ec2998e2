----------------------------- MODULE ChannelKeys -----------------------------
(***************************************************************************)
(* app/services/voice/ChannelKeyService with livekit/crypto/               *)
(* E2EEKeyManager: the end-to-end key of one voice channel, in memory and  *)
(* sealed in Redis, and the calls of VoiceService that acquire, rotate,    *)
(* clear, resend and restore it.  The channels share nothing, so one is    *)
(* enough.  Every Redis command is a step of its own and may throw, and    *)
(* the per-channel rotation mutex is held across several of them.          *)
(*                                                                         *)
(* Keys are numbered in the order generate_key draws them (the random      *)
(* bytes never repeat).  A thread is a record: at is the step it is about  *)
(* to take, op the call it serves, user the user of that call, key what it *)
(* holds in a local, empty the answer of the sweep, then the step that     *)
(* follows persist_to_storage, listed the participants LiveKit reported.   *)
(***************************************************************************)
EXTENDS Integers

CONSTANTS Users,        \* the users who may take part
          Threads,      \* threads of the worker pool, the webhook server and the reconciler
          Nodes, Host,  \* LiveKit's configured nodes, and the one that hosts the room
          NoKey, NoThread, NoMaster,
          KeyringSize,  \* kKeyringSize
          Configs       \* what is asked of the service and what may go wrong

ASSUME KeyringAssumption == KeyringSize \in Nat \ {0}
ASSUME NoneAssumption    == NoThread \notin Threads /\ NoKey \notin [number : Nat, index : Nat]
ASSUME ConfigsAssumption == \A c \in Configs : c.threads \subseteq Threads /\ c.crashes \in Nat

VARIABLES live,         \* e2ee_keys_: the channel's key and its keyring index, or NoKey
          drawn,        \* number of keys generated so far
          storedKey,    \* the sealed blob in Redis, or NoKey
          storedIndex,  \* the plain index in Redis, or NoKey
          lock,         \* the thread that holds the channel's rotation mutex
          recent,       \* join_rotate_seen_: users whose last join is within the window
          tracked,      \* sessions_: the channel's participants
          thread,
          master,       \* storage_master_key_, NoMaster when storage_key_ready_ is false
          online,       \* users with a connection of their owner session
          room, arriving, leaving,  \* LiveKit: participants, and the webhooks not yet handled
          token, held,  \* clients: the key of the join reply, and the key in use
          known,        \* history: the keys a user was ever sent
          gone,         \* history: users who left and neither asked to join nor joined again
          missed,       \* history: members tracked when a key took effect that was not announced
          config, joins, failures, crashes

keys    == <<live, drawn>>
stored  == <<storedKey, storedIndex>>
sent    == <<held, known, missed>>
clients == <<online, token, gone, sent>>
livekit == <<room, arriving, leaving>>
input   == <<config, joins, crashes>>
rest    == <<recent, tracked, master, clients, livekit, input>>
vars    == <<keys, stored, lock, thread, failures, rest>>

Idle == [at |-> "idle"]
At(t, step) == thread[t].at = step
Goto(t, frame) == thread' = [thread EXCEPT ![t] = frame]
Proceed(t, step) == Goto(t, [thread[t] EXCEPT !.at = step])
Finish(t) == Goto(t, Idle)
Frame(step, op, u) == [at |-> step, op |-> op, user |-> u, key |-> NoKey, empty |-> "unknown",
                         then |-> "idle", listed |-> {}]

Lock(t) == lock = NoThread /\ lock' = t
Unlock(t) == lock' = IF lock = t THEN NoThread ELSE lock

\* Something of the given kind goes wrong; how often it may is bounded.
Fails(kind) == kind \in config.faults /\ failures > 0 /\ failures' = failures - 1
Works == UNCHANGED failures

-----------------------------------------------------------------------------
(* E2EEKeyManager, and the blobs of encrypt_key_blob and decrypt_key_blob   *)

FirstKey == [number |-> drawn + 1, index |-> 0]

\* rotate_key: the index moves on by one slot of the keyring.
NextKey == [number |-> drawn + 1,
            index  |-> IF live = NoKey THEN 0 ELSE (live.index + 1) % KeyringSize]

Draw(key) == live' = key /\ drawn' = key.number

Seal(m, number) == [master |-> m, number |-> number]

\* AES-GCM rejects a blob sealed under another master key.
CanUnseal(m, blob) == m # NoMaster /\ blob # NoKey /\ blob.master = m

\* persist_to_storage, up to its first command: nothing without a master key.
Persist(t, key, then) ==
    Goto(t, [thread[t] EXCEPT !.at = IF master = NoMaster THEN then ELSE "set_key",
                              !.key = key, !.then = then])

-----------------------------------------------------------------------------
(* persist_to_storage, load_from_storage and clear_storage: one step per   *)
(* Redis command.  An exception ends the method, not the caller.           *)

SetKey(t) ==
    /\ At(t, "set_key")
    /\ \/ /\ Works
          /\ storedKey' = Seal(master, thread[t].key.number)
          /\ Proceed(t, "set_index")
       \/ Fails("redis") /\ Proceed(t, thread[t].then) /\ UNCHANGED storedKey
    /\ UNCHANGED <<keys, storedIndex, lock, rest>>

SetIndex(t) ==
    /\ At(t, "set_index")
    /\ \/ Works /\ storedIndex' = thread[t].key.index
       \/ Fails("redis") /\ UNCHANGED storedIndex
    /\ Proceed(t, thread[t].then)
    /\ UNCHANGED <<keys, storedKey, lock, rest>>

\* The blob is missing, unreadable or sealed under another secret: no key.
LoadKey(t) ==
    /\ At(t, "load_key")
    /\ \/ /\ Works
          /\ IF CanUnseal(master, storedKey)
             THEN Goto(t, [thread[t] EXCEPT !.at = "load_index",
                                            !.key = [number |-> storedKey.number, index |-> 0]])
             ELSE Proceed(t, "no_key")
       \/ Fails("redis") /\ Proceed(t, "no_key")
    /\ UNCHANGED <<keys, stored, lock, rest>>

\* An index that is missing or cannot be read is 0.
LoadIndex(t) ==
    /\ At(t, "load_index")
    /\ \/ /\ Works
          /\ Goto(t, [thread[t] EXCEPT !.at = "touch_key",
                      !.key.index = IF storedIndex = NoKey THEN 0 ELSE storedIndex % KeyringSize])
       \/ Fails("redis") /\ Proceed(t, "touch_key")
    /\ UNCHANGED <<keys, stored, lock, rest>>

\* Both entries are written back to renew their expiry; the loaded key is
\* thrown away when that fails.
TouchKey(t) ==
    /\ At(t, "touch_key")
    /\ \/ /\ Works
          /\ storedKey' = Seal(master, thread[t].key.number)
          /\ Proceed(t, "touch_index")
       \/ Fails("redis") /\ Proceed(t, "no_key") /\ UNCHANGED storedKey
    /\ UNCHANGED <<keys, storedIndex, lock, rest>>

TouchIndex(t) ==
    /\ At(t, "touch_index")
    /\ \/ Works /\ storedIndex' = thread[t].key.index /\ Proceed(t, "adopt")
       \/ Fails("redis") /\ Proceed(t, "no_key") /\ UNCHANGED storedIndex
    /\ UNCHANGED <<keys, storedKey, lock, rest>>

DelKey(t) ==
    /\ At(t, "del_key")
    /\ \/ Works /\ storedKey' = NoKey /\ Proceed(t, "del_index") /\ UNCHANGED lock
       \/ Fails("redis") /\ Proceed(t, "forget") /\ Unlock(t) /\ UNCHANGED storedKey
    /\ UNCHANGED <<keys, storedIndex, rest>>

DelIndex(t) ==
    /\ At(t, "del_index")
    /\ \/ Works /\ storedIndex' = NoKey
       \/ Fails("redis") /\ UNCHANGED storedIndex
    /\ Proceed(t, "forget")
    /\ Unlock(t)
    /\ UNCHANGED <<keys, storedKey, rest>>

-----------------------------------------------------------------------------
(* VoicePublisher: a key update goes to the owner sessions that are        *)
(* connected.                                                              *)

Send(us, key) ==
    LET reached == us \cap online
    IN  /\ held' = [u \in Users |-> IF u \in reached \cap room THEN key ELSE held[u]]
        /\ known' = [u \in Users |-> IF u \in reached THEN known[u] \cup {key.number} ELSE known[u]]
        /\ missed' = missed \ reached

\* publish_voice_key_update at the end of a rotation or a recovery, skipped when
\* the channel's hub cannot be looked up.
Announce(t) ==
    /\ At(t, "announce")
    /\ \/ Works /\ Send(tracked, thread[t].key)
       \/ Fails("lookup") /\ missed' = tracked /\ UNCHANGED <<held, known>>
    /\ IF thread[t].op = "join"
       THEN Proceed(t, "issue") /\ UNCHANGED lock
       ELSE Finish(t) /\ Unlock(t)
    /\ UNCHANGED <<keys, stored, recent, tracked, master, online, token, gone, livekit, input>>

-----------------------------------------------------------------------------
(* rotate_and_broadcast, clear_channel and resync_to_user                  *)

\* Out of random bytes: the old key stays; a join is answered with an error.
CannotDraw(t) == Fails("random") /\ Finish(t) /\ UNCHANGED <<keys, lock>>

\* A variant: the new key is announced but not saved.
RotateUnsaved(t) ==
    /\ At(t, "rotate")
    /\ lock = NoThread
    /\ \/ /\ Works /\ Lock(t) /\ Draw(NextKey)
          /\ Goto(t, [thread[t] EXCEPT !.at = "announce", !.key = NextKey])
       \/ CannotDraw(t)
    /\ UNCHANGED <<stored, rest>>

Rotate(t) ==
    /\ At(t, "rotate")
    /\ lock = NoThread
    /\ \/ Works /\ Lock(t) /\ Draw(NextKey) /\ Persist(t, NextKey, "announce")
       \/ CannotDraw(t)
    /\ UNCHANGED <<stored, rest>>

\* A variant: only the copy in memory is dropped.
ClearMemory(t) ==
    /\ At(t, "clear")
    /\ lock = NoThread
    /\ live' = NoKey
    /\ Proceed(t, "forget")
    /\ UNCHANGED <<drawn, stored, lock, failures, rest>>

ClearChannel(t) ==
    /\ At(t, "clear")
    /\ Lock(t)
    /\ live' = NoKey
    /\ Proceed(t, "del_key")
    /\ UNCHANGED <<drawn, stored, failures, rest>>

\* clear_join_rotation_debounce, after the mutex is released.
ForgetJoins(t) ==
    /\ At(t, "forget")
    /\ recent' = {}
    /\ Finish(t)
    /\ UNCHANGED <<keys, stored, lock, failures, tracked, master, clients, livekit, input>>

\* The user's channel is read first; key and send are under the mutex.
FindChannel(t) ==
    /\ At(t, "resync")
    /\ IF thread[t].user \in tracked THEN Proceed(t, "resend") ELSE Finish(t)
    /\ UNCHANGED <<keys, stored, lock, failures, rest>>

Resend(t) ==
    /\ At(t, "resend")
    /\ lock = NoThread
    /\ \/ /\ Works
          /\ IF live = NoKey THEN UNCHANGED sent
             ELSE Send({thread[t].user} \cap tracked, live)
       \/ live # NoKey /\ Fails("lookup") /\ missed' = missed \cup {thread[t].user} /\ UNCHANGED <<held, known>>
    /\ Finish(t)
    /\ UNCHANGED <<keys, stored, lock, recent, tracked, master, online, token, gone, livekit, input>>

-----------------------------------------------------------------------------
(* acquire_for_join                                                        *)

\* The service is past recover_from_restart.
Up == \A t \in Threads : thread[t] # Idle => thread[t].op # "restore"

Start(t) == Up /\ t \in config.threads /\ At(t, "idle")

\* join_voice asks for the key.  Somebody new to a channel with members rotates
\* it, unless the same user did moments ago.
RequestJoin(t, u) ==
    LET others == u \notin tracked /\ tracked # {}
    IN  /\ Start(t) /\ u \in online /\ joins > 0
        /\ joins' = joins - 1
        /\ gone' = gone \ {u}
        /\ Goto(t, Frame(IF ~others THEN "current" ELSE IF u \in recent THEN "reuse" ELSE "rotate",
                         "join", u))
        /\ recent' = IF others THEN recent \cup {u} ELSE recent
        /\ UNCHANGED <<keys, stored, lock, failures, tracked, master, online, token, sent,
                       livekit, config, crashes>>

\* The debounced join takes the live key, or rotates when there is none.
ReuseKey(t) ==
    /\ At(t, "reuse")
    /\ IF live = NoKey THEN Proceed(t, "rotate")
       ELSE Goto(t, [thread[t] EXCEPT !.at = "issue", !.key = live])
    /\ UNCHANGED <<keys, stored, lock, failures, rest>>

\* A rejoin, or the first into the channel: the live key is written to Redis
\* again, without the mutex.
CurrentKey(t) ==
    /\ At(t, "current")
    /\ IF live = NoKey THEN Proceed(t, "sweep") ELSE Persist(t, live, "issue")
    /\ UNCHANGED <<keys, stored, lock, failures, rest>>

\* is_channel_effectively_empty asks every node, outside the mutex.
Sweep(t) ==
    /\ At(t, "sweep")
    /\ \E failed \in SUBSET Nodes :
        /\ IF failed = {} THEN Works ELSE Fails("sweep")
        /\ Goto(t, [thread[t] EXCEPT !.at = "create",
               !.empty = IF tracked # {} \/ (room # {} /\ Host \in Nodes \ failed) THEN "no"
                         ELSE IF failed = {} THEN "yes" ELSE "unknown"])
    /\ UNCHANGED <<keys, stored, lock, rest>>

\* Under the mutex: the key somebody else made meanwhile, a fresh one for an
\* empty room, or else the one in storage.
CreateKey(t) ==
    /\ At(t, "create")
    /\ lock = NoThread
    /\ \/ live # NoKey /\ Works /\ Lock(t) /\ Persist(t, live, "issue") /\ UNCHANGED <<keys, missed>>
       \/ /\ live = NoKey /\ thread[t].empty = "yes"
          /\ \/ Works /\ Lock(t) /\ Draw(FirstKey) /\ Persist(t, FirstKey, "issue") /\ missed' = tracked
             \/ CannotDraw(t) /\ UNCHANGED missed
       \/ live = NoKey /\ thread[t].empty # "yes" /\ Works /\ Lock(t) /\ Proceed(t, "load_key")
          /\ UNCHANGED <<keys, missed>>
    /\ UNCHANGED <<stored, recent, tracked, master, online, token, gone, held, known, livekit, input>>

\* set_key with what load_from_storage returned, and save it once more.
AdoptKey(t) ==
    /\ At(t, "adopt")
    /\ live' = thread[t].key
    /\ missed' = tracked
    /\ Persist(t, thread[t].key, IF thread[t].op = "join" THEN "issue" ELSE "register")
    /\ UNCHANGED <<drawn, stored, lock, failures, recent, tracked, master, online, token, gone, held, known,
                   livekit, input>>

\* Nothing in storage: a join makes a fresh key and tells the members of it,
\* while the recovery after a restart leaves the key absent.
NoStoredKey(t) ==
    /\ At(t, "no_key")
    /\ \/ thread[t].op = "restore" /\ Works /\ Proceed(t, "register") /\ UNCHANGED <<keys, lock>>
       \/ thread[t].op = "join" /\ Works /\ Draw(FirstKey) /\ Persist(t, FirstKey, "announce") /\ UNCHANGED lock
       \/ thread[t].op = "join" /\ Fails("random") /\ Finish(t) /\ Unlock(t) /\ UNCHANGED keys
    /\ UNCHANGED <<stored, rest>>

\* The reply of the join carries the key.
IssueToken(t) ==
    LET u == thread[t].user
    IN  /\ At(t, "issue")
        /\ token' = [token EXCEPT ![u] = thread[t].key]
        /\ known' = [known EXCEPT ![u] = @ \cup {thread[t].key.number}]
        /\ Unlock(t)
        /\ Finish(t)
        /\ UNCHANGED <<keys, stored, failures, recent, tracked, master, online, held, missed, gone, livekit, input>>

\* The window of the debounce passes.
DebounceExpires(u) ==
    /\ u \in recent
    /\ recent' = recent \ {u}
    /\ UNCHANGED <<keys, stored, lock, thread, failures, tracked, master, clients, livekit, input>>

-----------------------------------------------------------------------------
(* The other callers: webhooks, reconnects and the restart.  Which webhook *)
(* belongs to which connection is the business of VoiceService.            *)

\* A variant: the new member is not sent the key again.
TrackQuietly(t, u) ==
    /\ Start(t) /\ u \in arriving
    /\ tracked' = tracked \cup {u}
    /\ arriving' = arriving \ {u}
    /\ gone' = gone \ {u}
    /\ UNCHANGED <<keys, stored, lock, thread, failures, recent, master, online, token, sent, room, leaving, input>>

\* handle_participant_joined, for a webhook or for a participant the reconciler
\* finds in the room, tracks the user and sends the key once more.
ParticipantJoined(t, u) ==
    /\ Start(t) /\ u \in arriving \cup (room \ tracked)
    /\ tracked' = tracked \cup {u}
    /\ arriving' = arriving \ {u}
    /\ gone' = gone \ {u}
    /\ Goto(t, Frame("resync", "joined", u))
    /\ UNCHANGED <<keys, stored, lock, failures, recent, master, online, token, sent, room, leaving, input>>

\* A variant: the key is changed only when nobody is left.
LeaveQuietly(t, u) ==
    /\ Start(t) /\ u \in leaving \ arriving
    /\ tracked' = tracked \ {u}
    /\ leaving' = leaving \ {u}
    /\ gone' = gone \cup (tracked \cap {u})
    /\ Goto(t, IF tracked = {u} THEN Frame("clear", "left", u) ELSE Idle)
    /\ UNCHANGED <<keys, stored, lock, failures, recent, master, online, token, sent, room, arriving, input>>

\* handle_participant_left and force_local_leave: the last member's departure
\* clears the key, any other rotates it.
ParticipantLeft(t, u) ==
    /\ Start(t) /\ u \in leaving \ arriving
    /\ tracked' = tracked \ {u}
    /\ leaving' = leaving \ {u}
    /\ gone' = gone \cup (tracked \cap {u})
    /\ Goto(t, IF u \notin tracked THEN Idle
               ELSE Frame(IF tracked = {u} THEN "clear" ELSE "rotate", "left", u))
    /\ UNCHANGED <<keys, stored, lock, failures, recent, master, online, token, sent, room, arriving, input>>

\* A new session takes the voice session over and is sent the key.
Reconnect(t, u) ==
    /\ Start(t) /\ u \notin online
    /\ online' = online \cup {u}
    /\ Goto(t, Frame("resync", "resume", u))
    /\ UNCHANGED <<keys, stored, lock, failures, recent, tracked, master, token, sent, gone, livekit, input>>

\* The process dies; recover_from_restart lists the room and, when somebody is
\* in it, restores the key before any other thread runs.
Restart(t) ==
    /\ crashes > 0 /\ t \in config.threads
    /\ crashes' = crashes - 1
    /\ live' = NoKey /\ lock' = NoThread /\ recent' = {} /\ tracked' = {} /\ online' = {}
    /\ master' = config.master[2]
    /\ \E listed \in {room, {}} :
        /\ IF listed = room THEN Works ELSE Fails("sweep")
        /\ thread' = [x \in Threads |->
               IF x = t /\ listed # {}
               THEN [Frame("load_key", "restore", NoKey) EXCEPT !.listed = listed]
               ELSE Idle]
    /\ UNCHANGED <<drawn, stored, token, sent, gone, livekit, config, joins>>

\* The participants that were listed are tracked again.
Register(t) ==
    /\ At(t, "register")
    /\ tracked' = thread[t].listed
    /\ Finish(t)
    /\ UNCHANGED <<keys, stored, lock, failures, recent, master, clients, livekit, input>>

-----------------------------------------------------------------------------
(* LiveKit, the clients and Redis                                          *)

\* The client connects with its token, anew or in place of its old connection.
Land(u) ==
    /\ token[u] # NoKey /\ u \notin leaving
    /\ room' = room \cup {u}
    /\ arriving' = arriving \cup {u}
    /\ held' = [held EXCEPT ![u] = token[u]]
    /\ token' = [token EXCEPT ![u] = NoKey]
    /\ UNCHANGED <<keys, stored, lock, thread, failures, recent, tracked, master, online, known, missed, gone, leaving, input>>

Depart(u) ==
    /\ u \in room
    /\ room' = room \ {u}
    /\ leaving' = leaving \cup {u}
    /\ held' = [held EXCEPT ![u] = NoKey]
    /\ UNCHANGED <<keys, stored, lock, thread, failures, recent, tracked, master, online, token, known, missed, gone, arriving, input>>

\* The control connection drops; the media stays.
Disconnect(u) ==
    /\ u \in online
    /\ Fails("drop")
    /\ online' = online \ {u}
    /\ UNCHANGED <<keys, stored, lock, thread, recent, tracked, master, token, sent, gone, livekit, input>>

\* The entries of a room that saw no join or departure for key_ttl_ run out.
StorageExpires ==
    /\ Fails("ttl")
    /\ \/ storedKey # NoKey /\ storedKey' = NoKey /\ UNCHANGED storedIndex
       \/ storedIndex # NoKey /\ storedIndex' = NoKey /\ UNCHANGED storedKey
    /\ UNCHANGED <<keys, lock, thread, rest>>

-----------------------------------------------------------------------------

Init ==
    /\ config \in Configs
    /\ live = NoKey /\ drawn = 0 /\ storedKey = NoKey /\ storedIndex = NoKey
    /\ lock = NoThread /\ recent = {} /\ tracked = {}
    /\ thread = [t \in Threads |-> Idle]
    /\ master = config.master[1]
    /\ online = Users /\ room = {} /\ arriving = {} /\ leaving = {}
    /\ token = [u \in Users |-> NoKey] /\ held = [u \in Users |-> NoKey]
    /\ known = [u \in Users |-> {}] /\ gone = {} /\ missed = {}
    /\ joins = config.joins /\ failures = config.failures /\ crashes = config.crashes

ThreadStep(t) ==
    \/ SetKey(t) \/ SetIndex(t) \/ LoadKey(t) \/ LoadIndex(t) \/ TouchKey(t) \/ TouchIndex(t)
    \/ DelKey(t) \/ DelIndex(t) \/ Announce(t) \/ Rotate(t) \/ ClearChannel(t) \/ ForgetJoins(t)
    \/ FindChannel(t) \/ Resend(t) \/ ReuseKey(t) \/ CurrentKey(t) \/ Sweep(t) \/ CreateKey(t)
    \/ AdoptKey(t) \/ NoStoredKey(t) \/ IssueToken(t) \/ Register(t)

Next ==
    \/ \E t \in Threads :
        \/ ThreadStep(t) \/ Restart(t)
        \/ \E u \in Users : RequestJoin(t, u) \/ ParticipantJoined(t, u) \/ ParticipantLeft(t, u) \/ Reconnect(t, u)
    \/ \E u \in Users : DebounceExpires(u) \/ Land(u) \/ Depart(u) \/ Disconnect(u)
    \/ StorageExpires

Spec == Init /\ [][Next]_vars

-----------------------------------------------------------------------------
(* Properties                                                              *)

Quiet == \A t \in Threads : thread[t] = Idle
OneThread == \E t \in Threads : config.threads = {t}
Without(kinds) == config.faults \cap kinds = {}
NeverRestarted == crashes = config.crashes

\* Once the threads are done, with every fault and two threads, every member of the
\* room that is tracked and connected uses the live key, as the key in its token may
\* have been overtaken and handle_participant_joined sends it again "so everyone
\* converges".  Only those can be left behind who were members when a key was created,
\* loaded or rotated without being announced (missed), until the next update.
MembersHoldLiveKey ==
    Quiet /\ live # NoKey =>
        \A u \in (tracked \cap room \cap online) \ (arriving \cup missed) : held[u] = live

\* What is in Redis between two calls is the live key with its index, and
\* nothing once the channel is cleared, so that a restart restores the key and
\* "the same index the connected clients still hold".
StoredFollowsLive ==
    Quiet /\ Without({"redis", "ttl"}) /\ master # NoMaster =>
        IF live # NoKey THEN storedKey = Seal(master, live.number) /\ storedIndex = live.index
        ELSE NeverRestarted => storedKey = NoKey /\ storedIndex = NoKey

\* StoredFollowsLive, as long as the calls for a channel come one at a time.
StoredKeyIsLive == OneThread => StoredFollowsLive

\* A member who left cannot decrypt what follows: neither the live key nor the
\* stored one was ever sent to it, with calls one at a time and Redis working.
DepartedLockedOut ==
    Quiet /\ OneThread /\ Without({"redis", "random"}) /\ NeverRestarted =>
        \A u \in gone :
            /\ live # NoKey => live.number \notin known[u]
            /\ storedKey # NoKey => storedKey.number \notin known[u]

\* A rotation is saved before it is announced: even in the middle of a call, and
\* wherever the process dies, storage is never behind a key that members use.
StoredBeforeSent ==
    OneThread /\ Without({"redis"}) /\ CanUnseal(master, storedKey) =>
        \A u \in tracked \cap room : held[u].number <= storedKey.number

=============================================================================
