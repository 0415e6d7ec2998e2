----------------------------- MODULE Persistence -----------------------------
(***************************************************************************)
(* infra/persistence: TransactionRunner and the two ConnectionPools it     *)
(* borrows from, one for reads and one for writes.  A thread inside run()  *)
(* is at one of the steps lease, connect, exec, commit and retry; what the *)
(* transaction does is left to the module that extends this one.           *)
(*                                                                         *)
(* A connection that the database has closed is "dead" while is_open()     *)
(* still says otherwise, and "none" once pqxx has noticed.                 *)
(***************************************************************************)
EXTENDS Integers, FiniteSets

CONSTANTS Pools,      \* the read pool and the write pool
          Slots,      \* indices of slots_ in each pool
          NoSlot,
          Idempotent  \* the pools whose transactions may always be retried: the read pool

ASSUME PoolAssumption == Idempotent \subseteq Pools /\ NoSlot \notin Pools \X Slots

kMaxAttempts == 2

VARIABLES free,    \* free_slots_ of both pools
          conn,    \* slot -> its connection
          up,      \* the database accepts connections
          thread,  \* thread -> what it is doing
          drops, losses, downs  \* how often connections may still break, commits go
                                \* unanswered, and the database go down

poolVars == <<free, conn>>
dbVars   == <<up, drops, losses, downs>>

Idle == [pc |-> "idle"]
At(t, pc) == thread[t].pc = pc
Goto(t, frame) == thread' = [thread EXCEPT ![t] = frame]
Proceed(t, pc) == Goto(t, [thread[t] EXCEPT !.pc = pc])
Finish(t) == Goto(t, Idle)

SlotOf(t) == thread[t].slot
FreeIn(pool) == {s \in free : s[1] = pool}

\* run() returns or throws; the lease gives its slot back either way.
Return(t, pc) == Goto(t, [thread[t] EXCEPT !.pc = pc, !.slot = NoSlot, !.attempt = 1])
Release(t) == free' = free \cup {SlotOf(t)}

\* acquire(): a free slot, or a timeout while there is none.
Lease(t, failed) ==
    LET pool == thread[t].pool
    IN  /\ At(t, "lease")
        /\ \/ \E s \in FreeIn(pool) :
                /\ free' = free \ {s}
                /\ Goto(t, [thread[t] EXCEPT !.pc = "connect", !.slot = s])
           \/ FreeIn(pool) = {} /\ Return(t, failed) /\ UNCHANGED free
        /\ UNCHANGED <<conn, dbVars>>

\* A variant: the slot is not given back when no connection can be opened.
ConnectLeaking(t, failed) ==
    /\ At(t, "connect")
    /\ \/ conn[SlotOf(t)] # "none" /\ Proceed(t, "exec") /\ UNCHANGED poolVars
       \/ /\ conn[SlotOf(t)] = "none" /\ up
          /\ conn' = [conn EXCEPT ![SlotOf(t)] = "open"]
          /\ Proceed(t, "exec")
          /\ UNCHANGED free
       \/ conn[SlotOf(t)] = "none" /\ ~up /\ Return(t, failed) /\ UNCHANGED poolVars
    /\ UNCHANGED dbVars

\* The rest of acquire(), outside the pool's mutex.
Connect(t, failed) ==
    /\ At(t, "connect")
    /\ \/ conn[SlotOf(t)] # "none" /\ Proceed(t, "exec") /\ UNCHANGED poolVars
       \/ /\ conn[SlotOf(t)] = "none" /\ up
          /\ conn' = [conn EXCEPT ![SlotOf(t)] = "open"]
          /\ Proceed(t, "exec")
          /\ UNCHANGED free
       \/ conn[SlotOf(t)] = "none" /\ ~up /\ Release(t) /\ Return(t, failed) /\ UNCHANGED conn
    /\ UNCHANGED dbVars

\* The connection turns out to be dead.
Broken(t) == conn[SlotOf(t)] = "dead" /\ conn' = [conn EXCEPT ![SlotOf(t)] = "none"]

\* fn(txn): statements that succeed or that the database refuses.
Execute(t, frame) ==
    /\ At(t, "exec") /\ conn[SlotOf(t)] = "open"
    /\ Goto(t, [frame EXCEPT !.pc = "commit"])
    /\ UNCHANGED <<poolVars, dbVars>>

Refuse(t, failed) ==
    /\ At(t, "exec") /\ conn[SlotOf(t)] = "open"
    /\ Release(t) /\ Return(t, failed)
    /\ UNCHANGED <<conn, dbVars>>

ExecuteBroken(t) ==
    /\ At(t, "exec") /\ Broken(t)
    /\ Proceed(t, "retry")
    /\ UNCHANGED <<free, dbVars>>

\* txn.commit() succeeds.
Commit(t, done) ==
    /\ At(t, "commit") /\ conn[SlotOf(t)] = "open"
    /\ Release(t) /\ Return(t, done)
    /\ UNCHANGED <<conn, dbVars>>

\* A variant: a write is tried again after commit() as well.
AfterBrokenCommitRetrying(t, failed) == Proceed(t, "retry") /\ UNCHANGED free

\* A break from commit() is ambiguous, so only a read is tried again.
AfterBrokenCommit(t, failed) ==
    \/ thread[t].pool \in Idempotent /\ Proceed(t, "retry") /\ UNCHANGED free
    \/ thread[t].pool \notin Idempotent /\ Release(t) /\ Return(t, failed)

\* The connection breaks before the commit is applied, or after it.
CommitBroken(t, failed) ==
    /\ At(t, "commit") /\ Broken(t)
    /\ AfterBrokenCommit(t, failed)
    /\ UNCHANGED dbVars

CommitUnanswered(t, failed) ==
    /\ At(t, "commit") /\ conn[SlotOf(t)] = "open" /\ losses > 0
    /\ losses' = losses - 1
    /\ conn' = [conn EXCEPT ![SlotOf(t)] = "none"]
    /\ AfterBrokenCommit(t, failed)
    /\ UNCHANGED <<up, drops, downs>>

\* refresh() opens a new connection in the slot for the second attempt.
Retry(t, failed) ==
    /\ At(t, "retry")
    /\ \/ /\ thread[t].attempt < kMaxAttempts /\ up
          /\ conn' = [conn EXCEPT ![SlotOf(t)] = "open"]
          /\ Goto(t, [thread[t] EXCEPT !.pc = "exec", !.attempt = @ + 1])
          /\ UNCHANGED free
       \/ (thread[t].attempt = kMaxAttempts \/ ~up) /\ Release(t) /\ Return(t, failed) /\ UNCHANGED conn
    /\ UNCHANGED dbVars

\* The database closes its connections, goes down, and comes back.
Killed == [s \in Pools \X Slots |-> IF conn[s] = "open" THEN "dead" ELSE conn[s]]

ConnectionsDrop ==
    /\ drops > 0 /\ drops' = drops - 1
    /\ conn' = Killed
    /\ UNCHANGED <<free, up, losses, downs, thread>>

DatabaseDown ==
    /\ up /\ downs > 0 /\ downs' = downs - 1
    /\ up' = FALSE
    /\ conn' = Killed
    /\ UNCHANGED <<free, drops, losses, thread>>

DatabaseUp ==
    /\ ~up /\ up' = TRUE
    /\ UNCHANGED <<poolVars, drops, losses, downs, thread>>

DatabaseStep == ConnectionsDrop \/ DatabaseDown \/ DatabaseUp

\* The pools start with every slot free; connections opened in advance or, with
\* the database down, none.
PersistenceInit ==
    /\ free = Pools \X Slots
    /\ up \in BOOLEAN
    /\ conn = [s \in Pools \X Slots |-> IF up THEN "open" ELSE "none"]

-----------------------------------------------------------------------------

Leased(s) == {t \in DOMAIN thread : thread[t] # Idle /\ thread[t].slot = s}

\* Every slot of a pool is free or leased to exactly one thread, however run()
\* ends: a slot that got lost would shrink the pool until every acquire() times
\* out, and one that is given back twice would be shared by two transactions.
PoolConserved ==
    \A s \in Pools \X Slots : Cardinality(Leased(s)) = IF s \in free THEN 0 ELSE 1

=============================================================================
