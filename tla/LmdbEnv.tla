------------------------------ MODULE LmdbEnv --------------------------------
(***************************************************************************)
(* An LMDB environment that several processes open (lmdb/mdb.c): the locks *)
(* on the lock file, the memory it holds, the two mutexes in it, and the   *)
(* reader table; how all this is made, shared, repaired after a process is *)
(* killed, and given up.  Linux: fcntl locks and robust mutexes.           *)
(*                                                                         *)
(* An environment here is one MDB_env with the one thread that uses it.    *)
(***************************************************************************)
EXTENDS Integers, FiniteSets

\* What a budget bounds.
EnvKinds == {"open", "write", "abort", "read", "check", "exit", "leak", "kill", "killInit"}

CONSTANTS
    Envs, NoEnv,
    ProcOf,      \* the process of each environment: its pid
    MaxReaders,  \* me_maxreaders
    EnvBudgets   \* bounds: how often each kind of thing may happen

ASSUME LmdbEnvAssumption ==
    /\ NoEnv \notin Envs
    /\ ProcOf \in [Envs -> Nat \ {0}]
    /\ MaxReaders \in Nat \ {0}
    /\ EnvBudgets \subseteq [EnvKinds -> Nat]

VARIABLES
    excl, shared, \* byte 0 of the lock file: the processes that hold it
    pids,         \* the processes whose own byte is locked
    ready,        \* the lock file has been initialised: mti_magic
    mti_txnid, mti_numreaders, mti_readers,
    rmutex, wmutex,
    metas,        \* transaction of each meta page
    at, env,      \* where each environment's thread is, and its fields
    left          \* bound: what may still happen

lockVars   == <<excl, shared, pids>>
mutexes    == <<rmutex, wmutex>>
regionVars == <<ready, mti_txnid, mti_numreaders, mti_readers>>
vars       == <<lockVars, mutexes, regionVars, metas, at, env, left>>

Procs == {ProcOf[e] : e \in Envs}

Slots == 1 .. MaxReaders

NoSlot == [pid |-> 0, tid |-> NoEnv, txnid |-> -1]

FreshMutex == [ok |-> TRUE, owner |-> NoEnv, died |-> FALSE]

Destroyed == [FreshMutex EXCEPT !.ok = FALSE]

\* slot: me_txkey; close: me_close_readers; live: me_live_reader.
ClosedEnv == [slot |-> 0, close |-> 0, live |-> FALSE, txnid |-> 0, suspect |-> 0]

\* mdb_env_pick_meta
Newest == IF metas[0] < metas[1] THEN metas[1] ELSE metas[0]

EnvInit ==
    /\ excl = 0 /\ shared = {} /\ pids = {}
    /\ ready = FALSE
    /\ mti_txnid = 0 /\ mti_numreaders = 0
    /\ mti_readers = [i \in Slots |-> NoSlot]
    /\ rmutex = Destroyed /\ wmutex = Destroyed
    /\ metas = [m \in {0, 1} |-> 0]
    /\ at = [e \in Envs |-> "closed"]
    /\ env = [e \in Envs |-> ClosedEnv]
    /\ left \in EnvBudgets

Spend(kind) == left[kind] > 0 /\ left' = [left EXCEPT ![kind] = @ - 1]

Goes(e, from, to) == at[e] = from /\ at' = [at EXCEPT ![e] = to]

-----------------------------------------------------------------------------
(* The lock on byte 0, which a process has and not an environment *)

\* Mutant of MayExclude: those who share the file are not looked at.
MayExcludeAll(p) == excl \in {0, p}

\* fcntl(F_SETLK, F_WRLCK)
MayExclude(p) == excl \in {0, p} /\ shared \subseteq {p}

Excludes(p) == excl' = p /\ shared' = shared \ {p}

\* fcntl(F_SETLKW, F_RDLCK)
MayShare(p) == excl \in {0, p}

Shares(p) == excl' = 0 /\ shared' = shared \cup {p}

\* Closing any descriptor of the lock file gives up all locks of the process.
GivesUpLocks(p) ==
    /\ excl' = IF excl = p THEN 0 ELSE excl
    /\ shared' = shared \ {p}
    /\ pids' = pids \ {p}

-----------------------------------------------------------------------------
(* mdb_env_open *)

EnvOpen(e) ==
    /\ Goes(e, "closed", "locking")
    /\ Spend("open")
    /\ env' = [env EXCEPT ![e] = ClosedEnv]
    /\ UNCHANGED <<lockVars, mutexes, regionVars, metas>>

\* mdb_env_excl_lock: exclusive if nobody has the file open, else wait for a share.
ExclLock(e) ==
    /\ \/ /\ MayExclude(ProcOf[e])
          /\ Goes(e, "locking", "init")
          /\ Excludes(ProcOf[e])
       \/ /\ ~MayExclude(ProcOf[e])
          /\ Goes(e, "locking", "waiting")
          /\ UNCHANGED <<excl, shared>>
    /\ UNCHANGED <<pids, mutexes, regionVars, metas, env, left>>

SharedLock(e) ==
    /\ MayShare(ProcOf[e])
    /\ Goes(e, "waiting", "attach")
    /\ Shares(ProcOf[e])
    /\ UNCHANGED <<pids, mutexes, regionVars, metas, env, left>>

\* mdb_env_setup_locks
SetupLocks(e) ==
    /\ Goes(e, "init", "data")
    /\ ready' = TRUE
    /\ mti_txnid' = 0 /\ mti_numreaders' = 0
    /\ rmutex' = FreshMutex /\ wmutex' = FreshMutex
    /\ UNCHANGED <<lockVars, mti_readers, metas, env, left>>

TxnidShared == Newest

\* mdb_env_open2 and mdb_env_share_locks
ShareLocks(e) ==
    /\ Goes(e, "data", "open")
    /\ mti_txnid' = TxnidShared
    /\ Shares(ProcOf[e])
    /\ UNCHANGED <<pids, mutexes, ready, mti_numreaders, mti_readers, metas, env, left>>

\* Who shares the file finds it initialised, or fails.
Attach(e) ==
    /\ Goes(e, "attach", IF ready THEN "open" ELSE "unlocking")
    /\ UNCHANGED <<lockVars, mutexes, regionVars, metas, env, left>>

-----------------------------------------------------------------------------
(* mdb_env_close *)

\* The slots of this process, up to the last this environment has claimed.
Cleared(pid, S) == [i \in Slots |->
    IF i \in S /\ mti_readers[i].pid = pid THEN [mti_readers[i] EXCEPT !.pid = 0]
                                           ELSE mti_readers[i]]

EnvClose(e, from) ==
    /\ Goes(e, from, "closing")
    /\ mti_readers' = Cleared(ProcOf[e], 1 .. env[e].close)
    /\ UNCHANGED <<lockVars, mutexes, ready, mti_txnid, mti_numreaders, metas, env>>

CloseIdle(e) == EnvClose(e, "open") /\ UNCHANGED left

\* LmdbStorage::load_sequence_number: the transaction is neither committed nor aborted.
CloseInTxn(e) == EnvClose(e, "write") /\ Spend("leak")

CloseExcl(e) ==
    /\ \/ /\ MayExclude(ProcOf[e])
          /\ Goes(e, "closing", "destroying")
          /\ Excludes(ProcOf[e])
       \/ /\ ~MayExclude(ProcOf[e]) /\ MayShare(ProcOf[e])
          /\ Goes(e, "closing", "unlocking")
          /\ Shares(ProcOf[e])
    /\ UNCHANGED <<pids, mutexes, regionVars, metas, env, left>>

\* The only remaining user destroys the mutexes.
DestroyMutexes(e) ==
    /\ Goes(e, "destroying", "unlocking")
    /\ rmutex' = Destroyed /\ wmutex' = Destroyed
    /\ UNCHANGED <<lockVars, regionVars, metas, env, left>>

CloseLockFile(e) ==
    /\ Goes(e, "unlocking", "closed")
    /\ GivesUpLocks(ProcOf[e])
    /\ env' = [env EXCEPT ![e] = ClosedEnv]
    /\ UNCHANGED <<mutexes, regionVars, metas, left>>

-----------------------------------------------------------------------------
(* The reader table *)

\* mdb_reader_pid(Pidcheck): no process with this pid holds the byte of it.
Stale(pid, own) == pid \notin {0, own} /\ pid \notin pids

StalePids(own) == {pid \in {mti_readers[i].pid : i \in 1 .. mti_numreaders} : Stale(pid, own)}

\* Mutant of WithoutPids: one slot too few.
WithoutPidsButLast(gone) ==
    [i \in Slots |-> IF i < mti_numreaders /\ mti_readers[i].pid \in gone
                     THEN [mti_readers[i] EXCEPT !.pid = 0] ELSE mti_readers[i]]

WithoutPids(gone) ==
    [i \in Slots |-> IF i <= mti_numreaders /\ mti_readers[i].pid \in gone
                     THEN [mti_readers[i] EXCEPT !.pid = 0] ELSE mti_readers[i]]

\* Mutant of MayLock: the owner's death does not let go of it.
MayLockFree(m) == m.ok /\ m.owner = NoEnv

\* A mutex can be had when it is free or its owner died; a destroyed one fails.
MayLock(m) == m.ok /\ (m.owner = NoEnv \/ m.died)

\* The first read of a thread: its process locks its byte, once per environment.
ReadBegin(e) ==
    /\ Spend("read")
    /\ \/ /\ env[e].slot = 0
          /\ Goes(e, "open", "rlock")
          /\ pids' = IF env[e].live THEN pids ELSE pids \cup {ProcOf[e]}
          /\ env' = [env EXCEPT ![e].live = TRUE]
       \/ /\ env[e].slot # 0
          /\ mti_readers[env[e].slot].pid = ProcOf[e]
          /\ Goes(e, "open", "claimed")
          /\ UNCHANGED <<pids, env>>
    /\ UNCHANGED <<excl, shared, mutexes, regionVars, metas>>

\* The reader mutex; if its owner died, stale slots are cleared (mdb_mutex_failed).
LockReaders(e) ==
    /\ \/ /\ MayLock(rmutex)
          /\ Goes(e, "rlock", "claim")
          /\ rmutex' = [FreshMutex EXCEPT !.owner = e]
          /\ mti_readers' = IF rmutex.died THEN WithoutPids(StalePids(ProcOf[e])) ELSE mti_readers
       \/ /\ ~rmutex.ok
          /\ Goes(e, "rlock", "open")
          /\ UNCHANGED <<rmutex, mti_readers>>
    /\ UNCHANGED <<lockVars, wmutex, ready, mti_txnid, mti_numreaders, metas, env, left>>

FreeSlots == {i \in Slots : i <= mti_numreaders => mti_readers[i].pid = 0}

Unlocked(m, e) == IF m.owner = e THEN [m EXCEPT !.owner = NoEnv, !.died = FALSE] ELSE m

\* MDB_READERS_FULL, or the first free slot.
ClaimSlot(e) ==
    /\ \/ /\ FreeSlots = {}
          /\ Goes(e, "claim", "open")
          /\ UNCHANGED <<mti_numreaders, mti_readers, env>>
       \/ \E i \in FreeSlots :
             LET nr == IF i > mti_numreaders THEN i ELSE mti_numreaders IN
             /\ \A k \in FreeSlots : i <= k
             /\ Goes(e, "claim", "claimed")
             /\ mti_numreaders' = nr
             /\ mti_readers' = [mti_readers EXCEPT ![i] = [pid |-> ProcOf[e], tid |-> e,
                                                           txnid |-> -1]]
             /\ env' = [env EXCEPT ![e].slot = i, ![e].close = nr]
    /\ rmutex' = Unlocked(rmutex, e)
    /\ UNCHANGED <<lockVars, wmutex, ready, mti_txnid, metas, left>>

\* The transaction read, and its number in the slot (the race is in LmdbPages).
ReadSnapshot(e) ==
    /\ Goes(e, "claimed", "reading")
    /\ mti_readers' = [mti_readers EXCEPT ![env[e].slot].txnid = mti_txnid]
    /\ env' = [env EXCEPT ![e].txnid = mti_txnid]
    /\ UNCHANGED <<lockVars, mutexes, ready, mti_txnid, mti_numreaders, metas, left>>

\* The slot remains the thread's.
ReadEnds(e) ==
    /\ Goes(e, "reading", "open")
    /\ mti_readers' = [mti_readers EXCEPT ![env[e].slot].txnid = -1]
    /\ UNCHANGED <<lockVars, mutexes, ready, mti_txnid, mti_numreaders, metas, env, left>>

\* mdb_env_reader_dest: the thread exits, and another takes its place.
ReaderDest(e) ==
    /\ at[e] = "open" /\ env[e].slot # 0
    /\ Spend("exit")
    /\ mti_readers' = [mti_readers EXCEPT ![env[e].slot].pid = 0]
    /\ env' = [env EXCEPT ![e].slot = 0]
    /\ UNCHANGED <<lockVars, mutexes, ready, mti_txnid, mti_numreaders, metas, at>>

\* mdb_reader_check: a pid whose byte is free, seen without the mutex ...
ReaderCheck(e) ==
    /\ Goes(e, "open", "rcheck")
    /\ Spend("check")
    /\ \E pid \in StalePids(ProcOf[e]) : env' = [env EXCEPT ![e].suspect = pid]
    /\ UNCHANGED <<lockVars, mutexes, regionVars, metas>>

\* Mutant of StillStale: what was seen before the mutex was locked is believed.
StaleAsSeen(e) == {env[e].suspect}

StillStale(e) == {env[e].suspect} \ pids

\* ... and looked at again with it: a new process may have reused the pid.
ReaderClear(e) ==
    /\ Goes(e, "rcheck", "open")
    /\ \/ /\ MayLock(rmutex)
          /\ rmutex' = FreshMutex
          /\ mti_readers' = WithoutPids(IF rmutex.died THEN StalePids(ProcOf[e])
                                                       ELSE StillStale(e))
       \/ ~rmutex.ok /\ UNCHANGED <<rmutex, mti_readers>>
    /\ env' = [env EXCEPT ![e].suspect = 0]
    /\ UNCHANGED <<lockVars, wmutex, ready, mti_txnid, mti_numreaders, metas, left>>

-----------------------------------------------------------------------------
(* The writer *)

TxnBegin(e) ==
    /\ Goes(e, "open", "wlock")
    /\ Spend("write")
    /\ UNCHANGED <<lockVars, mutexes, regionVars, metas, env>>

\* A destroyed mutex cannot be locked: mdb_txn_begin fails.
LockWriter(e) ==
    /\ \/ /\ MayLock(wmutex)
          /\ Goes(e, "wlock", IF wmutex.died THEN "recover" ELSE "locked")
          /\ wmutex' = [FreshMutex EXCEPT !.owner = e]
       \/ /\ ~wmutex.ok
          /\ Goes(e, "wlock", "open")
          /\ UNCHANGED wmutex
    /\ UNCHANGED <<lockVars, rmutex, regionVars, metas, env, left>>

\* Mutant of TxnidAfterDeath: the lock file's own.
TxnidOfDead == mti_txnid

TxnidAfterDeath == Newest

\* mdb_mutex_failed: what the dead owner left is repaired.
RecoverWriter(e) ==
    /\ Goes(e, "recover", "locked")
    /\ MayLock(rmutex)
    /\ mti_txnid' = TxnidAfterDeath
    /\ mti_readers' = WithoutPids(StalePids(ProcOf[e]))
    /\ rmutex' = FreshMutex
    /\ UNCHANGED <<lockVars, wmutex, ready, mti_numreaders, metas, env, left>>

TxnRenew(e) ==
    /\ Goes(e, "locked", "write")
    /\ env' = [env EXCEPT ![e].txnid = mti_txnid + 1]
    /\ UNCHANGED <<lockVars, mutexes, regionVars, metas, left>>

WriteMeta(e) ==
    /\ Goes(e, "write", "wrote")
    /\ metas' = [metas EXCEPT ![env[e].txnid % 2] = env[e].txnid]
    /\ UNCHANGED <<lockVars, mutexes, regionVars, env, left>>

\* The number for those who come, and the mutex.
TxnEnds(e) ==
    /\ Goes(e, "wrote", "open")
    /\ mti_txnid' = env[e].txnid
    /\ wmutex' = Unlocked(wmutex, e)
    /\ UNCHANGED <<lockVars, rmutex, ready, mti_numreaders, mti_readers, metas, env, left>>

TxnAbort(e) ==
    /\ Goes(e, "write", "open")
    /\ Spend("abort")
    /\ wmutex' = Unlocked(wmutex, e)
    /\ UNCHANGED <<lockVars, rmutex, regionVars, metas, env>>

-----------------------------------------------------------------------------
(* A process is killed: the system gives up its locks, and marks its mutexes. *)

OwnerDied(m, p) == IF m.owner # NoEnv /\ ProcOf[m.owner] = p THEN [m EXCEPT !.died = TRUE] ELSE m

Kill(p) ==
    LET its == {e \in Envs : ProcOf[e] = p} IN
    /\ \E e \in its : at[e] # "closed"
    /\ Spend(IF \E e \in its : at[e] \in {"init", "data"} THEN "killInit" ELSE "kill")
    /\ GivesUpLocks(p)
    /\ rmutex' = OwnerDied(rmutex, p) /\ wmutex' = OwnerDied(wmutex, p)
    /\ at' = [e \in Envs |-> IF e \in its THEN "closed" ELSE at[e]]
    /\ env' = [e \in Envs |-> IF e \in its THEN ClosedEnv ELSE env[e]]
    /\ UNCHANGED <<regionVars, metas>>

-----------------------------------------------------------------------------
OpenStep(e) == ExclLock(e) \/ SharedLock(e) \/ SetupLocks(e) \/ ShareLocks(e) \/ Attach(e)

CloseStep(e) == CloseExcl(e) \/ DestroyMutexes(e) \/ CloseLockFile(e)

ReadStep(e) ==
    LockReaders(e) \/ ClaimSlot(e) \/ ReadSnapshot(e) \/ ReadEnds(e) \/ ReaderClear(e)

WriteStep(e) == RecoverWriter(e) \/ TxnRenew(e) \/ WriteMeta(e) \/ TxnEnds(e)

\* What a thread does of its own accord once it has begun.
GoesOn(e) == OpenStep(e) \/ CloseStep(e) \/ ReadStep(e) \/ LockWriter(e) \/ WriteStep(e)

\* What its caller may ask for.
Asks(e) ==
    \/ EnvOpen(e) \/ CloseIdle(e) \/ CloseInTxn(e)
    \/ ReadBegin(e) \/ ReaderDest(e) \/ ReaderCheck(e)
    \/ TxnBegin(e) \/ TxnAbort(e)

EnvNext ==
    \/ \E e \in Envs : Asks(e) \/ GoesOn(e)
    \/ \E p \in Procs : Kill(p)

EnvSpec == EnvInit /\ [][EnvNext]_vars

\* Threads are scheduled.
EnvFairSpec == EnvSpec /\ \A e \in Envs : WF_vars(GoesOn(e))

-----------------------------------------------------------------------------
(* What the environment promises *)

EnvTypeOK ==
    /\ excl \in Procs \cup {0} /\ shared \subseteq Procs /\ pids \subseteq Procs
    /\ ready \in BOOLEAN /\ mti_txnid \in Nat /\ mti_numreaders \in 0 .. MaxReaders
    /\ mti_readers \in [Slots -> [pid : Procs \cup {0}, tid : Envs \cup {NoEnv}, txnid : Nat \cup {-1}]]
    /\ {rmutex, wmutex} \subseteq [ok : BOOLEAN, owner : Envs \cup {NoEnv}, died : BOOLEAN]
    /\ metas \in [{0, 1} -> Nat]
    /\ \A e \in Envs : env[e].slot \in 0 .. MaxReaders

Writing(e) == at[e] \in {"recover", "locked", "write", "wrote"}

\* There is one writer at a time, over all that is opened, closed and killed.
OneWriter == \A e, f \in Envs : Writing(e) /\ Writing(f) => e = f

\* A writer builds on the newest commit, also on one whose writer died before it could
\* say so in the lock file; else it would overwrite what the newest meta page refers to.
BuildsOnNewest == \A e \in Envs : at[e] = "write" => env[e].txnid = Newest + 1

\* The slot of a reader tells writers what it reads, for as long as it reads: nobody
\* clears it or takes it, and it is within what they look at.
SlotProtects ==
    EnvTypeOK /\ \A e \in Envs :
        at[e] = "reading" =>
            /\ env[e].slot \in 1 .. mti_numreaders
            /\ mti_readers[env[e].slot] = [pid |-> ProcOf[e], tid |-> e, txnid |-> env[e].txnid]

\* The mutexes of an open environment can be used: who destroys them is the last user.
MutexesUsable == \A e \in Envs : at[e] \in {"open", "wlock", "rlock"} => rmutex.ok /\ wmutex.ok

\* Who waits for the writer's mutex gets it, though its owner may be killed, unless an
\* environment has been closed in its transaction: then the mutex is never let go.
LeftLocked ==
    wmutex.owner # NoEnv /\ ~wmutex.died /\ ~Writing(wmutex.owner)

WriterGetsIn == \A e \in Envs : at[e] = "wlock" ~> at[e] # "wlock" \/ LeftLocked

\* A slot left behind by the dead does not survive the repair of the mutex its owner
\* held: from then on pages are reused again.
DeadSlotsCleared ==
    [][\A e \in Envs :
          at[e] = "recover" /\ at'[e] = "locked" =>
              \A i \in 1 .. mti_numreaders :
                  mti_readers'[i].pid # 0 => mti_readers'[i].pid \in pids \cup {ProcOf[e]}]_vars
=============================================================================
