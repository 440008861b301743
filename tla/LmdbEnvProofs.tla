----------------------------- MODULE LmdbEnvProofs -----------------------------
(***************************************************************************)
(* What processes that share an LMDB environment keep true, for any number *)
(* of them, any size of the reader table and any number of opens, reads,   *)
(* writes and kills.                                                       *)
(***************************************************************************)
EXTENDS LmdbEnv, TLAPS

\* Every process opens the database once, as the caveats in lmdb.h ask: byte 0 of the lock
\* file tells processes apart and not environments.
OpenedOnce == \A e, f \in Envs : ProcOf[e] = ProcOf[f] => e = f

\* No process is killed while it initialises the lock file.
InitSurvives == \A budget \in EnvBudgets : budget["killInit"] = 0

-----------------------------------------------------------------------------
(* Types *)

Opening == {"locking", "waiting", "init", "data", "attach"}

\* From mdb_env_open's return to mdb_env_close.
Using == {"open", "rlock", "claim", "claimed", "reading", "rcheck",
          "wlock", "recover", "locked", "write", "wrote"}

Closing == {"closing", "destroying", "unlocking"}

Points == {"closed"} \cup Opening \cup Using \cup Closing

Slot == [pid : Procs \cup {0}, tid : Envs \cup {NoEnv}, txnid : Nat \cup {-1}]

Fields == [slot : 0 .. MaxReaders, close : 0 .. MaxReaders, live : BOOLEAN, txnid : Nat,
           suspect : Procs \cup {0}]

Mutex == [ok : BOOLEAN, owner : Envs \cup {NoEnv}, died : BOOLEAN]

Types ==
    /\ excl \in Procs \cup {0} /\ shared \subseteq Procs /\ pids \subseteq Procs
    /\ ready \in BOOLEAN /\ mti_txnid \in Nat /\ mti_numreaders \in 0 .. MaxReaders
    /\ mti_readers \in [Slots -> Slot]
    /\ rmutex \in Mutex /\ wmutex \in Mutex
    /\ metas \in [{0, 1} -> Nat]
    /\ at \in [Envs -> Points]
    /\ env \in [Envs -> Fields]
    /\ left \in [EnvKinds -> Nat]

LEMMA ProcsAreNumbers ==
    /\ \A e \in Envs : ProcOf[e] \in Procs
    /\ \A p \in Procs : p \in Nat /\ p # 0 /\ p # -1
    /\ MaxReaders \in Nat
  BY LmdbEnvAssumption DEF Procs

LEMMA NewestType ==
    ASSUME Types
    PROVE  /\ Newest \in Nat /\ metas[0] \in Nat /\ metas[1] \in Nat
           /\ metas[0] <= Newest /\ metas[1] <= Newest
<1>1. metas[0] \in Nat /\ metas[1] \in Nat
  BY DEF Types
<1> QED
  BY <1>1 DEF Newest

LEMMA ClosedEnvType == ClosedEnv \in Fields
  BY ProcsAreNumbers DEF ClosedEnv, Fields

LEMMA MutexTypes ==
    /\ FreshMutex \in Mutex /\ Destroyed \in Mutex
    /\ \A e \in Envs : [FreshMutex EXCEPT !.owner = e] \in Mutex
    /\ \A m \in Mutex, e \in Envs : Unlocked(m, e) \in Mutex
    /\ \A m \in Mutex, p \in Procs : OwnerDied(m, p) \in Mutex
  BY DEF FreshMutex, Destroyed, Mutex, Unlocked, OwnerDied

\* Clearing slots keeps them slots.
LEMMA ClearingTypes ==
    ASSUME Types
    PROVE  /\ \A pid, S : Cleared(pid, S) \in [Slots -> Slot]
           /\ \A gone : WithoutPids(gone) \in [Slots -> Slot]
<1>1. \A i \in Slots : mti_readers[i] \in Slot /\ [mti_readers[i] EXCEPT !.pid = 0] \in Slot
  BY DEF Types, Slot
<1> QED
  BY <1>1 DEF Cleared, WithoutPids

LEMMA SpendType ==
    ASSUME Types, NEW kind \in EnvKinds, Spend(kind)
    PROVE  left' \in [EnvKinds -> Nat]
<1>1. left[kind] \in Nat /\ left[kind] > 0
  BY DEF Types, Spend
<1>2. left[kind] - 1 \in Nat
  BY <1>1
<1> QED
  BY <1>2 DEF Types, Spend

LEMMA GoesType ==
    ASSUME Types, NEW e \in Envs, NEW from, NEW to \in Points, Goes(e, from, to)
    PROVE  at' \in [Envs -> Points]
  BY DEF Types, Goes

LEMMA OpenTypes ==
    ASSUME Types, NEW e \in Envs, EnvOpen(e) \/ OpenStep(e)
    PROVE  Types'
<1> USE DEF lockVars, mutexes, regionVars
<1>0. ProcOf[e] \in Procs
  BY ProcsAreNumbers
<1>1. CASE EnvOpen(e)
  <2>1. at' \in [Envs -> Points]
    BY <1>1, GoesType DEF EnvOpen, Points, Opening
  <2>2. left' \in [EnvKinds -> Nat]
    BY <1>1, SpendType DEF EnvOpen, EnvKinds
  <2>3. env' \in [Envs -> Fields]
    BY <1>1, ClosedEnvType DEF EnvOpen, Types
  <2> QED
    BY <1>1, <2>1, <2>2, <2>3 DEF EnvOpen, Types
<1>2. CASE ExclLock(e)
  <2>1. at' \in [Envs -> Points]
    BY <1>2, GoesType DEF ExclLock, Points, Opening
  <2>2. excl' \in Procs \cup {0} /\ shared' \subseteq Procs
    BY <1>0, <1>2 DEF ExclLock, Excludes, Types
  <2> QED
    BY <1>2, <2>1, <2>2 DEF ExclLock, Types
<1>3. CASE SharedLock(e)
  <2>1. at' \in [Envs -> Points]
    BY <1>3, GoesType DEF SharedLock, Points, Opening
  <2>2. excl' \in Procs \cup {0} /\ shared' \subseteq Procs
    BY <1>0, <1>3 DEF SharedLock, Shares, Types
  <2> QED
    BY <1>3, <2>1, <2>2 DEF SharedLock, Types
<1>4. CASE SetupLocks(e)
  <2>1. at' \in [Envs -> Points]
    BY <1>4, GoesType DEF SetupLocks, Points, Opening
  <2>2. mti_numreaders' \in 0 .. MaxReaders
    BY <1>4, ProcsAreNumbers DEF SetupLocks
  <2> QED
    BY <1>4, <2>1, <2>2, MutexTypes DEF SetupLocks, Types
<1>5. CASE ShareLocks(e)
  <2>1. at' \in [Envs -> Points]
    BY <1>5, GoesType DEF ShareLocks, Points, Using
  <2>2. excl' \in Procs \cup {0} /\ shared' \subseteq Procs
    BY <1>0, <1>5 DEF ShareLocks, Shares, Types
  <2> QED
    BY <1>5, <2>1, <2>2, NewestType DEF ShareLocks, TxnidShared, Types
<1>6. CASE Attach(e)
  <2>1. at' \in [Envs -> Points]
    <3>1. (IF ready THEN "open" ELSE "unlocking") \in Points
      BY DEF Points, Using, Closing
    <3> QED
      BY <1>6, <3>1, GoesType DEF Attach
  <2> QED
    BY <1>6, <2>1 DEF Attach, Types
<1> QED
  BY <1>1, <1>2, <1>3, <1>4, <1>5, <1>6 DEF OpenStep

LEMMA CloseTypes ==
    ASSUME Types, NEW e \in Envs, CloseIdle(e) \/ CloseInTxn(e) \/ CloseStep(e)
    PROVE  Types'
<1> USE DEF lockVars, mutexes, regionVars
<1>0. ProcOf[e] \in Procs
  BY ProcsAreNumbers
<1>1. CASE CloseIdle(e) \/ CloseInTxn(e)
  <2>1. PICK from : EnvClose(e, from)
    BY <1>1 DEF CloseIdle, CloseInTxn
  <2>2. at' \in [Envs -> Points]
    BY <2>1, GoesType DEF EnvClose, Points, Closing
  <2>3. left' \in [EnvKinds -> Nat]
    BY <1>1, SpendType DEF CloseIdle, CloseInTxn, EnvKinds, Types
  <2>4. mti_readers' \in [Slots -> Slot]
    BY <2>1, ClearingTypes DEF EnvClose
  <2> QED
    BY <2>1, <2>2, <2>3, <2>4 DEF EnvClose, Types
<1>2. CASE CloseExcl(e)
  <2>1. at' \in [Envs -> Points]
    BY <1>2, GoesType DEF CloseExcl, Points, Closing
  <2>2. excl' \in Procs \cup {0} /\ shared' \subseteq Procs
    BY <1>0, <1>2 DEF CloseExcl, Excludes, Shares, Types
  <2> QED
    BY <1>2, <2>1, <2>2 DEF CloseExcl, Types
<1>3. CASE DestroyMutexes(e)
  <2>1. at' \in [Envs -> Points]
    BY <1>3, GoesType DEF DestroyMutexes, Points, Closing
  <2> QED
    BY <1>3, <2>1, MutexTypes DEF DestroyMutexes, Types
<1>4. CASE CloseLockFile(e)
  <2>1. at' \in [Envs -> Points]
    BY <1>4, GoesType DEF CloseLockFile, Points
  <2>2. env' \in [Envs -> Fields]
    BY <1>4, ClosedEnvType DEF CloseLockFile, Types
  <2>3. excl' \in Procs \cup {0} /\ shared' \subseteq Procs /\ pids' \subseteq Procs
    BY <1>4 DEF CloseLockFile, GivesUpLocks, Types
  <2> QED
    BY <1>4, <2>1, <2>2, <2>3 DEF CloseLockFile, Types
<1> QED
  BY <1>1, <1>2, <1>3, <1>4 DEF CloseStep

LEMMA ReaderTypes ==
    ASSUME Types, NEW e \in Envs, ReadBegin(e) \/ ReaderDest(e) \/ ReaderCheck(e) \/ ReadStep(e)
    PROVE  Types'
<1> USE DEF lockVars, mutexes, regionVars
<1>0. /\ ProcOf[e] \in Procs /\ env[e] \in Fields
      /\ MaxReaders \in Nat /\ mti_numreaders \in 0 .. MaxReaders
  BY ProcsAreNumbers DEF Types
<1>1. CASE ReadBegin(e)
  <2>1. at' \in [Envs -> Points]
    BY <1>1, GoesType DEF ReadBegin, Points, Using
  <2>2. left' \in [EnvKinds -> Nat]
    BY <1>1, SpendType DEF ReadBegin, EnvKinds
  <2>3. env' \in [Envs -> Fields]
    <3>1. [env[e] EXCEPT !.live = TRUE] \in Fields
      BY <1>0 DEF Fields
    <3> QED
      BY <1>1, <3>1 DEF ReadBegin, Types
  <2>4. pids' \subseteq Procs
    BY <1>0, <1>1 DEF ReadBegin, Types
  <2> QED
    BY <1>1, <2>1, <2>2, <2>3, <2>4 DEF ReadBegin, Types
<1>2. CASE ReaderDest(e)
  <2>1. left' \in [EnvKinds -> Nat]
    BY <1>2, SpendType DEF ReaderDest, EnvKinds
  <2>2. env' \in [Envs -> Fields]
    <3>1. [env[e] EXCEPT !.slot = 0] \in Fields
      BY <1>0 DEF Fields
    <3> QED
      BY <1>2, <3>1 DEF ReaderDest, Types
  <2>3. mti_readers' \in [Slots -> Slot]
    <3>1. \A i \in Slots : [mti_readers[i] EXCEPT !.pid = 0] \in Slot
      BY DEF Types, Slot
    <3> QED
      BY <1>2, <3>1 DEF ReaderDest, Types
  <2> QED
    BY <1>2, <2>1, <2>2, <2>3 DEF ReaderDest, Types
<1>3. CASE ReaderCheck(e)
  <2>1. at' \in [Envs -> Points]
    BY <1>3, GoesType DEF ReaderCheck, Points, Using
  <2>2. left' \in [EnvKinds -> Nat]
    BY <1>3, SpendType DEF ReaderCheck, EnvKinds
  <2>3. PICK pid \in StalePids(ProcOf[e]) : env' = [env EXCEPT ![e].suspect = pid]
    BY <1>3 DEF ReaderCheck
  <2>4. pid \in Procs \cup {0}
    <3>1. PICK i \in 1 .. mti_numreaders : pid = mti_readers[i].pid
      BY <2>3 DEF StalePids
    <3>2. i \in Slots
      BY <1>0, <3>1 DEF Slots
    <3> QED
      BY <3>1, <3>2 DEF Types, Slot
  <2>5. [env[e] EXCEPT !.suspect = pid] \in Fields
    BY <1>0, <2>4 DEF Fields
  <2> QED
    BY <1>3, <2>1, <2>2, <2>3, <2>5 DEF ReaderCheck, Types
<1>4. CASE LockReaders(e)
  <2>1. at' \in [Envs -> Points]
    BY <1>4, GoesType DEF LockReaders, Points, Using
  <2>2. rmutex' \in Mutex /\ mti_readers' \in [Slots -> Slot]
    BY <1>4, MutexTypes, ClearingTypes DEF LockReaders, Types
  <2> QED
    BY <1>4, <2>1, <2>2 DEF LockReaders, Types
<1>5. CASE ClaimSlot(e)
  <2>1. at' \in [Envs -> Points]
    BY <1>5, GoesType DEF ClaimSlot, Points, Using
  <2>2. rmutex' \in Mutex
    BY <1>5, MutexTypes DEF ClaimSlot, Types
  <2>3. /\ mti_numreaders' \in 0 .. MaxReaders
        /\ mti_readers' \in [Slots -> Slot]
        /\ env' \in [Envs -> Fields]
    <3>1. CASE UNCHANGED <<mti_numreaders, mti_readers, env>>
      BY <3>1 DEF Types
    <3>2. ASSUME NEW i \in FreeSlots, NEW nr,
                 nr = IF i > mti_numreaders THEN i ELSE mti_numreaders,
                 mti_numreaders' = nr,
                 mti_readers' = [mti_readers EXCEPT ![i] = [pid |-> ProcOf[e], tid |-> e,
                                                            txnid |-> -1]],
                 env' = [env EXCEPT ![e].slot = i, ![e].close = nr]
          PROVE  /\ mti_numreaders' \in 0 .. MaxReaders
                 /\ mti_readers' \in [Slots -> Slot]
                 /\ env' \in [Envs -> Fields]
      <4>1. i \in 1 .. MaxReaders
        BY DEF FreeSlots, Slots
      <4>2. nr \in 0 .. MaxReaders /\ i \in 0 .. MaxReaders
        BY <1>0, <3>2, <4>1
      <4>3. [env[e] EXCEPT !.slot = i, !.close = nr] \in Fields
        BY <1>0, <4>2 DEF Fields
      <4>4. [pid |-> ProcOf[e], tid |-> e, txnid |-> -1] \in Slot
        BY <1>0 DEF Slot
      <4>5. env' = [env EXCEPT ![e] = [env[e] EXCEPT !.slot = i, !.close = nr]]
        BY <3>2 DEF Types
      <4> QED
        BY <3>2, <4>2, <4>3, <4>4, <4>5 DEF Types
    <3> QED
      BY <1>5, <3>1, <3>2 DEF ClaimSlot
  <2> QED
    BY <1>5, <2>1, <2>2, <2>3 DEF ClaimSlot, Types
<1>6. CASE ReadSnapshot(e)
  <2>1. at' \in [Envs -> Points]
    BY <1>6, GoesType DEF ReadSnapshot, Points, Using
  <2>2. env' \in [Envs -> Fields]
    <3>1. [env[e] EXCEPT !.txnid = mti_txnid] \in Fields
      BY <1>0 DEF Fields, Types
    <3> QED
      BY <1>6, <3>1 DEF ReadSnapshot, Types
  <2>3. mti_readers' \in [Slots -> Slot]
    <3>1. \A i \in Slots : [mti_readers[i] EXCEPT !.txnid = mti_txnid] \in Slot
      BY DEF Types, Slot
    <3> QED
      BY <1>6, <3>1 DEF ReadSnapshot, Types
  <2> QED
    BY <1>6, <2>1, <2>2, <2>3 DEF ReadSnapshot, Types
<1>7. CASE ReadEnds(e)
  <2>1. at' \in [Envs -> Points]
    BY <1>7, GoesType DEF ReadEnds, Points, Using
  <2>2. mti_readers' \in [Slots -> Slot]
    <3>1. \A i \in Slots : [mti_readers[i] EXCEPT !.txnid = -1] \in Slot
      BY DEF Types, Slot
    <3> QED
      BY <1>7, <3>1 DEF ReadEnds, Types
  <2> QED
    BY <1>7, <2>1, <2>2 DEF ReadEnds, Types
<1>8. CASE ReaderClear(e)
  <2>1. at' \in [Envs -> Points]
    BY <1>8, GoesType DEF ReaderClear, Points, Using
  <2>2. env' \in [Envs -> Fields]
    <3>1. [env[e] EXCEPT !.suspect = 0] \in Fields
      BY <1>0 DEF Fields
    <3> QED
      BY <1>8, <3>1 DEF ReaderClear, Types
  <2>3. rmutex' \in Mutex /\ mti_readers' \in [Slots -> Slot]
    BY <1>8, MutexTypes, ClearingTypes DEF ReaderClear, Types
  <2> QED
    BY <1>8, <2>1, <2>2, <2>3 DEF ReaderClear, Types
<1> QED
  BY <1>1, <1>2, <1>3, <1>4, <1>5, <1>6, <1>7, <1>8 DEF ReadStep

LEMMA WriterTypes ==
    ASSUME Types, NEW e \in Envs, TxnBegin(e) \/ TxnAbort(e) \/ LockWriter(e) \/ WriteStep(e)
    PROVE  Types'
<1> USE DEF lockVars, mutexes, regionVars
<1>0. env[e] \in Fields
  BY DEF Types
<1>1. CASE TxnBegin(e)
  <2>1. at' \in [Envs -> Points]
    BY <1>1, GoesType DEF TxnBegin, Points, Using
  <2>2. left' \in [EnvKinds -> Nat]
    BY <1>1, SpendType DEF TxnBegin, EnvKinds
  <2> QED
    BY <1>1, <2>1, <2>2 DEF TxnBegin, Types
<1>2. CASE TxnAbort(e)
  <2>1. at' \in [Envs -> Points]
    BY <1>2, GoesType DEF TxnAbort, Points, Using
  <2>2. left' \in [EnvKinds -> Nat]
    BY <1>2, SpendType DEF TxnAbort, EnvKinds
  <2>3. wmutex' \in Mutex
    BY <1>2, MutexTypes DEF TxnAbort, Types
  <2> QED
    BY <1>2, <2>1, <2>2, <2>3 DEF TxnAbort, Types
<1>3. CASE LockWriter(e)
  <2>1. at' \in [Envs -> Points]
    <3>1. \A to \in {"recover", "locked", "open"} : to \in Points
      BY DEF Points, Using
    <3>2. (IF wmutex.died THEN "recover" ELSE "locked") \in Points
      BY <3>1
    <3> QED
      BY <1>3, <3>1, <3>2, GoesType DEF LockWriter
  <2>2. wmutex' \in Mutex
    BY <1>3, MutexTypes DEF LockWriter, Types
  <2> QED
    BY <1>3, <2>1, <2>2 DEF LockWriter, Types
<1>4. CASE RecoverWriter(e)
  <2>1. at' \in [Envs -> Points]
    BY <1>4, GoesType DEF RecoverWriter, Points, Using
  <2>2. rmutex' \in Mutex /\ mti_readers' \in [Slots -> Slot]
    BY <1>4, MutexTypes, ClearingTypes DEF RecoverWriter
  <2> QED
    BY <1>4, <2>1, <2>2, NewestType DEF RecoverWriter, TxnidAfterDeath, Types
<1>5. CASE TxnRenew(e)
  <2>1. at' \in [Envs -> Points]
    BY <1>5, GoesType DEF TxnRenew, Points, Using
  <2>2. env' \in [Envs -> Fields]
    <3>1. mti_txnid + 1 \in Nat
      BY DEF Types
    <3>2. [env[e] EXCEPT !.txnid = mti_txnid + 1] \in Fields
      BY <1>0, <3>1 DEF Fields
    <3> QED
      BY <1>5, <3>2 DEF TxnRenew, Types
  <2> QED
    BY <1>5, <2>1, <2>2 DEF TxnRenew, Types
<1>6. CASE WriteMeta(e)
  <2>1. at' \in [Envs -> Points]
    BY <1>6, GoesType DEF WriteMeta, Points, Using
  <2>2. metas' \in [{0, 1} -> Nat]
    BY <1>0, <1>6 DEF WriteMeta, Types, Fields
  <2> QED
    BY <1>6, <2>1, <2>2 DEF WriteMeta, Types
<1>7. CASE TxnEnds(e)
  <2>1. at' \in [Envs -> Points]
    BY <1>7, GoesType DEF TxnEnds, Points, Using
  <2>2. mti_txnid' \in Nat /\ wmutex' \in Mutex
    BY <1>0, <1>7, MutexTypes DEF TxnEnds, Types, Fields
  <2> QED
    BY <1>7, <2>1, <2>2 DEF TxnEnds, Types
<1> QED
  BY <1>1, <1>2, <1>3, <1>4, <1>5, <1>6, <1>7 DEF WriteStep

LEMMA KillTypes ==
    ASSUME Types, NEW p \in Procs, Kill(p)
    PROVE  Types'
<1>1. left' \in [EnvKinds -> Nat]
  BY SpendType DEF Kill, EnvKinds
<1>2. excl' \in Procs \cup {0} /\ shared' \subseteq Procs /\ pids' \subseteq Procs
  BY DEF Kill, GivesUpLocks, Types
<1>3. rmutex' \in Mutex /\ wmutex' \in Mutex
  BY MutexTypes DEF Kill, Types
<1>4. at' \in [Envs -> Points] /\ env' \in [Envs -> Fields]
  BY ClosedEnvType DEF Kill, Types, Points
<1> QED
  BY <1>1, <1>2, <1>3, <1>4 DEF Kill, Types, regionVars

LEMMA TypesInit == EnvInit => Types
<1> SUFFICES ASSUME EnvInit PROVE Types
  OBVIOUS
<1>1. NoSlot \in Slot
  BY DEF NoSlot, Slot
<1>2. mti_readers \in [Slots -> Slot] /\ mti_numreaders \in 0 .. MaxReaders
  BY <1>1, ProcsAreNumbers DEF EnvInit
<1>3. rmutex \in Mutex /\ wmutex \in Mutex
  BY MutexTypes DEF EnvInit
<1>4. at \in [Envs -> Points] /\ env \in [Envs -> Fields]
  BY ClosedEnvType DEF EnvInit, Points
<1>5. left \in [EnvKinds -> Nat] /\ metas \in [{0, 1} -> Nat]
  BY LmdbEnvAssumption DEF EnvInit
<1> QED
  BY <1>2, <1>3, <1>4, <1>5 DEF EnvInit, Types

LEMMA TypesStep == Types /\ [EnvNext]_vars => Types'
<1> SUFFICES ASSUME Types, [EnvNext]_vars PROVE Types'
  OBVIOUS
<1>1. ASSUME NEW e \in Envs, Asks(e) \/ GoesOn(e) PROVE Types'
  BY <1>1, OpenTypes, CloseTypes, ReaderTypes, WriterTypes DEF Asks, GoesOn
<1>2. CASE UNCHANGED vars
  BY <1>2 DEF vars, lockVars, mutexes, regionVars, Types
<1> QED
  BY <1>1, <1>2, KillTypes DEF EnvNext

-----------------------------------------------------------------------------
(* Byte 0 of the lock file *)

Outside == {"closed", "locking", "waiting"}

Alone == {"init", "data", "destroying"}

Sharing == Using \cup {"attach", "closing"}

\* What the lock on byte 0 says of where the threads are.  Who initialises the lock file
\* or destroys its mutexes has it for itself; all others who use the file share it.
LocksRight ==
    /\ excl # 0 => shared = {}
    /\ \A e \in Envs :
           /\ at[e] \in Outside => excl # ProcOf[e] /\ ProcOf[e] \notin shared
           /\ at[e] \in Alone => excl = ProcOf[e]
           /\ at[e] \in Sharing => ProcOf[e] \in shared

LEMMA GoesAt ==
    ASSUME Types, NEW e \in Envs, NEW from, NEW to, Goes(e, from, to)
    PROVE  /\ at[e] = from /\ at'[e] = to
           /\ \A f \in Envs : f # e => at'[f] = at[f]
  BY DEF Types, Goes

\* While one has the file for itself, nobody else uses it.
LEMMA AloneIsAlone ==
    ASSUME OpenedOnce, LocksRight, NEW e \in Envs, at[e] \in Alone, NEW f \in Envs, f # e
    PROVE  at[f] \notin Sharing /\ at[f] \notin Alone
  BY ProcsAreNumbers DEF OpenedOnce, LocksRight

\* A thread that moves on without the lock stays in its class, or is about to close the file.
LEMMA LocksUnchanged ==
    ASSUME LocksRight, UNCHANGED <<excl, shared>>,
           \A e \in Envs : \/ at'[e] = at[e]
                           \/ at[e] \in Outside /\ at'[e] \in Outside
                           \/ at[e] \in Alone /\ at'[e] \in Alone
                           \/ at[e] \in Sharing /\ at'[e] \in Sharing
                           \/ at'[e] = "unlocking"
    PROVE  LocksRight'
<1>1. "unlocking" \notin Outside \cup Alone \cup Sharing
  BY DEF Outside, Alone, Sharing, Using
<1>2. Outside \cap Alone = {} /\ Outside \cap Sharing = {} /\ Alone \cap Sharing = {}
  BY DEF Outside, Alone, Sharing, Using
<1> SUFFICES ASSUME NEW e \in Envs
             PROVE  /\ at'[e] \in Outside => excl # ProcOf[e] /\ ProcOf[e] \notin shared
                    /\ at'[e] \in Alone => excl = ProcOf[e]
                    /\ at'[e] \in Sharing => ProcOf[e] \in shared
  BY DEF LocksRight
<1> QED
  BY <1>1, <1>2 DEF LocksRight

\* Taking the lock for oneself, sharing it and giving it up.
LEMMA LocksChanged ==
    ASSUME OpenedOnce, LocksRight, NEW e \in Envs,
           \A f \in Envs : f # e => at'[f] = at[f],
           \/ MayExclude(ProcOf[e]) /\ Excludes(ProcOf[e]) /\ at'[e] \in Alone
           \/ MayShare(ProcOf[e]) /\ Shares(ProcOf[e]) /\ at'[e] \in Sharing \cup {"unlocking"}
           \/ GivesUpLocks(ProcOf[e]) /\ at'[e] = "closed"
    PROVE  LocksRight'
<1>1. "unlocking" \notin Outside \cup Alone \cup Sharing /\ "closed" \notin Alone \cup Sharing
  BY DEF Outside, Alone, Sharing, Using
<1>2. Outside \cap Alone = {} /\ Outside \cap Sharing = {} /\ Alone \cap Sharing = {}
  BY DEF Outside, Alone, Sharing, Using
<1>3. ProcOf[e] # 0 /\ \A f \in Envs : f # e => ProcOf[f] # ProcOf[e] /\ ProcOf[f] # 0
  BY ProcsAreNumbers DEF OpenedOnce
<1>4. CASE MayExclude(ProcOf[e]) /\ Excludes(ProcOf[e]) /\ at'[e] \in Alone
  <2>1. excl' = ProcOf[e] /\ shared' = {} /\ excl \in {0, ProcOf[e]} /\ shared \subseteq {ProcOf[e]}
    BY <1>4 DEF MayExclude, Excludes
  <2> QED
    BY <1>2, <1>3, <1>4, <2>1 DEF LocksRight
<1>5. CASE MayShare(ProcOf[e]) /\ Shares(ProcOf[e]) /\ at'[e] \in Sharing \cup {"unlocking"}
  <2>1. excl' = 0 /\ shared' = shared \cup {ProcOf[e]} /\ excl \in {0, ProcOf[e]}
    BY <1>5 DEF MayShare, Shares
  <2> QED
    BY <1>1, <1>2, <1>3, <1>5, <2>1 DEF LocksRight
<1>6. CASE GivesUpLocks(ProcOf[e]) /\ at'[e] = "closed"
  <2>1. /\ excl' # ProcOf[e] /\ (excl # ProcOf[e] => excl' = excl) /\ excl' \in {0, excl}
        /\ shared' = shared \ {ProcOf[e]}
    BY <1>3, <1>6 DEF GivesUpLocks
  <2> QED
    BY <1>1, <1>3, <1>6, <2>1 DEF LocksRight
<1> QED
  BY <1>4, <1>5, <1>6

\* The process of an environment that is killed is that environment.
LEMMA KillsOne ==
    ASSUME OpenedOnce, Types, NEW p \in Procs, Kill(p)
    PROVE  \E e \in Envs :
               /\ p = ProcOf[e] /\ at[e] # "closed"
               /\ at' = [at EXCEPT ![e] = "closed"]
               /\ env' = [env EXCEPT ![e] = ClosedEnv]
<1>1. PICK e \in Envs : ProcOf[e] = p /\ at[e] # "closed"
  BY DEF Kill
<1>2. {f \in Envs : ProcOf[f] = p} = {e}
  BY <1>1 DEF OpenedOnce
<1>3. at' = [at EXCEPT ![e] = "closed"] /\ env' = [env EXCEPT ![e] = ClosedEnv]
  BY <1>2 DEF Kill, Types
<1> QED
  BY <1>1, <1>3

LEMMA LocksStep ==
    ASSUME OpenedOnce, Types, LocksRight, [EnvNext]_vars
    PROVE  LocksRight'
<1> USE DEF lockVars
<1>1. ASSUME NEW e \in Envs, Asks(e) \/ GoesOn(e)
      PROVE  LocksRight'
  <2>1. CASE ExclLock(e) \/ SharedLock(e) \/ ShareLocks(e) \/ CloseExcl(e) \/ CloseLockFile(e)
    <3>1. \A f \in Envs : f # e => at'[f] = at[f]
      BY <2>1, GoesAt DEF ExclLock, SharedLock, ShareLocks, CloseExcl, CloseLockFile
    <3>2. CASE ExclLock(e) /\ at'[e] # "waiting"
      BY <3>1, <3>2, GoesAt, LocksChanged DEF ExclLock, Alone
    <3>3. CASE ExclLock(e) /\ at'[e] = "waiting"
      <4>1. at[e] = "locking" /\ UNCHANGED <<excl, shared>>
        BY <3>3, GoesAt DEF ExclLock
      <4> QED
        BY <3>1, <3>3, <4>1, LocksUnchanged DEF Outside
    <3>4. CASE SharedLock(e)
      BY <3>1, <3>4, GoesAt, LocksChanged DEF SharedLock, Sharing
    <3>5. CASE ShareLocks(e)
      <4>1. at[e] = "data" /\ at'[e] = "open" /\ Shares(ProcOf[e])
        BY <3>5, GoesAt DEF ShareLocks
      <4>2. MayShare(ProcOf[e])
        BY <4>1 DEF MayShare, LocksRight, Alone
      <4> QED
        BY <3>1, <4>1, <4>2, LocksChanged DEF Sharing, Using
    <3>6. CASE CloseExcl(e)
      BY <3>1, <3>6, GoesAt, LocksChanged DEF CloseExcl, Alone
    <3>7. CASE CloseLockFile(e)
      BY <3>1, <3>7, GoesAt, LocksChanged DEF CloseLockFile
    <3> QED
      BY <2>1, <3>2, <3>3, <3>4, <3>5, <3>6, <3>7
  <2>2. CASE EnvOpen(e) \/ SetupLocks(e) \/ Attach(e) \/ DestroyMutexes(e)
    <3>1. UNCHANGED <<excl, shared>>
      BY <2>2 DEF EnvOpen, SetupLocks, Attach, DestroyMutexes
    <3>2. /\ \/ at[e] \in Outside /\ at'[e] \in Outside
             \/ at[e] \in Alone /\ at'[e] \in Alone
             \/ at[e] \in Sharing /\ at'[e] \in Sharing
             \/ at'[e] = "unlocking"
          /\ \A f \in Envs : f # e => at'[f] = at[f]
      BY <2>2, GoesAt
      DEF EnvOpen, SetupLocks, Attach, DestroyMutexes, Outside, Alone, Sharing, Using
    <3> QED
      BY <3>1, <3>2, LocksUnchanged
  <2>3. CASE \/ CloseIdle(e) \/ CloseInTxn(e)
             \/ ReadBegin(e) \/ ReaderDest(e) \/ ReaderCheck(e) \/ ReadStep(e)
             \/ TxnBegin(e) \/ TxnAbort(e) \/ LockWriter(e) \/ WriteStep(e)
    <3>1. UNCHANGED <<excl, shared>>
      BY <2>3 DEF CloseIdle, CloseInTxn, EnvClose, ReadBegin, ReaderDest, ReaderCheck, ReadStep,
                  LockReaders, ClaimSlot, ReadSnapshot, ReadEnds, ReaderClear, TxnBegin, TxnAbort,
                  LockWriter, WriteStep, RecoverWriter, TxnRenew, WriteMeta, TxnEnds
    <3>2. /\ at'[e] \in Sharing /\ at[e] \in Sharing
          /\ \A f \in Envs : f # e => at'[f] = at[f]
      <4>1. CASE ReaderDest(e)
        BY <4>1 DEF ReaderDest, Sharing, Using
      <4>2. CASE CloseIdle(e) \/ CloseInTxn(e)
        BY <4>2, GoesAt DEF CloseIdle, CloseInTxn, EnvClose, Sharing, Using
      <4>3. CASE ReadBegin(e) \/ ReaderCheck(e) \/ ReadStep(e)
        BY <4>3, GoesAt
        DEF ReadBegin, ReaderCheck, ReadStep, LockReaders, ClaimSlot, ReadSnapshot, ReadEnds,
            ReaderClear, Sharing, Using
      <4>4. CASE TxnBegin(e) \/ TxnAbort(e) \/ LockWriter(e) \/ WriteStep(e)
        BY <4>4, GoesAt
        DEF TxnBegin, TxnAbort, LockWriter, WriteStep, RecoverWriter, TxnRenew, WriteMeta,
            TxnEnds, Sharing, Using
      <4> QED
        BY <2>3, <4>1, <4>2, <4>3, <4>4
    <3> QED
      BY <3>1, <3>2, LocksUnchanged
  <2> QED
    BY <1>1, <2>1, <2>2, <2>3 DEF Asks, GoesOn, OpenStep, CloseStep
<1>2. ASSUME NEW p \in Procs, Kill(p)
      PROVE  LocksRight'
  <2>1. PICK e \in Envs : p = ProcOf[e] /\ at' = [at EXCEPT ![e] = "closed"]
    BY <1>2, KillsOne
  <2>2. at'[e] = "closed" /\ \A f \in Envs : f # e => at'[f] = at[f]
    BY <2>1 DEF Types
  <2> QED
    BY <1>2, <2>1, <2>2, LocksChanged DEF Kill
<1>3. CASE UNCHANGED vars
  BY <1>3, LocksUnchanged DEF vars
<1> QED
  BY <1>1, <1>2, <1>3 DEF EnvNext

-----------------------------------------------------------------------------
(* The writer's mutex *)

Held(e) == [FreshMutex EXCEPT !.owner = e]

\* Who writes has the mutex, and lives.
OwnerRight == \A e \in Envs : Writing(e) => wmutex = Held(e)

LEMMA HeldIsLocked ==
    ASSUME NEW e \in Envs
    PROVE  /\ ~MayLock(Held(e))
           /\ Held(e).ok = TRUE /\ Held(e).owner = e /\ Held(e).died = FALSE
           /\ \A p : ProcOf[e] # p => OwnerDied(Held(e), p) = Held(e)
           /\ OwnerDied(Held(e), ProcOf[e]).died = TRUE
<1>1. e # NoEnv
  BY LmdbEnvAssumption
<1>2. Held(e).ok = TRUE /\ Held(e).owner = e /\ Held(e).died = FALSE
  BY DEF Held, FreshMutex
<1>3. ~MayLock(Held(e))
  BY <1>1, <1>2 DEF MayLock
<1>4. ASSUME NEW p, ProcOf[e] # p PROVE OwnerDied(Held(e), p) = Held(e)
  BY <1>2, <1>4 DEF OwnerDied
<1>5. OwnerDied(Held(e), ProcOf[e]).died = TRUE
  <2>1. OwnerDied(Held(e), ProcOf[e]) = [Held(e) EXCEPT !.died = TRUE]
    BY <1>1, <1>2 DEF OwnerDied
  <2> QED
    BY <2>1 DEF Held, FreshMutex
<1> QED
  BY <1>2, <1>3, <1>4, <1>5

LEMMA OneHolds ==
    ASSUME OwnerRight, NEW e \in Envs, NEW f \in Envs, Writing(e), Writing(f)
    PROVE  e = f
<1>1. Held(e) = Held(f)
  BY DEF OwnerRight
<1>2. Held(e).owner = e /\ Held(f).owner = f
  BY HeldIsLocked
<1> QED
  BY <1>1, <1>2

LEMMA WritersShare ==
    \A e \in Envs : /\ Writing(e) => at[e] \in Sharing
                    /\ at[e] \in Alone \/ at[e] \in Outside \/ at[e] = "unlocking" => ~Writing(e)
  BY DEF Writing, Sharing, Using, Alone, Outside

LEMMA OwnerUnchanged ==
    ASSUME OwnerRight, UNCHANGED wmutex, \A e \in Envs : Writing(e)' => Writing(e)
    PROVE  OwnerRight'
  BY DEF OwnerRight

\* The steps that take the mutex, give it back, make it or destroy it.
LEMMA OwnerChanged ==
    ASSUME OpenedOnce, Types, LocksRight, OwnerRight, NEW e \in Envs,
           LockWriter(e) \/ TxnEnds(e) \/ TxnAbort(e) \/ SetupLocks(e) \/ DestroyMutexes(e)
    PROVE  OwnerRight'
<1>1. \A f \in Envs : f # e => at'[f] = at[f] /\ (Writing(f)' <=> Writing(f))
  BY GoesAt DEF LockWriter, TxnEnds, TxnAbort, SetupLocks, DestroyMutexes, Writing
<1>2. CASE LockWriter(e) /\ MayLock(wmutex)
  <2>1. \A f \in Envs : ~Writing(f)
    BY <1>2, HeldIsLocked DEF OwnerRight
  <2>2. wmutex' = Held(e)
    BY <1>2 DEF LockWriter, MayLock, Held
  <2> QED
    BY <1>1, <2>1, <2>2 DEF OwnerRight
<1>3. CASE LockWriter(e) /\ ~MayLock(wmutex)
  <2>1. at'[e] = "open" /\ wmutex' = wmutex
    BY <1>3, GoesAt DEF LockWriter
  <2>2. ~Writing(e)'
    BY <2>1 DEF Writing
  <2> QED
    BY <1>1, <2>1, <2>2, OwnerUnchanged
<1>4. CASE TxnEnds(e) \/ TxnAbort(e)
  <2>1. Writing(e) /\ ~Writing(e)'
    BY <1>4, GoesAt DEF TxnEnds, TxnAbort, Writing
  <2>2. \A f \in Envs : f # e => ~Writing(f)
    BY <2>1, OneHolds
  <2> QED
    BY <1>1, <2>1, <2>2 DEF OwnerRight
<1>5. CASE SetupLocks(e) \/ DestroyMutexes(e)
  <2>1. at[e] \in Alone /\ ~Writing(e)'
    BY <1>5, GoesAt DEF SetupLocks, DestroyMutexes, Writing, Alone
  <2>2. \A f \in Envs : f # e => ~Writing(f)
    BY <2>1, AloneIsAlone, WritersShare
  <2> QED
    BY <1>1, <2>1, <2>2 DEF OwnerRight
<1> QED
  BY <1>2, <1>3, <1>4, <1>5

LEMMA OwnerStep ==
    ASSUME OpenedOnce, Types, LocksRight, OwnerRight, [EnvNext]_vars
    PROVE  OwnerRight'
<1>1. ASSUME NEW e \in Envs, Asks(e) \/ GoesOn(e)
      PROVE  OwnerRight'
  <2>1. CASE LockWriter(e) \/ TxnEnds(e) \/ TxnAbort(e) \/ SetupLocks(e) \/ DestroyMutexes(e)
    BY <2>1, OwnerChanged
  <2>2. CASE \/ EnvOpen(e) \/ ExclLock(e) \/ SharedLock(e) \/ ShareLocks(e) \/ Attach(e)
             \/ CloseIdle(e) \/ CloseInTxn(e) \/ CloseExcl(e) \/ CloseLockFile(e)
             \/ ReadBegin(e) \/ ReaderDest(e) \/ ReaderCheck(e) \/ ReadStep(e)
             \/ TxnBegin(e) \/ RecoverWriter(e) \/ TxnRenew(e) \/ WriteMeta(e)
    <3>1. UNCHANGED wmutex
      BY <2>2
      DEF EnvOpen, ExclLock, SharedLock, ShareLocks, Attach, CloseIdle, CloseInTxn, EnvClose,
          CloseExcl, CloseLockFile, ReadBegin, ReaderDest, ReaderCheck, ReadStep, LockReaders,
          ClaimSlot, ReadSnapshot, ReadEnds, ReaderClear, TxnBegin, RecoverWriter, TxnRenew,
          WriteMeta, mutexes
    <3>2. \A f \in Envs : f # e => at'[f] = at[f]
      <4>1. CASE ReaderDest(e)
        BY <4>1 DEF ReaderDest
      <4>2. CASE ~ReaderDest(e)
        BY <2>2, <4>2, GoesAt
        DEF EnvOpen, ExclLock, SharedLock, ShareLocks, Attach, CloseIdle, CloseInTxn, EnvClose,
            CloseExcl, CloseLockFile, ReadBegin, ReaderCheck, ReadStep, LockReaders,
            ClaimSlot, ReadSnapshot, ReadEnds, ReaderClear, TxnBegin, RecoverWriter, TxnRenew,
            WriteMeta
      <4> QED
        BY <4>1, <4>2
    <3>3. Writing(e)' => Writing(e)
      <4>1. CASE RecoverWriter(e) \/ TxnRenew(e) \/ WriteMeta(e)
        BY <4>1, GoesAt DEF RecoverWriter, TxnRenew, WriteMeta, Writing
      <4>2. CASE ReaderDest(e)
        BY <4>2 DEF ReaderDest, Writing
      <4>3. CASE \/ EnvOpen(e) \/ ExclLock(e) \/ SharedLock(e) \/ ShareLocks(e) \/ Attach(e)
                 \/ CloseIdle(e) \/ CloseInTxn(e) \/ CloseExcl(e) \/ CloseLockFile(e)
        BY <4>3, GoesAt
        DEF EnvOpen, ExclLock, SharedLock, ShareLocks, Attach, CloseIdle, CloseInTxn, EnvClose,
            CloseExcl, CloseLockFile, Writing
      <4>4. CASE ReadBegin(e) \/ ReaderCheck(e) \/ ReadStep(e) \/ TxnBegin(e)
        <5>1. at'[e] \in {"rlock", "claim", "claimed", "reading", "rcheck", "open", "wlock"}
          BY <4>4, GoesAt
          DEF ReadBegin, ReaderCheck, ReadStep, LockReaders, ClaimSlot, ReadSnapshot, ReadEnds,
              ReaderClear, TxnBegin
        <5> QED
          BY <5>1 DEF Writing
      <4> QED
        BY <2>2, <4>1, <4>2, <4>3, <4>4
    <3> QED
      BY <3>1, <3>2, <3>3, OwnerUnchanged DEF Writing
  <2> QED
    BY <1>1, <2>1, <2>2 DEF Asks, GoesOn, OpenStep, CloseStep, WriteStep
<1>2. ASSUME NEW p \in Procs, Kill(p)
      PROVE  OwnerRight'
  <2>1. PICK e \in Envs : p = ProcOf[e] /\ at' = [at EXCEPT ![e] = "closed"]
    BY <1>2, KillsOne
  <2>2. at'[e] = "closed" /\ \A f \in Envs : f # e => at'[f] = at[f] /\ ProcOf[f] # p
    BY <2>1 DEF Types, OpenedOnce
  <2>3. ~Writing(e)' /\ \A f \in Envs : f # e => (Writing(f)' <=> Writing(f))
    BY <2>2 DEF Writing
  <2>4. wmutex' = OwnerDied(wmutex, p)
    BY <1>2 DEF Kill
  <2>5. ASSUME NEW f \in Envs, Writing(f)'
        PROVE  wmutex' = Held(f)
    <3>1. f # e /\ wmutex = Held(f)
      BY <2>3, <2>5 DEF OwnerRight
    <3> QED
      BY <2>2, <2>4, <3>1, HeldIsLocked
  <2> QED
    BY <2>5 DEF OwnerRight
<1>3. CASE UNCHANGED vars
  BY <1>3, OwnerUnchanged DEF vars, mutexes, Writing
<1> QED
  BY <1>1, <1>2, <1>3 DEF EnvNext

LEMMA LocksInit == EnvInit => LocksRight /\ OwnerRight
<1> SUFFICES ASSUME EnvInit PROVE LocksRight /\ OwnerRight
  OBVIOUS
<1>1. excl = 0 /\ shared = {} /\ \A e \in Envs : at[e] = "closed"
  BY DEF EnvInit
<1>2. "closed" \notin Alone \cup Sharing
  BY DEF Alone, Sharing, Using
<1> QED
  BY <1>1, <1>2, ProcsAreNumbers DEF LocksRight, OwnerRight, Writing

MutexInv == Types /\ LocksRight /\ OwnerRight

LEMMA MutexHolds ==
    ASSUME OpenedOnce
    PROVE  EnvSpec => []MutexInv
<1>1. EnvInit => MutexInv
  BY TypesInit, LocksInit DEF MutexInv
<1>2. MutexInv /\ [EnvNext]_vars => MutexInv'
  BY TypesStep, LocksStep, OwnerStep DEF MutexInv
<1> QED
  BY <1>1, <1>2, PTL DEF EnvSpec

\* There is one writer at a time, whoever opens, closes and is killed when: the robust
\* mutex of the lock file is made by the only process there is, destroyed by the last one,
\* and lost by its owner's death alone.
THEOREM WritersExclude ==
    ASSUME OpenedOnce
    PROVE  EnvSpec => []OneWriter
<1>1. MutexInv => OneWriter
  BY OneHolds DEF MutexInv, OneWriter
<1> QED
  BY <1>1, MutexHolds, PTL

-----------------------------------------------------------------------------
(* The newest transaction *)

\* What is between a commit and the number that tells of it.
Unsettled == \E e \in Envs : at[e] \in {"data", "recover", "wrote"}

\* The lock file's number is that of the newest meta page, unless somebody is about to
\* make it so, or the mutex tells the next writer that its owner could not.
Current ==
    /\ wmutex.ok /\ ~wmutex.died => mti_txnid = Newest \/ Unsettled
    /\ \A e \in Envs :
           /\ at[e] = "locked" => mti_txnid = Newest
           /\ at[e] = "write" => mti_txnid = Newest /\ env[e].txnid = Newest + 1
           /\ at[e] = "wrote" => env[e].txnid = Newest

NoInitKill == left["killInit"] = 0

LEMMA SpendsOrNot ==
    ASSUME Types, NoInitKill, [EnvNext]_vars
    PROVE  NoInitKill'
<1>1. ASSUME NEW kind \in EnvKinds, Spend(kind)
      PROVE  NoInitKill'
  BY <1>1 DEF Spend, NoInitKill, Types, EnvKinds
<1>2. ASSUME NEW e \in Envs, Asks(e)
      PROVE  UNCHANGED left \/ \E kind \in EnvKinds : Spend(kind)
  BY <1>2
  DEF Asks, EnvOpen, CloseIdle, CloseInTxn, ReadBegin, ReaderDest, ReaderCheck, TxnBegin,
      TxnAbort, EnvKinds
<1>3. ASSUME NEW e \in Envs, GoesOn(e)
      PROVE  UNCHANGED left
  BY <1>3
  DEF GoesOn, OpenStep, ExclLock, SharedLock, SetupLocks, ShareLocks, Attach,
      CloseStep, CloseExcl, DestroyMutexes, CloseLockFile,
      ReadStep, LockReaders, ClaimSlot, ReadSnapshot, ReadEnds, ReaderClear,
      LockWriter, WriteStep, RecoverWriter, TxnRenew, WriteMeta, TxnEnds
<1>4. ASSUME NEW p \in Procs, Kill(p)
      PROVE  \E kind \in EnvKinds : Spend(kind)
  BY <1>4 DEF Kill, EnvKinds
<1>5. UNCHANGED vars => UNCHANGED left
  BY DEF vars
<1>6. UNCHANGED left => NoInitKill'
  BY DEF NoInitKill
<1> QED
  BY <1>1, <1>2, <1>3, <1>4, <1>5, <1>6 DEF EnvNext

\* The threads that write or are about to settle the number stay where they are.
LEMMA CurrentUnchanged ==
    ASSUME Current, UNCHANGED <<wmutex, mti_txnid, metas>>,
           \A e \in Envs :
               \/ at'[e] = at[e] /\ env'[e].txnid = env[e].txnid
               \/ /\ at[e] \notin {"data", "recover", "wrote"}
                  /\ at'[e] \notin {"data", "recover", "locked", "write", "wrote"}
    PROVE  Current'
<1>1. Unsettled => Unsettled'
  BY DEF Unsettled
<1>2. Newest' = Newest
  BY DEF Newest
<1> QED
  BY <1>1, <1>2 DEF Current

\* The steps of the writer itself.
LEMMA WriterKeepsCurrent ==
    ASSUME OpenedOnce, MutexInv, Current, NEW e \in Envs,
           LockWriter(e) \/ WriteStep(e) \/ TxnAbort(e)
    PROVE  Current'
<1>0. Types /\ LocksRight /\ OwnerRight
  BY DEF MutexInv
<1>1. \A f \in Envs : f # e => at'[f] = at[f]
  BY <1>0, GoesAt
  DEF LockWriter, WriteStep, RecoverWriter, TxnRenew, WriteMeta, TxnEnds, TxnAbort
<1>2. CASE LockWriter(e) /\ MayLock(wmutex)
  <2>1. \A f \in Envs : ~Writing(f)
    BY <1>0, <1>2, HeldIsLocked DEF OwnerRight
  <2>2. at[e] = "wlock" /\ at'[e] = IF wmutex.died THEN "recover" ELSE "locked"
    BY <1>0, <1>2, GoesAt DEF LockWriter, MayLock
  <2>3. UNCHANGED <<mti_txnid, metas>> /\ Newest' = Newest
    BY <1>2 DEF LockWriter, regionVars, Newest
  <2>4. \A f \in Envs : f # e => at'[f] \notin {"recover", "locked", "write", "wrote"}
    BY <1>1, <2>1 DEF Writing
  <2>5. CASE at'[e] = "recover"
    BY <2>3, <2>4, <2>5 DEF Current, Unsettled
  <2>6. CASE at'[e] = "locked"
    <3>1. ~wmutex.died /\ wmutex.ok
      BY <1>2, <2>2, <2>6 DEF MayLock
    <3>2. \A f \in Envs : at[f] # "data"
      BY <1>0, <2>2, AloneIsAlone DEF Alone, Sharing, Using
    <3>3. ~Unsettled
      BY <2>1, <3>2 DEF Unsettled, Writing
    <3>4. mti_txnid = Newest
      BY <3>1, <3>3 DEF Current
    <3> QED
      BY <2>3, <2>4, <2>6, <3>4 DEF Current
  <2> QED
    BY <2>2, <2>5, <2>6
<1>3. CASE LockWriter(e) /\ ~MayLock(wmutex)
  <2>1. /\ at[e] = "wlock" /\ at'[e] = "open" /\ UNCHANGED <<wmutex, mti_txnid, metas, env>>
    BY <1>0, <1>3, GoesAt DEF LockWriter, regionVars
  <2> QED
    BY <1>1, <2>1, CurrentUnchanged
<1>4. CASE WriteStep(e) \/ TxnAbort(e)
  <2>1. Writing(e)
    BY <1>0, <1>4, GoesAt
    DEF WriteStep, RecoverWriter, TxnRenew, WriteMeta, TxnEnds, TxnAbort, Writing
  <2>2. \A f \in Envs : f # e => at'[f] \notin {"recover", "locked", "write", "wrote"}
    BY <1>0, <1>1, <2>1, OneHolds DEF Writing
  <2>3. /\ Newest \in Nat /\ env[e].txnid \in Nat
        /\ metas[0] \in Nat /\ metas[1] \in Nat /\ metas[0] <= Newest /\ metas[1] <= Newest
    BY <1>0, NewestType DEF Types, Fields
  <2>4. CASE RecoverWriter(e)
    <3>1. at'[e] = "locked" /\ mti_txnid' = Newest /\ Newest' = Newest
      BY <1>0, <2>4, GoesAt DEF RecoverWriter, TxnidAfterDeath, Newest
    <3> QED
      BY <2>2, <3>1 DEF Current
  <2>5. CASE TxnRenew(e)
    <3>1. /\ at[e] = "locked" /\ at'[e] = "write" /\ mti_txnid' = mti_txnid /\ Newest' = Newest
          /\ env'[e].txnid = mti_txnid + 1
      BY <1>0, <2>5, GoesAt DEF TxnRenew, regionVars, Newest, Types, Fields
    <3>2. mti_txnid = Newest
      BY <3>1 DEF Current
    <3> QED
      BY <2>2, <3>1, <3>2 DEF Current
  <2>6. CASE WriteMeta(e)
    <3> DEFINE n == env[e].txnid
    <3>1. /\ at[e] = "write" /\ at'[e] = "wrote" /\ env' = env
          /\ metas' = [metas EXCEPT ![n % 2] = n]
      BY <1>0, <2>6, GoesAt DEF WriteMeta
    <3>2. n = Newest + 1
      BY <3>1 DEF Current
    <3>3. n % 2 \in {0, 1}
      BY <2>3
    <3>4. \/ metas'[0] = n /\ metas'[1] = metas[1]
          \/ metas'[1] = n /\ metas'[0] = metas[0]
      BY <1>0, <3>1, <3>3 DEF Types
    <3>5. Newest' = n
      <4>1. Newest' = IF metas'[0] < metas'[1] THEN metas'[1] ELSE metas'[0]
        BY DEF Newest
      <4> HIDE DEF n
      <4> QED
        BY <2>3, <3>2, <3>4, <4>1
    <3>6. Unsettled'
      BY <3>1 DEF Unsettled
    <3> QED
      BY <2>2, <3>1, <3>5, <3>6 DEF Current
  <2>7. CASE TxnEnds(e)
    <3>1. /\ at[e] = "wrote" /\ at'[e] = "open" /\ mti_txnid' = env[e].txnid /\ Newest' = Newest
      BY <1>0, <2>7, GoesAt DEF TxnEnds, Newest
    <3>2. env[e].txnid = Newest
      BY <3>1 DEF Current
    <3> QED
      BY <2>2, <3>1, <3>2 DEF Current
  <2>8. CASE TxnAbort(e)
    <3>1. /\ at[e] = "write" /\ at'[e] = "open" /\ mti_txnid' = mti_txnid /\ Newest' = Newest
      BY <1>0, <2>8, GoesAt DEF TxnAbort, regionVars, Newest
    <3>2. mti_txnid = Newest
      BY <3>1 DEF Current
    <3> QED
      BY <2>2, <3>1, <3>2 DEF Current
  <2> QED
    BY <1>4, <2>4, <2>5, <2>6, <2>7, <2>8 DEF WriteStep
<1> QED
  BY <1>2, <1>3, <1>4

\* The steps of who has the file for itself.
LEMMA AloneKeepsCurrent ==
    ASSUME OpenedOnce, MutexInv, Current, NEW e \in Envs,
           SetupLocks(e) \/ ShareLocks(e) \/ DestroyMutexes(e)
    PROVE  Current'
<1>0. Types /\ LocksRight /\ OwnerRight
  BY DEF MutexInv
<1>1. at[e] \in Alone /\ at'[e] \in {"data", "open", "unlocking"}
  BY <1>0, GoesAt DEF SetupLocks, ShareLocks, DestroyMutexes, Alone
<1>2. \A f \in Envs : f # e => at'[f] = at[f] /\ ~Writing(f)
  BY <1>0, <1>1, GoesAt, AloneIsAlone, WritersShare DEF SetupLocks, ShareLocks, DestroyMutexes
<1>3. \A f \in Envs : at'[f] \notin {"recover", "locked", "write", "wrote"}
  BY <1>1, <1>2 DEF Writing
<1>4. Newest' = Newest
  BY DEF SetupLocks, ShareLocks, DestroyMutexes, Newest
<1>5. CASE SetupLocks(e)
  <2>1. Unsettled'
    BY <1>0, <1>5, GoesAt DEF SetupLocks, Unsettled
  <2> QED
    BY <1>3, <2>1 DEF Current
<1>6. CASE ShareLocks(e)
  BY <1>3, <1>4, <1>6 DEF ShareLocks, TxnidShared, Current
<1>7. CASE DestroyMutexes(e)
  <2>1. ~wmutex.ok'
    BY <1>7 DEF DestroyMutexes, Destroyed, FreshMutex
  <2> QED
    BY <1>3, <2>1 DEF Current
<1> QED
  BY <1>5, <1>6, <1>7

\* A process killed between its commit and the number leaves a mutex that says so.
LEMMA KillKeepsCurrent ==
    ASSUME OpenedOnce, MutexInv, Current, NoInitKill, NEW p \in Procs, Kill(p)
    PROVE  Current'
<1>0. Types /\ LocksRight /\ OwnerRight
  BY DEF MutexInv
<1>1. PICK e \in Envs : /\ p = ProcOf[e] /\ at' = [at EXCEPT ![e] = "closed"]
                        /\ env' = [env EXCEPT ![e] = ClosedEnv]
  BY <1>0, KillsOne
<1>2. /\ at'[e] = "closed"
      /\ \A f \in Envs : f # e => at'[f] = at[f] /\ env'[f] = env[f] /\ ProcOf[f] # p
  BY <1>0, <1>1 DEF Types, OpenedOnce
<1>3. UNCHANGED <<mti_txnid, metas>> /\ Newest' = Newest /\ wmutex' = OwnerDied(wmutex, p)
  BY DEF Kill, regionVars, Newest
<1>4. at[e] \notin {"init", "data"}
  <2>1. SUFFICES ASSUME at[e] \in {"init", "data"} PROVE FALSE
    OBVIOUS
  <2>2. \E f \in {f \in Envs : ProcOf[f] = p} : at[f] \in {"init", "data"}
    BY <1>1, <2>1
  <2>3. Spend("killInit")
    BY <2>2 DEF Kill
  <2> QED
    BY <2>3 DEF Spend, NoInitKill
<1>5. CASE Writing(e)
  <2>1. wmutex'.died = TRUE
    BY <1>0, <1>1, <1>3, <1>5, HeldIsLocked DEF OwnerRight
  <2> QED
    BY <1>2, <1>3, <2>1 DEF Current
<1>6. CASE ~Writing(e)
  <2>1. at[e] \notin {"data", "recover", "wrote"}
    BY <1>4, <1>6 DEF Writing
  <2>2. Unsettled => Unsettled'
    BY <1>2, <2>1 DEF Unsettled
  <2>3. ~wmutex'.died => wmutex' = wmutex
    BY <1>0, <1>3 DEF OwnerDied, Types, Mutex
  <2> QED
    BY <1>2, <1>3, <2>2, <2>3 DEF Current
<1> QED
  BY <1>5, <1>6

LEMMA CurrentStep ==
    ASSUME OpenedOnce, MutexInv, Current, NoInitKill, [EnvNext]_vars
    PROVE  Current'
<1>0. Types /\ LocksRight /\ OwnerRight
  BY DEF MutexInv
<1> USE DEF regionVars, mutexes
<1>1. ASSUME NEW e \in Envs, Asks(e) \/ GoesOn(e)
      PROVE  Current'
  <2>1. CASE LockWriter(e) \/ WriteStep(e) \/ TxnAbort(e)
    BY <2>1, WriterKeepsCurrent
  <2>2. CASE SetupLocks(e) \/ ShareLocks(e) \/ DestroyMutexes(e)
    BY <2>2, AloneKeepsCurrent
  <2>3. CASE ReaderDest(e)
    <3>1. /\ UNCHANGED <<wmutex, mti_txnid, metas, at>>
          /\ env' = [env EXCEPT ![e].slot = 0]
      BY <2>3 DEF ReaderDest
    <3>2. \A f \in Envs : env'[f].txnid = env[f].txnid
      BY <1>0, <3>1 DEF Types, Fields
    <3> QED
      BY <3>1, <3>2, CurrentUnchanged
  <2>4. CASE \/ EnvOpen(e) \/ ExclLock(e) \/ SharedLock(e) \/ Attach(e)
             \/ CloseIdle(e) \/ CloseInTxn(e) \/ CloseExcl(e) \/ CloseLockFile(e)
    <3>1. UNCHANGED <<wmutex, mti_txnid, metas>>
      BY <2>4
      DEF EnvOpen, ExclLock, SharedLock, Attach, CloseIdle, CloseInTxn, EnvClose, CloseExcl,
          CloseLockFile
    <3>2. \A f \in Envs : f # e => at'[f] = at[f] /\ env'[f] = env[f]
      <4>1. env' = env \/ env' = [env EXCEPT ![e] = ClosedEnv]
        BY <2>4
        DEF EnvOpen, ExclLock, SharedLock, Attach, CloseIdle, CloseInTxn, EnvClose, CloseExcl,
            CloseLockFile
      <4>2. \A f \in Envs : f # e => at'[f] = at[f]
        BY <1>0, <2>4, GoesAt
        DEF EnvOpen, ExclLock, SharedLock, Attach, CloseIdle, CloseInTxn, EnvClose, CloseExcl,
            CloseLockFile
      <4> QED
        BY <1>0, <4>1, <4>2 DEF Types
    <3>3. /\ at[e] \notin {"data", "recover", "wrote"}
          /\ at'[e] \notin {"data", "recover", "locked", "write", "wrote"}
      BY <1>0, <2>4, GoesAt
      DEF EnvOpen, ExclLock, SharedLock, Attach, CloseIdle, CloseInTxn, EnvClose, CloseExcl,
          CloseLockFile
    <3> QED
      BY <3>1, <3>2, <3>3, CurrentUnchanged
  <2>5. CASE ReadBegin(e) \/ ReaderCheck(e) \/ ReadStep(e) \/ TxnBegin(e)
    <3>1. UNCHANGED <<wmutex, mti_txnid, metas>>
      BY <2>5
      DEF ReadBegin, ReaderCheck, ReadStep, LockReaders, ClaimSlot, ReadSnapshot, ReadEnds,
          ReaderClear, TxnBegin
    <3>2. \A f \in Envs : f # e => at'[f] = at[f] /\ env'[f] = env[f]
      <4>1. \E fields : env' = env \/ env' = [env EXCEPT ![e] = fields]
        BY <1>0, <2>5
        DEF ReadBegin, ReaderCheck, ReadStep, LockReaders, ClaimSlot, ReadSnapshot, ReadEnds,
            ReaderClear, TxnBegin, Types
      <4>2. \A f \in Envs : f # e => at'[f] = at[f]
        BY <1>0, <2>5, GoesAt
        DEF ReadBegin, ReaderCheck, ReadStep, LockReaders, ClaimSlot, ReadSnapshot, ReadEnds,
            ReaderClear, TxnBegin
      <4> QED
        BY <1>0, <4>1, <4>2 DEF Types
    <3>3. /\ at[e] \in {"open", "rlock", "claim", "claimed", "reading", "rcheck"}
          /\ at'[e] \in {"open", "rlock", "claim", "claimed", "reading", "rcheck", "wlock"}
      BY <1>0, <2>5, GoesAt
      DEF ReadBegin, ReaderCheck, ReadStep, LockReaders, ClaimSlot, ReadSnapshot, ReadEnds,
          ReaderClear, TxnBegin
    <3> QED
      BY <3>1, <3>2, <3>3, CurrentUnchanged
  <2> QED
    BY <1>1, <2>1, <2>2, <2>3, <2>4, <2>5 DEF Asks, GoesOn, OpenStep, CloseStep
<1>2. ASSUME NEW p \in Procs, Kill(p)
      PROVE  Current'
  BY <1>2, KillKeepsCurrent
<1>3. CASE UNCHANGED vars
  BY <1>3, CurrentUnchanged DEF vars
<1> QED
  BY <1>1, <1>2, <1>3 DEF EnvNext

\* A writer builds on the newest commit.  The lock file's number is behind it when a
\* process was killed between its meta page and the number: then the mutex says so, and
\* the next writer reads the meta pages first.
THEOREM WritersBuildOnNewest ==
    ASSUME OpenedOnce, InitSurvives
    PROVE  EnvSpec => []BuildsOnNewest
<1>1. EnvInit => Current /\ NoInitKill
  <2> SUFFICES ASSUME EnvInit PROVE Current /\ NoInitKill
    OBVIOUS
  <2>1. \A e \in Envs : at[e] = "closed"
    BY DEF EnvInit
  <2>2. mti_txnid = Newest
    BY DEF EnvInit, Newest
  <2> QED
    BY <2>1, <2>2 DEF EnvInit, Current, NoInitKill, InitSurvives
<1>2. MutexInv /\ Current /\ NoInitKill /\ [EnvNext]_vars => Current' /\ NoInitKill'
  BY CurrentStep, SpendsOrNot DEF MutexInv
<1>3. Current => BuildsOnNewest
  BY DEF Current, BuildsOnNewest
<1> QED
  BY <1>1, <1>2, <1>3, MutexHolds, PTL DEF EnvSpec

-----------------------------------------------------------------------------
(* The reader table *)

\* The slot a thread has claimed is its own and within what writers look at.
Owns(e) ==
    /\ env[e].slot \in 1 .. mti_numreaders
    /\ env[e].live
    /\ mti_readers[env[e].slot].pid = ProcOf[e]
    /\ mti_readers[env[e].slot].tid = e
    /\ at[e] = "reading" => mti_readers[env[e].slot].txnid = env[e].txnid

\* A process that has slots holds its own byte, which is what keeps them from being
\* taken for those of the dead.
SlotRight(e) ==
    /\ env[e].live => ProcOf[e] \in pids
    /\ at[e] \in {"closed"} \cup Opening => env[e].slot = 0 /\ ~env[e].live
    /\ at[e] \in {"rlock", "claim"} => env[e].slot = 0 /\ env[e].live
    /\ at[e] \in {"claimed", "reading"} => env[e].slot # 0
    /\ at[e] \in Using /\ env[e].slot # 0 => Owns(e)

SlotsRight == \A e \in Envs : SlotRight(e)

LEMMA PointsDiffer ==
    /\ Using \cap ({"closed"} \cup Opening \cup Closing) = {}
    /\ Closing \cap ({"closed"} \cup Opening) = {}
    /\ {"rlock", "claim", "claimed", "reading"} \subseteq Using
  BY DEF Using, Opening, Closing

\* Threads of two processes have two slots.
LEMMA SlotsDiffer ==
    ASSUME SlotsRight, NEW e \in Envs, NEW f \in Envs, e # f,
           at[e] \in Using, at[f] \in Using, env[e].slot # 0, env[f].slot # 0
    PROVE  env[e].slot # env[f].slot
  BY DEF SlotsRight, SlotRight, Owns

\* What is kept of one whose slot nobody touches.
LEMMA SlotKept ==
    ASSUME NEW f \in Envs, SlotRight(f), at'[f] = at[f], env'[f] = env[f],
           ProcOf[f] \in pids => ProcOf[f] \in pids',
           at[f] \in Using /\ env[f].slot # 0 =>
               /\ env[f].slot \in 1 .. mti_numreaders'
               /\ mti_readers'[env[f].slot] = mti_readers[env[f].slot]
    PROVE  SlotRight(f)'
  BY DEF SlotRight, Owns

\* What a thread keeps that moves on, whatever it writes into its slot but its name.
LEMMA SlotCarried ==
    ASSUME NEW e \in Envs, SlotRight(e), at[e] \in Using, at'[e] \in Using \ {"rlock", "claim"},
           at'[e] \in {"claimed", "reading"} => env[e].slot # 0,
           env'[e].slot = env[e].slot, env'[e].live = env[e].live,
           ProcOf[e] \in pids => ProcOf[e] \in pids',
           env[e].slot # 0 =>
               /\ env[e].slot \in 1 .. mti_numreaders'
               /\ mti_readers'[env[e].slot].pid = mti_readers[env[e].slot].pid
               /\ mti_readers'[env[e].slot].tid = mti_readers[env[e].slot].tid
               /\ at'[e] = "reading" => mti_readers'[env[e].slot].txnid = env'[e].txnid
    PROVE  SlotRight(e)'
  BY PointsDiffer DEF SlotRight, Owns

\* A thread with no slot has none to be right.
LEMMA SlotAbsent ==
    ASSUME NEW e \in Envs, env'[e].slot = 0, env'[e].live => ProcOf[e] \in pids',
           at'[e] \in {"closed"} \cup Opening => ~env'[e].live,
           at'[e] \in {"rlock", "claim"} => env'[e].live,
           at'[e] \notin {"claimed", "reading"}
    PROVE  SlotRight(e)'
  BY DEF SlotRight

\* Clearing the slots of processes that hold no byte leaves those that are claimed.
LEMMA ClearingSpares ==
    ASSUME Types, SlotsRight, NEW f \in Envs, at[f] \in Using, env[f].slot # 0
    PROVE  /\ \A gone : gone \cap pids = {} =>
                  WithoutPids(gone)[env[f].slot] = mti_readers[env[f].slot]
           /\ \A pid, S : pid # ProcOf[f] =>
                  Cleared(pid, S)[env[f].slot] = mti_readers[env[f].slot]
<1>1. Owns(f) /\ ProcOf[f] \in pids
  BY DEF SlotsRight, SlotRight, Owns
<1>2. env[f].slot \in Slots /\ mti_readers[env[f].slot].pid = ProcOf[f]
  BY <1>1 DEF Owns, Types, Fields, Slots
<1> QED
  BY <1>1, <1>2 DEF WithoutPids, Cleared

LEMMA StaleHaveNoByte ==
    ASSUME NEW e \in Envs
    PROVE  StalePids(ProcOf[e]) \cap pids = {} /\ StillStale(e) \cap pids = {}
  BY DEF StalePids, Stale, StillStale

\* A step of one environment that leaves the others' slots alone.
LEMMA SlotsAround ==
    ASSUME Types, SlotsRight, NEW e \in Envs, SlotRight(e)',
           \A f \in Envs : f # e =>
               /\ at'[f] = at[f] /\ env'[f] = env[f]
               /\ ProcOf[f] \in pids => ProcOf[f] \in pids'
               /\ at[f] \in Using /\ env[f].slot # 0 =>
                      /\ env[f].slot \in 1 .. mti_numreaders'
                      /\ mti_readers'[env[f].slot] = mti_readers[env[f].slot]
    PROVE  SlotsRight'
<1>1. ASSUME NEW f \in Envs, f # e PROVE SlotRight(f)'
  BY <1>1, SlotKept DEF SlotsRight
<1> QED
  BY <1>1 DEF SlotsRight

\* The same, where the table is as it was.
LEMMA TableUnchanged ==
    ASSUME Types, SlotsRight, NEW e \in Envs, SlotRight(e)',
           UNCHANGED <<mti_numreaders, mti_readers>>,
           \A f \in Envs : f # e =>
               /\ at'[f] = at[f] /\ env'[f] = env[f]
               /\ ProcOf[f] \in pids => ProcOf[f] \in pids'
    PROVE  SlotsRight'
<1>1. \A f \in Envs : at[f] \in Using /\ env[f].slot # 0 => env[f].slot \in 1 .. mti_numreaders
  BY DEF SlotsRight, SlotRight, Owns
<1> QED
  BY <1>1, SlotsAround

LEMMA OpenKeepsSlots ==
    ASSUME OpenedOnce, Types, LocksRight, SlotsRight, NEW e \in Envs, EnvOpen(e) \/ OpenStep(e)
    PROVE  SlotsRight'
<1>1. \A f \in Envs : f # e => at'[f] = at[f]
  BY GoesAt DEF EnvOpen, OpenStep, ExclLock, SharedLock, SetupLocks, ShareLocks, Attach
<1>2. \A f \in Envs : f # e => env'[f] = env[f]
  BY DEF EnvOpen, OpenStep, ExclLock, SharedLock, SetupLocks, ShareLocks, Attach, Types
<1>3. UNCHANGED <<pids, mti_readers>>
  BY DEF EnvOpen, OpenStep, ExclLock, SharedLock, SetupLocks, ShareLocks, Attach, lockVars,
         regionVars
<1>4. SlotRight(e)'
  <2>1. env'[e].slot = 0 /\ ~env'[e].live
    <3>1. CASE EnvOpen(e)
      BY <3>1 DEF EnvOpen, ClosedEnv, Types
    <3>2. CASE OpenStep(e)
      <4>1. env' = env /\ at[e] \in Opening
        BY <3>2, GoesAt
        DEF OpenStep, ExclLock, SharedLock, SetupLocks, ShareLocks, Attach, Opening
      <4> QED
        BY <4>1 DEF SlotsRight, SlotRight
    <3> QED
      BY <3>1, <3>2
  <2>2. at'[e] \in Opening \cup {"open", "unlocking"}
    BY GoesAt
    DEF EnvOpen, OpenStep, ExclLock, SharedLock, SetupLocks, ShareLocks, Attach, Opening
  <2>3. at'[e] \notin {"rlock", "claim", "claimed", "reading"}
    BY <2>2 DEF Opening
  <2> QED
    BY <2>1, <2>3, SlotAbsent
<1>5. CASE SetupLocks(e)
  <2>1. \A f \in Envs : f # e => at[f] \notin Using
    <3>1. at[e] \in Alone
      BY <1>5, GoesAt DEF SetupLocks, Alone
    <3> QED
      BY <3>1, AloneIsAlone DEF Sharing
  <2> QED
    BY <1>1, <1>2, <1>3, <1>4, <2>1, SlotsAround
<1>6. CASE ~SetupLocks(e)
  <2>1. UNCHANGED mti_numreaders
    BY <1>6 DEF EnvOpen, OpenStep, ExclLock, SharedLock, ShareLocks, Attach, regionVars
  <2> QED
    BY <1>1, <1>2, <1>3, <1>4, <2>1, TableUnchanged
<1> QED
  BY <1>5, <1>6

LEMMA CloseKeepsSlots ==
    ASSUME OpenedOnce, Types, SlotsRight, NEW e \in Envs,
           CloseIdle(e) \/ CloseInTxn(e) \/ CloseStep(e)
    PROVE  SlotsRight'
<1>0. SlotRight(e) /\ ProcOf[e] \in Procs
  BY ProcsAreNumbers DEF SlotsRight
<1>1. CASE CloseIdle(e) \/ CloseInTxn(e)
  <2>1. PICK from : EnvClose(e, from)
    BY <1>1 DEF CloseIdle, CloseInTxn
  <2>2. /\ at'[e] = "closing" /\ env' = env
        /\ UNCHANGED <<pids, mti_numreaders>>
        /\ \A f \in Envs : f # e => at'[f] = at[f] /\ ProcOf[f] # ProcOf[e]
    BY <2>1, GoesAt DEF EnvClose, lockVars, OpenedOnce
  <2>3. SlotRight(e)'
    <3>1. "closing" \notin Using \cup Opening \cup {"closed"}
      BY DEF Using, Opening
    <3> QED
      BY <1>0, <2>2, <3>1 DEF SlotRight
  <2>4. ASSUME NEW f \in Envs, f # e, at[f] \in Using, env[f].slot # 0
        PROVE  /\ env[f].slot \in 1 .. mti_numreaders'
               /\ mti_readers'[env[f].slot] = mti_readers[env[f].slot]
    <3>1. env[f].slot \in 1 .. mti_numreaders'
      BY <2>2, <2>4 DEF SlotsRight, SlotRight, Owns
    <3>2. mti_readers'[env[f].slot] = mti_readers[env[f].slot]
      BY <2>1, <2>2, <2>4, ClearingSpares DEF EnvClose
    <3> QED
      BY <3>1, <3>2
  <2> QED
    BY <2>2, <2>3, <2>4, SlotsAround
<1>2. CASE CloseExcl(e) \/ DestroyMutexes(e)
  <2>1. /\ UNCHANGED <<pids, env, mti_numreaders, mti_readers>>
        /\ at'[e] \in {"destroying", "unlocking"}
        /\ \A f \in Envs : f # e => at'[f] = at[f]
    BY <1>2, GoesAt DEF CloseExcl, DestroyMutexes, lockVars, regionVars
  <2>2. SlotRight(e)'
    <3>1. {"destroying", "unlocking"} \cap (Using \cup Opening \cup {"closed"}) = {}
      BY DEF Using, Opening
    <3>2. at'[e] \notin {"rlock", "claim", "claimed", "reading"}
      BY <2>1
    <3> QED
      BY <1>0, <2>1, <3>1, <3>2 DEF SlotRight
  <2> QED
    BY <2>1, <2>2, TableUnchanged
<1>3. CASE CloseLockFile(e)
  <2>1. /\ env' = [env EXCEPT ![e] = ClosedEnv] /\ pids' = pids \ {ProcOf[e]}
        /\ UNCHANGED <<mti_numreaders, mti_readers>>
        /\ at'[e] = "closed"
        /\ \A f \in Envs : f # e => at'[f] = at[f]
    BY <1>3, GoesAt DEF CloseLockFile, GivesUpLocks, regionVars
  <2>2. SlotRight(e)'
    <3>1. env'[e].slot = 0 /\ ~env'[e].live
      BY <2>1 DEF ClosedEnv, Types
    <3> QED
      BY <2>1, <3>1, SlotAbsent
  <2>3. \A f \in Envs : f # e =>
            env'[f] = env[f] /\ (ProcOf[f] \in pids => ProcOf[f] \in pids')
    BY <2>1 DEF Types, OpenedOnce
  <2> QED
    BY <2>1, <2>2, <2>3, TableUnchanged
<1> QED
  BY <1>1, <1>2, <1>3 DEF CloseStep

LEMMA KillKeepsSlots ==
    ASSUME OpenedOnce, Types, SlotsRight, NEW p \in Procs, Kill(p)
    PROVE  SlotsRight'
<1>1. PICK e \in Envs : /\ p = ProcOf[e] /\ at' = [at EXCEPT ![e] = "closed"]
                        /\ env' = [env EXCEPT ![e] = ClosedEnv]
  BY KillsOne
<1>2. pids' = pids \ {ProcOf[e]} /\ UNCHANGED <<mti_numreaders, mti_readers>>
  BY <1>1 DEF Kill, GivesUpLocks, regionVars
<1>3. /\ at'[e] = "closed" /\ env'[e].slot = 0 /\ ~env'[e].live
  BY <1>1 DEF ClosedEnv, Types
<1>4. SlotRight(e)'
  BY <1>3, SlotAbsent
<1>5. \A f \in Envs : f # e =>
          /\ at'[f] = at[f] /\ env'[f] = env[f]
          /\ ProcOf[f] \in pids => ProcOf[f] \in pids'
  BY <1>1, <1>2 DEF Types, OpenedOnce
<1> QED
  BY <1>2, <1>4, <1>5, TableUnchanged

LEMMA ReaderKeepsSlots ==
    ASSUME OpenedOnce, Types, SlotsRight, NEW e \in Envs,
           ReadBegin(e) \/ ReaderDest(e) \/ ReaderCheck(e) \/ ReadStep(e)
    PROVE  SlotsRight'
<1>0. /\ SlotRight(e) /\ env[e] \in Fields /\ MaxReaders \in Nat
      /\ mti_numreaders \in 0 .. MaxReaders
      /\ \A f \in Envs : at[f] \in Using /\ env[f].slot # 0 => Owns(f) /\ ProcOf[f] \in pids
  BY ProcsAreNumbers DEF SlotsRight, SlotRight, Owns, Types
<1>1. \A f \in Envs : f # e => at'[f] = at[f]
  <2>1. CASE ReaderDest(e)
    BY <2>1 DEF ReaderDest
  <2>2. CASE ReadBegin(e) \/ ReaderCheck(e) \/ ReadStep(e)
    BY <2>2, GoesAt
    DEF ReadBegin, ReaderCheck, ReadStep, LockReaders, ClaimSlot, ReadSnapshot, ReadEnds,
        ReaderClear
  <2> QED
    BY <2>1, <2>2
<1>2. \A f \in Envs : f # e => env'[f] = env[f]
  <2>1. \E fields : env' = env \/ env' = [env EXCEPT ![e] = fields]
    BY DEF ReadBegin, ReaderDest, ReaderCheck, ReadStep, LockReaders, ClaimSlot, ReadSnapshot,
           ReadEnds, ReaderClear, Types
  <2> QED
    BY <2>1 DEF Types
<1> DEFINE s == env[e].slot
<1>3. CASE ReadBegin(e)
  <2>1. /\ UNCHANGED <<mti_numreaders, mti_readers>> /\ pids \subseteq pids'
        /\ at[e] = "open" /\ at'[e] \in {"rlock", "claimed"}
        /\ at'[e] = "rlock" => /\ s = 0 /\ env' = [env EXCEPT ![e].live = TRUE]
                               /\ pids' = IF env[e].live THEN pids ELSE pids \cup {ProcOf[e]}
        /\ at'[e] = "claimed" => s # 0 /\ env' = env
    BY <1>3, GoesAt DEF ReadBegin, regionVars
  <2>2. SlotRight(e)'
    <3>1. CASE at'[e] = "rlock"
      <4>1. env'[e].slot = 0 /\ env'[e].live
        BY <1>0, <2>1, <3>1 DEF Types, Fields
      <4>2. ProcOf[e] \in pids'
        BY <1>0, <2>1, <3>1 DEF SlotRight
      <4> QED
        BY <3>1, <4>1, <4>2, SlotAbsent DEF Opening
    <3>2. CASE at'[e] = "claimed"
      <4>1. at[e] \in Using /\ at'[e] \in Using \ {"rlock", "claim"}
        BY <2>1, <3>2 DEF Using
      <4>2. s \in 1 .. mti_numreaders'
        BY <1>0, <2>1, <3>2, <4>1 DEF Owns
      <4> QED
        BY <1>0, <2>1, <3>2, <4>1, <4>2, SlotCarried
    <3> QED
      BY <2>1, <3>1, <3>2
  <2> QED
    BY <1>1, <1>2, <2>1, <2>2, TableUnchanged
<1>4. CASE ReaderCheck(e)
  <2>1. /\ UNCHANGED <<pids, mti_numreaders, mti_readers>> /\ at[e] = "open" /\ at'[e] = "rcheck"
        /\ \E pid : env' = [env EXCEPT ![e].suspect = pid]
    BY <1>4, GoesAt DEF ReaderCheck, regionVars, lockVars
  <2>2. env'[e].slot = s /\ env'[e].live = env[e].live
    BY <1>0, <2>1 DEF Types, Fields
  <2>3. at[e] \in Using /\ at'[e] \in Using \ {"rlock", "claim"}
    BY <2>1 DEF Using
  <2>4. s # 0 => s \in 1 .. mti_numreaders'
    BY <1>0, <2>1, <2>3 DEF Owns
  <2>5. SlotRight(e)'
    BY <1>0, <2>1, <2>2, <2>3, <2>4, SlotCarried
  <2> QED
    BY <1>1, <1>2, <2>1, <2>5, TableUnchanged
<1>5. CASE LockReaders(e)
  <2>1. /\ UNCHANGED <<pids, env, mti_numreaders>>
        /\ at[e] = "rlock" /\ at'[e] \in {"claim", "open"}
        /\ mti_readers' \in {mti_readers, WithoutPids(StalePids(ProcOf[e]))}
    BY <1>5, GoesAt DEF LockReaders, lockVars
  <2>2. SlotRight(e)'
    <3>1. env'[e].slot = 0 /\ env'[e].live /\ ProcOf[e] \in pids'
      BY <1>0, <2>1 DEF SlotRight
    <3> QED
      BY <2>1, <3>1, SlotAbsent DEF Opening
  <2>3. \A f \in Envs : at[f] \in Using /\ env[f].slot # 0 =>
            /\ env[f].slot \in 1 .. mti_numreaders'
            /\ mti_readers'[env[f].slot] = mti_readers[env[f].slot]
    BY <1>0, <2>1, ClearingSpares, StaleHaveNoByte DEF Owns
  <2> QED
    BY <1>1, <1>2, <2>1, <2>2, <2>3, SlotsAround
<1>6. CASE ClaimSlot(e)
  <2>1. at[e] = "claim" /\ UNCHANGED pids
    BY <1>6, GoesAt DEF ClaimSlot, lockVars
  <2>2. s = 0 /\ env[e].live /\ ProcOf[e] \in pids
    BY <1>0, <2>1 DEF SlotRight
  <2>3. CASE at'[e] = "open" /\ UNCHANGED <<mti_numreaders, mti_readers, env>>
    <3>1. SlotRight(e)'
      BY <2>1, <2>2, <2>3, SlotAbsent DEF Opening
    <3> QED
      BY <1>1, <1>2, <2>1, <2>3, <3>1, TableUnchanged
  <2>4. ASSUME NEW i \in FreeSlots, NEW nr,
               nr = IF i > mti_numreaders THEN i ELSE mti_numreaders,
               at'[e] = "claimed", mti_numreaders' = nr,
               mti_readers' = [mti_readers EXCEPT ![i] = [pid |-> ProcOf[e], tid |-> e,
                                                          txnid |-> -1]],
               env' = [env EXCEPT ![e].slot = i, ![e].close = nr]
        PROVE  SlotsRight'
    <3>1. i \in 1 .. MaxReaders /\ i \in Slots /\ (i <= mti_numreaders => mti_readers[i].pid = 0)
      BY <1>0 DEF FreeSlots, Slots
    <3>2. i \in 1 .. nr /\ mti_numreaders <= nr /\ nr \in Nat /\ i # 0
      BY <1>0, <2>4, <3>1
    <3>3. /\ mti_readers'[i].pid = ProcOf[e] /\ mti_readers'[i].tid = e
          /\ \A k \in Slots : k # i => mti_readers'[k] = mti_readers[k]
      BY <2>4, <3>1 DEF Types
    <3>4. env'[e].slot = i /\ env'[e].live = env[e].live
      BY <1>0, <2>4 DEF Types, Fields
    <3>5. SlotRight(e)'
      <4>1. "claimed" \notin Opening \cup {"closed", "rlock", "claim", "reading"}
        BY DEF Opening
      <4>2. Owns(e)'
        BY <2>2, <2>4, <3>2, <3>3, <3>4, <4>1 DEF Owns
      <4> QED
        BY <2>1, <2>2, <2>4, <3>2, <3>4, <4>1, <4>2 DEF SlotRight
    <3>6. ASSUME NEW f \in Envs, f # e, at[f] \in Using, env[f].slot # 0
          PROVE  /\ env[f].slot \in 1 .. mti_numreaders'
                 /\ mti_readers'[env[f].slot] = mti_readers[env[f].slot]
      <4>1. env[f].slot \in 1 .. mti_numreaders /\ mti_readers[env[f].slot].pid = ProcOf[f]
        BY <1>0, <3>6 DEF Owns
      <4>2. env[f].slot \in Slots
        BY <1>0, <4>1 DEF Slots
      <4>3. env[f].slot # i
        BY <3>1, <4>1, ProcsAreNumbers
      <4>4. env[f].slot \in 1 .. nr
        BY <1>0, <3>2, <4>1
      <4> QED
        BY <2>4, <3>3, <4>2, <4>3, <4>4
    <3> QED
      BY <1>1, <1>2, <2>1, <3>5, <3>6, SlotsAround
  <2>5. CASE Goes(e, "claim", "open") /\ UNCHANGED <<mti_numreaders, mti_readers, env>>
    BY <2>3, <2>5, GoesAt
  <2>6. ASSUME NEW i \in FreeSlots, NEW nr,
               nr = IF i > mti_numreaders THEN i ELSE mti_numreaders,
               Goes(e, "claim", "claimed"), mti_numreaders' = nr,
               mti_readers' = [mti_readers EXCEPT ![i] = [pid |-> ProcOf[e], tid |-> e,
                                                          txnid |-> -1]],
               env' = [env EXCEPT ![e].slot = i, ![e].close = nr]
        PROVE  SlotsRight'
    <3>1. at'[e] = "claimed"
      BY <2>6, GoesAt
    <3> HIDE DEF s
    <3> QED
      BY <2>4, <2>6, <3>1
  <2>7. \/ Goes(e, "claim", "open") /\ UNCHANGED <<mti_numreaders, mti_readers, env>>
        \/ \E i \in FreeSlots :
              LET nr == IF i > mti_numreaders THEN i ELSE mti_numreaders IN
              /\ Goes(e, "claim", "claimed")
              /\ mti_numreaders' = nr
              /\ mti_readers' = [mti_readers EXCEPT ![i] = [pid |-> ProcOf[e], tid |-> e,
                                                            txnid |-> -1]]
              /\ env' = [env EXCEPT ![e].slot = i, ![e].close = nr]
    BY <1>6 DEF ClaimSlot
  <2> QED
    BY <2>5, <2>6, <2>7
<1>7. CASE ReadSnapshot(e) \/ ReadEnds(e)
  <2>1. PICK n : mti_readers' = [mti_readers EXCEPT ![s].txnid = n]
    BY <1>7 DEF ReadSnapshot, ReadEnds
  <2>2. /\ UNCHANGED <<pids, mti_numreaders>> /\ at[e] \in {"claimed", "reading"}
        /\ \/ at'[e] = "open" /\ env' = env
           \/ /\ at'[e] = "reading" /\ env' = [env EXCEPT ![e].txnid = mti_txnid]
              /\ mti_readers' = [mti_readers EXCEPT ![s].txnid = mti_txnid]
    BY <1>7, GoesAt DEF ReadSnapshot, ReadEnds, lockVars
  <2>3. at[e] \in Using /\ at'[e] \in Using \ {"rlock", "claim"} /\ s # 0
    BY <1>0, <2>2 DEF Using, SlotRight
  <2>4. Owns(e) /\ s \in 1 .. mti_numreaders /\ s \in Slots
    BY <1>0, <2>3 DEF Owns, Slots
  <2>5. /\ mti_readers'[s].pid = mti_readers[s].pid /\ mti_readers'[s].tid = mti_readers[s].tid
        /\ \A k \in Slots : k # s => mti_readers'[k] = mti_readers[k]
    BY <2>1, <2>4 DEF Types, Slot
  <2>6. env'[e].slot = s /\ env'[e].live = env[e].live
    BY <1>0, <2>2 DEF Types, Fields
  <2>7. at'[e] = "reading" => mti_readers'[s].txnid = env'[e].txnid
    <3> SUFFICES ASSUME at'[e] = "reading" PROVE mti_readers'[s].txnid = env'[e].txnid
      OBVIOUS
    <3>1. mti_readers'[s].txnid = mti_txnid
      BY <2>2, <2>4 DEF Types, Slot
    <3>2. env'[e].txnid = mti_txnid
      BY <1>0, <2>2 DEF Types, Fields
    <3> QED
      BY <3>1, <3>2
  <2>8. SlotRight(e)'
    BY <1>0, <2>2, <2>3, <2>4, <2>5, <2>6, <2>7, SlotCarried
  <2>9. ASSUME NEW f \in Envs, f # e, at[f] \in Using, env[f].slot # 0
        PROVE  /\ env[f].slot \in 1 .. mti_numreaders'
               /\ mti_readers'[env[f].slot] = mti_readers[env[f].slot]
    <3>1. env[f].slot \in 1 .. mti_numreaders /\ env[f].slot \in Slots
      BY <1>0, <2>9 DEF Owns, Slots
    <3>2. env[f].slot # s
      BY <2>3, <2>9, SlotsDiffer
    <3> QED
      BY <2>2, <2>5, <3>1, <3>2
  <2> QED
    BY <1>1, <1>2, <2>2, <2>8, <2>9, SlotsAround
<1>8. CASE ReaderDest(e)
  <2>1. /\ UNCHANGED <<pids, mti_numreaders>> /\ at[e] = "open" /\ at' = at /\ s # 0
        /\ mti_readers' = [mti_readers EXCEPT ![s].pid = 0]
        /\ env' = [env EXCEPT ![e].slot = 0]
    BY <1>8 DEF ReaderDest, lockVars
  <2>2. SlotRight(e)'
    <3>1. env'[e].slot = 0 /\ env'[e].live = env[e].live
      BY <1>0, <2>1 DEF Types, Fields
    <3> QED
      BY <1>0, <2>1, <3>1, SlotAbsent DEF Opening, SlotRight
  <2>3. at[e] \in Using
    BY <2>1 DEF Using
  <2>4. ASSUME NEW f \in Envs, f # e, at[f] \in Using, env[f].slot # 0
        PROVE  /\ env[f].slot \in 1 .. mti_numreaders'
               /\ mti_readers'[env[f].slot] = mti_readers[env[f].slot]
    <3>1. env[f].slot \in 1 .. mti_numreaders /\ env[f].slot \in Slots
      BY <1>0, <2>4 DEF Owns, Slots
    <3>2. env[f].slot # s
      BY <2>1, <2>3, <2>4, SlotsDiffer
    <3> QED
      BY <2>1, <3>1, <3>2 DEF Types
  <2> QED
    BY <1>1, <1>2, <2>1, <2>2, <2>4, SlotsAround
<1>9. CASE ReaderClear(e)
  <2>1. /\ UNCHANGED <<pids, mti_numreaders>> /\ at[e] = "rcheck" /\ at'[e] = "open"
        /\ \/ mti_readers' = mti_readers
           \/ \E gone : gone \cap pids = {} /\ mti_readers' = WithoutPids(gone)
        /\ env' = [env EXCEPT ![e].suspect = 0]
    BY <1>9, GoesAt, StaleHaveNoByte DEF ReaderClear, lockVars
  <2>2. \A f \in Envs : at[f] \in Using /\ env[f].slot # 0 =>
            /\ env[f].slot \in 1 .. mti_numreaders'
            /\ mti_readers'[env[f].slot] = mti_readers[env[f].slot]
    BY <1>0, <2>1, ClearingSpares DEF Owns
  <2>3. env'[e].slot = s /\ env'[e].live = env[e].live
    BY <1>0, <2>1 DEF Types, Fields
  <2>4. at[e] \in Using /\ at'[e] \in Using \ {"rlock", "claim"}
    BY <2>1 DEF Using
  <2>5. SlotRight(e)'
    BY <1>0, <2>1, <2>2, <2>3, <2>4, SlotCarried
  <2> QED
    BY <1>1, <1>2, <2>1, <2>2, <2>5, SlotsAround
<1> QED
  BY <1>3, <1>4, <1>5, <1>6, <1>7, <1>8, <1>9 DEF ReadStep

LEMMA WriterKeepsSlots ==
    ASSUME OpenedOnce, Types, SlotsRight, NEW e \in Envs,
           TxnBegin(e) \/ TxnAbort(e) \/ LockWriter(e) \/ WriteStep(e)
    PROVE  SlotsRight'
<1>0. /\ SlotRight(e) /\ env[e] \in Fields
      /\ \A f \in Envs : at[f] \in Using /\ env[f].slot # 0 => Owns(f)
  BY DEF SlotsRight, SlotRight, Types
<1>1. /\ at[e] \in {"open", "wlock", "recover", "locked", "write", "wrote"}
      /\ at'[e] \in {"open", "wlock", "recover", "locked", "write", "wrote"}
      /\ \A f \in Envs : f # e => at'[f] = at[f]
  BY GoesAt
  DEF TxnBegin, TxnAbort, LockWriter, WriteStep, RecoverWriter, TxnRenew, WriteMeta, TxnEnds
<1>2. /\ UNCHANGED <<pids, mti_numreaders>>
      /\ \/ mti_readers' = mti_readers
         \/ mti_readers' = WithoutPids(StalePids(ProcOf[e]))
      /\ env' = env \/ env' = [env EXCEPT ![e].txnid = mti_txnid + 1]
  BY DEF TxnBegin, TxnAbort, LockWriter, WriteStep, RecoverWriter, TxnRenew, WriteMeta, TxnEnds,
         lockVars, regionVars
<1>3. /\ env'[e].slot = env[e].slot /\ env'[e].live = env[e].live
      /\ \A f \in Envs : f # e => env'[f] = env[f]
  BY <1>0, <1>2 DEF Types, Fields
<1>4. \A f \in Envs : at[f] \in Using /\ env[f].slot # 0 =>
          /\ env[f].slot \in 1 .. mti_numreaders'
          /\ mti_readers'[env[f].slot] = mti_readers[env[f].slot]
  BY <1>0, <1>2, ClearingSpares, StaleHaveNoByte DEF Owns
<1>5. /\ at[e] \in Using /\ at'[e] \in Using \ {"rlock", "claim"}
      /\ at'[e] \notin {"claimed", "reading"}
  BY <1>1 DEF Using
<1>6. SlotRight(e)'
  BY <1>0, <1>2, <1>3, <1>4, <1>5, SlotCarried
<1> QED
  BY <1>1, <1>2, <1>3, <1>4, <1>6, SlotsAround

LEMMA SlotsStep ==
    ASSUME OpenedOnce, MutexInv, SlotsRight, [EnvNext]_vars
    PROVE  SlotsRight'
<1>0. Types /\ LocksRight
  BY DEF MutexInv
<1>1. ASSUME NEW e \in Envs, Asks(e) \/ GoesOn(e) PROVE SlotsRight'
  BY <1>0, <1>1, OpenKeepsSlots, CloseKeepsSlots, ReaderKeepsSlots, WriterKeepsSlots
  DEF Asks, GoesOn
<1>2. CASE UNCHANGED vars
  BY <1>2 DEF vars, lockVars, regionVars, SlotsRight, SlotRight, Owns
<1> QED
  BY <1>0, <1>1, <1>2, KillKeepsSlots DEF EnvNext

\* While a thread reads, its slot is its own, names its transaction and is among those that
\* writers look at: no repair, no check for stale readers and no closing takes it away,
\* because all of these ask for the byte its process holds.
THEOREM ReadersAreSeen ==
    ASSUME OpenedOnce
    PROVE  EnvSpec => []SlotProtects
<1>1. EnvInit => SlotsRight
  BY DEF EnvInit, ClosedEnv, SlotsRight, SlotRight, Using, Opening
<1>2. MutexInv /\ SlotsRight /\ [EnvNext]_vars => SlotsRight'
  BY SlotsStep
<1>3. MutexInv /\ SlotsRight => SlotProtects
  <2> SUFFICES ASSUME MutexInv, SlotsRight PROVE SlotProtects
    OBVIOUS
  <2>1. Types
    BY DEF MutexInv
  <2>2. EnvTypeOK
    BY <2>1 DEF Types, EnvTypeOK, Slot, Mutex, Fields
  <2>3. ASSUME NEW e \in Envs, at[e] = "reading"
        PROVE  /\ env[e].slot \in 1 .. mti_numreaders
               /\ mti_readers[env[e].slot] =
                      [pid |-> ProcOf[e], tid |-> e, txnid |-> env[e].txnid]
    <3>1. Owns(e)
      BY <2>3 DEF SlotsRight, SlotRight, Using
    <3>2. env[e].slot \in Slots
      BY <2>1, <3>1 DEF Owns, Types, Fields, Slots
    <3>3. mti_readers[env[e].slot] \in Slot
      BY <2>1, <3>2 DEF Types
    <3> QED
      BY <2>3, <3>1, <3>3 DEF Owns, Slot
  <2> QED
    BY <2>2, <2>3 DEF SlotProtects
<1> QED
  BY <1>1, <1>2, <1>3, MutexHolds, PTL DEF EnvSpec

-----------------------------------------------------------------------------
(* What the repair leaves *)

\* Only the repair itself takes a thread from there on, and it leaves in the table no
\* process but those that hold their byte and the one that repairs.
THEOREM RepairClearsTheDead == EnvSpec => DeadSlotsCleared
<1> DEFINE Repaired(e) ==
        at[e] = "recover" /\ at'[e] = "locked" =>
            \A i \in 1 .. mti_numreaders :
                mti_readers'[i].pid # 0 => mti_readers'[i].pid \in pids \cup {ProcOf[e]}
<1>1. ASSUME Types, NEW e \in Envs, RecoverWriter(e)
      PROVE  Repaired(e)
  <2> SUFFICES ASSUME NEW i \in 1 .. mti_numreaders, mti_readers'[i].pid # 0
               PROVE  mti_readers'[i].pid \in pids \cup {ProcOf[e]}
    OBVIOUS
  <2>1. mti_readers' = WithoutPids(StalePids(ProcOf[e]))
    BY <1>1 DEF RecoverWriter
  <2>2. i \in Slots /\ i <= mti_numreaders /\ mti_readers[i] \in Slot
    BY <1>1, ProcsAreNumbers DEF Types, Slots
  <2>3. mti_readers'[i].pid = mti_readers[i].pid /\ mti_readers[i].pid \notin StalePids(ProcOf[e])
    BY <2>1, <2>2 DEF WithoutPids, Slot
  <2> QED
    BY <2>3 DEF StalePids, Stale
<1>2. ASSUME Types, NEW e \in Envs, NEW f \in Envs, Asks(f) \/ GoesOn(f)
      PROVE  at[e] = "recover" /\ at'[e] = "locked" => RecoverWriter(e)
  <2> SUFFICES ASSUME at[e] = "recover", at'[e] = "locked" PROVE RecoverWriter(e)
    OBVIOUS
  <2>1. CASE ReaderDest(f)
    BY <2>1 DEF ReaderDest
  <2>2. CASE RecoverWriter(f)
    BY <1>2, <2>2, GoesAt DEF RecoverWriter
  <2>3. ASSUME NEW from, NEW to, from # "recover", Goes(f, from, to)
        PROVE  FALSE
    BY <1>2, <2>3, GoesAt
  <2>4. CASE EnvOpen(f) \/ CloseIdle(f) \/ CloseInTxn(f) \/ ReadBegin(f) \/ ReaderCheck(f)
             \/ TxnBegin(f) \/ TxnAbort(f)
    BY <2>3, <2>4
    DEF EnvOpen, CloseIdle, CloseInTxn, EnvClose, ReadBegin, ReaderCheck, TxnBegin, TxnAbort
  <2>5. CASE OpenStep(f)
    BY <2>3, <2>5 DEF OpenStep, ExclLock, SharedLock, SetupLocks, ShareLocks, Attach
  <2>6. CASE CloseStep(f)
    BY <2>3, <2>6 DEF CloseStep, CloseExcl, DestroyMutexes, CloseLockFile
  <2>7. CASE ReadStep(f) \/ LockWriter(f)
    BY <2>3, <2>7
    DEF ReadStep, LockReaders, ClaimSlot, ReadSnapshot, ReadEnds, ReaderClear, LockWriter
  <2>8. CASE TxnRenew(f) \/ WriteMeta(f) \/ TxnEnds(f)
    BY <2>3, <2>8 DEF TxnRenew, WriteMeta, TxnEnds
  <2> QED
    BY <1>2, <2>1, <2>2, <2>4, <2>5, <2>6, <2>7, <2>8 DEF Asks, GoesOn, WriteStep
<1>3. ASSUME Types, [EnvNext]_vars, NEW e \in Envs
      PROVE  Repaired(e)
  <2> SUFFICES ASSUME at[e] = "recover", at'[e] = "locked" PROVE RecoverWriter(e)
    BY <1>1, <1>3
  <2>1. ASSUME NEW p \in Procs, Kill(p) PROVE FALSE
    BY <1>3, <2>1 DEF Kill, Types
  <2>2. CASE UNCHANGED vars
    BY <2>2 DEF vars
  <2> QED
    BY <1>2, <1>3, <2>1, <2>2 DEF EnvNext
<1>4. Types /\ [EnvNext]_vars => [\A e \in Envs : Repaired(e)]_vars
  BY <1>3
<1>5. EnvSpec => []Types
  BY TypesInit, TypesStep, PTL DEF EnvSpec
<1> QED
  BY <1>4, <1>5, PTL DEF EnvSpec, DeadSlotsCleared
=============================================================================
