---------------------------- MODULE AtomicStore ----------------------------
(***************************************************************************)
(* What a data file is for: one version of the data that no failure takes  *)
(* away, a writer that makes the next one out of sight, and readers that   *)
(* keep the version they were given.                                       *)
(***************************************************************************)
EXTENDS Naturals, Sequences

CONSTANT Readers

VARIABLES
    db,     \* the newest version, which survives everything
    shown,  \* the newest that readers are told of
    work,   \* the writer's version, and those of the transactions it is nested in
    reads   \* what each reader does, and the version it gets, if it is sure to get one

storeVars == <<db, shown, work, reads>>

Nothing == [at |-> "none", of |-> {}]

StoreInit ==
    /\ shown = db
    /\ work = <<>>
    /\ reads = [r \in Readers |-> Nothing]

(* The writer *)

Works == work # <<>> /\ UNCHANGED <<db, shown, reads>>

Begin  == work = <<>> /\ shown = db /\ work' = <<db>> /\ UNCHANGED <<db, shown, reads>>

Change == Works /\ Len(work') = Len(work) /\ Tail(work') = Tail(work)

Nest   == Works /\ work' = <<Head(work)>> \o work

Merge  == Works /\ Len(work) > 1 /\ work' = <<Head(work)>> \o Tail(Tail(work))

Undo   == Works /\ Len(work) > 1 /\ work' = Tail(work)

GiveUp == Works /\ work' = <<>>

\* Readers that have asked, and not read, get what they were to get, or this.
AskersGet(this) ==
    /\ DOMAIN reads' = Readers
    /\ \A r \in Readers :
           \/ reads'[r] = reads[r]
           \/ reads[r].at = "asked" /\ reads'[r] = [at |-> "asked", of |-> this]

Commit ==
    /\ Len(work) = 1
    /\ db' = Head(work) /\ work' = <<>>
    /\ AskersGet({db'})
    /\ UNCHANGED shown

Show == shown' = db /\ UNCHANGED <<db, work, reads>>

\* A commit fails while it is being written: nothing changes but what an asker is sure of.
Fail ==
    /\ work # <<>> /\ work' = <<>>
    /\ AskersGet({})
    /\ UNCHANGED <<db, shown>>

(* Readers *)

Becomes(r, at, of) ==
    /\ reads' = [reads EXCEPT ![r] = [at |-> at, of |-> of]]
    /\ UNCHANGED <<db, shown, work>>

Ask(r)  == reads[r].at = "none" /\ Becomes(r, "asked", {shown})

Read(r) == reads[r].at = "asked" /\ Becomes(r, "reading", reads[r].of)

End(r)  == reads[r].at = "reading" /\ Becomes(r, "none", {})

(* The machine *)

Crash ==
    /\ shown' = db /\ work' = <<>> /\ reads' = [r \in Readers |-> Nothing]
    /\ UNCHANGED db

StoreNext ==
    \/ Begin \/ Change \/ Nest \/ Merge \/ Undo \/ GiveUp
    \/ Commit \/ Show \/ Fail \/ Crash
    \/ \E r \in Readers : Ask(r) \/ Read(r) \/ End(r)

StoreSpec == StoreInit /\ [][StoreNext]_storeVars
=============================================================================
