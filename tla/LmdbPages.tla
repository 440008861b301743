----------------------------- MODULE LmdbPages ------------------------------
(***************************************************************************)
(* The pages of an LMDB data file (lmdb/mdb.c): copy on write, the free    *)
(* list and how a commit saves it, spilled pages, nested transactions, the *)
(* two meta pages, readers that hold a snapshot, crashes and failed writes.*)
(*                                                                         *)
(* A tree is the set of its pages and a page the number of the write that  *)
(* gave it its contents: whether a page still holds what a snapshot says   *)
(* of it is what can go wrong here.  The free-list tree has one leaf.      *)
(***************************************************************************)
EXTENDS Integers, Sequences, FiniteSets, Functions, SequencesExt

\* What a budget bounds.
Kinds == {"txn", "abort", "child", "touch", "new", "new2", "loosen", "free", "free2", "drop",
          "overwrite", "spill", "read", "flush", "meta", "kill", "crash"}

CONSTANTS
    MaxPg,      \* me_maxpg: the map has the pages 0 .. MaxPg - 1
    PageWords,  \* words a page has room for
    NodeRoom,   \* longest list of page numbers that is kept in a leaf node
    UmMax,      \* MDB_IDL_UM_MAX: room for dirty pages
    SpillNeed,  \* pages spill when no more room than this is left
    Readers,
    Budgets     \* bounds: how often each kind of thing may happen

ASSUME LmdbPagesAssumption ==
    /\ MaxPg \in Nat /\ MaxPg > 2
    /\ PageWords \in Nat /\ PageWords > 3
    /\ {NodeRoom, UmMax, SpillNeed} \subseteq Nat
    /\ IsFiniteSet(Readers)     \* me_maxreaders
    /\ Budgets \subseteq [Kinds -> Nat]

VARIABLES
    file, disk, \* contents of each page: as the system sees it, and as it is safe
    metas,      \* the two meta pages; written with O_DSYNC, so safe when written
    mti_txnid,  \* the last transaction, as the lock file says
    readers,    \* reader table, and what each reader does
    at,         \* where the writer is
    txn, outer, \* its transaction, and the parents of it
    save,       \* registers of mdb_freelist_save
    fatal,      \* MDB_FATAL_ERROR
    left        \* bound: what may still happen

fileVars == <<file, disk, metas>>
readVars == <<mti_txnid, readers>>
vars     == <<fileVars, readVars, at, txn, outer, save, fatal, left>>

Pages == 2 .. MaxPg - 1

Least(S) == CHOOSE x \in S : \A y \in S : x <= y

Greatest(S) == CHOOSE x \in S : \A y \in S : y <= x

\* These numbers as a list, the smallest first.
Ascending(S) ==
    [i \in 1 .. Cardinality(S) |-> CHOOSE x \in S : Cardinality({y \in S : y < x}) = i - 1]

Without(f, S) == Restrict(f, DOMAIN f \ S)

\* f, and g where f is not defined.
Over(f, g) == [x \in DOMAIN f \cup DOMAIN g |-> IF x \in DOMAIN f THEN f[x] ELSE g[x]]

With(f, x, v) == Over([y \in {x} |-> v], f)

-----------------------------------------------------------------------------
(* Snapshots.  `pages` holds the first page of every page or run of overflow *)
(* pages: how many, what they contain, and whether the main tree owns them.  *)
(* `recs` is the free-list tree: by transaction, page numbers, the room of   *)
(* the record and its overflow pages, 0 when there are none.                 *)

Snapshot(t) == [txnid |-> t.txnid, pages |-> t.pages, root |-> t.root,
                recs |-> t.recs, last |-> t.next - 1, whole |-> TRUE]

\* mdb_env_init_meta0
EmptyMeta == [txnid |-> 0, pages |-> <<>>, root |-> 0, recs |-> <<>>, last |-> 1,
              whole |-> TRUE]

NoTxn == [txnid |-> 0, pages |-> <<>>, root |-> 0, recs |-> <<>>, next |-> 2,
          frees |-> <<>>, loose |-> <<>>, dirty |-> <<>>, spills |-> {}, marked |-> FALSE,
          room |-> UmMax, error |-> FALSE,
          listed |-> FALSE, pghead |-> {}, pglast |-> 0, oldest |-> 0]

NoSave == [pglast |-> 0, freecnt |-> 0, head |-> 0, hroom |-> 0, total |-> 0, more |-> 1]

Run(h, n) == h .. h + n - 1

Covered(pages) == UNION {Run(h, pages[h].n) : h \in DOMAIN pages}

\* mdb_env_pick_meta
PickMeta == IF metas[0].txnid < metas[1].txnid THEN metas[1] ELSE metas[0]

PagesInit ==
    /\ file = [p \in Pages |-> 0] /\ disk = file
    /\ metas = [m \in {0, 1} |-> EmptyMeta]
    /\ mti_txnid = 0
    /\ readers = [r \in Readers |-> [at |-> "idle", seen |-> 0, slot |-> -1, snap |-> EmptyMeta]]
    /\ at = "idle"
    /\ txn = NoTxn /\ outer = <<>>
    /\ save = NoSave
    /\ fatal = FALSE
    /\ left \in Budgets

\* One thing of this kind less.
Spend(kind) == left[kind] > 0 /\ left' = [left EXCEPT ![kind] = @ - 1]

\* Contents that nothing has, and nobody refers to.
Stamps(pages) == {pages[h].stamp : h \in DOMAIN pages}

Fresh ==
    LET used == Range(file) \cup Range(disk)
                \cup Stamps(txn.pages) \cup Stamps(metas[0].pages) \cup Stamps(metas[1].pages)
                \cup (UNION {Stamps(outer[i].pages) : i \in DOMAIN outer})
                \cup (UNION {Stamps(readers[r].snap.pages) : r \in Readers})
    IN Least(1 .. Cardinality(used) + 1 \ used)

-----------------------------------------------------------------------------
(* mdb_page_alloc *)

Slots == {readers[r].slot : r \in Readers} \ {-1}

\* Mutant of FindOldest: readers are not looked at.
OldestOfWriter(t) == t.txnid - 1

\* mdb_find_oldest
FindOldest(t) == Least({t.txnid - 1} \cup Slots)

\* Mutant of Older: also the record of the oldest transaction in use.
OlderOrSame(id, oldest) == id <= oldest

Older(id, oldest) == id < oldest

\* The records not yet merged into pghead that are old enough.
Fetchable(t, oldest) ==
    Ascending({id \in DOMAIN t.recs : id > t.pglast /\ Older(id, oldest)})

\* Where a run of num pages can start.
RunStarts(pgs, num) == {p \in pgs : Run(p, num) \subseteq pgs}

\* pghead with the first k of these records.
Merged(t, ids, k) == t.pghead \cup UNION {t.recs[ids[i]].ids : i \in 1 .. k}

\* How many of them it takes to find num pages in a row; all when they do not suffice.
Taken(t, ids, num) ==
    LET enough == {k \in 0 .. Len(ids) : RunStarts(Merged(t, ids, k), num) # {}}
    IN IF enough = {} THEN Len(ids) ELSE Least(enough)

Fetched(t, oldest, num) ==
    LET First(ids, k) ==
            IF k = 0 THEN t
            ELSE [t EXCEPT !.pghead = Merged(t, ids, k), !.listed = TRUE, !.pglast = ids[k]]
        From(ids) == First(ids, Taken(t, ids, num))
    IN From(Fetchable(t, oldest))

\* The oldest transaction is looked for only when the cached one is in the way.
Refreshed(t, num) ==
    LET InTheWay(f) ==
            /\ RunStarts(f.pghead, num) = {}
            /\ f.pglast + 1 >= t.oldest \/ \E id \in DOMAIN t.recs : id > f.pglast
    IN InTheWay(Fetched(t, t.oldest, num))

Refresh(t, num) == IF Refreshed(t, num) THEN [t EXCEPT !.oldest = FindOldest(t)] ELSE t

\* mdb_page_dirty
Dirtied(t, h, n) == [t EXCEPT !.dirty = With(@, h, n), !.room = @ - 1]

Failed(t) == [t EXCEPT !.error = TRUE]

\* A page of which nothing else is known yet: the transaction after it, and its number.
Alloc(t, num) ==
    LET At(f, p, next) ==
            IF next > f.next /\ next >= MaxPg
            THEN [t |-> Failed(f), page |-> 0]
            ELSE [t |-> Dirtied([f EXCEPT !.pghead = @ \ Run(p, num), !.next = next], p, num),
                  page |-> p]
        Found(f, starts) ==
            IF starts # {} THEN At(f, Least(starts), f.next) ELSE At(f, f.next, f.next + num)
        From(f)   == Found(f, RunStarts(f.pghead, num))
        Search(r) == From(Fetched(r, r.oldest, num))
    IN
    CASE num = 1 /\ t.loose # <<>> ->
           [t |-> [t EXCEPT !.loose = Tail(@)], page |-> Head(t.loose)]
      [] (num > 1 \/ t.loose = <<>>) /\ t.room = 0 ->
           [t |-> Failed(t), page |-> 0]
      [] (num > 1 \/ t.loose = <<>>) /\ t.room > 0 ->
           Search(Refresh(t, num))

-----------------------------------------------------------------------------
(* Writing, freeing and reading single pages *)

\* The transactions in the order mdb_page_get asks them, the youngest first.
Chain == <<txn>> \o outer

\* mdb_page_get: the youngest transaction that has spilled or dirtied the page.
HoldsDirty(h) ==
    LET knows == {i \in DOMAIN Chain : h \in Chain[i].spills \cup DOMAIN Chain[i].dirty}
    IN IF knows = {} THEN 0
       ELSE IF h \in Chain[Least(knows)].spills THEN 0 ELSE Least(knows)

\* mdb_page_unspill, by whichever transaction of the chain has spilled it.
Spilled(h) == \E i \in DOMAIN Chain : h \in Chain[i].spills

\* mdb_page_new
NewPage(t, num, main) ==
    LET On(a) ==
            IF a.page = 0 THEN a.t
            ELSE [a.t EXCEPT !.pages =
                     With(@, a.page, [n |-> num, stamp |-> Fresh, main |-> main])]
    IN On(Alloc(t, num))

Rewritten(t, h) == [t EXCEPT !.pages[h].stamp = Fresh]

\* Mutant of Freed: a page that was given up can be had again at once.
FreedAtOnce(t, h) == [t EXCEPT !.pghead = @ \cup {h}, !.listed = TRUE]

Freed(t, h) == [t EXCEPT !.frees = Append(@, h)]

\* mdb_page_touch, and the write it is for.
Touched(t, h) ==
    LET CopiedTo(a) ==
            IF a.page = 0 THEN a.t
            ELSE [Freed(a.t, h) EXCEPT
                     !.pages = With(Without(@, {h}), a.page, [t.pages[h] EXCEPT !.stamp = Fresh]),
                     !.root = IF @ = h THEN a.page ELSE @]
    IN
    IF h \in DOMAIN t.dirty THEN Rewritten(t, h)
    ELSE CASE HoldsDirty(h) > 0 -> Rewritten([t EXCEPT !.dirty = With(@, h, 1)], h)
           [] HoldsDirty(h) = 0 /\ Spilled(h) ->
                IF t.room = 0 THEN Failed(t)
                ELSE Rewritten(Dirtied([t EXCEPT !.spills = @ \ {h}], h, 1), h)
           [] HoldsDirty(h) = 0 /\ ~Spilled(h) -> CopiedTo(Alloc(t, 1))

\* mdb_page_loose, of a page of the main tree.
Loosened(t, h) ==
    LET out == [t EXCEPT !.pages = Without(@, {h})] IN
    IF h \in DOMAIN t.dirty THEN [out EXCEPT !.loose = <<h>> \o @] ELSE Freed(out, h)

\* mdb_ovpage_free
OverflowFreed(t, h) ==
    LET n   == t.pages[h].n
        out == [t EXCEPT !.pages = Without(@, {h})]
    IN
    IF t.listed /\ outer = <<>> /\ (h \in DOMAIN t.dirty \/ h \in t.spills)
    THEN [out EXCEPT !.pghead = @ \cup Run(h, n),
                     !.spills = @ \ {h},
                     !.dirty = Without(@, {h}),
                     !.room = IF h \in DOMAIN t.dirty THEN @ + 1 ELSE @]
    ELSE [out EXCEPT !.frees = @ \o [i \in 1 .. n |-> h + n - i]]

\* mdb_cursor_put over a value on overflow pages: in place when this transaction may
\* write there, else on new pages.
OverflowRewritten(t, h) ==
    IF h \in DOMAIN t.dirty THEN Rewritten(t, h)
    ELSE CASE HoldsDirty(h) > 0 -> Rewritten([t EXCEPT !.dirty = With(@, h, t.pages[h].n)], h)
           [] HoldsDirty(h) = 0 /\ Spilled(h) ->
                IF t.room = 0 THEN t
                ELSE Rewritten(Dirtied([t EXCEPT !.spills = @ \ {h}], h, t.pages[h].n), h)
           [] HoldsDirty(h) = 0 /\ ~Spilled(h) ->
                NewPage(OverflowFreed(t, h), t.pages[h].n, t.pages[h].main)

-----------------------------------------------------------------------------
(* Beginning a transaction, and what it does to the main tree *)

\* mdb_txn_begin and mdb_txn_renew0, with the writer's mutex.
TxnBegin ==
    /\ at = "idle"
    /\ ~fatal
    /\ Spend("txn")
    /\ LET m == metas[mti_txnid % 2] IN
       txn' = [NoTxn EXCEPT !.txnid = mti_txnid + 1, !.pages = m.pages, !.root = m.root,
                            !.recs = m.recs, !.next = m.last + 1, !.oldest = txn.oldest]
    /\ at' = "active"
    /\ UNCHANGED <<fileVars, readVars, outer, save, fatal>>

\* One write to the main tree.
Writes(kind, t) ==
    /\ at = "active" /\ ~txn.error
    /\ Spend(kind)
    /\ txn' = t
    /\ UNCHANGED <<fileVars, readVars, at, outer, save, fatal>>

Main(n) == {h \in DOMAIN txn.pages : txn.pages[h].main /\ txn.pages[h].n = n}

MainTouch == \E h \in Main(1) : Writes("touch", Touched(txn, h))

MainNew ==
    \/ Writes("new", NewPage(txn, 1, TRUE))
    \/ Writes("new2", NewPage(txn, 2, TRUE))

\* The leaves that a cursor has made dirty, on its way to what it changes.
DirtyLeaves == Main(1) \cap DOMAIN txn.dirty

\* Of two leaves that are merged (mdb_page_merge) the other was touched.
MainLoosen ==
    \E h \in Main(1) : DirtyLeaves \ {h} # {} /\ Writes("loosen", Loosened(txn, h))

\* mdb_rebalance, of a root: freed although dirty.
MainRootFreed ==
    \E h \in DirtyLeaves :
        Writes("free", Freed([txn EXCEPT !.pages = Without(@, {h})], h))

\* mdb_drop: the whole tree is freed, dirty or not.
MainDrop ==
    LET main == {h \in DOMAIN txn.pages : txn.pages[h].main} IN
    Writes("drop", [txn EXCEPT !.pages = Without(@, main), !.marked = TRUE,
                               !.frees = @ \o Ascending(Covered(Restrict(txn.pages, main)))])

MainOverflowFree ==
    \E h \in Main(2) : DirtyLeaves # {} /\ Writes("free2", OverflowFreed(txn, h))

MainOverwrite == \E h \in Main(2) : Writes("overwrite", OverflowRewritten(txn, h))

\* The contents of the file when the pages hs have been written to it.
FileWith(hs) ==
    [p \in Pages |->
        LET h == {x \in hs : p \in Run(x, txn.dirty[x])} IN
        IF h = {} THEN file[p]
        ELSE LET x == CHOOSE x \in h : TRUE IN
             IF x \in DOMAIN txn.pages THEN txn.pages[x].stamp ELSE -1]

Spillable == {h \in DOMAIN txn.dirty \ ToSet(txn.loose) :
                 \A i \in DOMAIN outer : h \notin outer[i].spills}

\* What spilling the pages hs leaves of the transaction.
SpilledOut(t, hs) ==
    [t EXCEPT !.spills = @ \cup hs, !.dirty = Without(@, hs), !.marked = TRUE,
              !.room = @ + Cardinality(hs)]

\* mdb_page_spill, of whichever pages no cursor is at.
PageSpill ==
    /\ at = "active" /\ ~txn.error
    /\ Spend("spill")
    /\ txn.room <= SpillNeed
    /\ \E hs \in SUBSET Spillable :
           /\ file' = FileWith(hs)
           /\ txn' = SpilledOut(txn, hs)
    /\ UNCHANGED <<disk, metas, readVars, at, outer, save, fatal>>

-----------------------------------------------------------------------------
(* Nested transactions *)

ChildBegin ==
    /\ at = "active" /\ ~txn.error
    /\ Spend("child")
    /\ outer = <<>>
    /\ outer' = <<txn>>
    /\ txn' = [txn EXCEPT !.frees = <<>>, !.loose = <<>>, !.dirty = <<>>, !.spills = {}]
    /\ UNCHANGED <<fileVars, readVars, at, save, fatal>>

\* The parent goes on with the free pages it had.
ChildAbort ==
    /\ at = "active"
    /\ outer # <<>>
    /\ txn' = [Head(outer) EXCEPT !.oldest = txn.oldest]
    /\ outer' = Tail(outer)
    /\ UNCHANGED <<fileVars, readVars, at, save, fatal, left>>

\* Mutant of MergedSpills: the child's dirty pages stay on the parent's spill list.
MergedSpillsKept(parent, child) == parent.spills \cup child.spills

MergedSpills(parent, child) == (parent.spills \ DOMAIN child.dirty) \cup child.spills

ChildCommit ==
    /\ at = "active" /\ ~txn.error
    /\ outer # <<>>
    /\ LET parent == Head(outer) IN
       txn' = [txn EXCEPT
                  !.frees  = parent.frees \o @,
                  !.loose  = parent.loose \o @,
                  !.dirty  = Over(@, Without(parent.dirty, txn.spills)),
                  !.spills = MergedSpills(parent, txn)]
    /\ outer' = Tail(outer)
    /\ UNCHANGED <<fileVars, readVars, at, save, fatal, left>>

-----------------------------------------------------------------------------
(* mdb_txn_commit up to the free list *)

Ended == [NoTxn EXCEPT !.oldest = txn.oldest]

TxnEnds ==
    /\ txn' = Ended /\ outer' = <<>>
    /\ at' = "idle"
    /\ save' = NoSave

\* mdb_txn_abort, by the caller or because something has failed.
TxnAbort ==
    /\ \/ at = "active" /\ Spend("abort")
       \/ at = "active" /\ txn.error /\ UNCHANGED left
       \/ at = "failed" /\ UNCHANGED left
    /\ TxnEnds
    /\ UNCHANGED <<fileVars, readVars, fatal>>

\* Mutant of Written: the flags are not looked at.
WrittenDirty == txn.dirty # <<>>

\* MDB_TXN_DIRTY and MDB_TXN_SPILLS: to be written, even if nothing is dirty.
Written == txn.dirty # <<>> \/ txn.marked

CommitEmpty ==
    /\ at = "active" /\ ~txn.error /\ outer = <<>>
    /\ ~Written
    /\ TxnEnds
    /\ UNCHANGED <<fileVars, readVars, fatal, left>>

\* A step of the commit: what it leaves of the transaction, and where it goes on.
Saves(t, next) ==
    /\ txn' = t
    /\ at' = IF t.error THEN "failed" ELSE next
    /\ UNCHANGED <<fileVars, readVars, outer, fatal, left>>

RootTouched(t) == IF t.root = 0 THEN t ELSE Touched(t, t.root)

\* Loose pages are freed when there may be no list to return them to.
LooseFreed(t) ==
    IF t.listed \/ t.loose = <<>> THEN t
    ELSE [t EXCEPT !.frees = @ \o t.loose, !.loose = <<>>,
                   !.dirty = Without(@, ToSet(t.loose))]

CommitBegins ==
    /\ at = "active" /\ ~txn.error /\ outer = <<>>
    /\ Written
    /\ Saves(LooseFreed(IF txn.listed THEN RootTouched(txn) ELSE txn), "save")
    /\ save' = NoSave

-----------------------------------------------------------------------------
(* mdb_freelist_save.  Each of its steps may take pages from the very list  *)
(* it saves, and add to it.                                                 *)

\* OVPAGES and me_maxfree_1pg
OvPages(len) == 1 + (len + 2) \div PageWords

MaxFree1Pg == PageWords - 3

\* An IDL of this length put under this number: mdb_cursor_put with MDB_RESERVE.
PutRecord(t, id, len) ==
    LET had     == id \in DOMAIN t.recs /\ t.recs[id].ov # 0
        inPlace == had /\ OvPages(len) <= t.pages[t.recs[id].ov].n
                       /\ t.recs[id].ov \in DOMAIN t.dirty
        record(ov) == [ids |-> {}, room |-> len, ov |-> ov]
        Added(t2, t3) == CHOOSE h \in DOMAIN t3.pages \ DOMAIN t2.pages : TRUE
        Rooted(new)   == IF new.error THEN new ELSE [new EXCEPT !.root = Added(t, new)]
        Reserved(t2, t3) ==
            [t3 EXCEPT !.recs =
                With(@, id, record(IF len > NodeRoom /\ ~t3.error THEN Added(t2, t3) ELSE 0))]
        Replaced(t2) ==
            Reserved(t2, IF len > NodeRoom THEN NewPage(t2, OvPages(len), FALSE) ELSE t2)
        PutIn(t1) ==
            IF t1.error THEN t1
            ELSE IF inPlace THEN [t1 EXCEPT !.recs[id] = record(@.ov)]
            ELSE Replaced(IF had THEN OverflowFreed(t1, t.recs[id].ov) ELSE t1)
    IN PutIn(IF t.root # 0 THEN Touched(t, t.root) ELSE Rooted(NewPage(t, 1, FALSE)))

\* The records that were read are deleted, and with them those reserved so far.
SaveDelete ==
    /\ at = "save"
    /\ save.pglast < txn.pglast
    /\ LET id == Least(DOMAIN txn.recs)
           Emptied(t) == IF t.recs # <<>> THEN t
                         ELSE Freed([t EXCEPT !.pages = Without(@, {t.root}), !.root = 0], t.root)
           Gone(t)    == Emptied([t EXCEPT !.recs = Without(@, {id})])
           Deleted(t) == IF t.error THEN t
                         ELSE Gone(IF txn.recs[id].ov = 0 THEN t
                                   ELSE OverflowFreed(t, txn.recs[id].ov))
       IN
       /\ Saves(Deleted(Touched(txn, txn.root)), "save")
       /\ save' = [save EXCEPT !.pglast = id, !.head = id, !.total = 0, !.hroom = 0]

\* Mutant of FreesSaved: whether the list has grown since is not looked at.
FreesSavedOnce == save.freecnt > 0

FreesSaved == save.freecnt >= Len(txn.frees)

\* The pages this transaction has freed, in one record; again while that frees more.
SaveFrees ==
    /\ \/ at = "save" /\ save.pglast >= txn.pglast
       \/ at = "frees"
    /\ ~FreesSaved
    /\ \E t \in {IF save.freecnt = 0 THEN RootTouched(txn) ELSE txn} :
           /\ Saves(IF t.error THEN t ELSE PutRecord(t, txn.txnid, Len(t.frees)), "frees")
           /\ save' = [save EXCEPT !.freecnt = Len(t.frees)]

SaveFreesDone ==
    /\ at = "frees"
    /\ FreesSaved
    /\ Saves([txn EXCEPT !.recs[txn.txnid].ids = ToSet(txn.frees)], "save")
    /\ UNCHANGED save

MopLen == Cardinality(txn.pghead) + Len(txn.loose)

Reserving ==
    /\ at = "save"
    /\ save.pglast >= txn.pglast
    /\ FreesSaved

\* There is room for the whole list, or one attempt too many to make it fit better.
RoomSuffices == save.total = MopLen \/ (save.total > MopLen /\ save.more = 0)

\* The room the record `s.head` gets.
RoomFor(s) ==
    LET rest == MopLen - (s.total - s.hroom)
        part == rest \div s.head
    IN IF rest > MaxFree1Pg /\ s.head > 1
       THEN part + MaxFree1Pg - (part % (MaxFree1Pg + 1))
       ELSE IF rest < 0 THEN 0 ELSE rest

SaveReserve ==
    /\ Reserving /\ ~RoomSuffices
    /\ LET again == save.total >= MopLen
           next  == ~again /\ save.hroom >= MaxFree1Pg /\ save.head > 1
       IN
       \E s \in {IF again THEN [save EXCEPT !.more = @ - 1]
                 ELSE IF next THEN [save EXCEPT !.head = @ - 1, !.hroom = 0] ELSE save} :
           /\ Saves(PutRecord(txn, s.head, RoomFor(s)), "save")
           /\ save' = [s EXCEPT !.hroom = RoomFor(s), !.total = s.total - s.hroom + RoomFor(s)]

\* Where the record's part of the list begins, the smallest numbers first.
RoomBefore(id) ==
    LET room[n \in 0 .. id] ==
            IF n = 0 THEN 0
            ELSE room[n - 1] + IF n - 1 \in DOMAIN txn.recs THEN txn.recs[n - 1].room ELSE 0
    IN room[id]

\* The loose pages go back to the list, and the list into the records reserved for it.
SaveFill ==
    /\ Reserving /\ RoomSuffices
    /\ LET all  == txn.pghead \cup ToSet(txn.loose)
           pgs  == Ascending(all)
           part(id) == {pgs[i] : i \in {k \in 1 .. Len(pgs) :
                           /\ k > RoomBefore(id)
                           /\ k <= RoomBefore(id) + txn.recs[id].room}}
       IN Saves([txn EXCEPT !.recs = [id \in DOMAIN @ |->
                                        IF RoomBefore(id) < Len(pgs)
                                        THEN [@[id] EXCEPT !.ids = part(id)] ELSE @[id]],
                            !.pghead = all, !.loose = <<>>], "flush")
    /\ UNCHANGED save

-----------------------------------------------------------------------------
(* The end of the commit *)

\* mdb_page_flush
PageFlush ==
    /\ at = "flush"
    /\ file' = FileWith(DOMAIN txn.dirty)
    /\ at' = "sync"
    /\ UNCHANGED <<disk, metas, readVars, txn, outer, save, fatal, left>>

\* A write or the sync fails: some of the pages are in the file, and stay there.
FlushFails ==
    /\ at = "flush"
    /\ \E hs \in SUBSET DOMAIN txn.dirty : file' = FileWith(hs)
    /\ at' = "failed"
    /\ Spend("flush")
    /\ UNCHANGED <<disk, metas, readVars, txn, outer, save, fatal>>

\* mdb_env_sync0
Synced == file

EnvSync ==
    /\ at = "sync"
    /\ disk' = Synced
    /\ at' = "meta"
    /\ UNCHANGED <<file, metas, readVars, txn, outer, save, fatal, left>>

Toggle == txn.txnid % 2

\* mdb_env_write_meta
WriteMeta ==
    /\ at = "meta"
    /\ metas' = [metas EXCEPT ![Toggle] = Snapshot(txn)]
    /\ at' = "publish"
    /\ UNCHANGED <<file, disk, readVars, txn, outer, save, fatal, left>>

\* The write fails: of the old meta page only two fields are written back.
WriteMetaFails ==
    /\ at = "meta"
    /\ metas' = [metas EXCEPT ![Toggle] = [Snapshot(txn) EXCEPT !.txnid = metas[Toggle].txnid,
                                                                !.last = metas[Toggle].last,
                                                                !.whole = FALSE]]
    /\ fatal' = TRUE
    /\ Spend("meta")
    /\ at' = "failed"
    /\ UNCHANGED <<file, disk, readVars, txn, outer, save>>

Publish ==
    /\ at = "publish"
    /\ mti_txnid' = txn.txnid
    /\ TxnEnds
    /\ UNCHANGED <<fileVars, readers, fatal, left>>

\* After a fatal error only another environment can write.
Reopen ==
    /\ at = "idle" /\ fatal
    /\ fatal' = FALSE
    /\ txn' = NoTxn
    /\ UNCHANGED <<fileVars, readVars, at, outer, save, left>>

-----------------------------------------------------------------------------
(* Readers: mdb_txn_renew0 of a read-only transaction *)

Reads(r, at_r, f) ==
    /\ readers' = [readers EXCEPT ![r] = [f EXCEPT !.at = at_r]]
    /\ UNCHANGED <<fileVars, mti_txnid, at, txn, outer, save, fatal>>

ReaderLooks(r) ==
    /\ readers[r].at = "idle"
    /\ Spend("read")
    /\ Reads(r, "looked", [readers[r] EXCEPT !.seen = mti_txnid])

ReaderClaims(r) ==
    /\ readers[r].at = "looked"
    /\ Reads(r, "claimed", [readers[r] EXCEPT !.slot = readers[r].seen])
    /\ UNCHANGED left

\* Mutant of StillNewest: what the reader wrote into its slot is not checked again.
NotNewer(r) == readers[r].slot <= mti_txnid

StillNewest(r) == readers[r].slot = mti_txnid

ReaderChecks(r) ==
    /\ readers[r].at = "claimed"
    /\ IF StillNewest(r)
       THEN Reads(r, "checked", readers[r])
       ELSE Reads(r, "looked", [readers[r] EXCEPT !.seen = mti_txnid])
    /\ UNCHANGED left

ReaderCopies(r) ==
    /\ readers[r].at = "checked"
    /\ Reads(r, "reading", [readers[r] EXCEPT !.snap = metas[readers[r].slot % 2]])
    /\ UNCHANGED left

\* mdb_txn_end
ReaderEnds(r) ==
    /\ readers[r].at = "reading"
    /\ Reads(r, "idle", [readers[r] EXCEPT !.slot = -1, !.seen = 0, !.snap = EmptyMeta])
    /\ UNCHANGED left

-----------------------------------------------------------------------------
(* Crashes *)

\* The writer's process is killed.
WriterKilled ==
    /\ at \notin {"idle", "dead"}
    /\ Spend("kill")
    /\ at' = "dead"
    /\ txn' = NoTxn /\ outer' = <<>> /\ save' = NoSave
    /\ fatal' = FALSE
    /\ UNCHANGED <<fileVars, readVars>>

TxnidAfterKill == PickMeta.txnid

\* mdb_mutex_failed, by the next to lock the writer's mutex.
MutexFailed ==
    /\ at = "dead"
    /\ mti_txnid' = TxnidAfterKill
    /\ at' = "idle"
    /\ UNCHANGED <<fileVars, readers, txn, outer, save, fatal, left>>

\* The machine crashes: of what was not synced any page may be lost.  Those who open
\* the environment next make the lock file anew (mdb_env_share_locks).
Crash ==
    /\ Spend("crash")
    /\ \E lost \in SUBSET {p \in Pages : file[p] # disk[p]} :
           file' = [p \in Pages |-> IF p \in lost THEN disk[p] ELSE file[p]]
    /\ disk' = file'
    /\ mti_txnid' = PickMeta.txnid
    /\ readers' = [r \in Readers |-> [at |-> "idle", seen |-> 0, slot |-> -1, snap |-> EmptyMeta]]
    /\ at' = "idle"
    /\ txn' = NoTxn /\ outer' = <<>> /\ save' = NoSave
    /\ fatal' = FALSE
    /\ UNCHANGED <<metas>>

-----------------------------------------------------------------------------
MainStep ==
    \/ MainTouch \/ MainNew \/ MainLoosen \/ MainRootFreed
    \/ MainDrop \/ MainOverflowFree \/ MainOverwrite \/ PageSpill

ChildStep == ChildBegin \/ ChildAbort \/ ChildCommit

SaveStep == SaveDelete \/ SaveFrees \/ SaveFreesDone \/ SaveReserve \/ SaveFill

CommitStep ==
    \/ CommitBegins \/ CommitEmpty \/ SaveStep
    \/ PageFlush \/ EnvSync \/ WriteMeta \/ Publish

Fault == FlushFails \/ WriteMetaFails \/ WriterKilled \/ Crash

Recovery == MutexFailed \/ Reopen

ReaderStep(r) ==
    \/ ReaderLooks(r) \/ ReaderClaims(r) \/ ReaderChecks(r)
    \/ ReaderCopies(r) \/ ReaderEnds(r)

PagesNext ==
    \/ TxnBegin \/ TxnAbort
    \/ MainStep \/ ChildStep \/ CommitStep
    \/ Fault \/ Recovery
    \/ \E r \in Readers : ReaderStep(r)

PagesSpec == PagesInit /\ [][PagesNext]_vars

Saving == at \in {"save", "frees"}

\* The writer's thread goes on with a list it has begun to save.  One of its steps is
\* always possible there, which makes this WF_vars(SaveStep).
SaveFairness == []<>~Saving \/ []<><<SaveStep>>_vars

PagesFairSpec == PagesSpec /\ SaveFairness

-----------------------------------------------------------------------------
(* What the pages promise *)

PagesTypeOK ==
    /\ file \in [Pages -> Int] /\ disk \in [Pages -> Int]
    /\ mti_txnid \in Nat
    /\ at \in {"idle", "active", "save", "frees", "flush", "sync", "meta", "publish",
               "failed", "dead"}
    /\ txn.room \in 0 .. UmMax
    /\ txn.pghead \subseteq Pages /\ ToSet(txn.frees) \subseteq Pages
    /\ Covered(txn.pages) \subseteq Pages
    /\ save.head \in Nat /\ save.hroom \in Nat /\ save.total \in Nat

\* Does the file hold what the snapshot says?
Intact(contents, snap) ==
    \A h \in DOMAIN snap.pages :
        \A p \in Run(h, snap.pages[h].n) : contents[p] = snap.pages[h].stamp

\* Nothing of the last two commits is overwritten, whatever the writer does next, and
\* all of both is safe: a crash at any time leaves the last as it was, and the one before
\* it to be opened with MDB_PREVSNAPSHOT, unless the write of its meta page has failed.
CommitIntact ==
    \A m \in {0, 1} :
        metas[m].whole => Intact(file, metas[m]) /\ Intact(disk, metas[m])

\* So for the snapshot a reader has: no page of it is given out again, as long as the
\* meta page that the reader copied was not one whose write has failed.
SnapshotIntact ==
    \A r \in Readers :
        readers[r].at = "reading" /\ readers[r].snap.whole => Intact(file, readers[r].snap)

\* The same of any meta page.  It does not hold: of one whose write has failed the number
\* is that of the page before, and the roots are those of the failed transaction.
EverySnapshotIntact ==
    \A r \in Readers : readers[r].at = "reading" => Intact(file, readers[r].snap)

\* No transaction, nor one nested in it, sees any but its own version of a page,
\* wherever the newest copy is: in a dirty list, spilled, or never written to.
SeesItsPages ==
    at = "active" =>
        \A h \in DOMAIN txn.pages :
            LET i == HoldsDirty(h) IN
            IF i > 0 THEN h \in DOMAIN Chain[i].pages
                          /\ Chain[i].pages[h].stamp = txn.pages[h].stamp
            ELSE \A p \in Run(h, txn.pages[h].n) : file[p] = txn.pages[h].stamp

\* Each page up to the last is in use once or free once, and none is lost.
Listed(snap) == UNION {snap.recs[id].ids : id \in DOMAIN snap.recs}

PagesAccounted ==
    LET snap == PickMeta IN
    /\ Covered(snap.pages) \cap Listed(snap) = {}
    /\ Covered(snap.pages) \cup Listed(snap) = 2 .. snap.last
    /\ \A h, k \in DOMAIN snap.pages :
           h # k => Run(h, snap.pages[h].n) \cap Run(k, snap.pages[k].n) = {}
    /\ \A id, other \in DOMAIN snap.recs :
           id # other => snap.recs[id].ids \cap snap.recs[other].ids = {}

\* The room left counts each dirty page of the transaction and its parents once: so
\* the merge of the lists ends where mdb_txn_commit asserts.
RoomCounts ==
    at = "active" =>
        txn.room = UmMax - Cardinality(
            DOMAIN txn.dirty \cup UNION {DOMAIN outer[i].dirty \ txn.spills : i \in DOMAIN outer})

\* The assertions of mdb_freelist_save: only records already read are deleted, the
\* list fits in the room reserved, and only in records no reader can need.
ListFits ==
    /\ at = "save" /\ save.pglast < txn.pglast =>
           DOMAIN txn.recs # {} /\ Least(DOMAIN txn.recs) <= txn.pglast
    /\ Reserving /\ RoomSuffices =>
           \A id \in DOMAIN txn.recs :
               id > txn.pglast => RoomBefore(id) >= MopLen

\* mdb_audit ("Check that all pages in the file are accounted for") after each step,
\* together with the counts that the transaction keeps of its pages.
Audit == PagesTypeOK /\ PagesAccounted /\ RoomCounts /\ ListFits

\* What a transaction has made of the main tree.
MainTree(pages) == Restrict(pages, {h \in DOMAIN pages : pages[h].main})

\* A commit that writes nothing has nothing to write: what it was to commit is what the
\* newest meta page says already.
NothingUnwritten ==
    at = "active" /\ outer = <<>> /\ ~txn.error /\ ~Written =>
        MainTree(txn.pages) = MainTree(PickMeta.pages)

-----------------------------------------------------------------------------
(* What it comes to: a store whose versions are what the pages of the main  *)
(* tree hold                                                                 *)

\* By the pages that the tree is said to have: what they hold, and what they should.
Found(contents, pages) ==
    [h \in DOMAIN MainTree(pages) |-> [p \in Run(h, pages[h].n) |-> contents[p]]]

Meant(pages) ==
    [h \in DOMAIN MainTree(pages) |-> [p \in Run(h, pages[h].n) |-> pages[h].stamp]]

\* None, when the write of the meta page has failed.
FoundBy(snap) == IF snap.whole THEN {Found(file, snap.pages)} ELSE {}

VersionsWorkedOn ==
    IF at \in {"active", "save", "frees", "flush", "sync", "meta"}
    THEN [i \in DOMAIN Chain |-> Meant(Chain[i].pages)]
    ELSE <<>>

ReadBy(r) ==
    CASE readers[r].at = "checked" -> [at |-> "asked", of |-> FoundBy(metas[readers[r].slot % 2])]
      [] readers[r].at = "reading" -> [at |-> "reading", of |-> FoundBy(readers[r].snap)]
      [] readers[r].at \notin {"checked", "reading"} -> [at |-> "none", of |-> {}]

NewestVersion == Found(disk, PickMeta.pages)

ShownVersion == Found(file, metas[mti_txnid % 2].pages)

VersionsRead == [r \in Readers |-> ReadBy(r)]

Store == INSTANCE AtomicStore WITH
    db    <- NewestVersion,
    shown <- ShownVersion,
    work  <- VersionsWorkedOn,
    reads <- VersionsRead

\* The data file is an atomic store: a transaction, however many pages it wrote, is
\* committed by the write of one meta page and not before; no crash, kill, failed write
\* or abort takes the last commit away or leaves part of another, not even one in the
\* middle of saving the free list, which moves pages; and a reader keeps the version that
\* was the newest published when it looked for the last time, or a later one.  A commit that
\* finds nothing to write may say that it is done, as its version is the newest there is.
IsAtomicStore == Store!StoreSpec /\ []NothingUnwritten

\* Saving the list, which changes the list, comes to an end.
SaveEnds == Saving ~> ~Saving
=============================================================================
