--------------------------- MODULE LmdbPagesProofs ----------------------------
(***************************************************************************)
(* Proofs about LmdbPages, for any number of pages, readers and steps:     *)
(* nothing of the last two commits, of a reader's snapshot, or of what a   *)
(* transaction has written is overwritten while it may be needed, no page  *)
(* is ever lost or used twice, and the whole is an atomic store.           *)
(*                                                                         *)
(* The inductive invariant, PagesInv, says eight things.  The numbers of   *)
(* the meta pages, the lock file and the readers' slots are in step.  The  *)
(* newest snapshot is one to build on: each page up to the last is in use  *)
(* once or free once.  What is in use (the snapshot of a whole meta page,  *)
(* or of a reader) is spared by the writer: it is on no list the writer    *)
(* takes pages from, nor will it get there before the reader is gone.  The *)
(* writer and its parent keep their books.  While the free list is saved,  *)
(* the records to be deleted and those reserved are told apart, and the    *)
(* room reserved is what the registers say.  What is about to be committed *)
(* is in the file, then on the disk, and is itself a snapshot to build on. *)
(* The room left and the dirty pages counted make up the whole.  Numbers   *)
(* are numbers, and within bounds.                                         *)
(*                                                                         *)
(* One lemma per action shows that it is kept, most of them from the       *)
(* lemmas on moves.  The refinement of AtomicStore and the commit that     *)
(* writes nothing come last.                                               *)
(***************************************************************************)
EXTENDS LmdbPagesMoves

\* A snapshot that a transaction may build on.
Sound(snap) ==
    /\ snap.txnid \in Nat /\ snap.root \in Nat /\ snap.last \in Nat
    /\ 1 <= snap.last /\ snap.last < MaxPg
    /\ IsPages(snap.pages) /\ IsRecs(snap.recs)
    /\ \A id \in DOMAIN snap.recs : 0 < id /\ id <= snap.txnid
    /\ \A h, k \in DOMAIN snap.pages :
           h = k \/ Run(h, snap.pages[h].n) \cap Run(k, snap.pages[k].n) = {}
    /\ Covered(snap.pages) \cup Listed(snap) = 2 .. snap.last
    /\ \A id \in DOMAIN snap.recs :
           /\ snap.recs[id].ids \subseteq 2 .. snap.last
           /\ snap.recs[id].ids \cap Covered(snap.pages) = {}
    /\ RecordsApart(snap.recs, DOMAIN snap.recs)
    /\ FreeTree(snap.pages, snap.root, snap.recs)

\* No page of P, the pages of a snapshot at s, is in a record a later transaction may read
\* while s is in use.
Keeps(snap, P, s) ==
    /\ P \subseteq 2 .. snap.last
    /\ \A id \in DOMAIN snap.recs : id <= s => snap.recs[id].ids \cap P = {}

Writing == at \in {"active", "save", "frees"}

Ending == at \in {"flush", "sync", "meta"}

\* The numbers of the meta pages.
Counted ==
    /\ DOMAIN metas = {0, 1}
    /\ mti_txnid \in Nat
    /\ \A m \in {0, 1} : metas[m].txnid \in Nat
    /\ PickMeta.whole
    /\ LET new == PickMeta.txnid IN
       /\ metas[new % 2] = PickMeta
       /\ metas[(new + 1) % 2].txnid = IF new = 0 THEN 0 ELSE new - 1
       /\ at \notin {"publish", "dead"} => mti_txnid = new
       /\ at = "publish" => mti_txnid + 1 = new
       /\ at = "dead" => mti_txnid <= new /\ new <= mti_txnid + 1
    /\ at \notin {"idle", "dead"} => txn.txnid = mti_txnid + 1
    /\ txn.oldest \in Nat /\ txn.oldest <= mti_txnid

\* A reader's slot, once it has been checked, keeps the oldest from going beyond it.
ReadersCounted ==
    /\ DOMAIN readers = Readers
    /\ \A r \in Readers :
        /\ readers[r] = [at |-> readers[r].at, seen |-> readers[r].seen,
                         slot |-> readers[r].slot, snap |-> readers[r].snap]
        /\ readers[r].at \in {"idle", "looked", "claimed", "checked", "reading"}
        /\ readers[r].seen \in Nat /\ readers[r].slot \in Nat \cup {-1}
        /\ readers[r].seen <= mti_txnid /\ readers[r].slot <= mti_txnid
        /\ readers[r].at = "claimed" => readers[r].slot # -1
        /\ readers[r].at \in {"checked", "reading"} =>
               readers[r].slot # -1 /\ txn.oldest <= readers[r].slot
        /\ readers[r].at = "checked" => readers[r].slot <= metas[readers[r].slot % 2].txnid

\* The writer will not write to the pages P, of a snapshot at s.
Spared(P, s) ==
    /\ Keeps(PickMeta, P, s)
    /\ Writing /\ ~txn.error => Spares(txn, Parent, P, s)
    /\ at = "active" /\ outer # <<>> => Spares(Parent, NoTxn, P, s)
    /\ at = "flush" => DirtyPages(txn) \cap P = {}
    /\ Ending => Keeps(Snapshot(txn), P, s)

MetasSpared == \A m \in {0, 1} : metas[m].whole => Spared(Covered(metas[m].pages), metas[m].txnid)

ReadersSpared ==
    \A r \in Readers : readers[r].at = "reading" /\ readers[r].snap.whole =>
        Spared(Covered(readers[r].snap.pages), readers[r].slot)

\* A transaction with its books, its pages and its free-list tree in order.
InOrder(contents, t, u) == Books(t, u, {}) /\ InPlace(contents, t, u) /\ TreeOf(t)

\* The free list is as the last commit left it, and read as far as one of its records.
Unsaved(t) ==
    /\ t.txnid \notin DOMAIN t.recs
    /\ t.pglast = 0 \/ t.pglast \in DOMAIN t.recs

\* The transactions of the writer.
WriterRight ==
    /\ outer # <<>> => outer = <<Head(outer)>> /\ at = "active"
    /\ Writing /\ ~txn.error => InOrder(file, txn, Parent)
    /\ at = "active" /\ ~txn.error => Unsaved(txn)
    /\ outer # <<>> => /\ InOrder(file, Parent, NoTxn) /\ Parent.error = FALSE
                       /\ Parent.txnid = txn.txnid /\ Unsaved(Parent)

IsSave(s) ==
    /\ s = [pglast |-> s.pglast, freecnt |-> s.freecnt, head |-> s.head, hroom |-> s.hroom,
            total |-> s.total, more |-> s.more]
    /\ s.pglast \in Nat /\ s.head \in Nat /\ s.freecnt \in Nat
    /\ s.total \in Nat /\ s.hroom \in Nat /\ s.more \in Int

\* While the free list is saved: what has been reserved is empty, what has been read and not
\* deleted yet is there to be deleted.
SaveBooks(t, s) ==
    /\ IsSave(s) /\ s.head <= s.pglast /\ s.pglast <= t.pglast
    /\ s.pglast # 0 => \A id \in DOMAIN t.recs : id <= s.pglast => t.recs[id].ids = {}
    /\ s.pglast < t.pglast => t.pglast \in DOMAIN t.recs
    /\ t.txnid \in DOMAIN t.recs => t.recs[t.txnid].ids \subseteq FreedBy(t)
    /\ s.head = 0 => s.pglast = 0
    /\ \A id \in DOMAIN t.recs : id <= s.pglast => s.head <= id
    /\ s.hroom = RoomIn(t.recs, s.head) /\ s.total = RoomUpTo(t.recs, s.pglast + 1)
    /\ s.freecnt <= Len(t.frees)
    /\ t.pglast = 0 => t.loose = <<>>

\* All pages that the transaction has freed are in its record.
FreesListed(t) == t.frees # <<>> => t.txnid \in DOMAIN t.recs /\ FreedBy(t) \subseteq t.recs[t.txnid].ids

SaveRight ==
    /\ Saving => outer = <<>> /\ txn.error = FALSE /\ SaveBooks(txn, save) /\ Space(txn, NoTxn) <= UmMax
    /\ at = "save" /\ save.freecnt = Len(txn.frees) => FreesListed(txn)
    /\ at = "frees" => txn.txnid \in DOMAIN txn.recs

\* The pages of a snapshot or a transaction, which have numbers for what they contain.
Stamped(pages) == IsPages(pages) /\ Covered(pages) \subseteq Pages

Bounded(t) ==
    /\ Stamped(t.pages) /\ t.room \in 0 .. UmMax
    /\ t.pghead \subseteq Pages /\ FreedBy(t) \subseteq Pages
    /\ IsFiniteSet(DOMAIN t.dirty)

Typed ==
    /\ file \in [Pages -> Int] /\ disk \in [Pages -> Int]
    /\ \A m \in {0, 1} : Stamped(metas[m].pages)
    /\ \A r \in Readers : Stamped(readers[r].snap.pages)
    /\ Bounded(txn) /\ IsSave(save)
    /\ at \in {"idle", "active", "save", "frees", "flush", "sync", "meta", "publish",
               "failed", "dead"}

\* The room of the writer and of its parent, and the pages it counts, make up the whole.
RoomRight ==
    /\ at = "active" => Space(txn, Parent) = UmMax
    /\ outer # <<>> => Space(Parent, NoTxn) = UmMax

\* What is about to be the newest snapshot.
CommitRight ==
    /\ Ending => outer = <<>> /\ Sound(Snapshot(txn))
    /\ at = "flush" => IsTxn(txn) /\ Tiled(Blocks(txn)) /\ InPlace(file, txn, NoTxn)
                       /\ txn.spills \cap DOMAIN txn.dirty = {}
    /\ at \in {"sync", "meta"} => Intact(file, txn)
    /\ at = "meta" => Intact(disk, txn)

PagesInv ==
    /\ Counted /\ ReadersCounted
    /\ Sound(PickMeta)
    /\ CommitIntact /\ SnapshotIntact
    /\ MetasSpared /\ ReadersSpared
    /\ WriterRight /\ SaveRight /\ CommitRight
    /\ Typed /\ RoomRight

-----------------------------------------------------------------------------
(* Types, and the room that is left *)

\* A function of finitely many arguments has finitely many values.
LEMMA ImageIsFinite ==
    ASSUME NEW S, IsFiniteSet(S), NEW f, DOMAIN f = S
    PROVE  IsFiniteSet({f[x] : x \in S})
<1> DEFINE T == {f[x] : x \in S}
           img == [x \in S |-> f[x]]
<1>1. img \in [S -> T]
  OBVIOUS
<1>2. \A y \in T : \E x \in S : img[x] = y
  OBVIOUS
<1> HIDE DEF T, img
<1>3. img \in Surjection(S, T)
  BY <1>1, <1>2 DEF Surjection
<1>4. IsFiniteSet(T)
  BY <1>3, FS_Surjection
<1> QED
  BY <1>4 DEF T

\* Pages that are used are pages of the map, and there are not too many to find a new stamp.
LEMMA StampsAreFew ==
    ASSUME NEW pages, Stamped(pages)
    PROVE  IsFiniteSet(Stamps(pages))
<1>1. DOMAIN pages \subseteq Covered(pages)
  BY DEF Stamped, IsPages, Covered, Run, Positive
<1>2. IsFiniteSet(Pages)
  BY LmdbPagesAssumption, FS_Interval DEF Pages
<1>3. IsFiniteSet(DOMAIN pages)
  BY <1>1, <1>2, FS_Subset DEF Stamped
<1> DEFINE stamp == [h \in DOMAIN pages |-> pages[h].stamp]
<1>4. Stamps(pages) = {stamp[h] : h \in DOMAIN pages} /\ DOMAIN stamp = DOMAIN pages
  BY DEF Stamps
<1> HIDE DEF stamp
<1> QED
  BY <1>3, <1>4, ImageIsFinite

\* A number that no page has is there to be taken.
LEMMA FreshIs ==
    ASSUME Typed, ReadersCounted, WriterRight
    PROVE  Fresh \in Nat
<1> DEFINE outers == UNION {Stamps(outer[i].pages) : i \in DOMAIN outer}
           held == UNION {Stamps(readers[r].snap.pages) : r \in Readers}
           used == Range(file) \cup Range(disk)
                   \cup Stamps(txn.pages) \cup Stamps(metas[0].pages) \cup Stamps(metas[1].pages)
                   \cup outers \cup held
           new == (1 .. (Cardinality(used) + 1)) \ used
<1>1. IsFiniteSet(Pages)
  BY LmdbPagesAssumption, FS_Interval DEF Pages
<1>2. IsFiniteSet(Range(file)) /\ IsFiniteSet(Range(disk))
  <2>1. /\ Range(file) = {file[p] : p \in Pages} /\ Range(disk) = {disk[p] : p \in Pages}
        /\ DOMAIN file = Pages /\ DOMAIN disk = Pages
    BY DEF Range, Typed
  <2> QED
    BY <1>1, <2>1, ImageIsFinite
<1>3. /\ IsFiniteSet(Stamps(txn.pages)) /\ IsFiniteSet(Stamps(metas[0].pages))
      /\ IsFiniteSet(Stamps(metas[1].pages))
  BY StampsAreFew DEF Typed, Bounded
<1>4. IsFiniteSet(outers)
  <2>1. CASE outer = <<>>
    <3>1. outers = {}
      BY <2>1
    <3> QED
      BY <3>1, FS_EmptySet
  <2>2. CASE outer # <<>>
    <3>1. outer = <<Head(outer)>> /\ Books(Parent, NoTxn, {}) /\ Parent = Head(outer)
      BY <2>2 DEF WriterRight, InOrder, Parent
    <3>2. DOMAIN outer = {1} /\ outer[1] = Parent
      <4>1. outer = [i \in 1 .. 1 |-> Parent]
        BY <3>1
      <4> QED
        BY <4>1
    <3>3. outers = Stamps(Parent.pages)
      BY <3>2
    <3>4. Stamped(Parent.pages)
      BY <3>1, KnownPages DEF Stamped, Books, IsTxn
    <3> QED
      BY <3>3, <3>4, StampsAreFew
  <2> QED
    BY <2>1, <2>2
<1>5. IsFiniteSet(held)
  <2> DEFINE sets == {Stamps(readers[r].snap.pages) : r \in Readers}
             stamps == [r \in Readers |-> Stamps(readers[r].snap.pages)]
  <2>1. IsFiniteSet(sets)
    <3>1. sets = {stamps[r] : r \in Readers} /\ DOMAIN stamps = Readers
      OBVIOUS
    <3> HIDE DEF sets, stamps
    <3>2. IsFiniteSet(Readers)
      BY LmdbPagesAssumption
    <3> QED
      BY <3>1, <3>2, ImageIsFinite
  <2>2. \A S \in sets : IsFiniteSet(S)
    BY StampsAreFew DEF Typed
  <2> HIDE DEF sets
  <2>3. IsFiniteSet(UNION sets)
    BY <2>1, <2>2, FS_UNION
  <2> QED
    BY <2>3 DEF sets
<1> HIDE DEF outers, held
<1>6. IsFiniteSet(used)
  <2>1. IsFiniteSet(Range(file) \cup Range(disk))
    BY <1>2, FS_Union
  <2>2. IsFiniteSet(Range(file) \cup Range(disk) \cup Stamps(txn.pages))
    BY <1>3, <2>1, FS_Union
  <2>3. IsFiniteSet(Range(file) \cup Range(disk) \cup Stamps(txn.pages) \cup Stamps(metas[0].pages))
    BY <1>3, <2>2, FS_Union
  <2>4. IsFiniteSet(Range(file) \cup Range(disk) \cup Stamps(txn.pages) \cup Stamps(metas[0].pages)
                    \cup Stamps(metas[1].pages))
    BY <1>3, <2>3, FS_Union
  <2>5. IsFiniteSet(Range(file) \cup Range(disk) \cup Stamps(txn.pages) \cup Stamps(metas[0].pages)
                    \cup Stamps(metas[1].pages) \cup outers)
    BY <1>4, <2>4, FS_Union
  <2> QED
    BY <1>5, <2>5, FS_Union
<1>7. Fresh = Least(new)
  BY DEF Fresh, outers, held
<1> HIDE DEF used
<1>8. new # {}
  <2> SUFFICES ASSUME new = {} PROVE FALSE
    OBVIOUS
  <2>1. Cardinality(used) \in Nat
    BY <1>6, FS_CardinalityType
  <2> DEFINE n == Cardinality(used) + 1
  <2>2. n \in Nat /\ n > Cardinality(used)
    BY <2>1
  <2>3. 1 .. n \subseteq used
    OBVIOUS
  <2> HIDE DEF n
  <2>4. Cardinality(1 .. n) = n
    BY <2>2, FS_Interval
  <2>5. Cardinality(1 .. n) <= Cardinality(used)
    BY <1>6, <2>3, FS_Subset
  <2> QED
    BY <2>1, <2>2, <2>4, <2>5
<1>9. new \in SUBSET Nat
  <2>1. Cardinality(used) \in Nat
    BY <1>6, FS_CardinalityType
  <2> QED
    BY <2>1
<1> HIDE DEF new
<1>10. Least(new) \in new
  BY <1>8, <1>9, LeastIs
<1> QED
  BY <1>7, <1>9, <1>10

\* A transaction whose books are in order is within bounds.
LEMMA BoundedIs ==
    ASSUME NEW t, NEW u, Books(t, u, {}), Space(t, u) <= UmMax
    PROVE  Bounded(t)
<1>1. Space(t, u) \in Nat /\ t.room <= Space(t, u)
  BY SpaceIs
<1>2. t.room \in Nat /\ IsPages(t.pages)
  BY DEF Books, IsTxn
<1>3. t.room \in 0 .. UmMax
  BY <1>1, <1>2, LmdbPagesAssumption
<1>4. IsFiniteSet(DOMAIN t.dirty)
  <2>1. IsFiniteSet(Counts(t, u)) /\ DOMAIN t.dirty \subseteq Counts(t, u)
    BY CountsAre DEF Counts
  <2> QED
    BY <2>1, FS_Subset
<1> QED
  BY <1>2, <1>3, <1>4, KnownPages DEF Bounded, Stamped

\* So is one that has failed.
LEMMA FailedBounded ==
    ASSUME NEW t, NEW t2, NEW u, Fails(t, t2, u), Space(t, u) <= UmMax
    PROVE  Bounded(t2) /\ Space(t2, u) = Space(t, u)
<1>1. PICK x : Moves(t, x, u, {}, {}) /\ SameView(x, t2)
  BY DEF Fails
<1>2. Space(x, u) = Space(t, u) /\ Books(x, u, {})
  BY <1>1 DEF Moves
<1>3. Bounded(x)
  BY <1>2, BoundedIs
<1>4. /\ t2.pages = x.pages /\ t2.dirty = x.dirty /\ t2.spills = x.spills /\ t2.room = x.room
      /\ t2.frees = x.frees /\ t2.pghead \subseteq Pages
  BY <1>1 DEF SameView
<1>5. Space(t2, u) = Space(x, u)
  BY <1>4 DEF Space, Counts
<1>6. Bounded(t2)
  BY <1>3, <1>4 DEF Bounded, FreedBy
<1> QED
  BY <1>2, <1>5, <1>6

\* Typed, of the next state.
LEMMA TypedThen ==
    ASSUME file' \in [Pages -> Int], disk' \in [Pages -> Int],
           \A m \in {0, 1} : Stamped(metas'[m].pages), \A r \in Readers : Stamped(readers'[r].snap.pages),
           Bounded(txn'), IsSave(save'),
           at' \in {"idle", "active", "save", "frees", "flush", "sync", "meta", "publish", "failed", "dead"}
    PROVE  Typed'
  BY DEF Typed, Stamped, IsPages, Bounded, IsSave, FreedBy

\* The types after a step that leaves the meta pages, and the snapshots that readers have.
LEMMA NowTyped ==
    ASSUME Typed, file' \in [Pages -> Int], disk' \in [Pages -> Int], metas' = metas, readers' = readers,
           Bounded(txn'), IsSave(save'),
           at' \in {"idle", "active", "save", "frees", "flush", "sync", "meta", "publish", "failed", "dead"}
    PROVE  Typed'
<1>1. \A m \in {0, 1} : Stamped(metas'[m].pages)
  BY DEF Typed
<1>2. \A r \in Readers : Stamped(readers'[r].snap.pages)
  BY DEF Typed
<1> QED
  BY <1>1, <1>2, TypedThen

-----------------------------------------------------------------------------
(* Snapshots that are in use *)

\* Pages P of a snapshot at s that a crash or a reader may come back to.
InUse(P, s) ==
    \/ \E m \in {0, 1} : metas[m].whole /\ P = Covered(metas[m].pages) /\ s = metas[m].txnid
    \/ \E r \in Readers : /\ readers[r].at = "reading" /\ readers[r].snap.whole
                          /\ P = Covered(readers[r].snap.pages) /\ s = readers[r].slot

AllSpared == \A P, s : InUse(P, s) => Spared(P, s)

\* What is spared, of the meta pages and of the readers, is all that is in use.
LEMMA SparedAll ==
    MetasSpared /\ ReadersSpared <=> AllSpared
<1>1. MetasSpared /\ ReadersSpared => AllSpared
  BY DEF MetasSpared, ReadersSpared, AllSpared, InUse
<1>2. AllSpared => MetasSpared
  BY DEF MetasSpared, AllSpared, InUse
<1>3. AllSpared => ReadersSpared
  BY DEF ReadersSpared, AllSpared, InUse
<1> QED
  BY <1>1, <1>2, <1>3

\* They are in the file and on the disk.
LEMMA UsedPages ==
    ASSUME PagesInv, NEW P, NEW s, InUse(P, s)
    PROVE  Spared(P, s) /\ P \subseteq Pages
<1>1. Spared(P, s)
  BY SparedAll DEF AllSpared, PagesInv
<1>2. P \subseteq 2 .. PickMeta.last
  BY <1>1 DEF Spared, Keeps
<1>3. PickMeta.last \in Nat /\ PickMeta.last < MaxPg /\ MaxPg \in Nat
  BY LmdbPagesAssumption DEF PagesInv, Sound
<1> QED
  BY <1>1, <1>2, <1>3 DEF Pages

\* Slots hold numbers.
LEMMA SlotsCounted ==
    ASSUME ReadersCounted
    PROVE  Slots \subseteq Nat /\ \A r \in Readers : readers[r].slot # -1 => readers[r].slot \in Slots
  BY DEF Slots, ReadersCounted

\* While the writer works, none is older than the oldest it may find.
LEMMA UseWatched ==
    ASSUME PagesInv, at \in {"active", "save", "frees", "flush", "sync", "meta", "failed"},
           txn.txnid = mti_txnid + 1, NEW P, NEW s, InUse(P, s)
    PROVE  Watched(txn, s) /\ s < txn.txnid
<1>1. /\ mti_txnid \in Nat /\ txn.oldest \in Nat /\ txn.oldest <= mti_txnid /\ mti_txnid = PickMeta.txnid
  BY DEF PagesInv, Counted
<1>2. txn.txnid \in Positive /\ Slots \subseteq Nat
  BY <1>1, SlotsCounted DEF Positive, PagesInv
<1>3. FindOldest(txn) \in Nat /\ FindOldest(txn) < txn.txnid /\ \A k \in Slots : FindOldest(txn) <= k
  BY <1>2, FindOldestIs
<1>4. CASE \E m \in {0, 1} : metas[m].whole /\ P = Covered(metas[m].pages) /\ s = metas[m].txnid
  <2>1. PICK m \in {0, 1} : s = metas[m].txnid
    BY <1>4
  <2>2. m = mti_txnid % 2 \/ m = (mti_txnid + 1) % 2
    BY <1>1, <2>1
  <2>3. s = mti_txnid \/ s = IF mti_txnid = 0 THEN 0 ELSE mti_txnid - 1
    BY <1>1, <2>1, <2>2 DEF PagesInv, Counted
  <2>4. s \in Nat /\ mti_txnid <= s + 1 /\ s <= mti_txnid
    BY <1>1, <2>3
  <2> QED
    BY <1>1, <1>3, <2>4 DEF Watched
<1>5. CASE \E r \in Readers : /\ readers[r].at = "reading" /\ readers[r].snap.whole
                              /\ P = Covered(readers[r].snap.pages) /\ s = readers[r].slot
  <2>1. PICK r \in Readers : readers[r].at = "reading" /\ s = readers[r].slot
    BY <1>5
  <2>2. /\ s \in Nat \cup {-1} /\ s # -1 /\ txn.oldest <= s /\ s <= mti_txnid
    BY <2>1 DEF PagesInv, ReadersCounted
  <2>3. s \in Slots
    BY <2>1, <2>2, SlotsCounted DEF PagesInv
  <2>4. FindOldest(txn) <= s
    BY <1>3, <2>3
  <2> QED
    BY <1>1, <1>3, <2>2, <2>4 DEF Watched
<1> QED
  BY <1>4, <1>5 DEF InUse

Safe ==
    /\ Counted /\ ReadersCounted
    /\ Sound(PickMeta)
    /\ CommitIntact /\ SnapshotIntact
    /\ MetasSpared /\ ReadersSpared

\* While the file, the meta pages and the readers are as they were, so is what is in use.
Still == UNCHANGED <<fileVars, readVars>>

\* What stays while the file, the meta pages and the readers do.
LEMMA StillIs ==
    ASSUME Still
    PROVE  /\ file' = file /\ disk' = disk /\ metas' = metas /\ mti_txnid' = mti_txnid /\ readers' = readers
           /\ PickMeta' = PickMeta
           /\ \A P, s : InUse(P, s)' <=> InUse(P, s)
  BY DEF Still, fileVars, readVars, PickMeta, InUse

\* The numbers stay right when the writer's number does, and its oldest has been looked for.
LEMMA StillCounts ==
    ASSUME PagesInv, metas' = metas, mti_txnid' = mti_txnid, readers' = readers,
           at \in {"active", "save", "frees", "flush", "sync", "meta", "failed"},
           at' \in {"active", "save", "frees", "flush", "sync", "meta", "failed"}, Steady(txn, txn')
    PROVE  Counted' /\ ReadersCounted' /\ Sound(PickMeta)'
<1>1. PickMeta' = PickMeta
  BY DEF PickMeta
<1>2. /\ mti_txnid \in Nat /\ txn.oldest \in Nat /\ txn.oldest <= mti_txnid /\ txn.txnid = mti_txnid + 1
  BY DEF PagesInv, Counted
<1>3. txn.txnid \in Positive /\ Slots \subseteq Nat
  BY <1>2, SlotsCounted DEF Positive, PagesInv
<1>4. FindOldest(txn) \in Nat /\ FindOldest(txn) < txn.txnid /\ \A k \in Slots : FindOldest(txn) <= k
  BY <1>3, FindOldestIs
<1>5. txn'.txnid = txn.txnid /\ txn'.oldest \in Nat /\ txn'.oldest <= mti_txnid
  BY <1>2, <1>4 DEF Steady
<1>6. Counted'
  BY <1>1, <1>2, <1>5 DEF PagesInv, Counted
<1>7. \A r \in Readers : readers[r].at \in {"checked", "reading"} => txn'.oldest <= readers[r].slot
  BY <1>4, SlotsCounted DEF PagesInv, ReadersCounted, Steady
<1>8. ReadersCounted'
  BY <1>1, <1>7 DEF PagesInv, ReadersCounted
<1>9. Sound(PickMeta)'
  BY <1>1 DEF PagesInv, Sound
<1> QED
  BY <1>6, <1>8, <1>9

\* Then the numbers and the snapshots are right after the step too.
LEMMA StillCounted ==
    ASSUME PagesInv, Still,
           at \in {"active", "save", "frees", "flush", "sync", "meta", "failed"},
           at' \in {"active", "save", "frees", "flush", "sync", "meta", "failed"}, Steady(txn, txn')
    PROVE  Counted' /\ ReadersCounted' /\ Sound(PickMeta)' /\ CommitIntact' /\ SnapshotIntact'
<1>1. file' = file /\ disk' = disk /\ metas' = metas /\ mti_txnid' = mti_txnid /\ readers' = readers
  BY StillIs
<1>2. CommitIntact' /\ SnapshotIntact'
  BY <1>1 DEF PagesInv, CommitIntact, SnapshotIntact, Intact
<1> QED
  BY <1>1, <1>2, StillCounts

\* And what is in use is spared, if the step spares it.
LEMMA SparedStill ==
    ASSUME PagesInv, Still, outer' = outer, Writing, txn.error = FALSE,
           at' \in {"active", "save", "frees", "failed"},
           at' # "failed" /\ txn'.error = FALSE =>
               \A P, s : Spares(txn, Parent, P, s) /\ Watched(txn, s) => Spares(txn', Parent, P, s),
           txn'.error \in BOOLEAN
    PROVE  MetasSpared' /\ ReadersSpared'
<1>1. PickMeta' = PickMeta /\ \A P, s : InUse(P, s)' <=> InUse(P, s)
  BY StillIs
<1>2. Parent' = Parent
  BY DEF Parent
<1>3. at \in {"active", "save", "frees"} /\ txn.txnid = mti_txnid + 1 /\ (outer # <<>> => at = "active")
  BY DEF PagesInv, Counted, Writing, WriterRight
<1>4. AllSpared'
  <2> SUFFICES ASSUME NEW P, NEW s, InUse(P, s)' PROVE Spared(P, s)'
    BY DEF AllSpared
  <2>1. InUse(P, s)
    BY <1>1
  <2>2. Spared(P, s) /\ Watched(txn, s)
    BY <1>3, <2>1, UsedPages, UseWatched
  <2>3. Keeps(PickMeta, P, s)'
    BY <1>1, <2>2 DEF Spared, Keeps
  <2>4. ASSUME Writing', ~txn'.error PROVE Spares(txn', Parent', P, s)
    <3>1. txn'.error = FALSE /\ at' # "failed"
      BY <2>4 DEF Writing
    <3>2. Spares(txn, Parent, P, s)
      BY <2>2 DEF Spared
    <3> QED
      BY <1>2, <2>2, <3>1, <3>2
  <2>5. at' = "active" /\ outer' # <<>> => Spares(Parent', NoTxn, P, s)
    BY <1>2, <1>3, <2>2 DEF Spared
  <2>6. at' # "flush" /\ ~ Ending'
    BY DEF Ending
  <2> QED
    BY <2>3, <2>4, <2>5, <2>6 DEF Spared
<1>5. (MetasSpared /\ ReadersSpared <=> AllSpared)'
  BY SparedAll, PTL
<1> QED
  BY <1>4, <1>5

\* A step of the writer before the list is in the records.
LEMMA StepSafe ==
    ASSUME PagesInv, Still, outer' = outer, Writing, txn.error = FALSE,
           at' \in {"active", "save", "frees", "failed"}, Steady(txn, txn'), txn'.error \in BOOLEAN,
           at' # "failed" /\ txn'.error = FALSE =>
               \A P, s : Spares(txn, Parent, P, s) /\ Watched(txn, s) => Spares(txn', Parent, P, s)
    PROVE  Safe'
<1>1. at \in {"active", "save", "frees"}
  BY DEF Writing
<1>2. Counted' /\ ReadersCounted' /\ Sound(PickMeta)' /\ CommitIntact' /\ SnapshotIntact'
  BY <1>1, StillCounted
<1>3. MetasSpared' /\ ReadersSpared'
  BY SparedStill
<1> QED
  BY <1>2, <1>3 DEF Safe

\* The writer that has not failed may make a move.
LEMMA WriterReady ==
    ASSUME PagesInv, Writing, ~txn.error
    PROVE  Ready(txn) /\ InPlace(file, txn, Parent)
<1>1. InOrder(file, txn, Parent)
  BY DEF PagesInv, WriterRight
<1>2. txn.error \in BOOLEAN
  BY <1>1 DEF InOrder, Books, IsTxn
<1>3. NestedOnce
  BY DEF PagesInv, WriterRight, NestedOnce
<1>4. Slots \subseteq Nat
  BY SlotsCounted DEF PagesInv
<1>5. Fresh \in Nat
  BY FreshIs DEF PagesInv
<1> QED
  BY <1>1, <1>2, <1>3, <1>4, <1>5 DEF Ready, InOrder

\* Writes to the main tree.
LEMMA WriteKeeps ==
    ASSUME PagesInv, NEW kind, NEW t, Writes(kind, t), Operates(txn, t)
    PROVE  PagesInv'
<1>1. /\ Writing /\ Still /\ outer' = outer /\ at = "active" /\ at' = "active" /\ txn' = t /\ file' = file
      /\ ~txn.error
  BY DEF Writes, Writing, Still, fileVars
<1>2. Ready(txn) /\ InPlace(file, txn, Parent) /\ txn.error = FALSE
  BY <1>1, WriterReady DEF Ready
<1>3. Steady(txn, txn') /\ txn'.error \in BOOLEAN
  BY <1>1 DEF Operates
<1>4. txn'.error = FALSE => Moves(txn, txn', Parent, {}, {}) /\ TreeOf(txn')
  BY <1>1 DEF Operates
<1>5. Safe'
  <2>1. txn'.error = FALSE => \A P, s : Spares(txn, Parent, P, s) /\ Watched(txn, s) => Spares(txn', Parent, P, s)
    BY <1>4 DEF Moves
  <2> QED
    BY <1>1, <1>2, <1>3, <2>1, StepSafe
<1>6. WriterRight'
  <2>1. Parent' = Parent
    BY <1>1 DEF Parent
  <2>2. outer' # <<>> => outer' = <<Head(outer')>> /\ at' = "active"
    BY <1>1 DEF PagesInv, WriterRight
  <2>3. ~txn'.error => InOrder(file', txn', Parent') /\ Unsaved(txn')
    <3> SUFFICES ASSUME ~txn'.error PROVE InOrder(file', txn', Parent') /\ Unsaved(txn')
      OBVIOUS
    <3>1. Moves(txn, txn', Parent, {}, {}) /\ TreeOf(txn')
      BY <1>3, <1>4
    <3>2. InOrder(file, txn', Parent)
      BY <1>2, <3>1 DEF Moves, InOrder
    <3>3. Unsaved(txn')
      BY <1>1, <1>2, <3>1 DEF Moves, Steady, PagesInv, WriterRight, Unsaved
    <3> QED
      BY <1>1, <2>1, <3>2, <3>3
  <2>4. outer' # <<>> => /\ InOrder(file', Parent', NoTxn) /\ Parent'.error = FALSE
                         /\ Parent'.txnid = txn'.txnid /\ Unsaved(Parent')
    BY <1>1, <1>3, <2>1 DEF PagesInv, WriterRight, Steady
  <2> QED
    BY <2>2, <2>3, <2>4 DEF WriterRight
<1>7. SaveRight' /\ CommitRight'
  BY <1>1 DEF SaveRight, CommitRight, Ending, Saving
<1>8. Space(txn', Parent) = UmMax /\ Bounded(txn')
  <2>1. Space(txn, Parent) = UmMax
    BY <1>1 DEF PagesInv, RoomRight
  <2>2. CASE txn'.error = FALSE
    <3>1. Space(txn', Parent) = UmMax /\ Books(txn', Parent, {})
      BY <1>4, <2>1, <2>2 DEF Moves
    <3>2. Space(txn', Parent) <= UmMax
      BY <3>1, LmdbPagesAssumption
    <3> QED
      BY <3>1, <3>2, BoundedIs
  <2>3. CASE txn'.error = TRUE
    <3>1. Fails(txn, txn', Parent) /\ Space(txn, Parent) <= UmMax
      BY <1>1, <2>1, <2>3, LmdbPagesAssumption DEF Operates
    <3> QED
      BY <2>1, <3>1, FailedBounded
  <2> QED
    BY <1>3, <2>2, <2>3
<1>9. Typed'
  <2>1. file' = file /\ disk' = disk /\ metas' = metas /\ readers' = readers
    BY <1>1, StillIs
  <2>2. Typed /\ save' = save
    BY DEF PagesInv, Writes
  <2>3. IsSave(save')
    BY <2>2 DEF Typed
  <2>4. file' \in [Pages -> Int] /\ disk' \in [Pages -> Int]
    BY <2>1, <2>2 DEF Typed
  <2> QED
    BY <1>1, <1>8, <2>1, <2>2, <2>3, <2>4, NowTyped
<1>10. RoomRight'
  <2>1. Parent' = Parent
    BY <1>1 DEF Parent
  <2>2. outer # <<>> => Space(Parent, NoTxn) = UmMax
    BY DEF PagesInv, RoomRight
  <2>3. Space(txn, Parent)' = Space(txn', Parent')
    BY DEF Space, Counts
  <2>4. Space(Parent, NoTxn)' = Space(Parent', NoTxn)
    BY DEF Space, Counts, NoTxn
  <2> QED
    BY <1>1, <1>8, <2>1, <2>2, <2>3, <2>4 DEF RoomRight
<1> QED
  BY <1>5, <1>6, <1>7, <1>9, <1>10 DEF Safe, PagesInv

\* So when it writes to the main tree.
LEMMA MainReady ==
    ASSUME PagesInv, NEW kind, NEW t, Writes(kind, t)
    PROVE  Ready(txn)
<1>1. Writing /\ ~txn.error
  BY DEF Writes, Writing
<1> QED
  BY <1>1, WriterReady

\* A write to the main tree, which fails or moves its pages.
MainWrites == \E kind, t : Writes(kind, t) /\ Operates(txn, t)

\* Each write to the main tree.
LEMMA MainOperates ==
    ASSUME PagesInv
    PROVE  /\ (MainTouch => MainWrites) /\ (MainNew => MainWrites)
           /\ (MainLoosen => MainWrites) /\ (MainRootFreed => MainWrites)
           /\ (MainDrop => MainWrites) /\ (MainOverflowFree => MainWrites)
           /\ (MainOverwrite => MainWrites)
<1>1. ASSUME NEW h \in Main(1), Writes("touch", Touched(txn, h)) PROVE MainWrites
  <2>1. h \in DOMAIN txn.pages /\ txn.pages[h].main = TRUE /\ txn.pages[h].n = 1
    BY DEF Main
  <2>2. Operates(txn, Touched(txn, h))
    BY <1>1, <2>1, MainReady, MainTouched
  <2> QED
    BY <1>1, <2>2 DEF MainWrites
<1>2. ASSUME NEW kind, NEW n \in Positive, Writes(kind, NewPage(txn, n, TRUE)) PROVE MainWrites
  <2>1. Operates(txn, NewPage(txn, n, TRUE))
    BY <1>2, MainReady, MainMade
  <2> QED
    BY <1>2, <2>1 DEF MainWrites
<1>3. ASSUME NEW h \in Main(1), Writes("loosen", Loosened(txn, h)) PROVE MainWrites
  <2>1. h \in DOMAIN txn.pages /\ txn.pages[h].main = TRUE /\ txn.pages[h].n = 1
    BY DEF Main
  <2>2. Operates(txn, Loosened(txn, h))
    BY <1>3, <2>1, MainReady, MainLoosened
  <2> QED
    BY <1>3, <2>2 DEF MainWrites
<1>4. ASSUME NEW h \in Main(1), Writes("free", Freed([txn EXCEPT !.pages = Without(@, {h})], h)) PROVE MainWrites
  <2>1. h \in DOMAIN txn.pages /\ txn.pages[h].main = TRUE /\ txn.pages[h].n = 1
    BY DEF Main
  <2>2. Operates(txn, Freed([txn EXCEPT !.pages = Without(@, {h})], h))
    BY <1>4, <2>1, MainReady, MainRootGone
  <2> QED
    BY <1>4, <2>2 DEF MainWrites
<1>5. ASSUME MainDrop PROVE MainWrites
  <2> DEFINE S == {h \in DOMAIN txn.pages : txn.pages[h].main}
             t == [txn EXCEPT !.pages = Without(@, S), !.marked = TRUE,
                              !.frees = @ \o Ascending(Covered(Restrict(txn.pages, S)))]
  <2>1. Writes("drop", t)
    BY <1>5 DEF MainDrop
  <2>2. Ready(txn)
    BY <2>1, MainReady
  <2>4. Dropped(S, t)
    BY DEF Dropped
  <2>5. Operates(txn, t)
    <3> HIDE DEF S, t
    <3> QED
      BY <2>2, <2>4, MainGone
  <2> HIDE DEF t
  <2> QED
    BY <2>1, <2>5 DEF MainWrites
<1>6. ASSUME NEW h \in Main(2), Writes("free2", OverflowFreed(txn, h)) PROVE MainWrites
  <2>1. h \in DOMAIN txn.pages /\ txn.pages[h].main = TRUE
    BY DEF Main
  <2>2. Operates(txn, OverflowFreed(txn, h))
    BY <1>6, <2>1, MainReady, MainOverflowFreed
  <2> QED
    BY <1>6, <2>2 DEF MainWrites
<1>7. ASSUME NEW h \in Main(2), Writes("overwrite", OverflowRewritten(txn, h)) PROVE MainWrites
  <2>1. h \in DOMAIN txn.pages /\ txn.pages[h].main = TRUE
    BY DEF Main
  <2>2. Operates(txn, OverflowRewritten(txn, h))
    BY <1>7, <2>1, MainReady, MainOverwritten
  <2> QED
    BY <1>7, <2>2 DEF MainWrites
<1>8. 1 \in Positive /\ 2 \in Positive
  BY DEF Positive
<1>9. (MainTouch => MainWrites) /\ (MainNew => MainWrites)
  BY <1>1, <1>2, <1>8 DEF MainTouch, MainNew
<1>10. (MainLoosen => MainWrites) /\ (MainRootFreed => MainWrites)
  BY <1>3, <1>4 DEF MainLoosen, MainRootFreed, DirtyLeaves
<1>11. MainDrop => MainWrites
  BY <1>5
<1>12. (MainOverflowFree => MainWrites) /\ (MainOverwrite => MainWrites)
  BY <1>6, <1>7 DEF MainOverflowFree, MainOverwrite
<1> QED
  BY <1>9, <1>10, <1>11, <1>12

\* Each of them keeps the invariant.
LEMMA MainKeeps ==
    ASSUME PagesInv
    PROVE  /\ (MainTouch => PagesInv') /\ (MainNew => PagesInv')
           /\ (MainLoosen => PagesInv') /\ (MainRootFreed => PagesInv')
           /\ (MainDrop => PagesInv') /\ (MainOverflowFree => PagesInv')
           /\ (MainOverwrite => PagesInv')
<1>1. MainWrites => PagesInv'
  BY WriteKeeps DEF MainWrites
<1> QED
  BY <1>1, MainOperates

-----------------------------------------------------------------------------
(* The free list is saved *)

\* Saving the free list leaves the main tree alone.
MainSaved == PagesInv' /\ (txn'.error = FALSE => SameMain(txn, txn'))

\* A step of the commit that keeps the books keeps the rest.
LEMMA SaveKeeps ==
    ASSUME PagesInv, NEW t, NEW next \in {"save", "frees"}, Saves(t, next),
           at \in {"active", "save", "frees"}, outer = <<>>, txn.error = FALSE,
           Advances(txn, t), t.error = FALSE => SaveBooks(t, save'), IsSave(save'),
           t.error = FALSE /\ next = "save" /\ save'.freecnt = Len(t.frees) => FreesListed(t),
           t.error = FALSE /\ next = "frees" => t.txnid \in DOMAIN t.recs
    PROVE  MainSaved
<1>1. /\ Still /\ outer' = outer /\ txn' = t /\ file' = file /\ at' = IF t.error THEN "failed" ELSE next
  BY DEF Saves, Still, fileVars
<1>2. /\ Steady(txn, txn') /\ txn'.error \in BOOLEAN /\ (txn'.error = FALSE => Leads(txn, txn'))
  BY <1>1 DEF Advances
<1>3. Writing /\ at' \in {"save", "frees", "failed"} /\ (txn'.error = FALSE <=> at' # "failed")
  BY <1>1, <1>2 DEF Writing
<1>4. Safe'
  <2>1. txn'.error = FALSE => \A P, s : Spares(txn, Parent, P, s) /\ Watched(txn, s) => Spares(txn', Parent, P, s)
    BY <1>2 DEF Leads
  <2> QED
    BY <1>1, <1>2, <1>3, <2>1, StepSafe
<1>5. WriterRight'
  <2>1. Parent' = Parent
    BY <1>1 DEF Parent
  <2>2. outer' = <<>> /\ at' # "active"
    BY <1>1, <1>3
  <2>3. Writing' /\ ~txn'.error => InOrder(file', txn', Parent')
    <3>1. InPlace(file, txn, Parent)
      BY <1>3, WriterReady
    <3> QED
      BY <1>1, <1>2, <2>1, <3>1 DEF Leads, InOrder
  <2> QED
    BY <2>2, <2>3 DEF WriterRight
<1>6. Space(txn, Parent) <= UmMax /\ Space(txn, Parent) \in Nat /\ Parent = NoTxn
  <2>1. Parent = NoTxn
    BY DEF Parent
  <2>2. Ready(txn)
    BY <1>3, WriterReady
  <2>3. Space(txn, Parent) \in Nat
    BY <2>2, SpaceIs DEF Ready
  <2>4. CASE at = "active"
    <3>1. Space(txn, Parent) = UmMax
      BY <2>4 DEF PagesInv, RoomRight
    <3> QED
      BY <2>1, <2>3, <3>1, LmdbPagesAssumption
  <2>5. CASE at # "active"
    <3>1. Saving
      BY <2>5 DEF Saving
    <3> QED
      BY <2>1, <2>3, <3>1 DEF PagesInv, SaveRight
  <2> QED
    BY <2>4, <2>5
<1>7. Bounded(txn') /\ (txn'.error = FALSE => Space(txn', NoTxn) <= UmMax)
  <2>1. CASE txn'.error = FALSE
    <3>1. Books(txn', Parent, {}) /\ Space(txn', Parent) <= Space(txn, Parent)
      BY <1>2, <2>1 DEF Leads
    <3>2. Space(txn', Parent) \in Nat
      BY <3>1, SpaceIs
    <3>3. Space(txn', Parent) <= UmMax
      BY <1>6, <3>1, <3>2, LmdbPagesAssumption
    <3> QED
      BY <1>6, <3>1, <3>3, BoundedIs
  <2>2. CASE txn'.error = TRUE
    <3>1. Fails(txn, txn', Parent)
      BY <1>1, <2>2 DEF Advances
    <3> QED
      BY <1>6, <2>2, <3>1, FailedBounded
  <2> QED
    BY <1>2, <2>1, <2>2
<1>8. SaveRight'
  <2>1. Saving' => outer' = <<>> /\ txn'.error = FALSE
    BY <1>1, <1>3 DEF Saving
  <2>2. Saving' => SaveBooks(txn', save') /\ Space(txn', NoTxn) <= UmMax
    BY <1>1, <1>7, <2>1
  <2>3. at' = "save" => txn'.error = FALSE /\ next = "save"
    BY <1>1, <1>3
  <2>4. at' = "save" /\ save'.freecnt = Len(txn'.frees) => FreesListed(txn')
    BY <1>1, <2>3
  <2>5. /\ SaveBooks(txn, save)' = SaveBooks(txn', save') /\ FreesListed(txn)' = FreesListed(txn')
        /\ Space(txn, NoTxn)' = Space(txn', NoTxn)
    BY DEF SaveBooks, IsSave, FreedBy, RoomIn, RoomUpTo, FreesListed, Space, Counts, NoTxn
  <2>6. at' = "frees" => txn'.txnid \in DOMAIN txn'.recs
    BY <1>1, <1>3
  <2> QED
    BY <2>1, <2>2, <2>4, <2>5, <2>6 DEF SaveRight
<1>9. Typed'
  <2>1. file' = file /\ disk' = disk /\ metas' = metas /\ readers' = readers
    BY <1>1, StillIs
  <2>2. Typed
    BY DEF PagesInv
  <2>3. file' \in [Pages -> Int] /\ disk' \in [Pages -> Int]
    BY <2>1, <2>2 DEF Typed
  <2> QED
    BY <1>3, <1>7, <2>1, <2>2, <2>3, NowTyped
<1>10. RoomRight'
  BY <1>1, <1>3 DEF RoomRight
<1>11. CommitRight'
  BY <1>3 DEF CommitRight, Ending
<1>12. PagesInv'
  BY <1>4, <1>5, <1>8, <1>9, <1>10, <1>11 DEF Safe, PagesInv
<1>13. txn'.error = FALSE => SameMain(txn, txn')
  BY <1>2 DEF Leads
<1> QED
  BY <1>12, <1>13 DEF MainSaved

\* And while it saves the free list.
LEMMA SavingReady ==
    ASSUME PagesInv, Saving
    PROVE  /\ outer = <<>> /\ txn.error = FALSE /\ SaveBooks(txn, save) /\ Ready(txn) /\ at \in {"save", "frees"}
           /\ txn.txnid \in Nat /\ txn.pglast \in Nat /\ txn.pglast < txn.txnid
<1>1. outer = <<>> /\ txn.error = FALSE /\ SaveBooks(txn, save)
  BY DEF PagesInv, SaveRight
<1>2. Ready(txn)
  BY <1>1, WriterReady DEF Saving, Writing
<1> QED
  BY <1>1, <1>2 DEF Ready, Books, IsTxn, Numbered, Saving

\* mdb_txn_commit up to mdb_freelist_save.
LEMMA CommitBeginsKeeps ==
    ASSUME PagesInv, CommitBegins
    PROVE  MainSaved
<1> DEFINE t == LooseFreed(IF txn.listed THEN RootTouched(txn) ELSE txn)
<1>1. at = "active" /\ ~txn.error /\ outer = <<>> /\ Saves(t, "save") /\ save' = NoSave
  BY DEF CommitBegins
<1>2. Writing
  BY <1>1 DEF Writing
<1>3. Ready(txn) /\ txn.error = FALSE
  BY <1>1, <1>2, WriterReady DEF Ready
<1>4. Advances(txn, t) /\ (t.error = FALSE => t.recs = txn.recs)
  BY <1>3, CommitBegun
<1>5. Unsaved(txn)
  BY <1>1 DEF PagesInv, WriterRight
<1>7. t.pglast = 0 /\ t.error = FALSE => t.loose = <<>>
  <2> SUFFICES ASSUME t.pglast = 0, t.error = FALSE PROVE t.loose = <<>>
    OBVIOUS
  <2> DEFINE x == IF txn.listed THEN RootTouched(txn) ELSE txn
  <2>1. t = LooseFreed(x)
    OBVIOUS
  <2>2. t.listed = FALSE
    BY <1>4 DEF Advances, Leads, Books, Numbered
  <2>3. IsRecord(x)
    BY <1>3, RootTouchedIs DEF Advances, Ready, Books, IsTxn
  <2> HIDE DEF x, t
  <2>4. CASE x.listed \/ x.loose = <<>>
    BY <2>1, <2>2, <2>4 DEF LooseFreed
  <2>5. CASE ~(x.listed \/ x.loose = <<>>)
    BY <2>1, <2>3, <2>5 DEF LooseFreed, IsRecord
  <2> QED
    BY <2>4, <2>5
<1> HIDE DEF t
<1>8. IsSave(NoSave) /\ NoSave.pglast = 0 /\ NoSave.head = 0 /\ NoSave.hroom = 0 /\ NoSave.total = 0
      /\ NoSave.freecnt = 0
  BY DEF NoSave, IsSave
<1>6. ASSUME t.error = FALSE PROVE SaveBooks(t, NoSave)
  <2>2. t.txnid = txn.txnid /\ t.recs = txn.recs /\ t.pglast \in Nat
    BY <1>4, <1>6 DEF Advances, Steady, Leads, Books, IsTxn
  <2>3. t.pglast = 0 \/ t.pglast \in DOMAIN t.recs
    BY <1>4, <1>5, <1>6, <2>2 DEF Advances, Leads, Unsaved
  <2>4. DOMAIN t.recs \subseteq Nat /\ RoomsAreNumbers(t.recs) /\ t.frees \in Seq(Nat)
    BY <1>4, <1>6 DEF Advances, Leads, Books, IsTxn, IsRecs, RoomsAreNumbers
  <2>5. 0 \notin DOMAIN t.recs
    BY <1>4, <1>6 DEF Advances, Leads, Books, Numbered
  <2>6. RoomIn(t.recs, 0) = 0
    BY <2>5 DEF RoomIn
  <2>7. RoomUpTo(t.recs, 0 + 1) = 0
    <3>1. \A n \in DOMAIN t.recs : ~ (n < 1)
      BY <2>4, <2>5
    <3> QED
      BY <2>4, <3>1, RoomsNone
  <2>8. Len(t.frees) \in Nat
    BY <2>4
  <2> QED
    BY <1>5, <1>7, <1>8, <1>6, <2>2, <2>3, <2>4, <2>6, <2>7, <2>8 DEF SaveBooks, Unsaved
<1>9. t.error = FALSE /\ NoSave.freecnt = Len(t.frees) => FreesListed(t)
  <2> SUFFICES ASSUME t.error = FALSE, 0 = Len(t.frees) PROVE t.frees = <<>>
    BY <1>8 DEF FreesListed
  <2>1. t.frees \in Seq(Nat)
    BY <1>4 DEF Advances, Leads, Books, IsTxn
  <2> QED
    BY <2>1
<1> QED
  BY <1>1, <1>3, <1>4, <1>6, <1>8, <1>9, SaveKeeps

Registers(s, pglast, freecnt, head, hroom, total, more) ==
    s = [pglast |-> pglast, freecnt |-> freecnt, head |-> head, hroom |-> hroom,
         total |-> total, more |-> more]

\* The registers of mdb_freelist_save are a record.
LEMMA SaveIs ==
    ASSUME NEW pglast \in Nat, NEW freecnt \in Nat, NEW head \in Nat, NEW hroom \in Nat,
           NEW total \in Nat, NEW more \in Int, NEW s, Registers(s, pglast, freecnt, head, hroom, total, more)
    PROVE  IsSave(s)
  BY DEF IsSave, Registers

\* Its fields.
LEMMA RegistersAre ==
    ASSUME NEW pglast, NEW freecnt, NEW head, NEW hroom, NEW total, NEW more, NEW s,
           Registers(s, pglast, freecnt, head, hroom, total, more)
    PROVE  s.pglast = pglast /\ s.head = head /\ s.freecnt = freecnt /\ s.hroom = hroom /\ s.total = total
  BY DEF Registers

Restarts(x, s, id) == s = [x EXCEPT !.pglast = id, !.head = id, !.total = 0, !.hroom = 0]

\* A record deleted starts the reservation anew.
LEMMA SaveRestarts ==
    ASSUME NEW x, IsSave(x), NEW id \in Nat, NEW s, Restarts(x, s, id)
    PROVE  IsSave(s) /\ s.pglast = id /\ s.head = id /\ s.hroom = 0 /\ s.total = 0 /\ s.freecnt = x.freecnt
<1>1. Registers(s, id, x.freecnt, id, 0, 0, x.more)
  BY DEF IsSave, Registers, Restarts
<1>2. x.freecnt \in Nat /\ x.more \in Int /\ 0 \in Nat
  BY DEF IsSave
<1>3. IsSave(s)
  BY <1>1, <1>2, SaveIs
<1> QED
  BY <1>1, <1>3, RegistersAre

\* mdb_freelist_save deletes a record that was read.
LEMMA SaveDeleteKeeps ==
    ASSUME PagesInv, SaveDelete
    PROVE  MainSaved
<1> DEFINE id == Least(DOMAIN txn.recs)
           Emptied(t) == IF t.recs # <<>> THEN t
                         ELSE Freed([t EXCEPT !.pages = Without(@, {t.root}), !.root = 0], t.root)
           Gone(t)    == Emptied([t EXCEPT !.recs = Without(@, {id})])
           Deleted(t) == IF t.error THEN t
                         ELSE Gone(IF txn.recs[id].ov = 0 THEN t
                                   ELSE OverflowFreed(t, txn.recs[id].ov))
           z == Deleted(Touched(txn, txn.root))
           s == [save EXCEPT !.pglast = id, !.head = id, !.total = 0, !.hroom = 0]
<1>1. at = "save" /\ save.pglast < txn.pglast /\ Saves(z, "save") /\ save' = s
  BY DEF SaveDelete
<1>2. /\ outer = <<>> /\ txn.error = FALSE /\ SaveBooks(txn, save) /\ Ready(txn)
      /\ txn.txnid \in Nat /\ txn.pglast \in Nat /\ txn.pglast < txn.txnid
  BY <1>1, SavingReady DEF Saving
<1>3. txn.pglast \in DOMAIN txn.recs
  BY <1>1, <1>2 DEF SaveBooks
<1>4. /\ id \in DOMAIN txn.recs /\ \A k \in DOMAIN txn.recs : id <= k
      /\ Advances(txn, z) /\ (z.error = FALSE => RecordGone(txn, z, id))
  <2>1. DOMAIN txn.recs # {} /\ DOMAIN txn.recs \in SUBSET Nat
    BY <1>2, <1>3 DEF Ready, Books, IsTxn, IsRecs
  <2>2. Least(DOMAIN txn.recs) \in DOMAIN txn.recs /\ \A k \in DOMAIN txn.recs : Least(DOMAIN txn.recs) <= k
    BY <2>1, LeastIs
  <2> QED
    BY <1>2, <1>3, <2>1, <2>2, FirstDeleted
<1>5. Restarts(save, s, id)
  BY DEF Restarts
<1> HIDE DEF z, id, s
<1>7. DOMAIN txn.recs \subseteq Nat /\ 0 < id /\ id \in Nat
  BY <1>2, <1>4 DEF Ready, Books, IsTxn, IsRecs, Numbered
<1>8. /\ IsSave(s) /\ s.pglast = id /\ s.head = id /\ s.hroom = 0 /\ s.total = 0
      /\ s.freecnt = save.freecnt
  <2>1. IsSave(save) /\ id \in Nat
    BY <1>2, <1>7 DEF SaveBooks
  <2> QED
    BY <1>5, <2>1, SaveRestarts
<1>6. ASSUME z.error = FALSE PROVE SaveBooks(z, s) /\ (s.freecnt = Len(z.frees) => FreesListed(z))
  <2>1. DOMAIN txn.recs \subseteq Nat
    BY <1>7
  <2>2. IsSave(s) /\ s.pglast = id /\ s.head = id
    BY <1>8
  <2>3. /\ DOMAIN z.recs = DOMAIN txn.recs \ {id} /\ \A k \in DOMAIN z.recs : z.recs[k] = txn.recs[k]
        /\ z.txnid = txn.txnid /\ FreedBy(txn) \subseteq FreedBy(z) /\ z.pglast \in Nat
        /\ z.pglast = txn.pglast \/ (z.pglast > txn.pglast /\ z.pglast \in DOMAIN txn.recs)
    BY <1>4, <1>6 DEF RecordGone, Advances, Steady, Leads, Books, IsTxn
  <2>4. id <= z.pglast /\ id \in Nat
    BY <1>2, <1>3, <1>4, <2>1, <2>3
  <2>5. \A k \in DOMAIN z.recs : k \in Nat /\ id < k
    BY <1>4, <2>1, <2>3
  <2>6. s.pglast < z.pglast => z.pglast \in DOMAIN z.recs
    BY <1>3, <2>2, <2>3
  <2>7. z.txnid \in DOMAIN z.recs => z.recs[z.txnid].ids \subseteq FreedBy(z)
    BY <1>2, <2>3 DEF SaveBooks
  <2>8. RoomIn(z.recs, id) = 0 /\ RoomUpTo(z.recs, id + 1) = 0
    <3>1. RoomsAreNumbers(z.recs)
      BY <1>4, <1>6 DEF Advances, Leads, Books, IsTxn, IsRecs, RoomsAreNumbers
    <3> DEFINE k == id + 1
    <3>2. k \in Nat /\ \A n \in DOMAIN z.recs : ~ (n < k)
      BY <2>4, <2>5
    <3> HIDE DEF k
    <3>3. RoomUpTo(z.recs, k) = 0
      BY <3>1, <3>2, RoomsNone
    <3>4. RoomIn(z.recs, id) = 0
      BY <2>3 DEF RoomIn
    <3> QED
      BY <3>3, <3>4 DEF k
  <2>9. FreesMore(txn, z) /\ NoneLoosened(txn, z)
    BY <1>4, <1>6 DEF Advances, Leads
  <2>10. Len(txn.frees) \in Nat /\ Len(z.frees) \in Nat /\ save.freecnt \in Nat /\ save.freecnt <= Len(txn.frees)
    <3>1. IsTxn(txn) /\ IsTxn(z)
      BY <1>2, <1>4, <1>6 DEF Advances, Leads, Ready, Books
    <3>2. txn.frees \in Seq(Nat) /\ z.frees \in Seq(Nat)
      BY <3>1 DEF IsTxn
    <3> QED
      BY <1>2, <3>2 DEF SaveBooks, IsSave
  <2>11. s.freecnt <= Len(z.frees)
    BY <1>8, <2>9, <2>10 DEF FreesMore
  <2>12. z.pglast = 0 => z.loose = <<>>
    BY <1>2, <2>3, <2>9 DEF SaveBooks, NoneLoosened
  <2>13. s.freecnt = Len(z.frees) => FreesListed(z)
    <3> SUFFICES ASSUME s.freecnt = Len(z.frees), z.frees # <<>>
                 PROVE  z.txnid \in DOMAIN z.recs /\ FreedBy(z) \subseteq z.recs[z.txnid].ids
      BY DEF FreesListed
    <3>1. z.frees = txn.frees /\ save.freecnt = Len(txn.frees)
      BY <1>8, <2>9, <2>10 DEF FreesMore
    <3>2. FreesListed(txn)
      BY <1>1, <3>1 DEF PagesInv, SaveRight
    <3>3. txn.txnid \in DOMAIN txn.recs /\ FreedBy(z) \subseteq txn.recs[txn.txnid].ids
      BY <3>1, <3>2 DEF FreesListed, FreedBy
    <3>4. txn.txnid # id
      BY <1>2, <1>3, <1>4, <1>7
    <3> QED
      BY <2>3, <3>3, <3>4
  <2>14. SaveBooks(z, s)
    BY <1>7, <1>8, <2>2, <2>4, <2>5, <2>6, <2>7, <2>8, <2>11, <2>12 DEF SaveBooks
  <2> QED
    BY <2>13, <2>14
<1> QED
  BY <1>1, <1>2, <1>4, <1>6, <1>8, SaveKeeps

\* They stay so when a record is put, which is empty, and more pages are freed.
LEMMA PutBooks ==
    ASSUME NEW t, NEW z, NEW id, NEW len, NEW s, NEW s2, SaveBooks(t, s), IsTxn(t),
           Steady(t, z), Leads(t, z), Recorded(t, z, id, len), id <= s.pglast => s.head <= id,
           IsSave(s2), s2.pglast = s.pglast, s2.head = s.head, s2.freecnt = s.freecnt,
           s2.hroom = RoomIn(z.recs, s.head), s2.total = RoomUpTo(z.recs, s.pglast + 1)
    PROVE  SaveBooks(z, s2)
<1>1. /\ z.txnid = t.txnid /\ FreedBy(t) \subseteq FreedBy(z) /\ z.pglast \in Nat /\ t.pglast \in Nat
      /\ z.pglast = t.pglast \/ (z.pglast > t.pglast /\ z.pglast \in DOMAIN t.recs)
      /\ z.frees \in Seq(Nat) /\ t.frees \in Seq(Nat)
  BY DEF Steady, Leads, Books, IsTxn
<1>2. /\ DOMAIN z.recs = DOMAIN t.recs \cup {id} /\ z.recs[id].ids = {}
      /\ \A k \in DOMAIN t.recs : k # id => z.recs[k] = t.recs[k]
  BY DEF Recorded
<1>3. IsSave(s) /\ s.head <= s.pglast /\ s.pglast <= t.pglast /\ s.pglast \in Nat /\ s.freecnt \in Nat
  BY DEF SaveBooks, IsSave
<1>4. s.pglast <= z.pglast
  BY <1>1, <1>3
<1>5. s.pglast # 0 => \A k \in DOMAIN z.recs : k <= s.pglast => z.recs[k].ids = {}
  BY <1>2 DEF SaveBooks
<1>6. s.pglast < z.pglast => z.pglast \in DOMAIN z.recs
  BY <1>1, <1>2, <1>3 DEF SaveBooks
<1>7. z.txnid \in DOMAIN z.recs => z.recs[z.txnid].ids \subseteq FreedBy(z)
  BY <1>1, <1>2 DEF SaveBooks
<1>8. \A k \in DOMAIN z.recs : k <= s.pglast => s.head <= k
  BY <1>2 DEF SaveBooks
<1>9. s.freecnt <= Len(z.frees)
  <2>1. Len(t.frees) <= Len(z.frees) /\ Len(t.frees) \in Nat /\ Len(z.frees) \in Nat
    BY <1>1 DEF Leads, FreesMore
  <2>2. s.freecnt <= Len(t.frees)
    BY DEF SaveBooks
  <2> QED
    BY <1>3, <2>1, <2>2
<1>10. z.pglast = 0 => z.loose = <<>>
  BY <1>1 DEF Leads, NoneLoosened, SaveBooks
<1>11. s.head = 0 => s.pglast = 0
  BY DEF SaveBooks
<1> QED
  BY <1>3, <1>4, <1>5, <1>6, <1>7, <1>8, <1>9, <1>10, <1>11 DEF SaveBooks

\* A record that is put beyond the records reserved leaves their room.
LEMMA RoomKept ==
    ASSUME NEW t, NEW z, NEW id \in Nat, NEW len, NEW top \in Nat, top < id, IsTxn(t), IsTxn(z),
           Recorded(t, z, id, len)
    PROVE  /\ RoomIn(z.recs, top) = RoomIn(t.recs, top)
           /\ RoomUpTo(z.recs, top + 1) = RoomUpTo(t.recs, top + 1)
<1>1. RoomsAreNumbers(t.recs) /\ RoomsAreNumbers(z.recs)
  BY DEF IsTxn, IsRecs, RoomsAreNumbers
<1>2. \A n \in Nat : n < id => RoomIn(z.recs, n) = RoomIn(t.recs, n)
  BY DEF Recorded, RoomIn
<1> DEFINE k == top + 1
<1>3. k \in Nat /\ \A n \in Nat : n < k => n < id
  OBVIOUS
<1> HIDE DEF k
<1>4. RoomUpTo(z.recs, k) = RoomUpTo(t.recs, k)
  BY <1>1, <1>2, <1>3, RoomsSame
<1> QED
  BY <1>2, <1>4 DEF k

\* A move leaves the books of the saved list in order.
LEMMA MovedBooks ==
    ASSUME NEW t, NEW z, NEW s, SaveBooks(t, s), IsTxn(t), Moves(t, z, Parent, {}, {}), NoneLoosened(t, z)
    PROVE  SaveBooks(z, s)
<1>1. /\ z.txnid = t.txnid /\ FreedBy(t) \subseteq FreedBy(z) /\ z.pglast \in Nat /\ z.recs = t.recs
      /\ z.pglast = t.pglast \/ (z.pglast > t.pglast /\ z.pglast \in DOMAIN t.recs)
      /\ z.frees \in Seq(Nat) /\ t.frees \in Seq(Nat) /\ t.pglast \in Nat
  BY DEF Steady, Moves, Books, IsTxn
<1>2. s.freecnt <= Len(z.frees)
  <2>1. Len(t.frees) <= Len(z.frees) /\ Len(t.frees) \in Nat /\ Len(z.frees) \in Nat
    BY <1>1 DEF Moves, FreesMore
  <2>2. s.freecnt <= Len(t.frees) /\ s.freecnt \in Nat
    BY DEF SaveBooks, IsSave
  <2> QED
    BY <2>1, <2>2
<1>3. IsSave(s) /\ s.head <= s.pglast /\ s.pglast <= t.pglast /\ s.pglast \in Nat
  BY DEF SaveBooks, IsSave
<1>4. s.pglast <= z.pglast
  BY <1>1, <1>3
<1>5. z.pglast = 0 => z.loose = <<>>
  BY <1>1 DEF NoneLoosened, SaveBooks
<1> QED
  BY <1>1, <1>2, <1>3, <1>4, <1>5 DEF SaveBooks

\* mdb_freelist_save puts a record for the freed pages.
LEMMA SaveFreesKeeps ==
    ASSUME PagesInv, SaveFrees
    PROVE  MainSaved
<1>1. Saving /\ at \in {"active", "save", "frees"}
  BY DEF SaveFrees, Saving
<1>2. /\ outer = <<>> /\ txn.error = FALSE /\ SaveBooks(txn, save) /\ Ready(txn)
      /\ txn.txnid \in Nat /\ txn.pglast \in Nat /\ txn.pglast < txn.txnid
  BY <1>1, SavingReady
<1>3. PICK t \in {IF save.freecnt = 0 THEN RootTouched(txn) ELSE txn} :
          /\ Saves(IF t.error THEN t ELSE PutRecord(t, txn.txnid, Len(t.frees)), "frees")
          /\ save' = [save EXCEPT !.freecnt = Len(t.frees)]
  BY DEF SaveFrees
<1> DEFINE z == IF t.error THEN t ELSE PutRecord(t, txn.txnid, Len(t.frees))
<1>4. /\ Advances(txn, t)
      /\ t.error = FALSE => /\ Moves(txn, t, Parent, {}, {}) /\ TreeOf(t)
                            /\ NoneLoosened(txn, t) /\ SameMain(txn, t)
                            /\ t = txn \/ t.root = 0 \/ t.root \in DOMAIN t.dirty
  <2>1. CASE t = RootTouched(txn)
    BY <1>2, <2>1, RootTouchedIs DEF Advances, Leads
  <2>2. CASE t = txn
    <3>1. /\ Moves(txn, txn, Parent, {}, {}) /\ TreeOf(txn)
          /\ NoneLoosened(txn, txn) /\ SameMain(txn, txn)
      BY <1>2, Stays, OthersSameMain DEF Ready, NoneLoosened
    <3> QED
      BY <2>2, <3>1, MovedLeads
  <2> QED
    BY <1>3, <2>1, <2>2
<1>5. t.error \in BOOLEAN
  BY <1>4 DEF Advances
<1>8. IsSave(save')
  <2>1. t.frees \in Seq(Nat)
    <3>1. CASE t.error = FALSE
      BY <1>4, <3>1 DEF Moves, Books, IsTxn
    <3>2. CASE t.error = TRUE
      <4>1. CASE t = txn
        BY <1>2, <4>1 DEF Ready, Books, IsTxn
      <4>2. CASE t = RootTouched(txn)
        <5>1. SameView(txn, t)
          BY <1>2, <3>2, <4>2, RootTouchedIs
        <5> QED
          BY <1>2, <5>1 DEF SameView, Ready, Books, IsTxn
      <4> QED
        BY <1>3, <4>1, <4>2
    <3> QED
      BY <1>5, <3>1, <3>2
  <2> DEFINE n == Len(t.frees)
  <2>2. n \in Nat /\ save' = [save EXCEPT !.freecnt = n] /\ IsSave(save)
    BY <1>2, <1>3, <2>1 DEF SaveBooks
  <2> HIDE DEF n
  <2>3. Registers(save', save.pglast, n, save.head, save.hroom, save.total, save.more)
    BY <2>2 DEF IsSave, Registers
  <2>4. /\ save.pglast \in Nat /\ save.head \in Nat /\ save.hroom \in Nat /\ save.total \in Nat
        /\ save.more \in Int
    BY <2>2 DEF IsSave
  <2> QED
    BY <2>2, <2>3, <2>4, SaveIs
<1>6. CASE t.error = TRUE
  BY <1>1, <1>2, <1>3, <1>4, <1>6, <1>8, SaveKeeps
<1>7. CASE t.error = FALSE
  <2>1. Ready(t) /\ Moves(txn, t, Parent, {}, {}) /\ t.txnid = txn.txnid
    BY <1>2, <1>4, <1>7, StillReady DEF Moves, Steady
  <2>2. Len(t.frees) \in Nat /\ t.pglast \in Nat
    BY <2>1 DEF Ready, Books, IsTxn
  <2>3. z = PutRecord(t, txn.txnid, Len(t.frees))
    BY <1>7
  <2> DEFINE n == Len(t.frees)
             s == [save EXCEPT !.freecnt = n]
  <2>4. n \in Nat /\ z = PutRecord(t, txn.txnid, n) /\ Saves(z, "frees") /\ save' = s
    BY <1>3, <2>2, <2>3
  <2>5. IsSave(save)
    BY <1>2 DEF SaveBooks
  <2>6. /\ IsSave(s) /\ s.pglast = save.pglast /\ s.head = save.head /\ s.hroom = save.hroom
        /\ s.total = save.total /\ s.freecnt = n
    <3> HIDE DEF n
    <3> QED
      BY <2>4, <2>5 DEF IsSave
  <2>11. n = Len(t.frees)
    OBVIOUS
  <2> HIDE DEF z, n, s
  <2>7. Advances(t, z) /\ (z.error = FALSE => Recorded(t, z, txn.txnid, n))
    <3>1. Own(t, txn.txnid)
      BY <1>2, <2>1 DEF Own
    <3>2. t = txn \/ t.root = 0 \/ t.root \in DOMAIN t.dirty
      BY <1>4, <1>7
    <3> QED
      BY <1>2, <2>1, <2>4, <3>1, <3>2, PutRecordIs
  <2>8. Advances(txn, z)
    BY <1>2, <1>4, <1>7, <2>1, <2>7, AdvancesOn
  <2>9. SaveBooks(t, s)
    <3>1. SaveBooks(t, save)
      BY <1>2, <1>4, <1>7, <2>1, MovedBooks DEF Ready, Books
    <3>2. n <= Len(t.frees)
      BY <2>2, <2>11
    <3> QED
      BY <2>6, <3>1, <3>2 DEF SaveBooks
  <2>10. z.error = FALSE => SaveBooks(z, s) /\ z.txnid \in DOMAIN z.recs
    <3> SUFFICES ASSUME z.error = FALSE PROVE SaveBooks(z, s) /\ z.txnid \in DOMAIN z.recs
      OBVIOUS
    <3>1. Steady(t, z) /\ Leads(t, z) /\ Recorded(t, z, txn.txnid, n)
      BY <2>7 DEF Advances
    <3>2. IsTxn(t) /\ IsTxn(z)
      BY <2>1, <3>1 DEF Ready, Leads, Books
    <3>3. s.pglast \in Nat /\ s.head \in Nat /\ s.head <= s.pglast /\ s.pglast < txn.txnid
      BY <1>2, <2>6 DEF SaveBooks, IsSave
    <3> DEFINE id == txn.txnid
    <3>4. id \in Nat /\ s.pglast < id /\ s.head < id /\ Recorded(t, z, id, n)
      BY <1>2, <3>1, <3>3
    <3> HIDE DEF id
    <3>5. RoomIn(z.recs, s.head) = RoomIn(t.recs, s.head)
      BY <3>2, <3>3, <3>4, RoomKept
    <3>6. RoomUpTo(z.recs, s.pglast + 1) = RoomUpTo(t.recs, s.pglast + 1)
      BY <3>2, <3>3, <3>4, RoomKept
    <3>7. s.hroom = RoomIn(z.recs, s.head) /\ s.total = RoomUpTo(z.recs, s.pglast + 1)
      BY <2>9, <3>5, <3>6 DEF SaveBooks
    <3>8. SaveBooks(z, s)
      BY <2>6, <2>9, <3>1, <3>2, <3>3, <3>4, <3>7, PutBooks
    <3>9. z.txnid = txn.txnid
      BY <2>1, <3>1 DEF Steady
    <3> QED
      BY <3>1, <3>8, <3>9 DEF Recorded
  <2> QED
    BY <1>1, <1>2, <1>8, <2>4, <2>8, <2>10, SaveKeeps
<1> QED
  BY <1>5, <1>6, <1>7

\* The ids of one record are changed.
LEMMA IdsChanged ==
    ASSUME NEW recs, IsRecs(recs), NEW id, NEW ids
    PROVE  LET recs2 == [recs EXCEPT ![id].ids = ids] IN
           /\ DOMAIN recs2 = DOMAIN recs
           /\ \A k \in DOMAIN recs2 : k # id => recs2[k] = recs[k]
           /\ id \in DOMAIN recs2 => recs2[id] = [ids |-> ids, room |-> recs[id].room, ov |-> recs[id].ov]
<1>1. id \in DOMAIN recs =>
          [recs[id] EXCEPT !.ids = ids] = [ids |-> ids, room |-> recs[id].room, ov |-> recs[id].ov]
  BY DEF IsRecs
<1> QED
  BY <1>1

\* mdb_freelist_save fills the record of the freed pages.
LEMMA SaveFreesDoneKeeps ==
    ASSUME PagesInv, SaveFreesDone
    PROVE  MainSaved
<1>1. Saving /\ at = "frees" /\ save' = save
  BY DEF SaveFreesDone, Saving
<1>2. /\ outer = <<>> /\ txn.error = FALSE /\ SaveBooks(txn, save) /\ Ready(txn)
      /\ txn.txnid \in Nat /\ txn.pglast \in Nat /\ txn.pglast < txn.txnid
  BY <1>1, SavingReady
<1> DEFINE z == [txn EXCEPT !.recs[txn.txnid].ids = ToSet(txn.frees)]
           recs == [txn.recs EXCEPT ![txn.txnid].ids = ToSet(txn.frees)]
<1>3. Saves(z, "save")
  BY DEF SaveFreesDone
<1>4. IsRecord(txn) /\ IsRecs(txn.recs) /\ Books(txn, Parent, {}) /\ TreeOf(txn)
  BY <1>2 DEF Ready, Books, IsTxn
<1>5. z = [txn EXCEPT !.recs = recs]
  BY <1>4 DEF IsRecord
<1>6. /\ DOMAIN recs = DOMAIN txn.recs
      /\ \A k \in DOMAIN recs : k # txn.txnid => recs[k] = txn.recs[k]
      /\ txn.txnid \in DOMAIN recs =>
             recs[txn.txnid] = [ids |-> FreedBy(txn), room |-> txn.recs[txn.txnid].room, ov |-> txn.recs[txn.txnid].ov]
  BY <1>4, IdsChanged DEF FreedBy
<1> HIDE DEF z, recs
<1>7. IsRecs(recs) /\ FreeTree(txn.pages, txn.root, recs)
  <2>1. IsRecs(recs)
    <3>1. \A k \in DOMAIN txn.recs : IsRec(txn.recs[k])
      BY <1>4 DEF IsRecs, IsRec
    <3>2. txn.txnid \in DOMAIN recs => IsRec(recs[txn.txnid])
      <4> SUFFICES ASSUME txn.txnid \in DOMAIN recs PROVE IsRec(recs[txn.txnid])
        OBVIOUS
      <4> DEFINE r == recs[txn.txnid]
      <4>1. r = [ids |-> FreedBy(txn), room |-> txn.recs[txn.txnid].room, ov |-> txn.recs[txn.txnid].ov]
        BY <1>6
      <4>2. txn.recs[txn.txnid].room \in Nat /\ txn.recs[txn.txnid].ov \in Nat
        BY <1>6, <3>1 DEF IsRec
      <4> HIDE DEF r
      <4>3. IsRec(r)
        BY <4>1, <4>2 DEF IsRec
      <4> QED
        BY <4>3 DEF r
    <3>3. \A k \in DOMAIN recs : IsRec(recs[k])
      BY <1>6, <3>1, <3>2
    <3> QED
      BY <1>4, <1>6, <3>3 DEF IsRecs, IsRec
  <2>2. \A k \in DOMAIN recs : recs[k].ov = txn.recs[k].ov
    BY <1>6
  <2> QED
    BY <1>4, <1>6, <2>1, <2>2 DEF FreeTree, TreeOf
<1>8. NoneGained(txn, recs)
  <2>1. \A k \in DOMAIN recs : 0 < k /\ k <= txn.txnid
    BY <1>4, <1>6 DEF Books, Numbered
  <2>2. \A k \in DOMAIN recs : k < txn.txnid => recs[k] = txn.recs[k]
    BY <1>2, <1>6
  <2> QED
    BY <1>6, <2>1, <2>2 DEF NoneGained
<1>9. Leads(txn, z) /\ Steady(txn, z) /\ IsRecord(z) /\ NowRecorded(txn, z, recs)
  <2>1. Moves(txn, txn, Parent, {}, {}) /\ NoneLoosened(txn, txn) /\ SameMain(txn, txn)
    BY <1>4, Stays, OthersSameMain DEF NoneLoosened
  <2> QED
    BY <1>5, <1>7, <1>8, <2>1, RecordedLeads
<1>10. Advances(txn, z) /\ SaveBooks(z, save)
  <2>1. z.error = FALSE /\ z.recs = recs /\ z.txnid = txn.txnid /\ FreedBy(z) = FreedBy(txn) /\ z.pglast = txn.pglast
    BY <1>2, <1>9 DEF NowRecorded, FreedBy
  <2>2. save.pglast \in Nat /\ save.pglast < txn.txnid
    BY <1>2 DEF SaveBooks, IsSave
  <2>3. save.pglast # 0 => \A k \in DOMAIN recs : k <= save.pglast => recs[k].ids = {}
    BY <1>2, <1>6, <2>2 DEF SaveBooks
  <2>4. txn.txnid \in DOMAIN recs => recs[txn.txnid].ids \subseteq FreedBy(txn)
    BY <1>6
  <2>6. z.frees = txn.frees /\ z.loose = txn.loose
    BY <1>9 DEF NowRecorded
  <2>7. RoomIn(recs, save.head) = RoomIn(txn.recs, save.head)
        /\ RoomUpTo(recs, save.pglast + 1) = RoomUpTo(txn.recs, save.pglast + 1)
    <3>1. RoomsAreNumbers(recs) /\ RoomsAreNumbers(txn.recs)
      BY <1>4, <1>7 DEF IsRecs, RoomsAreNumbers
    <3>2. \A k : RoomIn(recs, k) = RoomIn(txn.recs, k)
      BY <1>6 DEF RoomIn
    <3> DEFINE k == save.pglast + 1
    <3>3. k \in Nat
      BY <2>2
    <3> HIDE DEF k
    <3>4. RoomUpTo(recs, k) = RoomUpTo(txn.recs, k)
      BY <3>1, <3>2, <3>3, RoomsSame
    <3> QED
      BY <3>2, <3>4 DEF k
  <2>5. SaveBooks(z, save)
    BY <1>2, <1>6, <2>1, <2>3, <2>4, <2>6, <2>7 DEF SaveBooks
  <2> QED
    BY <1>9, <2>1, <2>5 DEF Advances
<1>11. FreesListed(z)
  <2>1. txn.txnid \in DOMAIN txn.recs
    BY <1>1 DEF PagesInv, SaveRight
  <2>2. recs[txn.txnid].ids = FreedBy(txn) /\ txn.txnid \in DOMAIN recs
    BY <1>6, <2>1
  <2>3. z.recs = recs /\ z.txnid = txn.txnid /\ FreedBy(z) = FreedBy(txn)
    BY <1>9 DEF NowRecorded, FreedBy
  <2> QED
    BY <2>2, <2>3 DEF FreesListed
<1>12. IsSave(save')
  BY <1>1, <1>2 DEF SaveBooks
<1> QED
  BY <1>1, <1>2, <1>3, <1>10, <1>11, <1>12, SaveKeeps

\* The record that is being filled is one that has been read, and its room a length.
LEMMA RoomForIs ==
    ASSUME NEW s, IsSave(s), MopLen \in Nat
    PROVE  RoomFor(s) \in Nat
<1> DEFINE rest == MopLen - (s.total - s.hroom)
           part == rest \div s.head
<1>1. rest \in Int /\ s.head \in Nat
  BY DEF IsSave
<1>2. MaxFree1Pg \in Nat
  BY LmdbPagesAssumption DEF MaxFree1Pg
<1>3. RoomFor(s) = IF rest > MaxFree1Pg /\ s.head > 1
                   THEN part + MaxFree1Pg - (part % (MaxFree1Pg + 1))
                   ELSE IF rest < 0 THEN 0 ELSE rest
  BY DEF RoomFor
<1> HIDE DEF rest
<1>4. CASE rest > MaxFree1Pg /\ s.head > 1
  <2>1. rest \in Nat
    BY <1>1, <1>2, <1>4
  <2>2. part \in Nat
    BY <1>1, <1>4, <2>1
  <2> HIDE DEF part
  <2>3. part % (MaxFree1Pg + 1) \in 0 .. MaxFree1Pg
    BY <1>2, <2>2
  <2> QED
    BY <1>2, <1>3, <1>4, <2>2, <2>3
<1>5. CASE ~ (rest > MaxFree1Pg /\ s.head > 1)
  BY <1>1, <1>3, <1>5
<1> QED
  BY <1>4, <1>5

\* The length of the list to be put back.
LEMMA MopLenIs ==
    ASSUME NEW u, Books(txn, u, {})
    PROVE  MopLen \in Nat
<1>1. txn.pghead \subseteq Known(txn) /\ txn.next \in Nat /\ txn.loose \in Seq(Nat)
  BY DEF Books, Placed, IsTxn
<1>2. IsFiniteSet(Known(txn))
  BY <1>1, KnownIsFinite
<1>3. Cardinality(txn.pghead) \in Nat
  BY <1>1, <1>2, FS_Subset, FS_CardinalityType
<1> QED
  BY <1>1, <1>3 DEF MopLen

\* Another attempt, the next record, or the same again.
Tries(again, next, s) ==
    s = IF again THEN [save EXCEPT !.more = @ - 1]
        ELSE IF next THEN [save EXCEPT !.head = @ - 1, !.hroom = 0] ELSE save

\* The registers at the start of an attempt to reserve room.
LEMMA ReserveTries ==
    ASSUME IsSave(save), NEW again \in BOOLEAN, NEW next \in BOOLEAN, next => save.head > 1, NEW s,
           Tries(again, next, s)
    PROVE  IsSave(s) /\ s.pglast = save.pglast /\ s.total = save.total /\ s.freecnt = save.freecnt
           /\ \/ s.head = save.head /\ s.hroom = save.hroom
              \/ save.head > 1 /\ s.head = save.head - 1 /\ s.hroom = 0
<1>1. /\ save.pglast \in Nat /\ save.freecnt \in Nat /\ save.head \in Nat
      /\ save.hroom \in Nat /\ save.total \in Nat /\ save.more \in Int
  BY DEF IsSave
<1>2. CASE again
  <2>1. Registers(s, save.pglast, save.freecnt, save.head, save.hroom, save.total, save.more - 1)
    BY <1>2 DEF IsSave, Registers, Tries
  <2>2. save.more - 1 \in Int
    BY <1>1
  <2>3. IsSave(s)
    BY <1>1, <2>1, <2>2, SaveIs
  <2>4. s.pglast = save.pglast /\ s.head = save.head /\ s.freecnt = save.freecnt
        /\ s.hroom = save.hroom /\ s.total = save.total
    BY <2>1, RegistersAre
  <2> QED
    BY <1>1, <2>3, <2>4
<1>3. CASE ~again /\ next
  <2>1. Registers(s, save.pglast, save.freecnt, save.head - 1, 0, save.total, save.more)
    BY <1>3 DEF IsSave, Registers, Tries
  <2>2. save.head - 1 \in Nat /\ 0 \in Nat /\ save.head - 1 <= save.head
    BY <1>1, <1>3
  <2>3. IsSave(s)
    BY <1>1, <2>1, <2>2, SaveIs
  <2>4. s.pglast = save.pglast /\ s.head = save.head - 1 /\ s.freecnt = save.freecnt
        /\ s.hroom = 0 /\ s.total = save.total
    BY <2>1, RegistersAre
  <2> QED
    BY <1>3, <2>2, <2>3, <2>4
<1>4. CASE ~again /\ ~next
  BY <1>1, <1>4 DEF Tries
<1> QED
  BY <1>2, <1>3, <1>4

Reserves(s, s2, n) == s2 = [s EXCEPT !.hroom = n, !.total = s.total - s.hroom + n]

\* And at its end.
LEMMA ReserveEnds ==
    ASSUME NEW s, IsSave(s), s.hroom <= s.total, NEW n \in Nat, NEW s2, Reserves(s, s2, n)
    PROVE  IsSave(s2) /\ s2.pglast = s.pglast /\ s2.head = s.head /\ s2.freecnt = s.freecnt
           /\ s2.hroom = n /\ s2.total = s.total - s.hroom + n
<1>1. /\ s.pglast \in Nat /\ s.freecnt \in Nat /\ s.head \in Nat
      /\ s.hroom \in Nat /\ s.total \in Nat /\ s.more \in Int
  BY DEF IsSave
<1>2. Registers(s2, s.pglast, s.freecnt, s.head, n, s.total - s.hroom + n, s.more)
  BY DEF IsSave, Registers, Reserves
<1>3. n \in Nat /\ s.total - s.hroom + n \in Nat
  BY <1>1
<1>4. IsSave(s2)
  BY <1>1, <1>2, <1>3, SaveIs
<1> QED
  BY <1>2, <1>4, RegistersAre

\* mdb_freelist_save reserves room in a record.
LEMMA SaveReserveKeeps ==
    ASSUME PagesInv, SaveReserve
    PROVE  MainSaved
<1> DEFINE again == save.total >= MopLen
           next  == ~again /\ save.hroom >= MaxFree1Pg /\ save.head > 1
<1>1. PICK s \in {IF again THEN [save EXCEPT !.more = @ - 1]
                  ELSE IF next THEN [save EXCEPT !.head = @ - 1, !.hroom = 0] ELSE save} :
          /\ Saves(PutRecord(txn, s.head, RoomFor(s)), "save")
          /\ save' = [s EXCEPT !.hroom = RoomFor(s), !.total = s.total - s.hroom + RoomFor(s)]
  BY DEF SaveReserve
<1>2. Saving /\ at \in {"active", "save", "frees"}
  BY DEF SaveReserve, Reserving, Saving
<1>3. /\ outer = <<>> /\ txn.error = FALSE /\ SaveBooks(txn, save) /\ Ready(txn)
      /\ txn.txnid \in Nat /\ txn.pglast \in Nat /\ txn.pglast < txn.txnid
  BY <1>2, SavingReady
<1>4. IsSave(s) /\ s.pglast = save.pglast /\ s.total = save.total /\ s.freecnt = save.freecnt
      /\ \/ s.head = save.head /\ s.hroom = save.hroom
         \/ save.head > 1 /\ s.head = save.head - 1 /\ s.hroom = 0
  <2>1. IsSave(save) /\ again \in BOOLEAN /\ next \in BOOLEAN /\ (next => save.head > 1)
    BY <1>3 DEF SaveBooks
  <2>2. Tries(again, next, s)
    BY <1>1 DEF Tries
  <2> HIDE DEF again, next
  <2> QED
    BY <2>1, <2>2, ReserveTries
<1>5. RoomFor(s) \in Nat
  <2>1. Books(txn, Parent, {})
    BY <1>3 DEF Ready
  <2> QED
    BY <1>4, <2>1, MopLenIs, RoomForIs
<1>6. /\ save.head > 0 /\ save.head \in Nat /\ save.pglast \in Nat /\ save.head <= save.pglast
      /\ save.pglast <= txn.pglast
  <2>1. RoomsAreNumbers(txn.recs) /\ 0 \notin DOMAIN txn.recs /\ DOMAIN txn.recs \subseteq Nat
    <3>1. IsRecs(txn.recs) /\ Numbered(txn)
      BY <1>3 DEF Ready, Books, IsTxn
    <3>2. 0 \notin DOMAIN txn.recs
      BY <3>1 DEF Numbered
    <3> QED
      BY <3>1, <3>2 DEF IsRecs, RoomsAreNumbers
  <2>2. /\ save.head \in Nat /\ save.pglast \in Nat /\ save.head <= save.pglast
        /\ save.pglast <= txn.pglast
    BY <1>3 DEF SaveBooks, IsSave
  <2>3. save.pglast >= txn.pglast /\ ~RoomSuffices
    BY DEF SaveReserve, Reserving
  <2>4. ASSUME save.head = 0 PROVE FALSE
    <3>1. save.pglast = 0 /\ txn.pglast = 0
      BY <1>3, <2>2, <2>3, <2>4 DEF SaveBooks
    <3>2. txn.pghead = {} /\ txn.loose = <<>>
      BY <1>3, <3>1 DEF SaveBooks, Ready, Books, Numbered
    <3>3. MopLen = 0
      BY <3>2, FS_EmptySet DEF MopLen
    <3>4. RoomUpTo(txn.recs, 1) = 0
      <4>1. \A n \in DOMAIN txn.recs : ~ (n < 1)
        BY <2>1
      <4> QED
        BY <2>1, <4>1, RoomsNone
    <3>5. save.total = 0
      BY <1>3, <3>1, <3>4 DEF SaveBooks
    <3> QED
      BY <2>3, <3>3, <3>5 DEF RoomSuffices
  <2> QED
    BY <2>2, <2>4
<1>7. /\ s.head \in Nat /\ 0 < s.head /\ s.head <= s.pglast /\ s.head <= txn.pglast
      /\ s.hroom = RoomIn(txn.recs, s.head) /\ s.head <= save.head /\ s.pglast \in Nat
  <2>1. CASE s.head = save.head /\ s.hroom = save.hroom
    BY <1>3, <1>4, <1>6, <2>1 DEF SaveBooks
  <2>2. CASE save.head > 1 /\ s.head = save.head - 1 /\ s.hroom = 0
    <3>1. s.head \notin DOMAIN txn.recs
      BY <1>3, <1>6, <2>2 DEF SaveBooks
    <3>2. s.hroom = RoomIn(txn.recs, s.head)
      BY <2>2, <3>1 DEF RoomIn
    <3>3. txn.pglast \in Nat
      BY <1>3
    <3>4. s.head \in Nat /\ 0 < s.head /\ s.head <= save.head
      BY <1>6, <2>2
    <3>5. s.head <= s.pglast /\ s.head <= txn.pglast /\ s.pglast \in Nat
      BY <1>4, <1>6, <3>3, <3>4
    <3> QED
      BY <3>2, <3>4, <3>5
  <2> QED
    BY <1>4, <2>1, <2>2
<1>8. SaveBooks(txn, s)
  <2>1. \A id \in DOMAIN txn.recs : id \in Nat
    BY <1>3 DEF Ready, Books, IsTxn, IsRecs
  <2>2. \A id \in DOMAIN txn.recs : id <= s.pglast => s.head <= id
    BY <1>3, <1>4, <1>6, <1>7, <2>1 DEF SaveBooks
  <2> QED
    BY <1>3, <1>4, <1>7, <2>2 DEF SaveBooks
<1> DEFINE n == RoomFor(s)
           id == s.head
           top == s.pglast + 1
           z == PutRecord(txn, id, n)
           s2 == save'
<1>9. n \in Nat /\ z = PutRecord(txn, id, n) /\ Saves(z, "save") /\ id \in Nat /\ top \in Nat /\ id < top
  BY <1>1, <1>4, <1>5, <1>7 DEF IsSave
<1>10. RoomsAreNumbers(txn.recs) /\ s.hroom = RoomIn(txn.recs, id) /\ s.total = RoomUpTo(txn.recs, top)
  BY <1>3, <1>7, <1>8 DEF SaveBooks, Ready, Books, IsTxn, IsRecs, RoomsAreNumbers
<1>11. s.hroom <= s.total
  <2> HIDE DEF id, top
  <2>1. RoomUpTo(txn.recs, id) + RoomIn(txn.recs, id) <= RoomUpTo(txn.recs, top) /\ RoomUpTo(txn.recs, id) \in Nat
    BY <1>9, <1>10, RoomsApart
  <2> QED
    BY <1>4, <1>10, <2>1 DEF IsSave
<1>12. /\ IsSave(s2) /\ s2.pglast = s.pglast /\ s2.head = s.head /\ s2.freecnt = s.freecnt
       /\ s2.hroom = n /\ s2.total = s.total - s.hroom + n
  <2>1. Reserves(s, s2, n)
    BY <1>1 DEF Reserves
  <2> HIDE DEF n, s2
  <2> QED
    BY <1>4, <1>9, <1>11, <2>1, ReserveEnds
<1> HIDE DEF z, n
<1>13. Advances(txn, z) /\ (z.error = FALSE => Recorded(txn, z, id, n))
  <2>1. Own(txn, id)
    BY <1>7 DEF Own
  <2> HIDE DEF id
  <2> QED
    BY <1>3, <1>9, <2>1, PutRecordIs
<1>14. ASSUME z.error = FALSE PROVE SaveBooks(z, s2) /\ (s2.freecnt = Len(z.frees) => FreesListed(z))
  <2>1. Steady(txn, z) /\ Leads(txn, z) /\ Recorded(txn, z, id, n)
    BY <1>13, <1>14 DEF Advances
  <2>2. IsTxn(txn) /\ RoomsAreNumbers(z.recs) /\ txn.frees \in Seq(Nat) /\ z.frees \in Seq(Nat)
    BY <1>3, <2>1 DEF Leads, Ready, Books, IsTxn, IsRecs, RoomsAreNumbers
  <2>3. RoomIn(z.recs, id) = n
    BY <2>1 DEF Recorded, RoomIn
  <2>4. \A k \in Nat : k < top /\ k # id => RoomIn(z.recs, k) = RoomIn(txn.recs, k)
    BY <2>1 DEF Recorded, RoomIn
  <2>5. RoomUpTo(z.recs, top) = RoomUpTo(txn.recs, top) - RoomIn(txn.recs, id) + RoomIn(z.recs, id)
    <3> HIDE DEF id, top
    <3> QED
      BY <1>9, <1>10, <2>2, <2>4, RoomChanged
  <2>6. s2.hroom = RoomIn(z.recs, s.head) /\ s2.total = RoomUpTo(z.recs, s.pglast + 1)
    BY <1>10, <1>12, <2>3, <2>5
  <2>7. SaveBooks(z, s2)
    <3>1. s.head <= id
      BY <1>9
    <3> HIDE DEF id, s2, top
    <3> QED
      BY <1>8, <1>12, <2>1, <2>2, <2>6, <3>1, PutBooks
  <2>8. s2.freecnt = Len(z.frees) => FreesListed(z)
    <3> SUFFICES ASSUME s2.freecnt = Len(z.frees), z.frees # <<>>
                 PROVE  z.txnid \in DOMAIN z.recs /\ FreedBy(z) \subseteq z.recs[z.txnid].ids
      BY DEF FreesListed
    <3>1. save.freecnt <= Len(txn.frees) /\ Len(txn.frees) <= Len(z.frees) /\ save.freecnt = Len(z.frees)
          /\ Len(txn.frees) \in Nat /\ Len(z.frees) \in Nat
      <4>1. save.freecnt <= Len(txn.frees)
        BY <1>3 DEF SaveBooks
      <4>2. Len(txn.frees) <= Len(z.frees)
        BY <2>1 DEF Leads, FreesMore
      <4>3. s2.freecnt = Len(z.frees) /\ s2.freecnt = save.freecnt
        BY <1>4, <1>12
      <4>4. Len(txn.frees) \in Nat /\ Len(z.frees) \in Nat
        BY <2>2
      <4> HIDE DEF s2
      <4> QED
        BY <4>1, <4>2, <4>3, <4>4
    <3>2. Len(txn.frees) = Len(z.frees) /\ save.freecnt = Len(txn.frees)
      BY <3>1
    <3>3. z.frees = txn.frees
      BY <2>1, <3>2 DEF Leads, FreesMore
    <3>4. FreesListed(txn)
      BY <3>2 DEF PagesInv, SaveRight, SaveReserve, Reserving
    <3>5. txn.txnid \in DOMAIN txn.recs /\ FreedBy(z) \subseteq txn.recs[txn.txnid].ids
      BY <3>3, <3>4 DEF FreesListed, FreedBy
    <3>6. txn.txnid # id
      BY <1>3, <1>7
    <3> QED
      BY <2>1, <3>5, <3>6 DEF Recorded, Steady
  <2> QED
    BY <2>7, <2>8
<1> QED
  BY <1>2, <1>3, <1>9, <1>12, <1>13, <1>14, SaveKeeps

-----------------------------------------------------------------------------
(* The records are filled *)

Whole == txn.pghead \cup Loose(txn)

Part(id) == {Ascending(Whole)[i] : i \in {k \in 1 .. Len(Ascending(Whole)) :
                 /\ k > RoomBefore(id)
                 /\ k <= RoomBefore(id) + txn.recs[id].room}}

\* Each record gets its part of the list, or is left as it is.
NowFilled(z) ==
    /\ DOMAIN z.recs = DOMAIN txn.recs
    /\ \A id \in DOMAIN txn.recs :
           /\ IsRec(z.recs[id]) /\ z.recs[id].ov = txn.recs[id].ov
           /\ z.recs[id].ids = IF RoomBefore(id) < Len(Ascending(Whole)) THEN Part(id) ELSE txn.recs[id].ids
    /\ z.room = txn.room /\ z.frees = txn.frees /\ z.pghead = Whole
    /\ z.pages = txn.pages /\ z.dirty = txn.dirty /\ z.spills = txn.spills /\ z.root = txn.root
    /\ z.txnid = txn.txnid /\ z.next = txn.next /\ z.oldest = txn.oldest /\ z.error = txn.error
    /\ z.loose = <<>>

\* The list to be put back is a finite set of pages.
LEMMA WholeIs ==
    ASSUME NEW u, Books(txn, u, {})
    PROVE  Whole \in SUBSET Nat /\ IsFiniteSet(Whole) /\ Whole \subseteq Known(txn)
<1>1. Whole \subseteq Known(txn) /\ txn.next \in Nat
  BY DEF Whole, Books, Placed, IsTxn
<1>2. IsFiniteSet(Known(txn)) /\ Known(txn) \subseteq Nat
  BY <1>1, KnownIsFinite
<1> QED
  BY <1>1, <1>2, FS_Subset

\* A list of different elements is as long as there are elements.
LEMMA OnceEachCounts ==
    ASSUME NEW S, NEW list \in Seq(S), OnceEach(list)
    PROVE  IsFiniteSet(ToSet(list)) /\ Cardinality(ToSet(list)) = Len(list)
<1> DEFINE n == Len(list)
           T == ToSet(list)
<1>1. n \in Nat /\ DOMAIN list = 1 .. n /\ list = [i \in 1 .. n |-> list[i]]
  OBVIOUS
<1>2. \A x : x \in T <=> \E i \in 1 .. n : x = list[i]
  BY ToSetOf
<1>3. IsFiniteSet(1 .. n) /\ Cardinality(1 .. n) = n
  <2>1. n \in Nat
    BY <1>1
  <2> HIDE DEF n
  <2>2. 1 \in Int /\ n \in Int
    BY <2>1
  <2>3. IsFiniteSet(1 .. n) /\ Cardinality(1 .. n) = IF 1 > n THEN 0 ELSE n - 1 + 1
    BY <2>2, FS_Interval
  <2> QED
    BY <2>1, <2>3
<1> HIDE DEF n, T
<1>4. list \in [1 .. n -> T]
  BY <1>1, <1>2
<1>5. list \in Bijection(1 .. n, T)
  <2>1. IsInjective(list)
    BY <1>1 DEF OnceEach, IsInjective
  <2>2. list \in Surjection(1 .. n, T)
    BY <1>2, <1>4 DEF Surjection
  <2> QED
    BY <1>4, <2>1, <2>2 DEF Bijection, Injection
<1>6. IsFiniteSet(T) /\ Cardinality(T) = Cardinality(1 .. n)
  BY <1>3, <1>5, FS_Bijection DEF ExistsBijection
<1> QED
  BY <1>3, <1>6 DEF n, T

\* The length that mdb_freelist_save computes is that of the list.
LEMMA MopLenCounts ==
    ASSUME Books(txn, Parent, {})
    PROVE  /\ MopLen \in Nat /\ MopLen = Len(Ascending(Whole))
           /\ \A p \in Whole : \E i \in 1 .. MopLen : Ascending(Whole)[i] = p
<1>1. Whole \in SUBSET Nat /\ IsFiniteSet(Whole)
  BY WholeIs
<1>2. txn.pghead \cap Loose(txn) = {} /\ OnceEach(txn.loose) /\ txn.loose \in Seq(Nat)
  BY DEF Books, Placed, Apart, IsTxn
<1>3. IsFiniteSet(Loose(txn)) /\ Cardinality(Loose(txn)) = Len(txn.loose)
  BY <1>2, OnceEachCounts DEF Loose
<1>4. IsFiniteSet(txn.pghead)
  BY <1>1, FS_Subset DEF Whole
<1>5. Cardinality(txn.pghead \cap Loose(txn)) = 0
  BY <1>2, FS_EmptySet
<1>6. /\ Cardinality(Whole) = Cardinality(txn.pghead) + Cardinality(Loose(txn)) - Cardinality(txn.pghead \cap Loose(txn))
      /\ Cardinality(txn.pghead) \in Nat /\ Cardinality(Loose(txn)) \in Nat
  BY <1>3, <1>4, FS_Union, FS_CardinalityType DEF Whole
<1>7. MopLen = Cardinality(Whole) /\ MopLen \in Nat
  BY <1>3, <1>5, <1>6 DEF MopLen
<1>8. /\ Len(Ascending(Whole)) = Cardinality(Whole)
      /\ \A p \in Whole : \E i \in 1 .. Cardinality(Whole) : Ascending(Whole)[i] = p
  BY <1>1, AscendingIs
<1> QED
  BY <1>7, <1>8

\* When the room suffices, the records that were not read begin beyond the list.
LEMMA UnreadBeyond ==
    ASSUME Books(txn, Parent, {}), SaveBooks(txn, save), save.pglast >= txn.pglast, RoomSuffices,
           NEW id \in DOMAIN txn.recs, txn.pglast < id
    PROVE  RoomBefore(id) >= MopLen /\ RoomBefore(id) \in Nat
<1>1. RoomsAreNumbers(txn.recs) /\ id \in Nat
  BY DEF Books, IsTxn, IsRecs, RoomsAreNumbers
<1>2. save.pglast \in Nat /\ save.pglast < id /\ save.total \in Nat
  BY <1>1 DEF SaveBooks, IsSave, Books, IsTxn
<1>3. save.total = RoomUpTo(txn.recs, save.pglast + 1) /\ save.total >= MopLen
  BY <1>2, MopLenCounts DEF SaveBooks, RoomSuffices
<1> DEFINE top == save.pglast
<1>4. top \in Nat /\ top < id
  BY <1>2
<1> HIDE DEF top
<1>5. /\ RoomUpTo(txn.recs, top) + RoomIn(txn.recs, top) <= RoomUpTo(txn.recs, id)
      /\ RoomUpTo(txn.recs, id) \in Nat
  BY <1>1, <1>4, RoomsApart
<1>6. RoomUpTo(txn.recs, top + 1) = RoomUpTo(txn.recs, top) + RoomIn(txn.recs, top)
  BY <1>1, <1>4, RoomUpToNext
<1>7. save.total <= RoomUpTo(txn.recs, id)
  BY <1>3, <1>5, <1>6 DEF top
<1> QED
  BY <1>2, <1>3, <1>5, <1>7, RoomBeforeIs, MopLenCounts

\* No page is put into two records.
LEMMA PartsApart ==
    ASSUME NEW u, Books(txn, u, {}), NEW id \in DOMAIN txn.recs
    PROVE  /\ Part(id) \subseteq Whole
           /\ \A other \in DOMAIN txn.recs : id # other => Part(id) \cap Part(other) = {}
<1>1. RoomsAreNumbers(txn.recs) /\ DOMAIN txn.recs \subseteq Nat
  BY DEF Books, IsTxn, IsRecs, RoomsAreNumbers
<1>2. Whole \in SUBSET Nat /\ IsFiniteSet(Whole)
  BY WholeIs
<1> DEFINE n == Cardinality(Whole)
           pgs == Ascending(Whole)
<1>3. /\ n \in Nat /\ Len(pgs) = n
      /\ \A i \in 1 .. n : pgs[i] \in Whole
      /\ \A i, j \in 1 .. n : i < j => pgs[i] < pgs[j]
  BY <1>2, AscendingIs
<1>4. \A k : Part(k) = {pgs[i] : i \in {j \in 1 .. n : j > RoomBefore(k) /\ j <= RoomBefore(k) + txn.recs[k].room}}
  BY <1>3 DEF Part
<1> HIDE DEF pgs, n
<1>5. Part(id) \subseteq Whole
  BY <1>3, <1>4
<1>6. ASSUME NEW k \in DOMAIN txn.recs, NEW m \in DOMAIN txn.recs, k < m PROVE Part(k) \cap Part(m) = {}
  <2>1. /\ RoomBefore(k) \in Nat /\ RoomBefore(m) \in Nat
        /\ RoomBefore(k) + RoomIn(txn.recs, k) <= RoomBefore(m)
    BY <1>1, <1>6, RoomsApart, RoomBeforeIs
  <2>2. RoomIn(txn.recs, k) = txn.recs[k].room /\ txn.recs[k].room \in Nat
    BY <1>1 DEF RoomIn, RoomsAreNumbers
  <2> SUFFICES ASSUME NEW p \in Part(k), p \in Part(m) PROVE FALSE
    OBVIOUS
  <2>3. PICK i \in 1 .. n : pgs[i] = p /\ i <= RoomBefore(k) + txn.recs[k].room
    BY <1>4
  <2>4. PICK j \in 1 .. n : pgs[j] = p /\ j > RoomBefore(m)
    BY <1>4
  <2>5. i < j
    BY <1>3, <2>1, <2>2, <2>3, <2>4
  <2>6. pgs[i] < pgs[j] /\ pgs[i] \in Nat
    BY <1>2, <1>3, <2>5
  <2> QED
    BY <2>3, <2>4, <2>6
<1>7. \A other \in DOMAIN txn.recs : id # other => Part(id) \cap Part(other) = {}
  <2> SUFFICES ASSUME NEW other \in DOMAIN txn.recs, id # other PROVE Part(id) \cap Part(other) = {}
    OBVIOUS
  <2>1. id < other \/ other < id
    BY <1>1
  <2> QED
    BY <1>6, <2>1
<1> QED
  BY <1>5, <1>7

\* What a record holds before: nothing, pages not read, or what this transaction has freed.
Held(id) ==
    \/ txn.recs[id].ids = {}
    \/ id \in Unread(txn)
    \/ id = txn.txnid /\ txn.recs[id].ids \subseteq FreedBy(txn)

\* What every record holds before the list is put back.
LEMMA RecordsHold ==
    ASSUME Books(txn, Parent, {}), SaveBooks(txn, save), save.pglast >= txn.pglast,
           NEW id \in DOMAIN txn.recs
    PROVE  Held(id)
<1>1. /\ txn.pglast \in Nat /\ txn.txnid \in Nat /\ DOMAIN txn.recs \subseteq Nat /\ id <= txn.txnid
      /\ save.pglast \in Nat /\ save.pglast <= txn.pglast
  BY DEF Books, IsTxn, IsRecs, Numbered, SaveBooks, IsSave
<1>2. save.pglast = txn.pglast /\ id \in Nat
  BY <1>1
<1>3. CASE id = txn.txnid
  BY <1>3 DEF SaveBooks, Held
<1>4. CASE id # txn.txnid /\ (txn.pglast = 0 \/ txn.pglast < id)
  BY <1>1, <1>2, <1>4 DEF Held, Unread
<1>5. CASE txn.pglast # 0 /\ id <= txn.pglast
  BY <1>2, <1>5 DEF SaveBooks, Held
<1> QED
  BY <1>1, <1>2, <1>3, <1>4, <1>5

\* Such a record meets no page in use, none of the list, and no other record.
LEMMA HeldApart ==
    ASSUME Books(txn, Parent, {}), NEW id \in DOMAIN txn.recs, Held(id)
    PROVE  /\ txn.recs[id].ids \subseteq Known(txn) /\ txn.recs[id].ids \cap Covered(txn.pages) = {}
           /\ txn.recs[id].ids \cap Whole = {}
           /\ \A other \in DOMAIN txn.recs : Held(other) /\ id # other => txn.recs[id].ids \cap txn.recs[other].ids = {}
<1>1. /\ Waiting(txn) \cup FreedBy(txn) \subseteq Known(txn)
      /\ Waiting(txn) \cap Covered(txn.pages) = {} /\ FreedBy(txn) \cap Covered(txn.pages) = {}
      /\ Waiting(txn) \cap Whole = {} /\ FreedBy(txn) \cap Whole = {} /\ Waiting(txn) \cap FreedBy(txn) = {}
      /\ RecordsApart(txn.recs, Unread(txn))
  BY DEF Books, Placed, Apart, Whole
<1>2. \A k \in Unread(txn) : txn.recs[k].ids \subseteq Waiting(txn)
  BY DEF Waiting
<1>3. /\ txn.recs[id].ids \subseteq Known(txn) /\ txn.recs[id].ids \cap Covered(txn.pages) = {}
      /\ txn.recs[id].ids \cap Whole = {}
  BY <1>1, <1>2 DEF Held
<1>4. ASSUME NEW other \in DOMAIN txn.recs, Held(other), id # other
      PROVE  txn.recs[id].ids \cap txn.recs[other].ids = {}
  <2>1. CASE id \in Unread(txn) /\ other \in Unread(txn)
    BY <1>1, <1>4, <2>1 DEF RecordsApart
  <2>2. CASE id = txn.txnid /\ txn.recs[id].ids \subseteq FreedBy(txn) /\ other \in Unread(txn)
    BY <1>1, <1>2, <2>2
  <2>3. CASE other = txn.txnid /\ txn.recs[other].ids \subseteq FreedBy(txn) /\ id \in Unread(txn)
    BY <1>1, <1>2, <2>3
  <2> QED
    BY <1>4, <2>1, <2>2, <2>3 DEF Held
<1> QED
  BY <1>3, <1>4

\* So once the list is put back no page is in two records or in a record and in use.
LEMMA FilledApart ==
    ASSUME Books(txn, Parent, {}), \A id \in DOMAIN txn.recs : Held(id), NEW z, NowFilled(z)
    PROVE  /\ \A id \in DOMAIN z.recs : /\ z.recs[id].ids \subseteq Known(txn)
                                        /\ z.recs[id].ids \cap Covered(txn.pages) = {}
           /\ RecordsApart(z.recs, DOMAIN z.recs)
<1>1. DOMAIN z.recs = DOMAIN txn.recs /\ \A id \in DOMAIN z.recs : z.recs[id].ids \in {txn.recs[id].ids, Part(id)}
  BY DEF NowFilled
<1>2. Whole \subseteq Known(txn) /\ Whole \cap Covered(txn.pages) = {}
  BY WholeIs DEF Whole, Books, Placed, Apart
<1>3. \A id \in DOMAIN txn.recs : /\ Part(id) \subseteq Whole
                                  /\ \A other \in DOMAIN txn.recs : id # other => Part(id) \cap Part(other) = {}
  BY PartsApart
<1>4. \A id \in DOMAIN txn.recs :
           /\ txn.recs[id].ids \subseteq Known(txn) /\ txn.recs[id].ids \cap Covered(txn.pages) = {}
           /\ txn.recs[id].ids \cap Whole = {}
           /\ \A other \in DOMAIN txn.recs : id # other => txn.recs[id].ids \cap txn.recs[other].ids = {}
  BY HeldApart
<1>5. \A id \in DOMAIN z.recs : z.recs[id].ids \subseteq Known(txn) /\ z.recs[id].ids \cap Covered(txn.pages) = {}
  <2> SUFFICES ASSUME NEW id \in DOMAIN z.recs
               PROVE  z.recs[id].ids \subseteq Known(txn) /\ z.recs[id].ids \cap Covered(txn.pages) = {}
    OBVIOUS
  <2>1. CASE z.recs[id].ids = txn.recs[id].ids
    BY <1>1, <1>4, <2>1
  <2>2. CASE z.recs[id].ids = Part(id)
    BY <1>1, <1>2, <1>3, <2>2
  <2> QED
    BY <1>1, <2>1, <2>2
<1>6. ASSUME NEW id \in DOMAIN z.recs, NEW other \in DOMAIN z.recs, id # other
      PROVE  z.recs[id].ids \cap z.recs[other].ids = {}
  <2>1. id \in DOMAIN txn.recs /\ other \in DOMAIN txn.recs
    BY <1>1
  <2>2. Part(id) \subseteq Whole /\ Part(other) \subseteq Whole /\ Part(id) \cap Part(other) = {}
    BY <1>3, <1>6, <2>1
  <2>3. /\ txn.recs[id].ids \cap Whole = {} /\ txn.recs[other].ids \cap Whole = {}
        /\ txn.recs[id].ids \cap txn.recs[other].ids = {}
    BY <1>4, <1>6, <2>1
  <2>4. z.recs[id].ids \in {txn.recs[id].ids, Part(id)} /\ z.recs[other].ids \in {txn.recs[other].ids, Part(other)}
    BY <1>1
  <2> QED
    BY <2>2, <2>3, <2>4
<1> QED
  BY <1>5, <1>6 DEF RecordsApart

\* And every page is in use or in a record.
LEMMA FilledWhole ==
    ASSUME Books(txn, Parent, {}), Parent = NoTxn, SaveBooks(txn, save), save.pglast >= txn.pglast,
           RoomSuffices, FreesListed(txn), NEW z, NowFilled(z), NEW p \in Known(txn)
    PROVE  p \in Covered(txn.pages) \/ \E id \in DOMAIN z.recs : p \in z.recs[id].ids
<1>1. DOMAIN z.recs = DOMAIN txn.recs
      /\ \A id \in DOMAIN txn.recs :
             z.recs[id].ids = IF RoomBefore(id) < MopLen THEN Part(id) ELSE txn.recs[id].ids
  BY MopLenCounts DEF NowFilled
<1>2. MopLen \in Nat /\ MopLen = Len(Ascending(Whole))
  BY MopLenCounts
<1>3. Kept(Parent) = {}
  BY DEF Kept, FreedBy, Loose, NoTxn, ToSet
<1>4. p \in Covered(txn.pages) \/ p \in Whole \/ p \in FreedBy(txn) \/ p \in Waiting(txn)
  BY <1>3 DEF Books, Placed, Whole
<1>5. /\ DOMAIN txn.recs \subseteq Nat /\ RoomsAreNumbers(txn.recs) /\ txn.pglast < txn.txnid
      /\ \A id \in DOMAIN txn.recs : 0 < id
      /\ txn.pglast \in Nat /\ txn.txnid \in Nat
  BY DEF Books, IsTxn, IsRecs, RoomsAreNumbers, Numbered
<1>6. ASSUME NEW id \in DOMAIN txn.recs, txn.pglast < id, p \in txn.recs[id].ids
      PROVE  \E k \in DOMAIN z.recs : p \in z.recs[k].ids
  <2>1. RoomBefore(id) >= MopLen /\ RoomBefore(id) \in Nat
    BY <1>6, UnreadBeyond
  <2>2. z.recs[id].ids = txn.recs[id].ids
    BY <1>1, <1>2, <2>1
  <2> QED
    BY <1>1, <1>6, <2>2
<1>7. CASE p \in Whole
  <2>1. PICK i \in 1 .. MopLen : Ascending(Whole)[i] = p
    BY <1>7, MopLenCounts
  <2> DEFINE top == save.pglast + 1
  <2>2. top \in Nat /\ save.total = RoomUpTo(txn.recs, top) /\ save.total \in Nat /\ save.total >= MopLen
    BY <1>2 DEF SaveBooks, IsSave, RoomSuffices
  <2> HIDE DEF top
  <2>3. i \in Nat /\ 0 < i /\ i <= RoomUpTo(txn.recs, top)
    BY <1>2, <2>1, <2>2
  <2>4. PICK n \in DOMAIN txn.recs : /\ n \in Nat /\ RoomUpTo(txn.recs, n) < i
                                     /\ i <= RoomUpTo(txn.recs, n) + txn.recs[n].room
    BY <1>5, <2>2, <2>3, RoomsCover
  <2>5. RoomBefore(n) < i /\ i <= RoomBefore(n) + txn.recs[n].room /\ RoomBefore(n) \in Nat
    BY <1>5, <2>4, RoomBeforeIs, RoomUpToNext
  <2>6. RoomBefore(n) < MopLen
    BY <1>2, <2>1, <2>3, <2>5
  <2>7. p \in Part(n)
    <3>1. i \in 1 .. Len(Ascending(Whole)) /\ i > RoomBefore(n)
      BY <1>2, <2>1, <2>3, <2>5
    <3> QED
      BY <2>1, <2>5, <3>1 DEF Part
  <2> QED
    BY <1>1, <2>4, <2>6, <2>7
<1>8. CASE p \in Waiting(txn)
  <2>1. PICK id \in Unread(txn) : p \in txn.recs[id].ids
    BY <1>8 DEF Waiting
  <2>2. id \in DOMAIN txn.recs /\ txn.pglast < id
    BY <1>5, <2>1 DEF Unread
  <2> QED
    BY <1>6, <2>1, <2>2
<1>9. CASE p \in FreedBy(txn)
  <2>1. txn.frees # <<>>
    BY <1>9 DEF FreedBy, ToSet
  <2>2. txn.txnid \in DOMAIN txn.recs /\ p \in txn.recs[txn.txnid].ids
    BY <1>9, <2>1 DEF FreesListed
  <2> QED
    BY <1>5, <1>6, <2>2
<1> QED
  BY <1>4, <1>7, <1>8, <1>9

\* What is committed is sound.
LEMMA FilledSound ==
    ASSUME Ready(txn), \A id \in DOMAIN txn.recs : Held(id), NEW z, NowFilled(z),
           Parent = NoTxn, SaveBooks(txn, save), save.pglast >= txn.pglast, RoomSuffices, FreesListed(txn)
    PROVE  Sound(Snapshot(z))
<1>1. Books(txn, Parent, {}) /\ TreeOf(txn)
  BY DEF Ready
<1>2. /\ IsPages(txn.pages) /\ IsRecs(txn.recs) /\ txn.txnid \in Nat /\ txn.root \in Nat
      /\ txn.next \in Nat /\ 2 <= txn.next /\ txn.next <= MaxPg
      /\ \A id \in DOMAIN txn.recs : 0 < id /\ id <= txn.txnid
      /\ Covered(txn.pages) \subseteq 2 .. txn.next - 1
      /\ Tiled(Blocks(txn) \cup Blocks(Parent))
  BY <1>1 DEF Books, IsTxn, Placed, Laid, Numbered, Known
<1>3. /\ DOMAIN z.recs = DOMAIN txn.recs
      /\ \A id \in DOMAIN txn.recs : IsRec(z.recs[id]) /\ z.recs[id].ov = txn.recs[id].ov
      /\ z.pages = txn.pages /\ z.root = txn.root /\ z.txnid = txn.txnid /\ z.next = txn.next
  BY DEF NowFilled
<1>5. IsRecs(z.recs)
  BY <1>2, <1>3 DEF IsRecs, IsRec
<1>6. FreeTree(z.pages, z.root, z.recs)
  BY <1>1, <1>3 DEF TreeOf, FreeTree
<1>7. \A h, k \in DOMAIN txn.pages : h = k \/ Run(h, txn.pages[h].n) \cap Run(k, txn.pages[k].n) = {}
  <2> SUFFICES ASSUME NEW h \in DOMAIN txn.pages, NEW k \in DOMAIN txn.pages, h # k
               PROVE  Run(h, txn.pages[h].n) \cap Run(k, txn.pages[k].n) = {}
    OBVIOUS
  <2> DEFINE b == <<h, txn.pages[h].n>>
             c == <<k, txn.pages[k].n>>
  <2>1. b \in Blocks(txn) /\ c \in Blocks(txn)
    BY BlockOfPage
  <2>2. b # c /\ RunOf(b) = Run(h, txn.pages[h].n) /\ RunOf(c) = Run(k, txn.pages[k].n)
    BY DEF RunOf
  <2> HIDE DEF b, c
  <2>3. RunOf(b) \cap RunOf(c) = {}
    BY <1>2, <2>1, <2>2 DEF Tiled
  <2> QED
    BY <2>2, <2>3
<1>8. /\ \A id \in DOMAIN z.recs : /\ z.recs[id].ids \subseteq 2 .. txn.next - 1
                                   /\ z.recs[id].ids \cap Covered(txn.pages) = {}
      /\ RecordsApart(z.recs, DOMAIN z.recs)
  BY <1>1, FilledApart DEF Known
<1> DEFINE snap == Snapshot(z)
<1>9. /\ snap.txnid = txn.txnid /\ snap.pages = txn.pages /\ snap.root = txn.root
      /\ snap.recs = z.recs /\ snap.last = txn.next - 1
  BY <1>3 DEF Snapshot
<1>10. MaxPg \in Nat
  BY LmdbPagesAssumption
<1> HIDE DEF snap
<1>11. Sound(snap)
  <2>1. snap.txnid \in Nat /\ snap.root \in Nat /\ snap.last \in Nat /\ 1 <= snap.last /\ snap.last < MaxPg
    BY <1>2, <1>9, <1>10
  <2>2. IsPages(snap.pages) /\ IsRecs(snap.recs) /\ FreeTree(snap.pages, snap.root, snap.recs)
    BY <1>2, <1>3, <1>5, <1>6, <1>9
  <2>3. \A id \in DOMAIN snap.recs : 0 < id /\ id <= snap.txnid
    BY <1>2, <1>3, <1>9
  <2>4. \A h, k \in DOMAIN snap.pages : h = k \/ Run(h, snap.pages[h].n) \cap Run(k, snap.pages[k].n) = {}
    BY <1>7, <1>9
  <2>5. Covered(snap.pages) \cup Listed(snap) = 2 .. snap.last
    <3>1. Covered(snap.pages) \cup Listed(snap) \subseteq 2 .. snap.last
      BY <1>2, <1>8, <1>9 DEF Listed
    <3>2. \A p \in Known(txn) : p \in Covered(txn.pages) \/ \E id \in DOMAIN z.recs : p \in z.recs[id].ids
      BY <1>1, FilledWhole
    <3>3. 2 .. snap.last = Known(txn)
      BY <1>9 DEF Known
    <3>4. \A p \in 2 .. snap.last : p \in Covered(snap.pages) \cup Listed(snap)
      BY <1>9, <3>2, <3>3 DEF Listed
    <3> QED
      BY <3>1, <3>4
  <2>6. \A id \in DOMAIN snap.recs : /\ snap.recs[id].ids \subseteq 2 .. snap.last
                                     /\ snap.recs[id].ids \cap Covered(snap.pages) = {}
    BY <1>8, <1>9
  <2>7. RecordsApart(snap.recs, DOMAIN snap.recs)
    BY <1>8, <1>9
  <2> QED
    BY <2>1, <2>2, <2>3, <2>4, <2>5, <2>6, <2>7 DEF Sound
<1> QED
  BY <1>11 DEF snap

\* And no record that a reader can need has got a page.
LEMMA FilledKeeps ==
    ASSUME Ready(txn), SaveBooks(txn, save), save.pglast >= txn.pglast, NEW z, NowFilled(z),
           NEW P, NEW s, s \in Nat, s < txn.txnid, Spares(txn, Parent, P, s)
    PROVE  Keeps(Snapshot(z), P, s) /\ DirtyPages(z) \cap P = {}
<1>1. Books(txn, Parent, {})
  BY DEF Ready
<1>2. /\ P \subseteq 2 .. txn.next - 1 /\ P \cap Whole = {} /\ DirtyPages(txn) \cap P = {}
      /\ \A id \in Unread(txn) : id <= s => txn.recs[id].ids \cap P = {}
  BY DEF Spares, Known, Whole
<1>3. Snapshot(z).last = txn.next - 1 /\ Snapshot(z).recs = z.recs /\ DirtyPages(z) = DirtyPages(txn)
  BY DEF Snapshot, NowFilled, DirtyPages
<1>4. ASSUME NEW id \in DOMAIN z.recs, id <= s PROVE z.recs[id].ids \cap P = {}
  <2>1. id \in DOMAIN txn.recs /\ z.recs[id].ids \in {txn.recs[id].ids, Part(id)}
    BY DEF NowFilled
  <2>2. Part(id) \subseteq Whole
    BY <1>1, <2>1, PartsApart
  <2>3. id # txn.txnid
    <3>1. id \in Nat /\ txn.txnid \in Nat
      BY <1>1, <2>1 DEF Books, IsTxn, IsRecs
    <3> QED
      BY <1>4, <3>1
  <2>4. txn.recs[id].ids = {} \/ id \in Unread(txn)
    BY <1>1, <2>1, <2>3, RecordsHold DEF Held
  <2>5. txn.recs[id].ids \cap P = {}
    BY <1>2, <1>4, <2>4
  <2> QED
    BY <1>2, <2>1, <2>2, <2>5
<1> QED
  BY <1>2, <1>3, <1>4 DEF Keeps

\* The step does put the list back.
LEMMA FillFills ==
    ASSUME Ready(txn), SaveFill
    PROVE  NowFilled(txn') /\ IsTxn(txn') /\ at' = "flush" /\ at = "save" /\ Still /\ outer' = outer
<1> DEFINE all  == txn.pghead \cup ToSet(txn.loose)
           pgs  == Ascending(all)
           part(id) == {pgs[i] : i \in {k \in 1 .. Len(pgs) :
                           /\ k > RoomBefore(id)
                           /\ k <= RoomBefore(id) + txn.recs[id].room}}
           recs == [id \in DOMAIN txn.recs |->
                       IF RoomBefore(id) < Len(pgs)
                       THEN [txn.recs[id] EXCEPT !.ids = part(id)] ELSE txn.recs[id]]
           z    == [txn EXCEPT !.recs = recs, !.pghead = all, !.loose = <<>>]
<1>1. at = "save" /\ Saves(z, "flush")
  BY DEF SaveFill, Reserving
<1>2. all = Whole /\ \A id : part(id) = Part(id)
  BY DEF Whole, Loose, Part
<1>3. IsTxn(txn) /\ IsRecord(txn) /\ IsRecs(txn.recs) /\ txn.error = FALSE
  BY DEF Ready, Books, IsTxn
<1>4. z = [txn EXCEPT !.recs = recs, !.pghead = Whole, !.loose = <<>>]
  BY <1>2
<1>5. DOMAIN recs = DOMAIN txn.recs
  OBVIOUS
<1>6. ASSUME NEW id \in DOMAIN txn.recs
      PROVE  /\ IsRec(recs[id]) /\ recs[id].ov = txn.recs[id].ov
             /\ recs[id].ids = IF RoomBefore(id) < Len(Ascending(Whole)) THEN Part(id) ELSE txn.recs[id].ids
  <2>1. IsRec(txn.recs[id])
    BY <1>3 DEF IsRecs, IsRec
  <2> DEFINE fits == RoomBefore(id) < Len(Ascending(Whole))
  <2>2. recs[id] = IF fits THEN [txn.recs[id] EXCEPT !.ids = Part(id)] ELSE txn.recs[id]
    BY <1>2
  <2> HIDE DEF fits
  <2> HIDE DEF recs
  <2> DEFINE old == txn.recs[id]
             new == recs[id]
  <2>3. IsRec(old) /\ new = IF fits THEN [old EXCEPT !.ids = Part(id)] ELSE old
    BY <2>1, <2>2
  <2> HIDE DEF old, new
  <2>4. CASE fits
    <3>1. new = [ids |-> Part(id), room |-> old.room, ov |-> old.ov]
      BY <2>3, <2>4 DEF IsRec
    <3>2. old.room \in Nat /\ old.ov \in Nat
      BY <2>3 DEF IsRec
    <3>3. IsRec(new) /\ new.ov = old.ov /\ new.ids = Part(id)
      BY <3>1, <3>2 DEF IsRec
    <3> QED
      BY <2>4, <3>3 DEF new, old, fits
  <2>5. CASE ~fits
    <3>1. new = old
      BY <2>3, <2>5
    <3> QED
      BY <2>3, <2>5, <3>1 DEF new, old, fits
  <2> QED
    BY <2>4, <2>5
<1> HIDE DEF recs, all, pgs, part, z
<1>7. /\ z.recs = recs /\ z.loose = <<>> /\ z.pghead = Whole
      /\ z.pages = txn.pages /\ z.dirty = txn.dirty /\ z.spills = txn.spills /\ z.root = txn.root
      /\ z.txnid = txn.txnid /\ z.next = txn.next /\ z.oldest = txn.oldest /\ z.error = txn.error
      /\ z.room = txn.room /\ z.listed = txn.listed /\ z.frees = txn.frees /\ z.pglast = txn.pglast
  BY <1>3, <1>4 DEF IsRecord
<1>8. IsRecord(z)
  BY <1>3, <1>4 DEF IsRecord
<1>9. NowFilled(z)
  BY <1>5, <1>6, <1>7 DEF NowFilled
<1>10. IsRecs(z.recs)
  BY <1>3, <1>5, <1>6, <1>7 DEF IsRecs, IsRec
<1>11. z.loose \in Seq(Nat)
  BY <1>7
<1>12. IsTxn(z)
  BY <1>3, <1>7, <1>8, <1>10, <1>11 DEF IsTxn
<1>13. txn' = z /\ at' = "flush" /\ Still /\ outer' = outer
  BY <1>1, <1>3, <1>7 DEF Saves, Still, fileVars
<1> QED
  BY <1>1, <1>9, <1>12, <1>13

\* mdb_freelist_save puts the list back.
LEMMA SaveFillKeeps ==
    ASSUME PagesInv, SaveFill
    PROVE  MainSaved
<1>1. Saving /\ Reserving
  BY DEF SaveFill, Reserving, Saving
<1>2. outer = <<>> /\ SaveBooks(txn, save) /\ Ready(txn) /\ at \in {"save", "frees"} /\ save.pglast >= txn.pglast
  BY <1>1, SavingReady DEF Reserving
<1>3. NowFilled(txn') /\ IsTxn(txn') /\ at' = "flush" /\ Still /\ outer' = outer
  BY <1>2, FillFills
<1>4. Books(txn, Parent, {}) /\ Writing /\ ~txn.error
  BY <1>2 DEF Ready, Writing
<1>5. Counted' /\ ReadersCounted' /\ Sound(PickMeta)' /\ CommitIntact' /\ SnapshotIntact'
  <2>1. Steady(txn, txn')
    BY <1>3 DEF NowFilled, Steady
  <2> QED
    BY <1>2, <1>3, <2>1, StillCounted
<1>6. Sound(Snapshot(txn'))
  <2>1. \A id \in DOMAIN txn.recs : Held(id)
    BY <1>2, <1>4, RecordsHold
  <2>2. Parent = NoTxn
    BY <1>2 DEF Parent
  <2>3. RoomSuffices /\ FreesSaved /\ at = "save"
    BY DEF SaveFill, Reserving
  <2>4. FreesListed(txn)
    <3>1. save.freecnt <= Len(txn.frees) /\ save.freecnt >= Len(txn.frees) /\ save.freecnt \in Nat
      BY <1>2, <2>3 DEF SaveBooks, IsSave, FreesSaved
    <3>2. Len(txn.frees) \in Nat
      BY <1>4 DEF Books, IsTxn
    <3>3. save.freecnt = Len(txn.frees)
      BY <3>1, <3>2
    <3> QED
      BY <2>3, <3>3 DEF PagesInv, SaveRight
  <2> QED
    BY <1>2, <1>3, <2>1, <2>2, <2>3, <2>4, FilledSound
<1>7. MetasSpared' /\ ReadersSpared'
  <2>1. PickMeta' = PickMeta /\ \A P, s : InUse(P, s)' <=> InUse(P, s)
    BY <1>3, StillIs
  <2>2. AllSpared'
    <3> SUFFICES ASSUME NEW P, NEW s, InUse(P, s)' PROVE Spared(P, s)'
      BY DEF AllSpared
    <3>1. InUse(P, s)
      BY <2>1
    <3>2. txn.txnid = mti_txnid + 1
      BY <1>2 DEF PagesInv, Counted
    <3>3. Spared(P, s) /\ Watched(txn, s) /\ s < txn.txnid
      BY <1>2, <3>1, <3>2, UsedPages, UseWatched
    <3>4. Spares(txn, Parent, P, s) /\ s \in Nat
      BY <1>4, <3>3 DEF Spared, Watched
    <3>5. Keeps(Snapshot(txn'), P, s) /\ DirtyPages(txn') \cap P = {}
      BY <1>2, <1>3, <3>3, <3>4, FilledKeeps
    <3>6. Keeps(PickMeta, P, s)'
      BY <2>1, <3>3 DEF Spared, Keeps
    <3>7. ~ Writing' /\ at' # "active"
      BY <1>3 DEF Writing
    <3>8. Snapshot(txn)' = Snapshot(txn') /\ DirtyPages(txn)' = DirtyPages(txn')
      BY DEF Snapshot, DirtyPages
    <3> QED
      BY <3>5, <3>6, <3>7, <3>8 DEF Spared
  <2>3. (MetasSpared /\ ReadersSpared <=> AllSpared)'
    BY SparedAll, PTL
  <2> QED
    BY <2>2, <2>3
<1>8. WriterRight' /\ SaveRight'
  BY <1>2, <1>3 DEF WriterRight, SaveRight, Saving, Writing
<1>9. CommitRight'
  <2>1. outer' = <<>> /\ Sound(Snapshot(txn))'
    BY <1>2, <1>3, <1>6 DEF Snapshot
  <2>2. Blocks(txn') = Blocks(txn)
    BY <1>3 DEF NowFilled, Blocks
  <2>3. Tiled(Blocks(txn'))
    BY <1>4, <2>2, TiledPart DEF Books, Laid
  <2>4. txn'.spills \cap DOMAIN txn'.dirty = {}
    BY <1>3, <1>4 DEF NowFilled, Books, SpillsRight
  <2>5. InPlace(file, txn, Parent)
    BY <1>4, WriterReady
  <2>6. Parent = NoTxn /\ file' = file
    BY <1>2, <1>3, StillIs DEF Parent
  <2>7. InPlace(file', txn', NoTxn)
    <3>1. txn'.pages = txn.pages /\ txn'.dirty = txn.dirty /\ txn'.spills = txn.spills
      BY <1>3 DEF NowFilled
    <3> QED
      BY <2>5, <2>6, <3>1 DEF InPlace, OnFile
  <2> QED
    BY <1>3, <2>1, <2>3, <2>4, <2>7 DEF CommitRight, Ending
<1>10. Typed'
  <2>1. file' = file /\ disk' = disk /\ metas' = metas /\ readers' = readers
    BY <1>3, StillIs
  <2>2. Typed /\ Bounded(txn)
    BY DEF PagesInv, Typed
  <2>3. file' \in [Pages -> Int] /\ disk' \in [Pages -> Int]
    BY <2>1, <2>2 DEF Typed
  <2>4. Bounded(txn')
    <3>1. Whole \subseteq Pages
      BY <1>4, WholeIs, KnownPages
    <3>2. /\ txn'.pages = txn.pages /\ txn'.room = txn.room /\ txn'.frees = txn.frees /\ txn'.pghead = Whole
         /\ txn'.dirty = txn.dirty
      BY <1>3 DEF NowFilled
    <3> QED
      BY <2>2, <3>1, <3>2 DEF Bounded, FreedBy
  <2>5. IsSave(save')
    BY <1>2 DEF SaveFill, SaveBooks
  <2> QED
    BY <1>3, <2>1, <2>2, <2>3, <2>4, <2>5, NowTyped
<1>11. RoomRight'
  BY <1>2, <1>3 DEF RoomRight
<1>12. PagesInv'
  BY <1>5, <1>6, <1>7, <1>8, <1>9, <1>10, <1>11 DEF PagesInv
<1>13. SameMain(txn, txn')
  BY <1>3, OthersSameMain DEF NowFilled
<1> QED
  BY <1>12, <1>13 DEF MainSaved

-----------------------------------------------------------------------------
(* What is written to the file *)

\* Of the pages in the file those change that belong to the runs that are written.
LEMMA FileWithIs ==
    ASSUME Tiled(Blocks(txn)), NEW hs \in SUBSET DOMAIN txn.dirty, NEW p \in Pages
    PROVE  /\ (\A x \in hs : p \notin Run(x, txn.dirty[x])) => FileWith(hs)[p] = file[p]
           /\ \A x \in hs : p \in Run(x, txn.dirty[x]) /\ x \in DOMAIN txn.pages =>
                  FileWith(hs)[p] = txn.pages[x].stamp
<1> DEFINE h == {x \in hs : p \in Run(x, txn.dirty[x])}
           y == CHOOSE x \in h : TRUE
<1>1. FileWith(hs)[p] = IF h = {} THEN file[p] ELSE IF y \in DOMAIN txn.pages THEN txn.pages[y].stamp ELSE -1
  BY DEF FileWith
<1>2. (\A x \in hs : p \notin Run(x, txn.dirty[x])) => h = {}
  OBVIOUS
<1>3. ASSUME NEW x \in hs, p \in Run(x, txn.dirty[x]) PROVE h # {} /\ y = x
  <2>1. x \in h
    BY <1>3
  <2>2. y \in h
    BY <2>1
  <2>3. <<x, txn.dirty[x]>> \in Blocks(txn) /\ <<y, txn.dirty[y]>> \in Blocks(txn)
    BY <2>2, BlockOfDirty
  <2>4. p \in RunOf(<<x, txn.dirty[x]>>) /\ p \in RunOf(<<y, txn.dirty[y]>>)
    BY <1>3, <2>2 DEF RunOf
  <2>5. <<x, txn.dirty[x]>> = <<y, txn.dirty[y]>>
    BY <2>3, <2>4 DEF Tiled
  <2> QED
    BY <2>1, <2>5
<1> HIDE DEF h, y
<1> QED
  BY <1>1, <1>2, <1>3

\* Writing dirty pages leaves the others as they were.
LEMMA FileWithOutside ==
    ASSUME Tiled(Blocks(txn)), NEW hs \in SUBSET DOMAIN txn.dirty, NEW p \in Pages, p \notin DirtyPages(txn)
    PROVE  FileWith(hs)[p] = file[p]
<1>1. \A x \in hs : p \notin Run(x, txn.dirty[x])
  BY DirtyPagesIs
<1> QED
  BY <1>1, FileWithIs

\* What a page of the transaction, that is written to the file, has there then.
LEMMA FileWithPage ==
    ASSUME IsTxn(txn), Tiled(Blocks(txn)), NEW hs \in SUBSET DOMAIN txn.dirty, NEW h \in DOMAIN txn.pages,
           NEW p \in Pages, p \in Run(h, txn.pages[h].n)
    PROVE  FileWith(hs)[p] = IF h \in hs THEN txn.pages[h].stamp ELSE file[p]
<1>1. <<h, txn.pages[h].n>> \in Blocks(txn) /\ p \in RunOf(<<h, txn.pages[h].n>>)
  BY BlockOfPage DEF RunOf
<1>2. ASSUME NEW x \in hs, p \in Run(x, txn.dirty[x]) PROVE x = h /\ txn.dirty[x] = txn.pages[h].n
  <2>1. <<x, txn.dirty[x]>> \in Blocks(txn) /\ p \in RunOf(<<x, txn.dirty[x]>>)
    BY <1>2, BlockOfDirty DEF RunOf
  <2>2. <<x, txn.dirty[x]>> = <<h, txn.pages[h].n>>
    BY <1>1, <2>1 DEF Tiled
  <2> QED
    BY <2>2
<1>3. CASE h \notin hs
  BY <1>2, <1>3, FileWithIs
<1>4. CASE h \in hs
  <2>1. h \in DOMAIN txn.dirty
    BY <1>4
  <2> DEFINE b == <<h, txn.pages[h].n>>
             c == <<h, txn.dirty[h]>>
  <2>2. b \in Blocks(txn) /\ c \in Blocks(txn) /\ b[1] = h /\ c[1] = h /\ b[2] = txn.pages[h].n /\ c[2] = txn.dirty[h]
    BY <1>1, <2>1, BlockOfDirty
  <2> HIDE DEF b, c
  <2>3. h \in RunOf(b) /\ h \in RunOf(c)
    BY <2>2, BlockIs
  <2>4. b = c
    BY <2>2, <2>3 DEF Tiled
  <2>5. txn.dirty[h] = txn.pages[h].n
    BY <2>2, <2>4
  <2> QED
    BY <1>4, <2>5, FileWithIs
<1> QED
  BY <1>3, <1>4

\* What is written to the file are numbers.
LEMMA FileWithTyped ==
    ASSUME Typed, NEW hs \in SUBSET DOMAIN txn.dirty
    PROVE  FileWith(hs) \in [Pages -> Int]
<1>1. ASSUME NEW p \in Pages PROVE FileWith(hs)[p] \in Int
  <2> DEFINE h == {x \in hs : p \in Run(x, txn.dirty[x])}
             y == CHOOSE x \in h : TRUE
  <2>1. FileWith(hs)[p] = IF h = {} THEN file[p] ELSE IF y \in DOMAIN txn.pages THEN txn.pages[y].stamp ELSE -1
    BY DEF FileWith
  <2> HIDE DEF h, y
  <2>2. file[p] \in Int
    BY DEF Typed
  <2>3. y \in DOMAIN txn.pages => txn.pages[y].stamp \in Nat
    BY DEF Typed, Bounded, Stamped, IsPages
  <2> QED
    BY <2>1, <2>2, <2>3
<1>2. FileWith(hs) = [p \in Pages |-> FileWith(hs)[p]]
  BY DEF FileWith
<1> QED
  BY <1>1, <1>2

\* What is in use stays as it is, when none of its pages is dirty.
LEMMA FilesKeep ==
    ASSUME PagesInv, NEW hs \in SUBSET DOMAIN txn.dirty, Tiled(Blocks(txn)), file' = FileWith(hs),
           disk' = disk, metas' = metas, readers' = readers,
           \A P, s : InUse(P, s) => DirtyPages(txn) \cap P = {}
    PROVE  CommitIntact' /\ SnapshotIntact'
<1>1. ASSUME NEW snap, NEW s, InUse(Covered(snap.pages), s), Intact(file, snap) PROVE Intact(file', snap)
  <2> SUFFICES ASSUME NEW h \in DOMAIN snap.pages, NEW p \in Run(h, snap.pages[h].n)
               PROVE  file'[p] = snap.pages[h].stamp
    BY DEF Intact
  <2>1. p \in Covered(snap.pages)
    BY CoveredIs
  <2>2. p \in Pages /\ p \notin DirtyPages(txn)
    BY <1>1, <2>1, UsedPages
  <2>3. file'[p] = file[p]
    BY <2>2, FileWithOutside
  <2> QED
    BY <1>1, <2>3 DEF Intact
<1>2. CommitIntact'
  <2> SUFFICES ASSUME NEW m \in {0, 1}, metas[m].whole PROVE Intact(file', metas[m]) /\ Intact(disk', metas[m])
    BY DEF CommitIntact, Intact
  <2>1. Intact(file, metas[m]) /\ Intact(disk, metas[m])
    BY DEF PagesInv, CommitIntact
  <2>2. InUse(Covered(metas[m].pages), metas[m].txnid)
    BY DEF InUse
  <2> QED
    BY <1>1, <2>1, <2>2
<1>3. SnapshotIntact'
  <2> SUFFICES ASSUME NEW r \in Readers, readers[r].at = "reading", readers[r].snap.whole
               PROVE  Intact(file', readers[r].snap)
    BY DEF SnapshotIntact, Intact
  <2>1. Intact(file, readers[r].snap)
    BY DEF PagesInv, SnapshotIntact
  <2>2. InUse(Covered(readers[r].snap.pages), readers[r].slot)
    BY DEF InUse
  <2> QED
    BY <1>1, <2>1, <2>2
<1> QED
  BY <1>2, <1>3

\* Where the writer is not among its pages.
LEMMA Rests ==
    ASSUME outer' = <<>>, at' \in {"idle", "failed", "dead", "publish"}
    PROVE  SaveRight' /\ CommitRight' /\ WriterRight' /\ RoomRight'
  BY DEF RoomRight, SaveRight, CommitRight, WriterRight, Saving, Writing, Ending

\* What is in use depends on the meta pages and the readers.
LEMMA SameUse ==
    ASSUME metas' = metas, readers' = readers
    PROVE  /\ PickMeta' = PickMeta
           /\ \A P, s : InUse(P, s)' <=> InUse(P, s)
  BY DEF PickMeta, InUse

\* SparedAll, of the next state.
LEMMA AllSparedThen ==
    AllSpared' => MetasSpared' /\ ReadersSpared'
<1>1. (MetasSpared /\ ReadersSpared <=> AllSpared)'
  BY SparedAll, PTL
<1> QED
  BY <1>1

\* The dirty pages are none that is in use.
LEMMA EndingUse ==
    ASSUME PagesInv, at = "flush", NEW P, NEW s, InUse(P, s)
    PROVE  DirtyPages(txn) \cap P = {} /\ Keeps(Snapshot(txn), P, s)
  BY UsedPages DEF Spared, Ending

\* mdb_page_flush.
LEMMA PageFlushKeeps ==
    ASSUME PagesInv, PageFlush
    PROVE  PagesInv'
<1> DEFINE hs == DOMAIN txn.dirty
<1>1. /\ at = "flush" /\ file' = FileWith(hs) /\ at' = "sync" /\ txn' = txn /\ outer' = outer
      /\ disk' = disk /\ metas' = metas /\ mti_txnid' = mti_txnid /\ readers' = readers
      /\ save' = save
  BY DEF PageFlush, readVars
<1>2. /\ outer = <<>> /\ Sound(Snapshot(txn)) /\ IsTxn(txn) /\ Tiled(Blocks(txn)) /\ InPlace(file, txn, NoTxn)
  BY <1>1 DEF PagesInv, CommitRight, Ending
<1>3. Counted' /\ ReadersCounted' /\ Sound(PickMeta)'
  BY <1>1, StillCounts DEF Steady
<1>4. CommitIntact' /\ SnapshotIntact'
  <2>1. \A P, s : InUse(P, s) => DirtyPages(txn) \cap P = {}
    BY <1>1, EndingUse
  <2> QED
    BY <1>1, <1>2, <2>1, FilesKeep
<1>5. MetasSpared' /\ ReadersSpared'
  <2>1. PickMeta' = PickMeta /\ \A P, s : InUse(P, s)' <=> InUse(P, s)
    BY <1>1, SameUse
  <2>2. AllSpared'
    <3> SUFFICES ASSUME NEW P, NEW s, InUse(P, s)' PROVE Spared(P, s)'
      BY DEF AllSpared
    <3>1. Spared(P, s)
      BY <2>1, UsedPages
    <3>2. Keeps(PickMeta, P, s)' /\ Keeps(Snapshot(txn), P, s)'
      BY <1>1, <2>1, <3>1 DEF Spared, Keeps, Ending, Snapshot
    <3> QED
      BY <1>1, <3>2 DEF Spared, Writing
  <2> QED
    BY <2>2, AllSparedThen
<1>6. WriterRight' /\ SaveRight'
  BY <1>1, <1>2 DEF WriterRight, SaveRight, Saving, Writing
<1>7. CommitRight'
  <2>1. Intact(file', txn)
    <3> SUFFICES ASSUME NEW h \in DOMAIN txn.pages, NEW p \in Run(h, txn.pages[h].n)
                 PROVE  file'[p] = txn.pages[h].stamp
      BY DEF Intact
    <3>1. p \in Pages
      <4>1. Covered(txn.pages) \subseteq 2 .. txn.next - 1 /\ txn.next - 1 < MaxPg /\ txn.next \in Nat /\ MaxPg \in Nat
        BY <1>2, LmdbPagesAssumption DEF Sound, Snapshot, IsTxn
      <4>2. p \in Covered(txn.pages)
        BY CoveredIs
      <4> QED
        BY <4>1, <4>2 DEF Pages
    <3>2. file'[p] = IF h \in hs THEN txn.pages[h].stamp ELSE file[p]
      BY <1>1, <1>2, <3>1, FileWithPage
    <3>3. h \notin hs => file[p] = txn.pages[h].stamp
      <4>1. DOMAIN NoTxn.dirty = {}
        BY DEF NoTxn
      <4> QED
        BY <1>2, <4>1 DEF InPlace, OnFile
    <3> QED
      BY <3>2, <3>3
  <2>2. Sound(Snapshot(txn))'
    BY <1>1, <1>2 DEF Snapshot
  <2>3. Intact(file, txn)'
    BY <1>1, <2>1 DEF Intact
  <2> QED
    BY <1>1, <1>2, <2>2, <2>3 DEF CommitRight
<1>8. Typed'
  <2>1. Typed /\ disk \in [Pages -> Int] /\ Bounded(txn') /\ IsSave(save')
    BY <1>1 DEF PagesInv, Typed
  <2>2. file' \in [Pages -> Int]
    BY <1>1, <2>1, FileWithTyped
  <2> QED
    BY <1>1, <2>1, <2>2, NowTyped
<1>9. RoomRight'
  BY <1>1, <1>2 DEF RoomRight
<1> QED
  BY <1>3, <1>4, <1>5, <1>6, <1>7, <1>8, <1>9 DEF PagesInv

\* mdb_page_flush, or the sync, fails.
LEMMA FlushFailsKeeps ==
    ASSUME PagesInv, FlushFails
    PROVE  PagesInv'
<1>1. PICK hs \in SUBSET DOMAIN txn.dirty : file' = FileWith(hs)
  BY DEF FlushFails
<1>2. /\ at = "flush" /\ at' = "failed" /\ txn' = txn /\ outer' = outer
      /\ disk' = disk /\ metas' = metas /\ mti_txnid' = mti_txnid /\ readers' = readers
      /\ save' = save
  BY DEF FlushFails, readVars
<1>3. outer = <<>> /\ Tiled(Blocks(txn))
  BY <1>2 DEF PagesInv, CommitRight, Ending
<1>4. Counted' /\ ReadersCounted' /\ Sound(PickMeta)'
  BY <1>2, StillCounts DEF Steady
<1>5. CommitIntact' /\ SnapshotIntact'
  <2>1. \A P, s : InUse(P, s) => DirtyPages(txn) \cap P = {}
    BY <1>2, EndingUse
  <2> QED
    BY <1>1, <1>2, <1>3, <2>1, FilesKeep
<1>6. MetasSpared' /\ ReadersSpared'
  <2>1. PickMeta' = PickMeta /\ \A P, s : InUse(P, s)' <=> InUse(P, s)
    BY <1>2, SameUse
  <2>2. AllSpared'
    <3> SUFFICES ASSUME NEW P, NEW s, InUse(P, s)' PROVE Spared(P, s)'
      BY DEF AllSpared
    <3>1. Keeps(PickMeta, P, s)'
      BY <2>1, UsedPages DEF Spared, Keeps
    <3> QED
      BY <1>2, <3>1 DEF Spared, Writing, Ending
  <2> QED
    BY <2>2, AllSparedThen
<1>7. SaveRight' /\ CommitRight' /\ WriterRight' /\ RoomRight'
  BY <1>2, <1>3, Rests
<1>8. Typed'
  <2>1. Typed /\ disk \in [Pages -> Int] /\ Bounded(txn') /\ IsSave(save')
    BY <1>2 DEF PagesInv, Typed
  <2>2. file' \in [Pages -> Int]
    BY <1>1, <2>1, FileWithTyped
  <2> QED
    BY <1>2, <2>1, <2>2, NowTyped
<1> QED
  BY <1>4, <1>5, <1>6, <1>7, <1>8 DEF PagesInv

\* mdb_env_sync0.
LEMMA EnvSyncKeeps ==
    ASSUME PagesInv, EnvSync
    PROVE  PagesInv'
<1>1. /\ at = "sync" /\ disk' = file /\ at' = "meta" /\ file' = file /\ txn' = txn /\ outer' = outer
      /\ metas' = metas /\ mti_txnid' = mti_txnid /\ readers' = readers /\ save' = save
  BY DEF EnvSync, readVars, Synced
<1>2. outer = <<>> /\ Sound(Snapshot(txn)) /\ Intact(file, txn)
  BY <1>1 DEF PagesInv, CommitRight, Ending
<1>3. Counted' /\ ReadersCounted' /\ Sound(PickMeta)'
  BY <1>1, StillCounts DEF Steady
<1>4. CommitIntact' /\ SnapshotIntact'
  BY <1>1 DEF PagesInv, CommitIntact, SnapshotIntact, Intact
<1>5. MetasSpared' /\ ReadersSpared'
  <2>1. PickMeta' = PickMeta /\ \A P, s : InUse(P, s)' <=> InUse(P, s)
    BY <1>1, SameUse
  <2>2. AllSpared'
    <3> SUFFICES ASSUME NEW P, NEW s, InUse(P, s)' PROVE Spared(P, s)'
      BY DEF AllSpared
    <3>1. Spared(P, s)
      BY <2>1, UsedPages
    <3>2. Keeps(PickMeta, P, s)' /\ Keeps(Snapshot(txn), P, s)'
      BY <1>1, <2>1, <3>1 DEF Spared, Keeps, Ending, Snapshot
    <3> QED
      BY <1>1, <3>2 DEF Spared, Writing
  <2> QED
    BY <2>2, AllSparedThen
<1>6. WriterRight' /\ SaveRight'
  BY <1>1, <1>2 DEF WriterRight, SaveRight, Saving, Writing
<1>7. CommitRight'
  BY <1>1, <1>2 DEF CommitRight, Snapshot, Intact
<1>8. Typed'
  <2>1. Typed /\ file \in [Pages -> Int] /\ Bounded(txn') /\ IsSave(save')
    BY <1>1 DEF PagesInv, Typed
  <2> QED
    BY <1>1, <2>1, NowTyped
<1>9. RoomRight'
  BY <1>1, <1>2 DEF RoomRight
<1> QED
  BY <1>3, <1>4, <1>5, <1>6, <1>7, <1>8, <1>9 DEF PagesInv

\* Which of the meta pages is the newest, by its number.
LEMMA NewestIs ==
    ASSUME NEW n \in Nat, DOMAIN metas = {0, 1}, metas[n % 2].txnid = n,
           metas[(n + 1) % 2].txnid = IF n = 0 THEN 0 ELSE n - 1, metas[0].txnid \in Nat, metas[1].txnid \in Nat
    PROVE  n # 0 => PickMeta = metas[n % 2]
<1>1. (n % 2 = 0 /\ (n + 1) % 2 = 1) \/ (n % 2 = 1 /\ (n + 1) % 2 = 0)
  OBVIOUS
<1> QED
  BY <1>1 DEF PickMeta

\* The two meta pages take turns.
LEMMA TogglesIs ==
    ASSUME NEW n \in Nat
    PROVE  /\ n % 2 \in {0, 1} /\ (n + 1) % 2 \in {0, 1} /\ n % 2 # (n + 1) % 2
           /\ (n + 2) % 2 = n % 2
  OBVIOUS

\* The types after a meta page has been written, whole or not.
LEMMA MetaTyped ==
    ASSUME Typed, file' = file, disk' = disk, readers' = readers, txn' = txn, save' = save,
           NEW new, new.pages = txn.pages, \A m \in {0, 1} : metas'[m] = metas[m] \/ metas'[m] = new,
           at' \in {"publish", "failed"}
    PROVE  Typed'
<1>1. Stamped(new.pages)
  BY DEF Typed, Bounded
<1>2. \A m \in {0, 1} : Stamped(metas'[m].pages)
  BY <1>1 DEF Typed
<1>3. \A r \in Readers : Stamped(readers'[r].snap.pages)
  BY DEF Typed
<1>4. file' \in [Pages -> Int] /\ disk' \in [Pages -> Int] /\ Bounded(txn') /\ IsSave(save')
  BY DEF Typed
<1> QED
  BY <1>2, <1>3, <1>4, TypedThen

\* mdb_env_write_meta: the snapshot of the transaction is the newest.
LEMMA WriteMetaKeeps ==
    ASSUME PagesInv, WriteMeta
    PROVE  PagesInv'
<1> DEFINE n == mti_txnid
           new == Snapshot(txn)
<1>1. /\ at = "meta" /\ metas' = [metas EXCEPT ![Toggle] = new] /\ at' = "publish" /\ file' = file /\ disk' = disk
      /\ txn' = txn /\ outer' = outer /\ mti_txnid' = mti_txnid /\ readers' = readers /\ save' = save
  BY DEF WriteMeta, readVars
<1>2. outer = <<>> /\ Sound(new) /\ Intact(file, txn) /\ Intact(disk, txn)
  BY <1>1 DEF PagesInv, CommitRight, Ending
<1>3. /\ DOMAIN metas = {0, 1} /\ n \in Nat /\ PickMeta.txnid = n /\ metas[n % 2] = PickMeta
      /\ \A m \in {0, 1} : metas[m].txnid \in Nat
      /\ metas[(n + 1) % 2].txnid = IF n = 0 THEN 0 ELSE n - 1
      /\ txn.txnid = n + 1 /\ txn.oldest \in Nat /\ txn.oldest <= n
  BY <1>1 DEF PagesInv, Counted
<1>4. new.txnid = n + 1 /\ new.pages = txn.pages /\ new.whole = TRUE
  BY <1>3 DEF Snapshot
<1>5. Toggle = (n + 1) % 2
  BY <1>3 DEF Toggle
<1>6. n % 2 \in {0, 1} /\ (n + 1) % 2 \in {0, 1} /\ n % 2 # (n + 1) % 2 /\ (n + 2) % 2 = n % 2
  BY <1>3, TogglesIs
<1> HIDE DEF new
<1>7. /\ DOMAIN metas' = {0, 1} /\ metas'[(n + 1) % 2] = new /\ metas'[n % 2] = metas[n % 2]
  BY <1>1, <1>3, <1>5, <1>6
<1>8. PickMeta' = new
  <2>1. PickMeta' = IF metas'[0].txnid < metas'[1].txnid THEN metas'[1] ELSE metas'[0]
    BY DEF PickMeta
  <2>2. (n % 2 = 0 /\ (n + 1) % 2 = 1) \/ (n % 2 = 1 /\ (n + 1) % 2 = 0)
    BY <1>6
  <2>3. metas'[(n + 1) % 2].txnid = n + 1 /\ metas'[n % 2].txnid = n
    BY <1>3, <1>4, <1>7
  <2> QED
    BY <1>3, <1>7, <2>1, <2>2, <2>3
<1>9. \A m \in {0, 1} : metas[m].txnid <= metas'[m].txnid /\ metas'[m].txnid \in Nat
  <2>1. \A m \in {0, 1} : m = n % 2 \/ m = (n + 1) % 2
    BY <1>6
  <2>2. metas[(n + 1) % 2].txnid <= n + 1
    BY <1>3
  <2> QED
    BY <1>3, <1>4, <1>7, <2>1, <2>2
<1>10. Counted'
  <2>1. new.txnid # 0 /\ (new.txnid + 1) % 2 = n % 2 /\ new.txnid % 2 = (n + 1) % 2 /\ new.txnid - 1 = n
    BY <1>3, <1>4, <1>6
  <2>2. metas'[n % 2].txnid = n
    BY <1>3, <1>7
  <2> QED
    BY <1>1, <1>3, <1>4, <1>7, <1>8, <1>9, <2>1, <2>2 DEF Counted
<1>11. ReadersCounted'
  <2>1. ASSUME NEW r \in Readers, readers[r].at = "checked" PROVE readers[r].slot <= metas'[readers[r].slot % 2].txnid
    <3>1. readers[r].slot \in Nat /\ readers[r].slot <= metas[readers[r].slot % 2].txnid
      BY <2>1 DEF PagesInv, ReadersCounted
    <3>2. readers[r].slot % 2 \in {0, 1}
      BY <3>1
    <3> QED
      BY <1>3, <1>9, <3>1, <3>2
  <2> QED
    BY <1>1, <2>1 DEF PagesInv, ReadersCounted
<1>12. Sound(PickMeta)'
  BY <1>2, <1>8 DEF Sound
<1>13. CommitIntact' /\ SnapshotIntact'
  <2>1. \A m \in {0, 1} : metas'[m] = metas[m] \/ metas'[m] = new
    BY <1>1, <1>3
  <2>2. Intact(file, new) /\ Intact(disk, new)
    BY <1>2, <1>4 DEF Intact
  <2>3. CommitIntact'
    BY <1>1, <2>1, <2>2 DEF PagesInv, CommitIntact, Intact
  <2> QED
    BY <1>1, <2>3 DEF PagesInv, SnapshotIntact, Intact
<1>14. MetasSpared' /\ ReadersSpared'
  <2>1. AllSpared'
    <3> SUFFICES ASSUME NEW P, NEW s, InUse(P, s)' PROVE Spared(P, s)'
      BY DEF AllSpared
    <3>1. InUse(P, s) \/ (P = Covered(new.pages) /\ s = new.txnid)
      <4>1. \A m \in {0, 1} : metas'[m] = metas[m] \/ metas'[m] = new
        BY <1>1, <1>3
      <4> QED
        BY <1>1, <4>1 DEF InUse
    <3>2. Keeps(new, P, s)
      <4>1. CASE InUse(P, s)
        BY <1>1, <4>1, UsedPages DEF Spared, Ending, new
      <4>2. CASE P = Covered(new.pages) /\ s = new.txnid
        BY <1>2, <4>2 DEF Keeps, Sound
      <4> QED
        BY <3>1, <4>1, <4>2
    <3>3. Keeps(PickMeta, P, s)'
      BY <1>8, <3>2 DEF Keeps
    <3> QED
      BY <1>1, <3>3 DEF Spared, Writing, Ending
  <2> QED
    BY <2>1, AllSparedThen
<1>15. SaveRight' /\ CommitRight' /\ WriterRight' /\ RoomRight'
  BY <1>1, <1>2, Rests
<1>16. Typed'
  <2>1. \A m \in {0, 1} : metas'[m] = metas[m] \/ metas'[m] = new
    BY <1>1, <1>3
  <2> QED
    BY <1>1, <1>4, <2>1, MetaTyped DEF PagesInv
<1> QED
  BY <1>10, <1>11, <1>12, <1>13, <1>14, <1>15, <1>16 DEF PagesInv

\* The write of the meta page fails: its numbers are those it had, and it is not whole.
LEMMA WriteMetaFailsKeeps ==
    ASSUME PagesInv, WriteMetaFails
    PROVE  PagesInv'
<1> DEFINE n == mti_txnid
           bad == [Snapshot(txn) EXCEPT !.txnid = metas[Toggle].txnid,
                                        !.last = metas[Toggle].last, !.whole = FALSE]
<1>1. /\ at = "meta" /\ metas' = [metas EXCEPT ![Toggle] = bad] /\ at' = "failed" /\ file' = file /\ disk' = disk
      /\ txn' = txn /\ outer' = outer /\ mti_txnid' = mti_txnid /\ readers' = readers /\ save' = save
  BY DEF WriteMetaFails, readVars
<1>2. outer = <<>>
  BY <1>1 DEF PagesInv, CommitRight, Ending
<1>3. /\ DOMAIN metas = {0, 1} /\ n \in Nat /\ PickMeta.txnid = n /\ metas[n % 2] = PickMeta
      /\ \A m \in {0, 1} : metas[m].txnid \in Nat
      /\ metas[(n + 1) % 2].txnid = IF n = 0 THEN 0 ELSE n - 1
      /\ txn.txnid = n + 1 /\ txn.oldest \in Nat /\ txn.oldest <= n /\ PickMeta.whole
  BY <1>1 DEF PagesInv, Counted
<1>4. bad.txnid = metas[Toggle].txnid /\ bad.whole = FALSE /\ bad.pages = txn.pages
  BY DEF Snapshot
<1>5. Toggle = (n + 1) % 2
  BY <1>3 DEF Toggle
<1>6. n % 2 \in {0, 1} /\ (n + 1) % 2 \in {0, 1} /\ n % 2 # (n + 1) % 2
  BY <1>3, TogglesIs
<1> HIDE DEF bad
<1>7. /\ DOMAIN metas' = {0, 1} /\ metas'[(n + 1) % 2] = bad /\ metas'[n % 2] = metas[n % 2]
  BY <1>1, <1>3, <1>5, <1>6
<1>8. \A m \in {0, 1} : metas'[m].txnid = metas[m].txnid
  BY <1>4, <1>5, <1>6, <1>7
<1>9. PickMeta' = PickMeta
  <2>1. PickMeta' = IF metas'[0].txnid < metas'[1].txnid THEN metas'[1] ELSE metas'[0]
    BY DEF PickMeta
  <2>2. (n % 2 = 0 /\ (n + 1) % 2 = 1) \/ (n % 2 = 1 /\ (n + 1) % 2 = 0)
    BY <1>6
  <2>3. metas'[n % 2] = PickMeta /\ metas'[n % 2].txnid = n
    BY <1>3, <1>7
  <2>4. metas'[(n + 1) % 2].txnid = IF n = 0 THEN 0 ELSE n - 1
    BY <1>3, <1>6, <1>8
  <2>5. CASE n = 0
    BY <2>1, <2>3, <2>4, <2>5
  <2>6. CASE n # 0
    BY <1>3, <2>1, <2>2, <2>3, <2>4, <2>6
  <2> QED
    BY <2>5, <2>6
<1>10. Counted'
  <2>1. metas'[n % 2] = PickMeta /\ metas'[(n + 1) % 2].txnid = IF n = 0 THEN 0 ELSE n - 1
    BY <1>3, <1>6, <1>7, <1>8
  <2>2. \A m \in {0, 1} : metas'[m].txnid \in Nat
    BY <1>3, <1>8
  <2> QED
    BY <1>1, <1>3, <1>7, <1>9, <2>1, <2>2 DEF Counted
<1>11. ReadersCounted'
  <2>1. ASSUME NEW r \in Readers, readers[r].at = "checked" PROVE readers[r].slot <= metas'[readers[r].slot % 2].txnid
    <3>1. readers[r].slot \in Nat /\ readers[r].slot <= metas[readers[r].slot % 2].txnid
      BY <2>1 DEF PagesInv, ReadersCounted
    <3>2. readers[r].slot % 2 \in {0, 1}
      BY <3>1
    <3> QED
      BY <1>8, <3>1, <3>2
  <2> QED
    BY <1>1, <2>1 DEF PagesInv, ReadersCounted
<1>12. Sound(PickMeta)'
  BY <1>9 DEF Sound, PagesInv
<1>13. \A m \in {0, 1} : metas'[m].whole => metas'[m] = metas[m]
  BY <1>1, <1>3, <1>4
<1>14. CommitIntact' /\ SnapshotIntact'
  BY <1>1, <1>13 DEF PagesInv, CommitIntact, SnapshotIntact, Intact
<1>15. MetasSpared' /\ ReadersSpared'
  <2>1. AllSpared'
    <3> SUFFICES ASSUME NEW P, NEW s, InUse(P, s)' PROVE Spared(P, s)'
      BY DEF AllSpared
    <3>1. InUse(P, s)
      BY <1>1, <1>13 DEF InUse
    <3>2. Keeps(PickMeta, P, s)'
      BY <1>9, <3>1, UsedPages DEF Spared, Keeps
    <3> QED
      BY <1>1, <3>2 DEF Spared, Writing, Ending
  <2> QED
    BY <2>1, AllSparedThen
<1>16. SaveRight' /\ CommitRight' /\ WriterRight' /\ RoomRight'
  BY <1>1, <1>2, Rests
<1>17. Typed'
  <2>1. \A m \in {0, 1} : metas'[m] = metas[m] \/ metas'[m] = bad
    BY <1>1, <1>3
  <2> QED
    BY <1>1, <1>4, <2>1, MetaTyped DEF PagesInv
<1> QED
  BY <1>10, <1>11, <1>12, <1>14, <1>15, <1>16, <1>17 DEF PagesInv

-----------------------------------------------------------------------------
(* The end of a transaction *)

\* What the writer has when it has no transaction.
LEMMA NothingTyped ==
    Bounded(NoTxn) /\ Bounded(Ended) /\ IsSave(NoSave) /\ Stamped(EmptyMeta.pages)
<1>1. ASSUME NEW pages, DOMAIN pages = {} PROVE Stamped(pages)
  BY <1>1 DEF Stamped, IsPages, Covered
<1>2. ASSUME NEW t, DOMAIN t.pages = {}, t.room = UmMax, t.pghead = {}, t.frees = <<>>, DOMAIN t.dirty = {}
      PROVE  Bounded(t)
  <2>1. FreedBy(t) = {}
    BY <1>2 DEF FreedBy, ToSet
  <2>2. UmMax \in Nat /\ t.room \in 0 .. UmMax
    BY <1>2, LmdbPagesAssumption
  <2>3. Stamped(t.pages)
    BY <1>1, <1>2
  <2> QED
    BY <1>2, <2>1, <2>2, <2>3, FS_EmptySet DEF Bounded
<1>3. /\ DOMAIN NoTxn.pages = {} /\ NoTxn.room = UmMax /\ NoTxn.pghead = {} /\ NoTxn.frees = <<>>
      /\ DOMAIN NoTxn.dirty = {}
  BY DEF NoTxn
<1>4. /\ Ended.pages = NoTxn.pages /\ Ended.room = NoTxn.room
      /\ Ended.pghead = NoTxn.pghead /\ Ended.frees = NoTxn.frees /\ Ended.dirty = NoTxn.dirty
  BY DEF Ended, NoTxn
<1>5. DOMAIN EmptyMeta.pages = {}
  BY DEF EmptyMeta
<1>6. IsSave(NoSave)
  BY DEF IsSave, NoSave
<1>7. Bounded(NoTxn) /\ Bounded(Ended)
  BY <1>2, <1>3, <1>4
<1> QED
  BY <1>1, <1>5, <1>6, <1>7

\* The writer has no transaction any more, and its number, as far as it goes, is known.
LEMMA EndKeeps ==
    ASSUME PagesInv, file' = file, disk' = disk, metas' = metas, readers' = readers,
           outer' = <<>>, at' \in {"idle", "dead"}, txn'.oldest \in {0, txn.oldest},
           mti_txnid' \in Nat, mti_txnid <= mti_txnid',
           Bounded(txn'), IsSave(save'),
           at' = "idle" => mti_txnid' = PickMeta.txnid,
           at' = "dead" => mti_txnid' <= PickMeta.txnid /\ PickMeta.txnid <= mti_txnid' + 1
    PROVE  PagesInv'
<1>1. PickMeta' = PickMeta /\ \A P, s : InUse(P, s)' <=> InUse(P, s)
  BY SameUse
<1>2. mti_txnid \in Nat /\ txn.oldest \in Nat /\ txn.oldest <= mti_txnid
  BY DEF PagesInv, Counted
<1>3. txn'.oldest \in Nat /\ txn'.oldest <= txn.oldest /\ txn'.oldest <= mti_txnid'
  BY <1>2
<1>4. Counted'
  BY <1>1, <1>3 DEF PagesInv, Counted
<1>5. ReadersCounted'
  <2>1. ASSUME NEW r \in Readers
        PROVE  /\ readers[r].seen <= mti_txnid' /\ readers[r].slot <= mti_txnid'
               /\ readers[r].at \in {"checked", "reading"} => txn'.oldest <= readers[r].slot
    <3>1. /\ readers[r].seen \in Nat /\ readers[r].slot \in Nat \cup {-1}
          /\ readers[r].seen <= mti_txnid /\ readers[r].slot <= mti_txnid
          /\ readers[r].at \in {"checked", "reading"} => txn.oldest <= readers[r].slot
      BY DEF PagesInv, ReadersCounted
    <3>2. readers[r].seen <= mti_txnid'
      BY <1>2, <3>1
    <3>3. readers[r].slot <= mti_txnid'
      BY <1>2, <3>1
    <3>4. readers[r].at \in {"checked", "reading"} => txn'.oldest <= readers[r].slot
      BY <1>2, <1>3, <3>1
    <3> QED
      BY <3>2, <3>3, <3>4
  <2> QED
    BY <2>1 DEF PagesInv, ReadersCounted
<1>6. Sound(PickMeta)'
  BY <1>1 DEF PagesInv, Sound
<1>7. CommitIntact' /\ SnapshotIntact'
  BY DEF PagesInv, CommitIntact, SnapshotIntact, Intact
<1>8. MetasSpared' /\ ReadersSpared'
  <2>1. AllSpared'
    <3> SUFFICES ASSUME NEW P, NEW s, InUse(P, s)' PROVE Spared(P, s)'
      BY DEF AllSpared
    <3>1. Keeps(PickMeta, P, s)'
      BY <1>1, UsedPages DEF Spared, Keeps
    <3> QED
      BY <3>1 DEF Spared, Writing, Ending
  <2> QED
    BY <2>1, AllSparedThen
<1>9. SaveRight' /\ CommitRight' /\ WriterRight' /\ RoomRight'
  BY Rests
<1>10. Typed'
  <2>1. Typed /\ file \in [Pages -> Int] /\ disk \in [Pages -> Int]
    BY DEF PagesInv, Typed
  <2> QED
    BY <2>1, NowTyped
<1> QED
  BY <1>4, <1>5, <1>6, <1>7, <1>8, <1>9, <1>10 DEF PagesInv

\* The steps that end a transaction, or follow such an end.
LEMMA EndsKeep ==
    ASSUME PagesInv
    PROVE  /\ (Publish => PagesInv') /\ (TxnAbort => PagesInv') /\ (CommitEmpty => PagesInv')
           /\ (Reopen => PagesInv') /\ (WriterKilled => PagesInv') /\ (MutexFailed => PagesInv')
<1>1. /\ mti_txnid \in Nat /\ PickMeta.txnid \in Nat
      /\ at \notin {"publish", "dead"} => mti_txnid = PickMeta.txnid
      /\ at = "publish" => mti_txnid + 1 = PickMeta.txnid
      /\ at = "dead" => mti_txnid <= PickMeta.txnid /\ PickMeta.txnid <= mti_txnid + 1
      /\ at \notin {"idle", "dead"} => txn.txnid = mti_txnid + 1
  BY DEF PagesInv, Counted, PickMeta
<1>2. NoTxn.oldest = 0 /\ Ended.oldest = txn.oldest
  BY DEF NoTxn, Ended
<1>3. at \in {"idle", "dead"} => outer = <<>>
  BY DEF PagesInv, WriterRight
<1>9. Bounded(txn) /\ IsSave(save) /\ Bounded(NoTxn) /\ Bounded(Ended) /\ IsSave(NoSave)
  BY NothingTyped DEF PagesInv, Typed
<1>4. ASSUME Publish PROVE PagesInv'
  <2>1. /\ at = "publish" /\ mti_txnid' = txn.txnid /\ txn' = Ended /\ outer' = <<>> /\ at' = "idle" /\ save' = NoSave
        /\ file' = file /\ disk' = disk /\ metas' = metas /\ readers' = readers
    BY <1>4 DEF Publish, TxnEnds, fileVars
  <2>2. mti_txnid' = PickMeta.txnid /\ mti_txnid <= mti_txnid' /\ mti_txnid' \in Nat
    BY <1>1, <2>1
  <2> QED
    BY <1>2, <1>9, <2>1, <2>2, EndKeeps
<1>5. ASSUME TxnAbort \/ CommitEmpty PROVE PagesInv'
  <2>1. /\ at \in {"active", "failed"} /\ txn' = Ended /\ outer' = <<>> /\ at' = "idle" /\ save' = NoSave
        /\ file' = file /\ disk' = disk /\ metas' = metas /\ readers' = readers /\ mti_txnid' = mti_txnid
    BY <1>5 DEF TxnAbort, CommitEmpty, TxnEnds, fileVars, readVars
  <2> QED
    BY <1>1, <1>2, <1>9, <2>1, EndKeeps
<1>6. ASSUME Reopen PROVE PagesInv'
  <2>1. /\ at = "idle" /\ txn' = NoTxn /\ outer' = <<>> /\ at' = "idle" /\ save' = save
        /\ file' = file /\ disk' = disk /\ metas' = metas /\ readers' = readers /\ mti_txnid' = mti_txnid
    BY <1>3, <1>6 DEF Reopen, fileVars, readVars
  <2> QED
    BY <1>1, <1>2, <1>9, <2>1, EndKeeps
<1>7. ASSUME WriterKilled PROVE PagesInv'
  <2>1. /\ at \notin {"idle", "dead"} /\ txn' = NoTxn /\ outer' = <<>> /\ at' = "dead" /\ save' = NoSave
        /\ file' = file /\ disk' = disk /\ metas' = metas /\ readers' = readers /\ mti_txnid' = mti_txnid
    BY <1>7 DEF WriterKilled, fileVars, readVars
  <2>2. mti_txnid' <= PickMeta.txnid /\ PickMeta.txnid <= mti_txnid' + 1
    BY <1>1, <2>1
  <2> QED
    BY <1>1, <1>2, <1>9, <2>1, <2>2, EndKeeps
<1>8. ASSUME MutexFailed PROVE PagesInv'
  <2>1. /\ at = "dead" /\ mti_txnid' = PickMeta.txnid /\ txn' = txn /\ outer' = <<>> /\ at' = "idle" /\ save' = save
        /\ file' = file /\ disk' = disk /\ metas' = metas /\ readers' = readers
    BY <1>3, <1>8 DEF MutexFailed, fileVars, TxnidAfterKill
  <2> QED
    BY <1>1, <1>9, <2>1, EndKeeps
<1> QED
  BY <1>4, <1>5, <1>6, <1>7, <1>8

\* Of the pages that were not safe any may be lost; none of the last two commits is among them.
LEMMA CrashKeeps ==
    ASSUME PagesInv, Crash
    PROVE  PagesInv'
<1>1. PICK lost \in SUBSET {p \in Pages : file[p] # disk[p]} :
          file' = [p \in Pages |-> IF p \in lost THEN disk[p] ELSE file[p]]
  BY DEF Crash
<1>2. /\ disk' = file' /\ mti_txnid' = PickMeta.txnid /\ at' = "idle" /\ txn' = NoTxn /\ outer' = <<>>
      /\ readers' = [r \in Readers |-> [at |-> "idle", seen |-> 0, slot |-> -1, snap |-> EmptyMeta]]
      /\ metas' = metas /\ save' = NoSave
  BY DEF Crash
<1>3. PickMeta' = PickMeta
  BY <1>2 DEF PickMeta
<1>4. PickMeta.txnid \in Nat
  BY DEF PagesInv, Counted, PickMeta
<1>5. Counted'
  <2>1. txn'.oldest = 0
    BY <1>2 DEF NoTxn
  <2> QED
    BY <1>2, <1>3, <1>4, <2>1 DEF PagesInv, Counted
<1>6. \A r \in Readers : readers'[r].at = "idle" /\ readers'[r].seen = 0 /\ readers'[r].slot = -1
                         /\ readers'[r] = [at |-> "idle", seen |-> 0, slot |-> -1, snap |-> readers'[r].snap]
  BY <1>2
<1>7. ReadersCounted'
  <2>1. DOMAIN readers' = Readers
    BY <1>2
  <2> QED
    BY <1>2, <1>4, <1>6, <2>1 DEF ReadersCounted
<1>8. Sound(PickMeta)'
  BY <1>3 DEF PagesInv, Sound
<1>9. CommitIntact'
  <2> SUFFICES ASSUME NEW m \in {0, 1}, metas[m].whole PROVE Intact(file', metas[m])
    BY <1>2 DEF CommitIntact, Intact
  <2>1. Intact(file, metas[m]) /\ Intact(disk, metas[m])
    BY DEF PagesInv, CommitIntact
  <2> SUFFICES ASSUME NEW h \in DOMAIN metas[m].pages, NEW p \in Run(h, metas[m].pages[h].n)
               PROVE  file'[p] = metas[m].pages[h].stamp
    BY DEF Intact
  <2>2. InUse(Covered(metas[m].pages), metas[m].txnid)
    BY DEF InUse
  <2>3. p \in Covered(metas[m].pages)
    BY CoveredIs
  <2>4. p \in Pages
    BY <2>2, <2>3, UsedPages
  <2>5. file[p] = metas[m].pages[h].stamp /\ disk[p] = metas[m].pages[h].stamp
    BY <2>1 DEF Intact
  <2> QED
    BY <1>1, <2>4, <2>5
<1>10. SnapshotIntact'
  BY <1>6 DEF SnapshotIntact
<1>11. MetasSpared' /\ ReadersSpared'
  <2>1. AllSpared'
    <3> SUFFICES ASSUME NEW P, NEW s, InUse(P, s)' PROVE Spared(P, s)'
      BY DEF AllSpared
    <3>1. InUse(P, s)
      BY <1>2, <1>6 DEF InUse
    <3>2. Keeps(PickMeta, P, s)'
      BY <1>3, <3>1, UsedPages DEF Spared, Keeps
    <3> QED
      BY <1>2, <3>2 DEF Spared, Writing, Ending
  <2> QED
    BY <2>1, AllSparedThen
<1>12. SaveRight' /\ CommitRight' /\ WriterRight' /\ RoomRight'
  BY <1>2, Rests
<1>13. Typed'
  <2>1. file' \in [Pages -> Int]
    BY <1>1 DEF PagesInv, Typed
  <2>2. \A m \in {0, 1} : Stamped(metas'[m].pages)
    BY <1>2 DEF PagesInv, Typed
  <2>3. \A r \in Readers : Stamped(readers'[r].snap.pages)
    BY <1>2, NothingTyped
  <2>4. Bounded(txn') /\ IsSave(save')
    BY <1>2, NothingTyped
  <2> QED
    BY <1>2, <2>1, <2>2, <2>3, <2>4, TypedThen
<1> QED
  BY <1>5, <1>7, <1>8, <1>9, <1>10, <1>11, <1>12, <1>13 DEF PagesInv

-----------------------------------------------------------------------------
(* Readers *)

\* What is kept for a snapshot is kept for an earlier one with the same pages.
LEMMA SparedEarlier ==
    ASSUME PagesInv, NEW P, NEW s \in Nat, NEW k \in Nat, k <= s, Spared(P, s)
    PROVE  Spared(P, k)
<1>1. ASSUME NEW snap, IsRecs(snap.recs), Keeps(snap, P, s) PROVE Keeps(snap, P, k)
  <2>1. \A id \in DOMAIN snap.recs : id \in Nat
    BY <1>1 DEF IsRecs
  <2>2. \A id \in DOMAIN snap.recs : id <= k => id <= s
    BY <2>1
  <2> QED
    BY <1>1, <2>2 DEF Keeps
<1>2. ASSUME NEW t, NEW u, IsTxn(t), Spares(t, u, P, s) PROVE Spares(t, u, P, k)
  <2>1. \A id \in Unread(t) : id \in Nat
    BY <1>2 DEF IsTxn, IsRecs, Unread
  <2>2. \A id \in Unread(t) : id <= k => id <= s
    BY <2>1
  <2> QED
    BY <1>2, <2>2 DEF Spares
<1>3. Keeps(PickMeta, P, k)
  BY <1>1 DEF PagesInv, Sound, Spared
<1>4. Writing /\ ~txn.error => Spares(txn, Parent, P, k)
  BY <1>2 DEF PagesInv, WriterRight, InOrder, Books, Spared
<1>5. at = "active" /\ outer # <<>> => Spares(Parent, NoTxn, P, k)
  BY <1>2 DEF PagesInv, WriterRight, InOrder, Books, Spared
<1>6. Ending => Keeps(Snapshot(txn), P, k)
  BY <1>1 DEF PagesInv, CommitRight, Sound, Spared
<1> QED
  BY <1>3, <1>4, <1>5, <1>6 DEF Spared

\* A reader that is counted as the others are.
CountedReader(f) ==
    /\ f = [at |-> f.at, seen |-> f.seen, slot |-> f.slot, snap |-> f.snap]
    /\ f.at \in {"idle", "looked", "claimed", "checked", "reading"}
    /\ f.seen \in Nat /\ f.slot \in Nat \cup {-1}
    /\ f.seen <= mti_txnid /\ f.slot <= mti_txnid
    /\ f.at = "claimed" => f.slot # -1
    /\ f.at \in {"checked", "reading"} => f.slot # -1 /\ txn.oldest <= f.slot
    /\ f.at = "checked" => f.slot <= metas[f.slot % 2].txnid

\* ReadersCounted, of each reader by itself.
LEMMA ReadersAreCounted ==
    ReadersCounted <=> DOMAIN readers = Readers /\ \A q \in Readers : CountedReader(readers[q])
  BY DEF ReadersCounted, CountedReader

\* What one reader does leaves the writer as it was.
LEMMA ReaderKeeps ==
    ASSUME PagesInv, NEW r \in Readers, NEW f, CountedReader(f), Stamped(f.snap.pages),
           f.at = "reading" /\ f.snap.whole => Intact(file, f.snap) /\ Spared(Covered(f.snap.pages), f.slot),
           UNCHANGED <<fileVars, mti_txnid, at, txn, outer, save>>, readers' = [readers EXCEPT ![r] = f]
    PROVE  PagesInv'
<1>1. /\ file' = file /\ disk' = disk /\ metas' = metas /\ mti_txnid' = mti_txnid
      /\ at' = at /\ txn' = txn /\ outer' = outer /\ save' = save
  BY DEF fileVars
<1>2. \A q \in Readers : readers'[q] = IF q = r THEN f ELSE readers[q]
  BY DEF PagesInv, ReadersCounted
<1>3. PickMeta' = PickMeta /\ Parent' = Parent /\ Snapshot(txn)' = Snapshot(txn)
  BY <1>1 DEF PickMeta, Parent, Snapshot
<1>4. Counted' /\ Sound(PickMeta)' /\ CommitIntact'
  <2>1. Counted'
    BY <1>1, <1>3 DEF PagesInv, Counted
  <2>2. Sound(PickMeta)'
    BY <1>3 DEF PagesInv, Sound
  <2>3. CommitIntact'
    BY <1>1 DEF PagesInv, CommitIntact, Intact
  <2> QED
    BY <2>1, <2>2, <2>3
<1>5. ReadersCounted'
  <2>1. \A q \in Readers : CountedReader(readers'[q])
    BY <1>2, ReadersAreCounted DEF PagesInv
  <2>2. \A q \in Readers : CountedReader(readers[q])'
    BY <1>1, <2>1 DEF CountedReader
  <2>3. (DOMAIN readers = Readers)'
    BY DEF PagesInv, ReadersCounted
  <2> QED
    BY <2>2, <2>3 DEF ReadersCounted, CountedReader
<1>6. SnapshotIntact'
  BY <1>1, <1>2 DEF PagesInv, SnapshotIntact, Intact
<1>7. \A P, s : Spared(P, s) => Spared(P, s)'
  BY <1>1, <1>3 DEF Spared, Keeps, Spares, Writing, Ending, DirtyPages, Unread, Known, Loose
<1>8. MetasSpared' /\ ReadersSpared'
  BY <1>1, <1>2, <1>7 DEF PagesInv, MetasSpared, ReadersSpared
<1>9. WriterRight'
  BY <1>1, <1>3 DEF PagesInv, WriterRight, Writing, Unsaved
<1>10. SaveRight' /\ CommitRight'
  <2>1. SaveRight'
    BY <1>1 DEF PagesInv, SaveRight, Saving
  <2>2. CommitRight'
    BY <1>1, <1>3 DEF PagesInv, CommitRight, Ending
  <2> QED
    BY <2>1, <2>2
<1>11. Typed'
  <2>1. \A q \in Readers : Stamped(readers'[q].snap.pages)
    BY <1>2 DEF PagesInv, Typed
  <2>2. \A m \in {0, 1} : Stamped(metas'[m].pages)
    BY <1>1 DEF PagesInv, Typed
  <2>3. /\ file' \in [Pages -> Int] /\ disk' \in [Pages -> Int] /\ Bounded(txn') /\ IsSave(save')
        /\ at' \in {"idle", "active", "save", "frees", "flush", "sync", "meta", "publish", "failed", "dead"}
    BY <1>1 DEF PagesInv, Typed
  <2> QED
    BY <2>1, <2>2, <2>3, TypedThen
<1>12. RoomRight'
  <2>1. Space(txn, Parent)' = Space(txn, Parent) /\ Space(Parent, NoTxn)' = Space(Parent, NoTxn)
    BY <1>1, <1>3 DEF Space, Counts
  <2> QED
    BY <1>1, <2>1 DEF PagesInv, RoomRight
<1> QED
  BY <1>4, <1>5, <1>6, <1>8, <1>9, <1>10, <1>11, <1>12 DEF PagesInv

\* mdb_txn_renew0 and mdb_txn_end of a reader.
LEMMA ReadersKeep ==
    ASSUME PagesInv, NEW r \in Readers, ReaderStep(r)
    PROVE  PagesInv'
<1> DEFINE old == readers[r]
<1>1. CountedReader(old)
  BY ReadersAreCounted DEF PagesInv
<1>2. /\ mti_txnid \in Nat /\ txn.oldest \in Nat /\ txn.oldest <= mti_txnid
      /\ \A m \in {0, 1} : metas[m].txnid \in Nat
  BY DEF PagesInv, Counted
<1>9. Stamped(old.snap.pages) /\ Stamped(EmptyMeta.pages) /\ \A m \in {0, 1} : Stamped(metas[m].pages)
  BY NothingTyped DEF PagesInv, Typed
<1> HIDE DEF old
<1>3. ASSUME ReaderLooks(r) PROVE PagesInv'
  <2> DEFINE g == [old EXCEPT !.seen = mti_txnid]
             f == [g EXCEPT !.at = "looked"]
  <2>1. UNCHANGED <<fileVars, mti_txnid, at, txn, outer, save>> /\ readers' = [readers EXCEPT ![r] = f]
    BY <1>3 DEF ReaderLooks, Reads, old
  <2>2. f = [at |-> "looked", seen |-> mti_txnid, slot |-> old.slot, snap |-> old.snap]
    <3>1. g = [at |-> old.at, seen |-> mti_txnid, slot |-> old.slot, snap |-> old.snap]
      BY <1>1 DEF CountedReader
    <3> HIDE DEF g
    <3> QED
      BY <3>1
  <2> HIDE DEF f
  <2>3. CountedReader(f) /\ f.at # "reading"
    BY <1>1, <1>2, <2>2 DEF CountedReader
  <2>5. Stamped(f.snap.pages)
    BY <1>9, <2>2
  <2> QED
    BY <2>1, <2>3, <2>5, ReaderKeeps
<1>4. ASSUME ReaderClaims(r) PROVE PagesInv'
  <2> DEFINE g == [old EXCEPT !.slot = old.seen]
             f == [g EXCEPT !.at = "claimed"]
  <2>1. UNCHANGED <<fileVars, mti_txnid, at, txn, outer, save>> /\ readers' = [readers EXCEPT ![r] = f]
    BY <1>4 DEF ReaderClaims, Reads, old
  <2>2. f = [at |-> "claimed", seen |-> old.seen, slot |-> old.seen, snap |-> old.snap]
    <3>1. g = [at |-> old.at, seen |-> old.seen, slot |-> old.seen, snap |-> old.snap]
      BY <1>1 DEF CountedReader
    <3> HIDE DEF g
    <3> QED
      BY <3>1
  <2> HIDE DEF f
  <2>3. CountedReader(f) /\ f.at # "reading"
    BY <1>1, <1>2, <2>2 DEF CountedReader
  <2>5. Stamped(f.snap.pages)
    BY <1>9, <2>2
  <2> QED
    BY <2>1, <2>3, <2>5, ReaderKeeps
<1>5. ASSUME ReaderChecks(r), StillNewest(r) PROVE PagesInv'
  <2> DEFINE f == [old EXCEPT !.at = "checked"]
  <2>1. /\ UNCHANGED <<fileVars, mti_txnid, at, txn, outer, save>> /\ readers' = [readers EXCEPT ![r] = f]
        /\ old.at = "claimed" /\ old.slot = mti_txnid
    BY <1>5 DEF ReaderChecks, Reads, StillNewest, old
  <2>2. f = [at |-> "checked", seen |-> old.seen, slot |-> old.slot, snap |-> old.snap]
    BY <1>1 DEF CountedReader
  <2>3. mti_txnid <= metas[mti_txnid % 2].txnid
    <3> DEFINE new == PickMeta.txnid
    <3>1. /\ new \in Nat /\ metas[new % 2].txnid = new
          /\ metas[(new + 1) % 2].txnid = IF new = 0 THEN 0 ELSE new - 1
          /\ mti_txnid = new \/ mti_txnid + 1 = new
      BY <1>2 DEF PagesInv, Counted, PickMeta
    <3> HIDE DEF new
    <3>2. CASE mti_txnid = new
      BY <1>2, <3>1, <3>2
    <3>3. CASE mti_txnid + 1 = new
      <4>1. (new + 1) % 2 = mti_txnid % 2 /\ new # 0 /\ new - 1 = mti_txnid
        BY <1>2, <3>3
      <4> QED
        BY <1>2, <3>1, <4>1
    <3> QED
      BY <3>1, <3>2, <3>3
  <2> HIDE DEF f
  <2>4. CountedReader(f) /\ f.at # "reading"
    BY <1>1, <1>2, <2>1, <2>2, <2>3 DEF CountedReader
  <2>5. Stamped(f.snap.pages)
    BY <1>9, <2>2
  <2> QED
    BY <2>1, <2>4, <2>5, ReaderKeeps
<1>6. ASSUME ReaderChecks(r), ~StillNewest(r) PROVE PagesInv'
  <2> DEFINE g == [old EXCEPT !.seen = mti_txnid]
             f == [g EXCEPT !.at = "looked"]
  <2>1. UNCHANGED <<fileVars, mti_txnid, at, txn, outer, save>> /\ readers' = [readers EXCEPT ![r] = f]
    BY <1>6 DEF ReaderChecks, Reads, old
  <2>2. f = [at |-> "looked", seen |-> mti_txnid, slot |-> old.slot, snap |-> old.snap]
    <3>1. g = [at |-> old.at, seen |-> mti_txnid, slot |-> old.slot, snap |-> old.snap]
      BY <1>1 DEF CountedReader
    <3> HIDE DEF g
    <3> QED
      BY <3>1
  <2> HIDE DEF f
  <2>3. CountedReader(f) /\ f.at # "reading"
    BY <1>1, <1>2, <2>2 DEF CountedReader
  <2>5. Stamped(f.snap.pages)
    BY <1>9, <2>2
  <2> QED
    BY <2>1, <2>3, <2>5, ReaderKeeps
<1>7. ASSUME ReaderCopies(r) PROVE PagesInv'
  <2> DEFINE m == old.slot % 2
             g == [old EXCEPT !.snap = metas[m]]
             f == [g EXCEPT !.at = "reading"]
  <2>1. /\ UNCHANGED <<fileVars, mti_txnid, at, txn, outer, save>> /\ readers' = [readers EXCEPT ![r] = f]
        /\ old.at = "checked"
    BY <1>7 DEF ReaderCopies, Reads, old
  <2>2. f = [at |-> "reading", seen |-> old.seen, slot |-> old.slot, snap |-> metas[m]]
    <3> HIDE DEF m
    <3>1. g = [at |-> old.at, seen |-> old.seen, slot |-> old.slot, snap |-> metas[m]]
      BY <1>1 DEF CountedReader
    <3> HIDE DEF g
    <3> QED
      BY <3>1
  <2>3. old.slot \in Nat /\ m \in {0, 1} /\ old.slot <= metas[m].txnid /\ metas[m].txnid \in Nat
    BY <1>1, <1>2, <2>1 DEF CountedReader
  <2> HIDE DEF f, m
  <2>4. CountedReader(f)
    BY <1>1, <1>2, <2>1, <2>2, <2>3 DEF CountedReader
  <2>5. metas[m].whole => Intact(file, metas[m]) /\ Spared(Covered(metas[m].pages), metas[m].txnid)
    BY <2>3 DEF PagesInv, CommitIntact, MetasSpared
  <2>6. metas[m].whole => Spared(Covered(metas[m].pages), old.slot)
    BY <2>3, <2>5, SparedEarlier
  <2>7. Stamped(f.snap.pages)
    BY <1>9, <2>2, <2>3
  <2> QED
    BY <2>1, <2>2, <2>4, <2>5, <2>6, <2>7, ReaderKeeps
<1>8. ASSUME ReaderEnds(r) PROVE PagesInv'
  <2> DEFINE g == [old EXCEPT !.slot = -1, !.seen = 0, !.snap = EmptyMeta]
             f == [g EXCEPT !.at = "idle"]
  <2>1. UNCHANGED <<fileVars, mti_txnid, at, txn, outer, save>> /\ readers' = [readers EXCEPT ![r] = f]
    BY <1>8 DEF ReaderEnds, Reads, old
  <2>2. f = [at |-> "idle", seen |-> 0, slot |-> -1, snap |-> EmptyMeta]
    <3> DEFINE a == [old EXCEPT !.slot = -1]
               b == [a EXCEPT !.seen = 0]
    <3>2. a = [at |-> old.at, seen |-> old.seen, slot |-> -1, snap |-> old.snap]
      BY <1>1 DEF CountedReader
    <3>3. g = [b EXCEPT !.snap = EmptyMeta]
      OBVIOUS
    <3> HIDE DEF a, g
    <3>4. b = [at |-> old.at, seen |-> 0, slot |-> -1, snap |-> old.snap]
      BY <3>2
    <3> HIDE DEF b
    <3>1. g = [at |-> old.at, seen |-> 0, slot |-> -1, snap |-> EmptyMeta]
      BY <3>3, <3>4
    <3> HIDE DEF g
    <3> QED
      BY <3>1
  <2> HIDE DEF f
  <2>3. CountedReader(f) /\ f.at # "reading"
    BY <1>1, <1>2, <2>2 DEF CountedReader
  <2>5. Stamped(f.snap.pages)
    BY <1>9, <2>2
  <2> QED
    BY <2>1, <2>3, <2>5, ReaderKeeps
<1> QED
  BY <1>3, <1>4, <1>5, <1>6, <1>7, <1>8 DEF ReaderStep

-----------------------------------------------------------------------------
(* Pages that are spilled *)

\* The dirty pages hs are written to the file before the commit.
NowSpilled(t, t2, hs) ==
    /\ t2.spills = t.spills \cup hs /\ t2.dirty = Without(t.dirty, hs)
    /\ t2.pages = t.pages /\ t2.recs = t.recs /\ t2.frees = t.frees /\ t2.loose = t.loose
    /\ t2.txnid = t.txnid /\ t2.pglast = t.pglast /\ t2.next = t.next /\ t2.pghead = t.pghead
    /\ t2.oldest = t.oldest /\ t2.root = t.root /\ t2.error = t.error /\ t2.listed = t.listed

\* Spilled pages are no longer dirty, and the books are in order.
LEMMA SpilledBooks ==
    ASSUME NEW t, NEW t2, NEW u, NEW hs, Books(t, u, {}), IsTxn(t2), NowSpilled(t, t2, hs),
           hs \subseteq DOMAIN t.dirty, hs \cap Loose(t) = {}
    PROVE  Books(t2, u, {})
<1>1. /\ IsTxn(t) /\ IsTxn(u) /\ Placed(t, u, {}) /\ Laid(t, u) /\ SpillsRight(t, u) /\ SparesParent(t, u)
      /\ Numbered(t)
  BY DEF Books
<1>2. DOMAIN t2.dirty = DOMAIN t.dirty \ hs /\ \A h \in DOMAIN t2.dirty : t2.dirty[h] = t.dirty[h]
  BY DEF NowSpilled, Without, Restrict
<1>3. /\ Loose(t2) = Loose(t) /\ FreedBy(t2) = FreedBy(t) /\ Unread(t2) = Unread(t)
      /\ Waiting(t2) = Waiting(t) /\ Takeable(t2) = Takeable(t) /\ Known(t2) = Known(t)
  BY DEF NowSpilled, Loose, FreedBy, Unread, Waiting, Takeable, Known
<1>4. Placed(t2, u, {})
  BY <1>1, <1>3 DEF Placed, NowSpilled
<1>5. Blocks(t2) \subseteq Blocks(t) /\ DirtyPages(t2) \subseteq DirtyPages(t)
  BY <1>2 DEF NowSpilled, Blocks, DirtyPages
<1>6. Laid(t2, u)
  <2>1. Tiled(Blocks(t2) \cup Blocks(u))
    BY <1>1, <1>5, TiledPart DEF Laid
  <2>2. \A b \in Blocks(t2) \cup Blocks(u) : RunOf(b) \subseteq Known(t2) \ Takeable(t2)
    BY <1>1, <1>3, <1>5 DEF Laid
  <2>3. DirtyPages(t2) \cap Kept(u) = {}
    BY <1>1, <1>5 DEF Laid
  <2>4. \A h \in Loose(t2) : h \in DOMAIN t2.dirty /\ t2.dirty[h] = 1
    BY <1>1, <1>2, <1>3 DEF Laid
  <2> QED
    BY <2>1, <2>2, <2>3, <2>4 DEF Laid
<1>7. ASSUME NEW h \in hs
      PROVE  /\ <<h, t.dirty[h]>> \in Blocks(t) /\ h \in RunOf(<<h, t.dirty[h]>>)
             /\ h \in DirtyPages(t) /\ h \in Known(t) \ Takeable(t)
             /\ \A b \in Blocks(t) \cup Blocks(u) : h \in RunOf(b) => h = b[1]
  <2>1. h \in DOMAIN t.dirty /\ h \in Nat /\ t.dirty[h] \in Positive
    BY <1>1 DEF IsTxn
  <2>2. <<h, t.dirty[h]>> \in Blocks(t) /\ h \in Run(h, t.dirty[h])
    BY <2>1, BlockOfDirty, RunHasFirst
  <2>3. h \in RunOf(<<h, t.dirty[h]>>)
    BY <2>2 DEF RunOf
  <2>4. h \in DirtyPages(t)
    BY <2>1, <2>2, DirtyPagesIs
  <2>5. h \in Known(t) \ Takeable(t)
    BY <1>1, <2>2, <2>3 DEF Laid
  <2>6. ASSUME NEW b \in Blocks(t) \cup Blocks(u), h \in RunOf(b) PROVE h = b[1]
    <3> DEFINE c == <<h, t.dirty[h]>>
    <3>1. c \in Blocks(t) \cup Blocks(u) /\ h \in RunOf(c) /\ c[1] = h
      BY <2>2, <2>3
    <3> HIDE DEF c
    <3>2. b = c
      BY <1>1, <2>6, <3>1 DEF Laid, Tiled
    <3> QED
      BY <3>1, <3>2
  <2> QED
    BY <2>2, <2>3, <2>4, <2>5, <2>6
<1>8. SpillsRight(t2, u)
  <2>1. t2.spills = t.spills \cup hs
    BY DEF NowSpilled
  <2>2. hs \cap Kept(u) = {}
    BY <1>1, <1>7 DEF Laid
  <2>3. t2.spills \cap (DOMAIN t2.dirty \cup Loose(t2) \cup Kept(u)) = {}
    BY <1>1, <1>2, <1>3, <2>1, <2>2 DEF SpillsRight
  <2>4. t2.spills \cup u.spills \subseteq Known(t2) \ Takeable(t2)
    BY <1>1, <1>3, <1>7, <2>1 DEF SpillsRight
  <2>5. \A k \in t2.spills \cup u.spills, b \in Blocks(t2) \cup Blocks(u) : k \in RunOf(b) => k = b[1]
    BY <1>1, <1>5, <1>7, <2>1 DEF SpillsRight
  <2> QED
    BY <1>1, <2>3, <2>4, <2>5 DEF SpillsRight
<1>9. SparesParent(t2, u)
  BY <1>1, <1>2 DEF SparesParent, NowSpilled
<1>10. Numbered(t2)
  BY <1>1 DEF Numbered, NowSpilled
<1> QED
  BY <1>1, <1>4, <1>6, <1>8, <1>9, <1>10 DEF Books

\* The room grows by the pages that are no longer dirty.
LEMMA SpilledSpace ==
    ASSUME NEW t, NEW t2, NEW u, NEW hs, Books(t, u, {}), NowSpilled(t, t2, hs),
           hs \subseteq DOMAIN t.dirty, t2.room = t.room + Cardinality(hs)
    PROVE  Space(t2, u) = Space(t, u)
<1>1. DOMAIN t2.dirty = DOMAIN t.dirty \ hs /\ t2.spills = t.spills \cup hs
  BY DEF NowSpilled, Without, Restrict
<1>2. hs \subseteq Counts(t, u) /\ Counts(t2, u) = Counts(t, u) \ hs
  BY <1>1 DEF Counts
<1>3. IsFiniteSet(Counts(t, u))
  BY CountsAre DEF Books
<1>4. IsFiniteSet(hs) /\ Counts(t, u) \cap hs = hs
  BY <1>2, <1>3, FS_Subset
<1>5. Cardinality(Counts(t2, u)) = Cardinality(Counts(t, u)) - Cardinality(hs)
  <2> DEFINE S == Counts(t, u)
  <2>1. IsFiniteSet(S) /\ S \cap hs = hs /\ Counts(t2, u) = S \ hs
    BY <1>2, <1>3, <1>4
  <2> HIDE DEF S
  <2>2. Cardinality(S \ hs) = Cardinality(S) - Cardinality(S \cap hs)
    BY <2>1, FS_Difference
  <2>3. Cardinality(Counts(t2, u)) = Cardinality(S) - Cardinality(hs)
    BY <2>1, <2>2
  <2> QED
    BY <2>3 DEF S
<1>6. Cardinality(Counts(t, u)) \in Nat /\ Cardinality(hs) \in Nat /\ t.room \in Nat
  BY <1>3, <1>4, FS_CardinalityType DEF Books, IsTxn
<1> QED
  BY <1>5, <1>6 DEF Space

\* What a snapshot needs was not dirty, and so it is not among the pages that are spilled.
LEMMA SpilledSpares ==
    ASSUME NEW t, NEW t2, NEW u, NEW hs, Books(t, u, {}), NowSpilled(t, t2, hs),
           hs \subseteq DOMAIN t.dirty, NEW P, NEW s, Spares(t, u, P, s)
    PROVE  Spares(t2, u, P, s)
<1>1. DOMAIN t2.dirty = DOMAIN t.dirty \ hs /\ \A h \in DOMAIN t2.dirty : t2.dirty[h] = t.dirty[h]
  BY DEF NowSpilled, Without, Restrict
<1>2. DirtyPages(t2) \subseteq DirtyPages(t)
  BY <1>1 DEF DirtyPages
<1>3. /\ Loose(t2) = Loose(t) /\ Unread(t2) = Unread(t) /\ Known(t2) = Known(t)
      /\ t2.pghead = t.pghead /\ t2.recs = t.recs /\ t2.pages = t.pages /\ t2.spills = t.spills \cup hs
  BY DEF NowSpilled, Loose, Unread, Known
<1>4. ASSUME NEW h \in hs \cap DOMAIN t.pages PROVE Run(h, t.pages[h].n) \cap P = {}
  <2>1. h \in DOMAIN t.dirty
    OBVIOUS
  <2>2. <<h, t.pages[h].n>> \in Blocks(t) \cup Blocks(u) /\ <<h, t.dirty[h]>> \in Blocks(t) \cup Blocks(u)
    BY <2>1, BlockOfPage, BlockOfDirty
  <2>3. t.pages[h].n = t.dirty[h]
    BY <2>2, SameBlock
  <2>4. Run(h, t.dirty[h]) \subseteq DirtyPages(t)
    BY <2>1 DEF DirtyPages
  <2> QED
    BY <2>3, <2>4 DEF Spares
<1> QED
  BY <1>2, <1>3, <1>4 DEF Spares

\* The pages that were written are in the file now; the others are where they were.
LEMMA SpilledInPlace ==
    ASSUME Books(txn, Parent, {}), NEW t2, NEW hs, NowSpilled(txn, t2, hs),
           hs \subseteq DOMAIN txn.dirty, InPlace(file, txn, Parent)
    PROVE  InPlace(FileWith(hs), t2, Parent)
<1>1. DOMAIN t2.dirty = DOMAIN txn.dirty \ hs /\ t2.spills = txn.spills \cup hs /\ t2.pages = txn.pages
  BY DEF NowSpilled, Without, Restrict
<1>2. /\ IsTxn(txn) /\ Tiled(Blocks(txn)) /\ Covered(txn.pages) \subseteq Known(txn)
      /\ txn.next <= MaxPg /\ txn.next \in Nat /\ MaxPg \in Nat
  BY TiledPart, LmdbPagesAssumption DEF Books, Placed, Laid, IsTxn
<1>3. ASSUME NEW h \in DOMAIN txn.pages, NEW p \in Run(h, txn.pages[h].n)
      PROVE  FileWith(hs)[p] = IF h \in hs THEN txn.pages[h].stamp ELSE file[p]
  <2>1. p \in Covered(txn.pages)
    BY CoveredIs
  <2>2. p \in Pages
    BY <1>2, <2>1 DEF Known, Pages
  <2> QED
    BY <1>2, <2>2, FileWithPage
<1> SUFFICES ASSUME NEW h \in DOMAIN txn.pages, h \notin DOMAIN t2.dirty
             PROVE  IF h \notin t2.spills /\ h \in DOMAIN Parent.dirty /\ h \notin Parent.spills
                    THEN h \in DOMAIN Parent.pages /\ Parent.pages[h].stamp = txn.pages[h].stamp
                    ELSE OnFile(FileWith(hs), t2, h)
  BY <1>1 DEF InPlace
<1>4. CASE h \in hs
  <2>1. OnFile(FileWith(hs), t2, h)
    BY <1>1, <1>3, <1>4 DEF OnFile
  <2> QED
    BY <1>1, <1>4, <2>1
<1>5. CASE h \notin hs
  <2>1. h \notin DOMAIN txn.dirty /\ (h \in t2.spills <=> h \in txn.spills)
    BY <1>1, <1>5
  <2>2. OnFile(file, txn, h) => OnFile(FileWith(hs), t2, h)
    BY <1>1, <1>3, <1>5 DEF OnFile
  <2> QED
    BY <2>1, <2>2 DEF InPlace
<1> QED
  BY <1>4, <1>5

\* None of them is a page that the parent has spilled, and its clean pages are not dirty in the child.
LEMMA SpilledParent ==
    ASSUME Books(txn, Parent, {}), NEW hs, hs \subseteq DOMAIN txn.dirty, hs \cap Parent.spills = {},
           InPlace(file, Parent, NoTxn), Books(Parent, NoTxn, {}), Parent.next <= MaxPg
    PROVE  InPlace(FileWith(hs), Parent, NoTxn)
<1>1. DOMAIN NoTxn.dirty = {}
  BY DEF NoTxn
<1>2. Tiled(Blocks(txn)) /\ Tiled(Blocks(txn) \cup Blocks(Parent)) /\ SparesParent(txn, Parent)
  BY TiledPart DEF Books, Laid
<1> SUFFICES ASSUME NEW h \in DOMAIN Parent.pages, h \notin DOMAIN Parent.dirty,
                    NEW p \in Run(h, Parent.pages[h].n)
             PROVE  FileWith(hs)[p] = Parent.pages[h].stamp
  BY <1>1 DEF InPlace, OnFile
<1>3. file[p] = Parent.pages[h].stamp
  BY <1>1 DEF InPlace, OnFile
<1>4. p \in Pages
  <2>1. Covered(Parent.pages) \subseteq Known(Parent) /\ Parent.next \in Nat /\ MaxPg \in Nat
    BY LmdbPagesAssumption DEF Books, Placed, IsTxn
  <2>2. p \in Covered(Parent.pages)
    BY CoveredIs
  <2> QED
    BY <2>1, <2>2 DEF Known, Pages
<1>5. ASSUME NEW x \in hs, p \in Run(x, txn.dirty[x]) PROVE FALSE
  <2> DEFINE b == <<x, txn.dirty[x]>>
             c == <<h, Parent.pages[h].n>>
  <2>1. b \in Blocks(txn) /\ c \in Blocks(Parent) /\ b[1] = x /\ c[1] = h
    BY BlockOfDirty, BlockOfPage
  <2>2. p \in RunOf(b) /\ p \in RunOf(c)
    BY <1>5 DEF RunOf
  <2> HIDE DEF b, c
  <2>3. b = c
    BY <1>2, <2>1, <2>2 DEF Tiled
  <2>4. x = h
    BY <2>1, <2>3
  <2>5. x \in DOMAIN Parent.dirty \cup Parent.spills
    BY <1>2, <2>4 DEF SparesParent
  <2> QED
    BY <2>4, <2>5
<1> QED
  BY <1>2, <1>3, <1>4, <1>5, FileWithIs

\* mdb_page_spill.
LEMMA PageSpillKeeps ==
    ASSUME PagesInv, PageSpill
    PROVE  PagesInv'
<1>1. PICK hs \in SUBSET Spillable :
          file' = FileWith(hs) /\ txn' = SpilledOut(txn, hs)
  BY DEF PageSpill
<1>2. /\ at = "active" /\ ~txn.error /\ at' = "active" /\ outer' = outer /\ save' = save
      /\ disk' = disk /\ metas' = metas /\ mti_txnid' = mti_txnid /\ readers' = readers
  BY DEF PageSpill, readVars
<1>3. Writing /\ Ready(txn) /\ InPlace(file, txn, Parent)
  BY <1>2, WriterReady DEF Writing
<1>4. Books(txn, Parent, {}) /\ IsTxn(txn) /\ IsRecord(txn) /\ TreeOf(txn) /\ txn.error = FALSE
  BY <1>3 DEF Ready, Books, IsTxn
<1>5. hs \subseteq DOMAIN txn.dirty /\ hs \cap Loose(txn) = {}
  BY DEF Spillable, Loose
<1>6. Cardinality(hs) \in Nat
  <2>1. hs \subseteq 2 .. txn.next - 1
    <3> SUFFICES ASSUME NEW h \in hs PROVE h \in Known(txn)
      BY DEF Known
    <3>1. h \in DOMAIN txn.dirty /\ h \in Nat /\ txn.dirty[h] \in Positive
      BY <1>4, <1>5 DEF IsTxn
    <3>2. <<h, txn.dirty[h]>> \in Blocks(txn) /\ h \in Run(h, txn.dirty[h])
      BY <3>1, BlockOfDirty, RunHasFirst
    <3> QED
      BY <1>4, <3>2 DEF Books, Laid, RunOf
  <2>2. IsFiniteSet(2 .. txn.next - 1)
    <3>1. 2 \in Int /\ txn.next - 1 \in Int
      BY <1>4 DEF IsTxn
    <3> QED
      BY <3>1, FS_Interval
  <2> QED
    BY <2>1, <2>2, FS_Subset, FS_CardinalityType
<1>7. NowSpilled(txn, txn', hs) /\ IsRecord(txn') /\ txn'.room = txn.room + Cardinality(hs)
      /\ txn'.listed = txn.listed /\ txn'.marked = TRUE
  <2> DEFINE z == SpilledOut(txn, hs)
  <2>3. txn' = z
    BY <1>1
  <2>4. z = [txn EXCEPT !.spills = txn.spills \cup hs, !.dirty = Without(txn.dirty, hs),
                        !.marked = TRUE, !.room = txn.room + Cardinality(hs)]
    BY DEF SpilledOut
  <2> HIDE DEF z
  <2>1. NowSpilled(txn, z, hs) /\ z.room = txn.room + Cardinality(hs) /\ z.listed = txn.listed /\ z.marked = TRUE
    BY <1>4, <2>4 DEF NowSpilled, IsRecord
  <2>2. IsRecord(z)
    BY <1>4, <2>4 DEF IsRecord
  <2> QED
    BY <2>1, <2>2, <2>3
<1>8. IsTxn(txn')
  <2>1. DOMAIN txn'.dirty = DOMAIN txn.dirty \ hs /\ \A h \in DOMAIN txn'.dirty : txn'.dirty[h] = txn.dirty[h]
    BY <1>7 DEF NowSpilled, Without, Restrict
  <2>2. txn'.room \in Nat
    BY <1>4, <1>6, <1>7 DEF IsTxn
  <2> QED
    BY <1>4, <1>7, <2>1, <2>2 DEF IsTxn, NowSpilled
<1>9. Books(txn', Parent, {})
  BY <1>4, <1>5, <1>7, <1>8, SpilledBooks
<1>10. InPlace(file', txn', Parent)
  BY <1>1, <1>3, <1>4, <1>5, <1>7, SpilledInPlace
<1>11. TreeOf(txn') /\ Unsaved(txn')
  BY <1>2, <1>4, <1>7 DEF TreeOf, NowSpilled, Unsaved, PagesInv, WriterRight
<1>12. Counted' /\ ReadersCounted' /\ Sound(PickMeta)'
  <2>1. Steady(txn, txn')
    BY <1>7 DEF NowSpilled, Steady
  <2> QED
    BY <1>2, <2>1, StillCounts
<1>13. \A P, s : InUse(P, s) => Spared(P, s) /\ Spares(txn, Parent, P, s)
  <2> SUFFICES ASSUME NEW P, NEW s, InUse(P, s) PROVE Spared(P, s) /\ Spares(txn, Parent, P, s)
    OBVIOUS
  <2>1. Spared(P, s)
    BY UsedPages
  <2> QED
    BY <1>2, <1>3, <2>1 DEF Spared
<1>14. CommitIntact' /\ SnapshotIntact'
  <2>1. Tiled(Blocks(txn))
    BY <1>4, TiledPart DEF Books, Laid
  <2>2. \A P, s : InUse(P, s) => DirtyPages(txn) \cap P = {}
    BY <1>13 DEF Spares
  <2> QED
    BY <1>1, <1>2, <1>5, <2>1, <2>2, FilesKeep
<1>15. Parent' = Parent /\ PickMeta' = PickMeta
  BY <1>2 DEF Parent, PickMeta
<1>16. MetasSpared' /\ ReadersSpared'
  <2>1. \A P, s : InUse(P, s)' <=> InUse(P, s)
    BY <1>2, SameUse
  <2>2. AllSpared'
    <3> SUFFICES ASSUME NEW P, NEW s, InUse(P, s)' PROVE Spared(P, s)'
      BY DEF AllSpared
    <3>1. Spared(P, s) /\ Spares(txn, Parent, P, s)
      BY <1>13, <2>1
    <3>2. Spares(txn', Parent, P, s)
      BY <1>4, <1>5, <1>7, <3>1, SpilledSpares
    <3>3. Keeps(PickMeta', P, s)
      BY <1>15, <3>1 DEF Spared
    <3>4. at' = "active" /\ outer' # <<>> => Spares(Parent', NoTxn, P, s)
      BY <1>2, <1>15, <3>1 DEF Spared
    <3>5. Spares(txn', Parent', P, s)
      BY <1>15, <3>2
    <3>6. at' # "flush" /\ ~Ending'
      BY <1>2 DEF Ending
    <3> QED
      BY <3>3, <3>4, <3>5, <3>6 DEF Spared
  <2> QED
    BY <2>2, AllSparedThen
<1>17. WriterRight'
  <2>1. outer # <<>> => hs \cap Parent.spills = {}
    <3> SUFFICES ASSUME outer # <<>> PROVE hs \cap Parent.spills = {}
      OBVIOUS
    <3>1. outer = <<Head(outer)>> /\ Parent = Head(outer)
      BY DEF PagesInv, WriterRight, Parent
    <3>2. 1 \in DOMAIN outer /\ outer[1] = Parent
      BY <3>1
    <3> QED
      BY <3>2 DEF Spillable
  <2>2. outer # <<>> => InOrder(file', Parent, NoTxn)
    <3> SUFFICES ASSUME outer # <<>> PROVE InOrder(file', Parent, NoTxn)
      OBVIOUS
    <3>1. Books(Parent, NoTxn, {}) /\ InPlace(file, Parent, NoTxn) /\ TreeOf(Parent)
      BY DEF PagesInv, WriterRight, InOrder
    <3>2. Parent.next <= MaxPg
      BY <3>1 DEF Books, Placed
    <3>3. InPlace(FileWith(hs), Parent, NoTxn)
      BY <1>4, <1>5, <2>1, <3>1, <3>2, SpilledParent
    <3> QED
      BY <1>1, <3>1, <3>3 DEF InOrder
  <2>3. outer # <<>> => Parent.error = FALSE /\ Parent.txnid = txn.txnid /\ Unsaved(Parent) /\ outer = <<Head(outer)>>
    BY DEF PagesInv, WriterRight
  <2>4. txn'.txnid = txn.txnid
    BY <1>7 DEF NowSpilled
  <2>5. InOrder(file', txn', Parent)
    BY <1>9, <1>10, <1>11 DEF InOrder
  <2> QED
    BY <1>2, <1>11, <1>15, <2>2, <2>3, <2>4, <2>5 DEF WriterRight
<1>18. SaveRight' /\ CommitRight'
  BY <1>2 DEF SaveRight, CommitRight, Saving, Ending
<1>19. Space(txn', Parent) = UmMax
  <2>1. Space(txn, Parent) = UmMax
    BY <1>2 DEF PagesInv, RoomRight
  <2> QED
    BY <1>4, <1>5, <1>7, <2>1, SpilledSpace
<1>20. Typed'
  <2>1. UmMax <= UmMax
    BY LmdbPagesAssumption
  <2>2. Bounded(txn')
    BY <1>9, <1>19, <2>1, BoundedIs
  <2>3. Typed /\ disk \in [Pages -> Int] /\ IsSave(save')
    BY <1>2 DEF PagesInv, Typed
  <2>4. file' \in [Pages -> Int]
    BY <1>1, <1>5, <2>3, FileWithTyped
  <2> QED
    BY <1>2, <2>2, <2>3, <2>4, NowTyped
<1>21. RoomRight'
  <2>1. Space(txn, Parent)' = Space(txn', Parent) /\ Space(Parent, NoTxn)' = Space(Parent, NoTxn)
    BY <1>15 DEF Space, Counts
  <2> QED
    BY <1>2, <1>19, <2>1 DEF PagesInv, RoomRight
<1> QED
  BY <1>12, <1>14, <1>16, <1>17, <1>18, <1>20, <1>21 DEF PagesInv

-----------------------------------------------------------------------------
(* The beginning of a transaction *)

\* A transaction that builds on the snapshot.
NowBegun(t, snap, oldest) ==
    /\ IsRecord(t)
    /\ t.txnid = snap.txnid + 1 /\ t.pages = snap.pages /\ t.root = snap.root /\ t.recs = snap.recs
    /\ t.next = snap.last + 1 /\ t.oldest = oldest
    /\ t.frees = <<>> /\ t.loose = <<>> /\ t.dirty = <<>> /\ t.spills = {} /\ t.room = UmMax
    /\ t.error = FALSE /\ t.listed = FALSE /\ t.pghead = {} /\ t.pglast = 0

\* No transaction is a record of one too.
LEMMA NoneIsTxn ==
    IsTxn(NoTxn) /\ IsRecord(NoTxn)
<1>1. IsRecord(NoTxn)
  BY DEF IsRecord, NoTxn
<1>2. DOMAIN NoTxn.pages = {} /\ DOMAIN NoTxn.recs = {} /\ DOMAIN NoTxn.dirty = {}
  BY DEF NoTxn
<1>3. IsFiniteSet({})
  BY FS_EmptySet
<1>4. IsPages(NoTxn.pages) /\ IsRecs(NoTxn.recs)
  BY <1>2, <1>3 DEF IsPages, IsRecs
<1>5. UmMax \in Nat
  BY LmdbPagesAssumption
<1>6. /\ NoTxn.txnid = 0 /\ NoTxn.next = 2 /\ NoTxn.root = 0 /\ NoTxn.pglast = 0 /\ NoTxn.oldest = 0
      /\ NoTxn.room = UmMax /\ NoTxn.error = FALSE /\ NoTxn.listed = FALSE
      /\ NoTxn.frees = <<>> /\ NoTxn.loose = <<>>
  BY DEF NoTxn
<1>7. NoTxn.frees \in Seq(Nat) /\ NoTxn.loose \in Seq(Nat)
  BY <1>6
<1>8. NoTxn.error \in BOOLEAN /\ NoTxn.listed \in BOOLEAN
  BY <1>6
<1>9. /\ NoTxn.txnid \in Nat /\ NoTxn.next \in Nat /\ NoTxn.root \in Nat /\ NoTxn.pglast \in Nat
      /\ NoTxn.oldest \in Nat /\ NoTxn.room \in Nat
  BY <1>5, <1>6
<1>10. DOMAIN NoTxn.dirty \subseteq Nat /\ \A h \in DOMAIN NoTxn.dirty : NoTxn.dirty[h] \in Positive
  BY <1>2
<1> HIDE DEF NoTxn
<1> QED
  BY <1>1, <1>4, <1>7, <1>8, <1>9, <1>10 DEF IsTxn

\* There is no parent, and nothing is dirty: all it has is what the snapshot says.
LEMMA BegunBooks ==
    ASSUME NEW t, NEW snap, NEW oldest \in Nat, Sound(snap), oldest <= snap.txnid, NowBegun(t, snap, oldest)
    PROVE  Books(t, NoTxn, {}) /\ TreeOf(t) /\ Unsaved(t) /\ Space(t, NoTxn) = UmMax
<1>1. /\ snap.txnid \in Nat /\ snap.root \in Nat /\ snap.last \in Nat
      /\ 1 <= snap.last /\ snap.last < MaxPg /\ IsPages(snap.pages) /\ IsRecs(snap.recs)
      /\ MaxPg \in Nat /\ UmMax \in Nat
  BY LmdbPagesAssumption DEF Sound
<1>2. /\ Kept(NoTxn) = {} /\ Blocks(NoTxn) = {} /\ NoTxn.spills = {} /\ DOMAIN NoTxn.pages = {}
      /\ DOMAIN NoTxn.dirty = {}
  BY DEF NoTxn, Kept, FreedBy, Loose, ToSet, Blocks
<1>3. DOMAIN t.dirty = {} /\ DirtyPages(t) = {} /\ FreedBy(t) = {} /\ Loose(t) = {} /\ t.spills = {} /\ t.pghead = {}
  BY DEF NowBegun, DirtyPages, FreedBy, Loose, ToSet
<1>4. Known(t) = 2 .. snap.last
  <2>1. t.next - 1 = snap.last
    BY <1>1 DEF NowBegun
  <2> QED
    BY <2>1 DEF Known
<1>5. IsTxn(t)
  <2>1. t.frees \in Seq(Nat) /\ t.loose \in Seq(Nat)
    BY DEF NowBegun
  <2>2. t.txnid \in Nat /\ t.next \in Nat /\ t.root \in Nat /\ t.pglast \in Nat /\ t.oldest \in Nat /\ t.room \in Nat
    BY <1>1 DEF NowBegun
  <2> QED
    BY <1>1, <1>3, <2>1, <2>2 DEF IsTxn, NowBegun
<1>6. t.recs = snap.recs /\ t.pages = snap.pages /\ Unread(t) \subseteq DOMAIN snap.recs
  BY DEF NowBegun, Unread
<1>7. Waiting(t) \subseteq 2 .. snap.last /\ Waiting(t) \cap Covered(t.pages) = {}
  <2> SUFFICES ASSUME NEW p \in Waiting(t) PROVE p \in 2 .. snap.last /\ p \notin Covered(t.pages)
    OBVIOUS
  <2>1. PICK id \in Unread(t) : p \in t.recs[id].ids
    BY WaitingIs
  <2> QED
    BY <1>6, <2>1 DEF Sound
<1>8. Covered(t.pages) \subseteq 2 .. snap.last
  BY <1>6 DEF Sound
<1>15. Covered(t.pages) \cup Waiting(t) = 2 .. snap.last
  <2>1. \A id \in DOMAIN snap.recs : id \in Nat /\ id <= snap.txnid
    BY <1>1 DEF Sound, IsRecs
  <2>2. \A id \in DOMAIN snap.recs : id < t.txnid
    BY <1>1, <2>1 DEF NowBegun
  <2>3. t.pglast = 0
    BY DEF NowBegun
  <2>4. Unread(t) = DOMAIN snap.recs
    BY <1>6, <2>2, <2>3 DEF Unread
  <2>5. Waiting(t) = Listed(snap)
    BY <1>6, <2>4 DEF Waiting, Listed
  <2> QED
    BY <1>6, <2>5 DEF Sound
<1>9. Placed(t, NoTxn, {})
  <2>1. 2 <= t.next /\ t.next <= MaxPg
    BY <1>1 DEF NowBegun
  <2>2. Apart(Covered(t.pages), t.pghead, FreedBy(t), Loose(t), Waiting(t), {}, Kept(NoTxn))
    BY <1>2, <1>3, <1>7 DEF Apart
  <2>3. OnceEach(t.loose)
    BY DEF OnceEach, NowBegun
  <2>4. RecordsApart(t.recs, Unread(t))
    BY <1>6 DEF Sound, RecordsApart
  <2> QED
    BY <1>2, <1>3, <1>4, <1>15, <2>1, <2>2, <2>3, <2>4 DEF Placed
<1>10. Laid(t, NoTxn)
  <2>1. \A b \in Blocks(t) : \E h \in DOMAIN t.pages : b = <<h, t.pages[h].n>> /\ RunOf(b) = Run(h, t.pages[h].n)
    BY <1>3 DEF Blocks, RunOf
  <2>2. \A h, k \in DOMAIN t.pages : h = k \/ Run(h, t.pages[h].n) \cap Run(k, t.pages[k].n) = {}
    BY <1>6 DEF Sound
  <2>3. Tiled(Blocks(t) \cup Blocks(NoTxn))
    BY <1>2, <2>1, <2>2 DEF Tiled
  <2>4. \A b \in Blocks(t) : RunOf(b) \subseteq Covered(t.pages)
    BY <2>1 DEF Covered
  <2>5. Takeable(t) \cap Covered(t.pages) = {}
    BY <1>3, <1>7 DEF Takeable
  <2>6. \A b \in Blocks(t) \cup Blocks(NoTxn) : RunOf(b) \subseteq Known(t) \ Takeable(t)
    BY <1>2, <1>4, <1>8, <2>4, <2>5
  <2> QED
    BY <1>2, <1>3, <2>3, <2>6 DEF Laid
<1>11. SpillsRight(t, NoTxn) /\ SparesParent(t, NoTxn)
  BY <1>2, <1>3 DEF SpillsRight, SparesParent
<1>12. Numbered(t)
  <2>1. \A id \in DOMAIN t.recs : id \in Nat /\ 0 < id /\ id <= snap.txnid
    BY <1>1, <1>6 DEF Sound, IsRecs
  <2> QED
    BY <1>1, <2>1 DEF Numbered, NowBegun
<1>13. Unsaved(t)
  <2>1. \A id \in DOMAIN t.recs : id \in Nat /\ id <= snap.txnid
    BY <1>1, <1>6 DEF Sound, IsRecs
  <2>2. snap.txnid + 1 \notin DOMAIN t.recs
    BY <1>1, <2>1
  <2> QED
    BY <2>2 DEF Unsaved, NowBegun
<1>14. TreeOf(t)
  BY DEF TreeOf, NowBegun, Sound
<1>16. Space(t, NoTxn) = UmMax
  <2>1. Counts(t, NoTxn) = {}
    BY <1>2, <1>3 DEF Counts
  <2>2. Cardinality({}) = 0
    BY FS_EmptySet
  <2> QED
    BY <1>1, <2>1, <2>2 DEF Space, NowBegun
<1> QED
  BY <1>16, <1>5, <1>9, <1>10, <1>11, <1>12, <1>13, <1>14, NoneIsTxn DEF Books

\* A transaction begins with nothing that it may write to.
LEMMA BegunSpares ==
    ASSUME NEW t, NEW snap, NEW oldest, Sound(snap), NowBegun(t, snap, oldest), NEW P, NEW s, Keeps(snap, P, s)
    PROVE  Spares(t, NoTxn, P, s)
<1>1. /\ DirtyPages(t) = {} /\ Loose(t) = {} /\ t.spills = {} /\ t.pghead = {}
  BY DEF NowBegun, DirtyPages, Loose, ToSet
<1>2. DirtyPages(NoTxn) = {} /\ NoTxn.spills = {}
  BY DEF NoTxn, DirtyPages
<1>3. Known(t) = 2 .. snap.last
  <2>1. t.next - 1 = snap.last
    BY DEF NowBegun, Sound
  <2> QED
    BY <2>1 DEF Known
<1>4. t.recs = snap.recs /\ Unread(t) \subseteq DOMAIN snap.recs
  BY DEF NowBegun, Unread
<1> QED
  BY <1>1, <1>2, <1>3, <1>4 DEF Spares, Keeps

\* mdb_txn_begin of the writer.
LEMMA TxnBeginKeeps ==
    ASSUME PagesInv, TxnBegin
    PROVE  PagesInv'
<1> DEFINE m == metas[mti_txnid % 2]
           z == [NoTxn EXCEPT !.txnid = mti_txnid + 1, !.pages = m.pages, !.root = m.root,
                              !.recs = m.recs, !.next = m.last + 1, !.oldest = txn.oldest]
<1>1. /\ at = "idle" /\ at' = "active" /\ txn' = z /\ outer' = outer /\ save' = save
      /\ file' = file /\ disk' = disk /\ metas' = metas /\ mti_txnid' = mti_txnid /\ readers' = readers
  BY DEF TxnBegin, fileVars, readVars
<1>2. /\ outer = <<>> /\ mti_txnid \in Nat /\ mti_txnid = PickMeta.txnid /\ m = PickMeta /\ PickMeta.whole
      /\ txn.oldest \in Nat /\ txn.oldest <= mti_txnid
  BY <1>1 DEF PagesInv, Counted, WriterRight
<1>3. NowBegun(txn', PickMeta, txn.oldest)
  <2>1. z = [NoTxn EXCEPT !.txnid = PickMeta.txnid + 1, !.pages = PickMeta.pages, !.root = PickMeta.root,
                          !.recs = PickMeta.recs, !.next = PickMeta.last + 1, !.oldest = txn.oldest]
    BY <1>2
  <2> HIDE DEF m, z
  <2>2. NowBegun(z, PickMeta, txn.oldest)
    BY <2>1 DEF NowBegun, NoTxn, IsRecord
  <2> QED
    BY <1>1, <2>2
<1> HIDE DEF z
<1>4. Sound(PickMeta)
  BY DEF PagesInv
<1>5. Books(txn', NoTxn, {}) /\ TreeOf(txn') /\ Unsaved(txn') /\ Space(txn', NoTxn) = UmMax
  BY <1>2, <1>3, <1>4, BegunBooks
<1>6. InPlace(file, txn', NoTxn)
  <2>1. mti_txnid % 2 \in {0, 1}
    BY <1>2
  <2>2. Intact(file, PickMeta)
    BY <1>2, <2>1 DEF PagesInv, CommitIntact
  <2>3. txn'.pages = PickMeta.pages /\ DOMAIN NoTxn.dirty = {}
    BY <1>3 DEF NowBegun, NoTxn
  <2> QED
    BY <2>2, <2>3 DEF InPlace, OnFile, Intact
<1>7. PickMeta' = PickMeta /\ Parent' = NoTxn
  BY <1>1, <1>2 DEF PickMeta, Parent
<1>8. Counted' /\ ReadersCounted' /\ Sound(PickMeta)'
  <2>1. txn'.txnid = mti_txnid + 1 /\ txn'.oldest = txn.oldest
    BY <1>2, <1>3 DEF NowBegun
  <2>2. Counted'
    BY <1>1, <1>2, <1>7, <2>1 DEF PagesInv, Counted
  <2>3. ReadersCounted'
    BY <1>1, <2>1 DEF PagesInv, ReadersCounted
  <2> QED
    BY <1>4, <1>7, <2>2, <2>3 DEF Sound
<1>9. CommitIntact' /\ SnapshotIntact'
  BY <1>1 DEF PagesInv, CommitIntact, SnapshotIntact, Intact
<1>10. MetasSpared' /\ ReadersSpared'
  <2>1. \A P, s : InUse(P, s)' <=> InUse(P, s)
    BY <1>1, SameUse
  <2>2. AllSpared'
    <3> SUFFICES ASSUME NEW P, NEW s, InUse(P, s)' PROVE Spared(P, s)'
      BY DEF AllSpared
    <3>1. Keeps(PickMeta, P, s)
      BY <2>1, UsedPages DEF Spared
    <3>2. Spares(txn', NoTxn, P, s)
      BY <1>3, <1>4, <3>1, BegunSpares
    <3> QED
      BY <1>1, <1>2, <1>7, <3>1, <3>2 DEF Spared, Ending
  <2> QED
    BY <2>2, AllSparedThen
<1>11. WriterRight'
  BY <1>1, <1>2, <1>5, <1>6, <1>7 DEF WriterRight, InOrder
<1>12. SaveRight' /\ CommitRight'
  BY <1>1 DEF SaveRight, CommitRight, Saving, Ending
<1>13. Typed'
  <2>1. UmMax <= UmMax
    BY LmdbPagesAssumption
  <2>2. Bounded(txn')
    BY <1>5, <2>1, BoundedIs
  <2>3. Typed /\ file' \in [Pages -> Int] /\ disk' \in [Pages -> Int] /\ IsSave(save')
    BY <1>1 DEF PagesInv, Typed
  <2> QED
    BY <1>1, <2>2, <2>3, NowTyped
<1>14. RoomRight'
  <2>1. Space(txn, Parent)' = Space(txn', NoTxn)
    BY <1>7 DEF Space, Counts
  <2> QED
    BY <1>1, <1>2, <1>5, <2>1 DEF RoomRight
<1> QED
  BY <1>8, <1>9, <1>10, <1>11, <1>12, <1>13, <1>14 DEF PagesInv

-----------------------------------------------------------------------------
(* Nested transactions *)

\* A child begins with what its parent has, and has written to none of it.
NowNested(t, t2) ==
    /\ IsRecord(t2)
    /\ t2.frees = <<>> /\ t2.loose = <<>> /\ t2.dirty = <<>> /\ t2.spills = {}
    /\ t2.pages = t.pages /\ t2.recs = t.recs /\ t2.txnid = t.txnid /\ t2.pglast = t.pglast
    /\ t2.next = t.next /\ t2.pghead = t.pghead /\ t2.oldest = t.oldest /\ t2.root = t.root
    /\ t2.error = t.error /\ t2.room = t.room /\ t2.listed = t.listed

\* A nested transaction begins with the books of its parent.
LEMMA NestedBooks ==
    ASSUME NEW t, NEW t2, Books(t, NoTxn, {}), NowNested(t, t2)
    PROVE  /\ Books(t2, t, {})
           /\ InPlace(file, t, NoTxn) => InPlace(file, t2, t)
           /\ \A P, s : Spares(t, NoTxn, P, s) => Spares(t2, t, P, s)
           /\ Space(t2, t) = Space(t, NoTxn)
<1>1. /\ IsTxn(t) /\ Placed(t, NoTxn, {}) /\ Laid(t, NoTxn) /\ SpillsRight(t, NoTxn) /\ Numbered(t)
  BY DEF Books
<1>2. /\ Kept(NoTxn) = {} /\ Blocks(NoTxn) = {} /\ NoTxn.spills = {} /\ DirtyPages(NoTxn) = {}
      /\ DOMAIN NoTxn.dirty = {}
  BY DEF NoTxn, Kept, FreedBy, Loose, ToSet, Blocks, DirtyPages
<1>3. DOMAIN t2.dirty = {} /\ DirtyPages(t2) = {} /\ FreedBy(t2) = {} /\ Loose(t2) = {} /\ t2.spills = {}
  BY DEF NowNested, DirtyPages, FreedBy, Loose, ToSet
<1>4. /\ Unread(t2) = Unread(t) /\ Waiting(t2) = Waiting(t) /\ Takeable(t2) = Takeable(t) /\ Known(t2) = Known(t)
      /\ t2.pages = t.pages /\ t2.pghead = t.pghead /\ t2.recs = t.recs /\ t2.next = t.next
  BY DEF NowNested, Unread, Waiting, Takeable, Known
<1>5. IsTxn(t2)
  <2>1. t2.frees \in Seq(Nat) /\ t2.loose \in Seq(Nat)
    BY DEF NowNested
  <2> QED
    BY <1>1, <1>3, <2>1 DEF IsTxn, NowNested
<1>6. Placed(t2, t, {})
  <2>1. Kept(t) = FreedBy(t) \cup Loose(t)
    BY DEF Kept
  <2>2. Apart(Covered(t2.pages), t2.pghead, FreedBy(t2), Loose(t2), Waiting(t2), {}, Kept(t))
    BY <1>1, <1>3, <1>4, <2>1 DEF Placed, Apart
  <2>3. OnceEach(t2.loose)
    BY DEF OnceEach, NowNested
  <2>4. Covered(t2.pages) \cup t2.pghead \cup FreedBy(t2) \cup Loose(t2) \cup Waiting(t2) \cup {} \cup Kept(t)
            = Known(t2)
    <3>1. Covered(t.pages) \cup t.pghead \cup FreedBy(t) \cup Loose(t) \cup Waiting(t) \cup {} \cup Kept(NoTxn)
              = Known(t)
      BY <1>1 DEF Placed
    <3> QED
      BY <1>2, <1>3, <1>4, <2>1, <3>1
  <2> QED
    BY <1>1, <1>3, <1>4, <2>2, <2>3, <2>4 DEF Placed
<1>7. Blocks(t2) \subseteq Blocks(t)
  BY <1>3, <1>4 DEF Blocks
<1>8. Laid(t2, t)
  <2>1. Tiled(Blocks(t2) \cup Blocks(t))
    BY <1>1, <1>7, TiledPart DEF Laid
  <2> QED
    BY <1>1, <1>3, <1>4, <1>7, <2>1 DEF Laid
<1>9. SpillsRight(t2, t)
  BY <1>1, <1>3, <1>4, <1>7 DEF SpillsRight
<1>10. SparesParent(t2, t)
  BY <1>3 DEF SparesParent
<1>11. Numbered(t2)
  BY <1>1 DEF Numbered, NowNested
<1>12. Books(t2, t, {})
  BY <1>1, <1>5, <1>6, <1>8, <1>9, <1>10, <1>11 DEF Books
<1>13. ASSUME InPlace(file, t, NoTxn) PROVE InPlace(file, t2, t)
  <2>1. t.spills \cap DOMAIN t.dirty = {}
    BY <1>1 DEF SpillsRight
  <2> SUFFICES ASSUME NEW h \in DOMAIN t.pages, ~ (h \in DOMAIN t.dirty /\ h \notin t.spills)
               PROVE  OnFile(file, t2, h)
    BY <1>3, <1>4 DEF InPlace
  <2>2. h \notin DOMAIN t.dirty
    BY <2>1
  <2>3. OnFile(file, t, h)
    BY <1>2, <1>13, <2>2 DEF InPlace
  <2> QED
    BY <1>4, <2>3 DEF OnFile
<1>14. ASSUME NEW P, NEW s, Spares(t, NoTxn, P, s) PROVE Spares(t2, t, P, s)
  BY <1>2, <1>3, <1>4, <1>14 DEF Spares
<1>15. Space(t2, t) = Space(t, NoTxn)
  <2>1. Counts(t2, t) = Counts(t, NoTxn)
    BY <1>2, <1>3 DEF Counts
  <2>2. t2.room = t.room
    BY DEF NowNested
  <2> QED
    BY <2>1, <2>2 DEF Space
<1> QED
  BY <1>12, <1>13, <1>14, <1>15

\* A writer that goes on as it was: nothing but its transactions changes.
LEMMA NestsKeep ==
    ASSUME PagesInv, Still, at = "active", at' = "active", Steady(txn, txn'), WriterRight',
           save' = save, Bounded(txn'), RoomRight',
           \A P, s : InUse(P, s) =>
               /\ ~txn'.error => Spares(txn', Parent', P, s)
               /\ outer' # <<>> => Spares(Parent', NoTxn, P, s)
    PROVE  PagesInv'
<1>1. Counted' /\ ReadersCounted' /\ Sound(PickMeta)' /\ CommitIntact' /\ SnapshotIntact'
  BY StillCounted
<1>2. MetasSpared' /\ ReadersSpared'
  <2>1. PickMeta' = PickMeta /\ \A P, s : InUse(P, s)' <=> InUse(P, s)
    BY StillIs
  <2>2. AllSpared'
    <3> SUFFICES ASSUME NEW P, NEW s, InUse(P, s)' PROVE Spared(P, s)'
      BY DEF AllSpared
    <3>1. InUse(P, s)
      BY <2>1
    <3>2. Keeps(PickMeta', P, s)
      BY <2>1, <3>1, UsedPages DEF Spared
    <3> QED
      BY <3>1, <3>2 DEF Spared, Ending
  <2> QED
    BY <2>2, AllSparedThen
<1>3. SaveRight' /\ CommitRight'
  BY DEF SaveRight, CommitRight, Saving, Ending
<1>4. Typed'
  <2>1. file' = file /\ disk' = disk /\ metas' = metas /\ readers' = readers
    BY StillIs
  <2>2. Typed /\ file' \in [Pages -> Int] /\ disk' \in [Pages -> Int] /\ IsSave(save')
    BY <2>1 DEF PagesInv, Typed
  <2> QED
    BY <2>1, <2>2, NowTyped
<1> QED
  BY <1>1, <1>2, <1>3, <1>4 DEF PagesInv

\* mdb_txn_begin of a nested transaction.
LEMMA ChildBeginKeeps ==
    ASSUME PagesInv, ChildBegin
    PROVE  PagesInv'
<1> DEFINE z == [txn EXCEPT !.frees = <<>>, !.loose = <<>>, !.dirty = <<>>, !.spills = {}]
<1>1. /\ at = "active" /\ ~txn.error /\ outer = <<>> /\ outer' = <<txn>> /\ txn' = z /\ at' = "active" /\ Still
      /\ file' = file /\ save' = save
  BY DEF ChildBegin, Still, fileVars
<1>2. Writing /\ Ready(txn) /\ InPlace(file, txn, Parent) /\ Parent = NoTxn
  BY <1>1, WriterReady DEF Writing, Parent
<1>3. Books(txn, NoTxn, {}) /\ IsRecord(txn) /\ TreeOf(txn) /\ txn.error = FALSE /\ Unsaved(txn)
  BY <1>1, <1>2 DEF Ready, Books, IsTxn, PagesInv, WriterRight
<1>4. NowNested(txn, txn')
  <2>1. z = [txn EXCEPT !.frees = <<>>, !.loose = <<>>, !.dirty = <<>>, !.spills = {}]
    OBVIOUS
  <2> HIDE DEF z
  <2>2. NowNested(txn, z)
    BY <1>3, <2>1 DEF NowNested, IsRecord
  <2> QED
    BY <1>1, <2>2
<1> HIDE DEF z
<1>5. Parent' = txn /\ outer' # <<>> /\ Head(outer') = txn
  BY <1>1 DEF Parent
<1>6. /\ Books(txn', txn, {}) /\ InPlace(file, txn', txn)
      /\ \A P, s : Spares(txn, NoTxn, P, s) => Spares(txn', txn, P, s)
      /\ Space(txn', txn) = Space(txn, NoTxn)
  BY <1>2, <1>3, <1>4, NestedBooks
<1>7. /\ TreeOf(txn') /\ Unsaved(txn') /\ Steady(txn, txn') /\ txn'.txnid = txn.txnid
  BY <1>3, <1>4 DEF NowNested, TreeOf, Unsaved, Steady
<1>8. WriterRight'
  <2>1. InOrder(file, txn', txn) /\ InOrder(file, txn, NoTxn)
    BY <1>2, <1>3, <1>6, <1>7 DEF InOrder
  <2> QED
    BY <1>1, <1>3, <1>5, <1>7, <2>1 DEF WriterRight
<1>9. ASSUME NEW P, NEW s, InUse(P, s) PROVE Spares(txn', txn, P, s) /\ Spares(txn, NoTxn, P, s)
  <2>1. Spares(txn, NoTxn, P, s)
    BY <1>1, <1>2, <1>9, UsedPages DEF Spared
  <2> QED
    BY <1>6, <2>1
<1>10. Space(txn, NoTxn) = UmMax /\ UmMax <= UmMax
  BY <1>1, <1>2, LmdbPagesAssumption DEF PagesInv, RoomRight
<1>11. Bounded(txn')
  BY <1>6, <1>10, BoundedIs
<1>12. RoomRight'
  <2>1. Space(txn, Parent)' = Space(txn', txn) /\ Space(Parent, NoTxn)' = Space(txn, NoTxn)
    BY <1>5 DEF Space, Counts
  <2> QED
    BY <1>6, <1>10, <2>1 DEF RoomRight
<1> QED
  BY <1>1, <1>5, <1>7, <1>8, <1>9, <1>11, <1>12, NestsKeep

\* The parent goes on; what it had was not written to.
LEMMA ChildAbortKeeps ==
    ASSUME PagesInv, ChildAbort
    PROVE  PagesInv'
<1> DEFINE z == [Parent EXCEPT !.oldest = txn.oldest]
<1>1. /\ at = "active" /\ outer # <<>> /\ outer' = Tail(outer) /\ at' = "active" /\ Still /\ file' = file
      /\ txn' = z /\ save' = save
  BY DEF ChildAbort, Still, fileVars, Parent
<1>2. /\ outer = <<Head(outer)>> /\ InOrder(file, Parent, NoTxn) /\ Parent.error = FALSE
      /\ Parent.txnid = txn.txnid /\ Unsaved(Parent)
  BY <1>1 DEF PagesInv, WriterRight
<1>3. outer' = <<>> /\ Parent' = NoTxn
  BY <1>1, <1>2 DEF Parent
<1>4. Books(Parent, NoTxn, {}) /\ InPlace(file, Parent, NoTxn) /\ TreeOf(Parent) /\ IsTxn(Parent) /\ IsRecord(Parent)
  BY <1>2 DEF InOrder, Books, IsTxn
<1> DEFINE p == Parent
<1>5. p = Parent
  OBVIOUS
<1> HIDE DEF p
<1>6. /\ IsRecord(txn')
      /\ txn'.pages = p.pages /\ txn'.recs = p.recs /\ txn'.frees = p.frees /\ txn'.loose = p.loose
      /\ txn'.spills = p.spills /\ txn'.txnid = p.txnid /\ txn'.pglast = p.pglast /\ txn'.next = p.next
      /\ txn'.pghead = p.pghead /\ txn'.dirty = p.dirty /\ txn'.oldest = txn.oldest /\ txn'.root = p.root
      /\ txn'.error = p.error /\ txn'.room = p.room /\ txn'.listed = p.listed
  <2>1. z = [p EXCEPT !.oldest = txn.oldest] /\ IsRecord(p)
    BY <1>4, <1>5
  <2> HIDE DEF z
  <2> QED
    BY <1>1, <2>1 DEF IsRecord
<1> HIDE DEF z
<1>7. txn.oldest \in Nat /\ txn.oldest < p.txnid /\ p.txnid = txn.txnid
  BY <1>1, <1>2, <1>5 DEF PagesInv, Counted
<1>8. /\ Books(p, NoTxn, {}) /\ InPlace(file, p, NoTxn) /\ TreeOf(p) /\ IsTxn(p) /\ p.error = FALSE
      /\ Unsaved(p)
  BY <1>2, <1>4, <1>5
<1>9. IsTxn(txn')
  BY <1>6, <1>7, <1>8 DEF IsTxn
<1>10. /\ Blocks(txn') = Blocks(p) /\ Known(txn') = Known(p) /\ Takeable(txn') = Takeable(p)
       /\ Waiting(txn') = Waiting(p) /\ Unread(txn') = Unread(p) /\ FreedBy(txn') = FreedBy(p)
       /\ Loose(txn') = Loose(p) /\ DirtyPages(txn') = DirtyPages(p)
  BY <1>6 DEF Blocks, Known, Takeable, Waiting, Unread, FreedBy, Loose, DirtyPages
<1>11. Placed(txn', NoTxn, {})
  BY <1>6, <1>8, <1>10 DEF Books, Placed
<1>12. Laid(txn', NoTxn)
  BY <1>6, <1>8, <1>10 DEF Books, Laid
<1>13. SpillsRight(txn', NoTxn) /\ SparesParent(txn', NoTxn)
  BY <1>6, <1>8, <1>10 DEF Books, SpillsRight, SparesParent
<1>14. Numbered(txn')
  BY <1>6, <1>7, <1>8 DEF Books, Numbered
<1>15. Books(txn', NoTxn, {})
  BY <1>9, <1>11, <1>12, <1>13, <1>14, NoneIsTxn DEF Books
<1>16. InPlace(file, txn', NoTxn) /\ TreeOf(txn') /\ Unsaved(txn')
  BY <1>6, <1>8 DEF InPlace, OnFile, TreeOf, Unsaved
<1>17. WriterRight'
  BY <1>1, <1>3, <1>15, <1>16 DEF WriterRight, InOrder
<1>18. Steady(txn, txn')
  BY <1>6, <1>7 DEF Steady
<1>19. ASSUME NEW P, NEW s, InUse(P, s) PROVE Spares(txn', NoTxn, P, s)
  <2>1. Spares(p, NoTxn, P, s)
    BY <1>1, <1>5, <1>19, UsedPages DEF Spared
  <2> QED
    BY <1>6, <1>10, <2>1 DEF Spares
<1>20. Space(txn', NoTxn) = UmMax /\ UmMax <= UmMax
  <2>1. Space(p, NoTxn) = UmMax
    BY <1>1, <1>5 DEF PagesInv, RoomRight
  <2> QED
    BY <1>6, <2>1, LmdbPagesAssumption DEF Space, Counts
<1>21. Bounded(txn')
  BY <1>15, <1>20, BoundedIs
<1>22. RoomRight'
  <2>1. Space(txn, Parent)' = Space(txn', NoTxn)
    BY <1>3 DEF Space, Counts
  <2> QED
    BY <1>3, <1>20, <2>1 DEF RoomRight
<1> QED
  BY <1>1, <1>3, <1>17, <1>18, <1>19, <1>21, <1>22, NestsKeep

\* What the child c has done is the parent's now: t2 is the parent p that goes on.
NowMerged(p, c, t2) ==
    /\ IsRecord(t2)
    /\ t2.frees = p.frees \o c.frees /\ t2.loose = p.loose \o c.loose
    /\ t2.dirty = Over(c.dirty, Without(p.dirty, c.spills))
    /\ t2.spills = (p.spills \ DOMAIN c.dirty) \cup c.spills
    /\ t2.pages = c.pages /\ t2.recs = c.recs /\ t2.txnid = c.txnid /\ t2.pglast = c.pglast
    /\ t2.next = c.next /\ t2.pghead = c.pghead /\ t2.oldest = c.oldest /\ t2.root = c.root
    /\ t2.error = c.error /\ t2.room = c.room /\ t2.listed = c.listed

\* The lists of a nested transaction and its parent, merged.
LEMMA MergedFields ==
    ASSUME NEW p, NEW c, NEW t2, Books(c, p, {}), NowMerged(p, c, t2)
    PROVE  /\ FreedBy(t2) = FreedBy(p) \cup FreedBy(c) /\ Loose(t2) = Loose(p) \cup Loose(c)
           /\ t2.frees \in Seq(Nat) /\ t2.loose \in Seq(Nat)
           /\ DOMAIN t2.dirty = DOMAIN c.dirty \cup (DOMAIN p.dirty \ c.spills)
           /\ \A h \in DOMAIN c.dirty : t2.dirty[h] = c.dirty[h]
           /\ \A h \in DOMAIN t2.dirty \ DOMAIN c.dirty : h \in DOMAIN p.dirty /\ t2.dirty[h] = p.dirty[h]
           /\ DirtyPages(t2) \subseteq DirtyPages(c) \cup DirtyPages(p)
           /\ Blocks(t2) \subseteq Blocks(c) \cup Blocks(p)
           /\ Unread(t2) = Unread(c) /\ Waiting(t2) = Waiting(c) /\ Takeable(t2) = Takeable(c)
           /\ Known(t2) = Known(c)
<1>1. IsTxn(p) /\ IsTxn(c)
  BY DEF Books
<1>2. p.frees \in Seq(Nat) /\ c.frees \in Seq(Nat) /\ p.loose \in Seq(Nat) /\ c.loose \in Seq(Nat)
  BY <1>1 DEF IsTxn
<1>3. /\ FreedBy(t2) = FreedBy(p) \cup FreedBy(c) /\ Loose(t2) = Loose(p) \cup Loose(c)
      /\ t2.frees \in Seq(Nat) /\ t2.loose \in Seq(Nat)
  BY <1>2, ToSetJoined DEF NowMerged, FreedBy, Loose
<1>4. /\ DOMAIN t2.dirty = DOMAIN c.dirty \cup (DOMAIN p.dirty \ c.spills)
      /\ \A h \in DOMAIN c.dirty : t2.dirty[h] = c.dirty[h]
      /\ \A h \in DOMAIN t2.dirty \ DOMAIN c.dirty : h \in DOMAIN p.dirty /\ t2.dirty[h] = p.dirty[h]
  <2> DEFINE g == Without(p.dirty, c.spills)
  <2>1. DOMAIN g = DOMAIN p.dirty \ c.spills /\ \A h \in DOMAIN g : g[h] = p.dirty[h]
    BY DEF Without, Restrict
  <2>2. t2.dirty = Over(c.dirty, g)
    BY DEF NowMerged
  <2> HIDE DEF g
  <2>3. DOMAIN t2.dirty = DOMAIN c.dirty \cup DOMAIN g
    BY <2>2 DEF Over
  <2>4. \A h \in DOMAIN t2.dirty : t2.dirty[h] = IF h \in DOMAIN c.dirty THEN c.dirty[h] ELSE g[h]
    BY <2>2 DEF Over
  <2> QED
    BY <2>1, <2>3, <2>4
<1>5. DirtyPages(t2) \subseteq DirtyPages(c) \cup DirtyPages(p)
  BY <1>4 DEF DirtyPages
<1>6. Blocks(t2) \subseteq Blocks(c) \cup Blocks(p)
  <2>1. t2.pages = c.pages
    BY DEF NowMerged
  <2> QED
    BY <1>4, <2>1 DEF Blocks
<1>7. /\ Unread(t2) = Unread(c) /\ Waiting(t2) = Waiting(c) /\ Takeable(t2) = Takeable(c)
      /\ Known(t2) = Known(c)
  BY DEF NowMerged, Unread, Waiting, Takeable, Known
<1> QED
  BY <1>3, <1>4, <1>5, <1>6, <1>7

\* Two lists of different elements, that have none in common.
LEMMA OnceJoined ==
    ASSUME NEW S, NEW first \in Seq(S), NEW second \in Seq(S), OnceEach(first), OnceEach(second),
           ToSet(first) \cap ToSet(second) = {}
    PROVE  OnceEach(first \o second)
<1> DEFINE all == first \o second
<1>1. all \in Seq(S) /\ Len(all) = Len(first) + Len(second) /\ Len(first) \in Nat /\ Len(second) \in Nat
  OBVIOUS
<1>2. \A i \in 1 .. Len(all) : all[i] = IF i <= Len(first) THEN first[i] ELSE second[i - Len(first)]
  OBVIOUS
<1>3. DOMAIN all = 1 .. Len(all) /\ DOMAIN first = 1 .. Len(first) /\ DOMAIN second = 1 .. Len(second)
  BY <1>1
<1> HIDE DEF all
<1>4. \A i \in 1 .. Len(first) : first[i] \in ToSet(first)
  BY ToSetOf
<1>5. \A i \in 1 .. Len(second) : second[i] \in ToSet(second)
  BY ToSetOf
<1> SUFFICES ASSUME NEW i \in 1 .. Len(all), NEW j \in 1 .. Len(all), all[i] = all[j]
             PROVE  i = j
  BY <1>3 DEF OnceEach, all
<1>6. CASE i <= Len(first) /\ j <= Len(first)
  <2>1. i \in 1 .. Len(first) /\ j \in 1 .. Len(first) /\ first[i] = first[j]
    BY <1>1, <1>2, <1>6
  <2> QED
    BY <1>3, <2>1 DEF OnceEach
<1>7. CASE ~(i <= Len(first)) /\ ~(j <= Len(first))
  <2>3. i - Len(first) \in 1 .. Len(second) /\ j - Len(first) \in 1 .. Len(second)
    BY <1>1, <1>7
  <2>4. all[i] = second[i - Len(first)] /\ all[j] = second[j - Len(first)]
    BY <1>2, <1>7
  <2>1. /\ i - Len(first) \in 1 .. Len(second) /\ j - Len(first) \in 1 .. Len(second)
        /\ second[i - Len(first)] = second[j - Len(first)]
    BY <2>3, <2>4
  <2>2. i - Len(first) = j - Len(first)
    BY <1>3, <2>1 DEF OnceEach
  <2> QED
    BY <1>1, <2>2
<1>8. CASE i <= Len(first) /\ ~(j <= Len(first))
  <2>1. i \in 1 .. Len(first) /\ j - Len(first) \in 1 .. Len(second) /\ first[i] = second[j - Len(first)]
    BY <1>1, <1>2, <1>8
  <2> QED
    BY <1>4, <1>5, <2>1
<1>9. CASE ~(i <= Len(first)) /\ j <= Len(first)
  <2>1. j \in 1 .. Len(first) /\ i - Len(first) \in 1 .. Len(second) /\ first[j] = second[i - Len(first)]
    BY <1>1, <1>2, <1>9
  <2> QED
    BY <1>4, <1>5, <2>1
<1> QED
  BY <1>6, <1>7, <1>8, <1>9

\* Each page is in one place after the merge.
LEMMA MergedPlaced ==
    ASSUME NEW p, NEW c, NEW t2, Books(c, p, {}), Books(p, NoTxn, {}), NowMerged(p, c, t2)
    PROVE  IsTxn(t2) /\ Placed(t2, NoTxn, {})
<1>1. IsTxn(c) /\ IsTxn(p) /\ Placed(c, p, {}) /\ Placed(p, NoTxn, {})
  BY DEF Books
<1>2. /\ FreedBy(t2) = FreedBy(p) \cup FreedBy(c) /\ Loose(t2) = Loose(p) \cup Loose(c)
      /\ t2.frees \in Seq(Nat) /\ t2.loose \in Seq(Nat)
      /\ DOMAIN t2.dirty = DOMAIN c.dirty \cup (DOMAIN p.dirty \ c.spills)
      /\ \A h \in DOMAIN c.dirty : t2.dirty[h] = c.dirty[h]
      /\ \A h \in DOMAIN t2.dirty \ DOMAIN c.dirty : h \in DOMAIN p.dirty /\ t2.dirty[h] = p.dirty[h]
      /\ Unread(t2) = Unread(c) /\ Waiting(t2) = Waiting(c) /\ Known(t2) = Known(c)
  BY MergedFields
<1>3. Kept(NoTxn) = {} /\ Kept(p) = FreedBy(p) \cup Loose(p)
  BY DEF NoTxn, Kept, FreedBy, Loose, ToSet
<1>4. IsTxn(t2)
  <2>1. DOMAIN t2.dirty \subseteq Nat /\ \A h \in DOMAIN t2.dirty : t2.dirty[h] \in Positive
    <3>1. /\ DOMAIN c.dirty \subseteq Nat /\ \A h \in DOMAIN c.dirty : c.dirty[h] \in Positive
          /\ DOMAIN p.dirty \subseteq Nat /\ \A h \in DOMAIN p.dirty : p.dirty[h] \in Positive
      BY <1>1 DEF IsTxn
    <3> QED
      BY <1>2, <3>1
  <2> QED
    BY <1>1, <1>2, <2>1 DEF IsTxn, NowMerged
<1>5. t2.pages = c.pages /\ t2.pghead = c.pghead /\ t2.recs = c.recs /\ t2.next = c.next /\ t2.loose = p.loose \o c.loose
  BY DEF NowMerged
<1>6. FreedBy(p) \cap Loose(p) = {}
  BY <1>1 DEF Placed, Apart
<1>7. Apart(Covered(c.pages), c.pghead, FreedBy(c), Loose(c), Waiting(c), {}, Kept(p))
  BY <1>1 DEF Placed
<1>8. Apart(Covered(t2.pages), t2.pghead, FreedBy(t2), Loose(t2), Waiting(t2), {}, Kept(NoTxn))
  BY <1>2, <1>3, <1>5, <1>6, <1>7 DEF Apart
<1>9. OnceEach(t2.loose)
  <2>1. p.loose \in Seq(Nat) /\ c.loose \in Seq(Nat) /\ OnceEach(p.loose) /\ OnceEach(c.loose)
    BY <1>1 DEF IsTxn, Placed
  <2>2. ToSet(p.loose) \cap ToSet(c.loose) = {}
    BY <1>3, <1>7 DEF Apart, Loose
  <2> QED
    BY <1>5, <2>1, <2>2, OnceJoined
<1>10. Placed(t2, NoTxn, {})
  <2>1. /\ 2 <= c.next /\ c.next <= MaxPg /\ RecordsApart(c.recs, Unread(c))
        /\ Covered(c.pages) \cup c.pghead \cup FreedBy(c) \cup Loose(c) \cup Waiting(c) \cup {} \cup Kept(p) = Known(c)
    BY <1>1 DEF Placed
  <2> QED
    BY <1>2, <1>3, <1>5, <1>8, <1>9, <2>1 DEF Placed
<1> QED
  BY <1>4, <1>10

\* So the merged books are in order.
LEMMA MergedBooks ==
    ASSUME NEW p, NEW c, NEW t2, Books(c, p, {}), Books(p, NoTxn, {}), NowMerged(p, c, t2)
    PROVE  Books(t2, NoTxn, {})
<1>1. /\ Laid(c, p) /\ SpillsRight(c, p) /\ Numbered(c) /\ Laid(p, NoTxn) /\ SpillsRight(p, NoTxn)
  BY DEF Books
<1>2. /\ Loose(t2) = Loose(p) \cup Loose(c)
      /\ DOMAIN t2.dirty = DOMAIN c.dirty \cup (DOMAIN p.dirty \ c.spills)
      /\ \A h \in DOMAIN c.dirty : t2.dirty[h] = c.dirty[h]
      /\ \A h \in DOMAIN t2.dirty \ DOMAIN c.dirty : h \in DOMAIN p.dirty /\ t2.dirty[h] = p.dirty[h]
      /\ Blocks(t2) \subseteq Blocks(c) \cup Blocks(p)
      /\ Takeable(t2) = Takeable(c) /\ Known(t2) = Known(c)
  BY MergedFields
<1>3. /\ Kept(NoTxn) = {} /\ Blocks(NoTxn) = {} /\ NoTxn.spills = {} /\ DOMAIN NoTxn.pages = {}
      /\ Loose(p) \subseteq Kept(p)
  BY DEF NoTxn, Kept, FreedBy, Loose, ToSet, Blocks
<1>4. IsTxn(t2) /\ Placed(t2, NoTxn, {})
  BY MergedPlaced
<1>5. Laid(t2, NoTxn)
  <2>1. Tiled(Blocks(t2) \cup Blocks(NoTxn))
    BY <1>1, <1>2, <1>3, TiledPart DEF Laid
  <2>2. \A b \in Blocks(t2) \cup Blocks(NoTxn) : RunOf(b) \subseteq Known(t2) \ Takeable(t2)
    BY <1>1, <1>2, <1>3 DEF Laid
  <2>3. ASSUME NEW h \in Loose(t2) PROVE h \in DOMAIN t2.dirty /\ t2.dirty[h] = 1
    <3>1. CASE h \in Loose(c)
      BY <1>1, <1>2, <3>1 DEF Laid
    <3>2. CASE h \in Loose(p)
      <4>1. h \in DOMAIN p.dirty /\ p.dirty[h] = 1
        BY <1>1, <3>2 DEF Laid
      <4>2. h \notin c.spills
        BY <1>1, <1>3, <3>2 DEF SpillsRight
      <4>3. h \notin DOMAIN c.dirty
        <5> SUFFICES ASSUME h \in DOMAIN c.dirty PROVE FALSE
          OBVIOUS
        <5>1. h \in Nat /\ c.dirty[h] \in Positive
          BY DEF Books, IsTxn
        <5>2. h \in DirtyPages(c)
          BY <5>1, RunHasFirst, DirtyPagesIs
        <5> QED
          BY <1>1, <1>3, <3>2, <5>2 DEF Laid
      <4> QED
        BY <1>2, <4>1, <4>2, <4>3
    <3> QED
      BY <1>2, <3>1, <3>2
  <2> QED
    BY <1>3, <2>1, <2>2, <2>3 DEF Laid
<1>6. SpillsRight(t2, NoTxn)
  <2>1. t2.spills = (p.spills \ DOMAIN c.dirty) \cup c.spills
    BY DEF NowMerged
  <2>2. Loose(c) \subseteq DOMAIN c.dirty
    BY <1>1 DEF Laid
  <2>3. t2.spills \cap (DOMAIN t2.dirty \cup Loose(t2) \cup Kept(NoTxn)) = {}
    BY <1>1, <1>2, <1>3, <2>1, <2>2 DEF SpillsRight
  <2>4. t2.spills \cup NoTxn.spills \subseteq Known(t2) \ Takeable(t2)
    BY <1>1, <1>2, <1>3, <2>1 DEF SpillsRight
  <2>5. \A k \in t2.spills \cup NoTxn.spills, b \in Blocks(t2) \cup Blocks(NoTxn) : k \in RunOf(b) => k = b[1]
    BY <1>1, <1>2, <1>3, <2>1 DEF SpillsRight
  <2> QED
    BY <1>3, <2>3, <2>4, <2>5 DEF SpillsRight
<1>7. SparesParent(t2, NoTxn)
  BY <1>3 DEF SparesParent
<1>8. Numbered(t2)
  BY <1>1 DEF Numbered, NowMerged
<1> QED
  BY <1>4, <1>5, <1>6, <1>7, <1>8, NoneIsTxn DEF Books

\* The pages are where the merged transaction looks for them, and what was spared is.
LEMMA MergedRest ==
    ASSUME NEW p, NEW c, NEW t2, Books(c, p, {}), Books(p, NoTxn, {}), NowMerged(p, c, t2)
    PROVE  /\ InPlace(file, c, p) => InPlace(file, t2, NoTxn)
           /\ \A P, s : Spares(c, p, P, s) /\ Spares(p, NoTxn, P, s) => Spares(t2, NoTxn, P, s)
<1>1. /\ Loose(t2) = Loose(p) \cup Loose(c)
      /\ DOMAIN t2.dirty = DOMAIN c.dirty \cup (DOMAIN p.dirty \ c.spills)
      /\ DirtyPages(t2) \subseteq DirtyPages(c) \cup DirtyPages(p)
      /\ Unread(t2) = Unread(c) /\ Known(t2) = Known(c)
  BY MergedFields
<1>2. t2.pages = c.pages /\ t2.pghead = c.pghead /\ t2.recs = c.recs /\ t2.spills \subseteq c.spills \cup p.spills
  BY DEF NowMerged
<1>3. DirtyPages(NoTxn) = {} /\ NoTxn.spills = {} /\ DOMAIN NoTxn.dirty = {}
  BY DEF NoTxn, DirtyPages
<1>4. ASSUME InPlace(file, c, p) PROVE InPlace(file, t2, NoTxn)
  <2> SUFFICES ASSUME NEW h \in DOMAIN c.pages, h \notin DOMAIN t2.dirty PROVE OnFile(file, t2, h)
    BY <1>2, <1>3 DEF InPlace
  <2>1. h \notin DOMAIN c.dirty /\ (h \notin DOMAIN p.dirty \/ h \in c.spills)
    BY <1>1
  <2>2. OnFile(file, c, h)
    BY <1>4, <2>1 DEF InPlace
  <2> QED
    BY <1>2, <2>2 DEF OnFile
<1>5. ASSUME NEW P, NEW s, Spares(c, p, P, s), Spares(p, NoTxn, P, s) PROVE Spares(t2, NoTxn, P, s)
  BY <1>1, <1>2, <1>3, <1>5 DEF Spares
<1> QED
  BY <1>4, <1>5

\* mdb_txn_commit of a nested transaction.
LEMMA ChildCommitKeeps ==
    ASSUME PagesInv, ChildCommit
    PROVE  PagesInv'
<1> DEFINE z == [txn EXCEPT !.frees = Parent.frees \o @, !.loose = Parent.loose \o @,
                            !.dirty = Over(@, Without(Parent.dirty, txn.spills)),
                            !.spills = MergedSpills(Parent, txn)]
<1>1. /\ at = "active" /\ ~txn.error /\ outer # <<>> /\ outer' = Tail(outer) /\ at' = "active" /\ Still
      /\ file' = file /\ txn' = z /\ save' = save
  BY DEF ChildCommit, Still, fileVars, Parent
<1>2. /\ outer = <<Head(outer)>> /\ InOrder(file, Parent, NoTxn)
  BY <1>1 DEF PagesInv, WriterRight
<1>3. outer' = <<>> /\ Parent' = NoTxn
  BY <1>1, <1>2 DEF Parent
<1>4. Ready(txn) /\ InPlace(file, txn, Parent)
  BY <1>1, WriterReady DEF Writing
<1>5. /\ Books(txn, Parent, {}) /\ Books(Parent, NoTxn, {}) /\ IsRecord(txn) /\ TreeOf(txn)
      /\ txn.error = FALSE /\ Unsaved(txn)
  BY <1>1, <1>2, <1>4 DEF Ready, Books, IsTxn, PagesInv, WriterRight, InOrder
<1>6. NowMerged(Parent, txn, txn')
  <2> DEFINE p == Parent
  <2>1. z = [txn EXCEPT !.frees = p.frees \o txn.frees, !.loose = p.loose \o txn.loose,
                        !.dirty = Over(txn.dirty, Without(p.dirty, txn.spills)),
                        !.spills = (p.spills \ DOMAIN txn.dirty) \cup txn.spills]
    BY DEF MergedSpills
  <2> HIDE DEF z, p
  <2>2. NowMerged(p, txn, z)
    BY <1>5, <2>1 DEF NowMerged, IsRecord
  <2> QED
    BY <1>1, <2>2 DEF p
<1> HIDE DEF z
<1>7. Books(txn', NoTxn, {})
  BY <1>5, <1>6, MergedBooks
<1>8. InPlace(file, txn', NoTxn)
  BY <1>4, <1>5, <1>6, MergedRest
<1>9. TreeOf(txn') /\ Unsaved(txn') /\ Steady(txn, txn')
  BY <1>5, <1>6 DEF NowMerged, TreeOf, Unsaved, Steady
<1>10. WriterRight'
  BY <1>1, <1>3, <1>7, <1>8, <1>9 DEF WriterRight, InOrder
<1>11. ASSUME NEW P, NEW s, InUse(P, s) PROVE Spares(txn', NoTxn, P, s)
  <2>1. Spares(txn, Parent, P, s) /\ Spares(Parent, NoTxn, P, s)
    BY <1>1, <1>11, UsedPages DEF Spared, Writing
  <2> QED
    BY <1>5, <1>6, <2>1, MergedRest
<1>12. Space(txn', NoTxn) = UmMax /\ UmMax <= UmMax
  <2>1. DOMAIN txn'.dirty = DOMAIN txn.dirty \cup (DOMAIN Parent.dirty \ txn.spills)
    BY <1>5, <1>6, MergedFields
  <2>2. Counts(txn', NoTxn) = Counts(txn, Parent)
    BY <2>1 DEF Counts, NoTxn
  <2>3. txn'.room = txn.room
    BY <1>6 DEF NowMerged
  <2> QED
    BY <1>1, <2>2, <2>3, LmdbPagesAssumption DEF Space, PagesInv, RoomRight
<1>13. Bounded(txn')
  BY <1>7, <1>12, BoundedIs
<1>14. RoomRight'
  <2>1. Space(txn, Parent)' = Space(txn', NoTxn)
    BY <1>3 DEF Space, Counts
  <2> QED
    BY <1>3, <1>12, <2>1 DEF RoomRight
<1> QED
  BY <1>1, <1>3, <1>9, <1>10, <1>11, <1>13, <1>14, NestsKeep

-----------------------------------------------------------------------------
(* The invariant *)

\* A new database is a snapshot to build on.
LEMMA EmptyIsSound ==
    Sound(EmptyMeta) /\ EmptyMeta.txnid = 0 /\ EmptyMeta.whole = TRUE /\ DOMAIN EmptyMeta.pages = {}
<1>1. /\ EmptyMeta.txnid = 0 /\ EmptyMeta.root = 0 /\ EmptyMeta.last = 1 /\ EmptyMeta.whole = TRUE
      /\ EmptyMeta.pages = <<>> /\ EmptyMeta.recs = <<>>
  BY DEF EmptyMeta
<1>2. DOMAIN EmptyMeta.pages = {} /\ DOMAIN EmptyMeta.recs = {}
  BY <1>1
<1>3. MaxPg \in Nat /\ MaxPg > 2
  BY LmdbPagesAssumption
<1>4. IsFiniteSet({})
  BY FS_EmptySet
<1>5. IsPages(EmptyMeta.pages) /\ IsRecs(EmptyMeta.recs)
  BY <1>2, <1>4 DEF IsPages, IsRecs
<1>6. Covered(EmptyMeta.pages) = {}
  BY <1>2 DEF Covered
<1>7. RecordsApart(EmptyMeta.recs, DOMAIN EmptyMeta.recs)
  BY <1>2 DEF RecordsApart
<1>8. FreeTree(EmptyMeta.pages, EmptyMeta.root, EmptyMeta.recs)
  BY <1>1, <1>2 DEF FreeTree
<1> HIDE DEF EmptyMeta
<1>9. 1 < MaxPg
  BY <1>3
<1>11. Covered(EmptyMeta.pages) \cup Listed(EmptyMeta) = 2 .. EmptyMeta.last
  <2>1. Listed(EmptyMeta) = {} /\ 2 .. EmptyMeta.last = {}
    BY <1>1, <1>2 DEF Listed
  <2> QED
    BY <1>6, <2>1
<1>10. Sound(EmptyMeta)
  BY <1>11, <1>1, <1>2, <1>5, <1>6, <1>7, <1>8, <1>9 DEF Sound
<1> QED
  BY <1>1, <1>2, <1>10

\* The invariant holds of a new environment.
LEMMA PagesBegin ==
    PagesInit => PagesInv
<1> SUFFICES ASSUME PagesInit PROVE PagesInv
  OBVIOUS
<1>1. /\ metas = [m \in {0, 1} |-> EmptyMeta] /\ mti_txnid = 0 /\ at = "idle" /\ txn = NoTxn /\ outer = <<>>
      /\ readers = [r \in Readers |-> [at |-> "idle", seen |-> 0, slot |-> -1, snap |-> EmptyMeta]]
      /\ save = NoSave /\ file = [p \in Pages |-> 0] /\ disk = file
  BY DEF PagesInit
<1>2. \A m \in {0, 1} : metas[m] = EmptyMeta
  BY <1>1
<1>3. PickMeta = EmptyMeta
  BY <1>2 DEF PickMeta
<1>4. Sound(EmptyMeta) /\ EmptyMeta.txnid = 0 /\ EmptyMeta.whole = TRUE /\ DOMAIN EmptyMeta.pages = {}
  BY EmptyIsSound
<1>5. Counted
  <2>1. txn.oldest = 0 /\ DOMAIN metas = {0, 1} /\ metas[0] = EmptyMeta /\ metas[1] = EmptyMeta
    BY <1>1, <1>2 DEF NoTxn
  <2> QED
    BY <1>1, <1>3, <1>4, <2>1 DEF Counted
<1>6. \A r \in Readers : readers[r].at = "idle" /\ readers[r].seen = 0 /\ readers[r].slot = -1
                         /\ readers[r] = [at |-> "idle", seen |-> 0, slot |-> -1, snap |-> readers[r].snap]
  BY <1>1
<1>7. ReadersCounted
  <2>1. DOMAIN readers = Readers
    BY <1>1
  <2> QED
    BY <1>1, <1>6, <2>1 DEF ReadersCounted
<1>8. CommitIntact
  BY <1>2, <1>4 DEF CommitIntact, Intact
<1>9. SnapshotIntact /\ ReadersSpared
  BY <1>6 DEF SnapshotIntact, ReadersSpared
<1>10. MetasSpared
  <2>1. Keeps(EmptyMeta, Covered(EmptyMeta.pages), EmptyMeta.txnid)
    BY <1>4 DEF Keeps, Covered
  <2> QED
    BY <1>1, <1>2, <1>3, <2>1 DEF MetasSpared, Spared, Writing, Ending
<1>11. WriterRight /\ SaveRight /\ CommitRight
  BY <1>1 DEF WriterRight, SaveRight, CommitRight, Writing, Saving, Ending
<1>12. Typed
  <2>1. \A r \in Readers : readers[r].snap = EmptyMeta
    BY <1>1
  <2>2. file \in [Pages -> Int] /\ disk \in [Pages -> Int]
    BY <1>1
  <2> QED
    BY <1>1, <1>2, <2>1, <2>2, NothingTyped DEF Typed
<1>13. RoomRight
  BY <1>1 DEF RoomRight
<1> QED
  BY <1>3, <1>4, <1>5, <1>7, <1>8, <1>9, <1>10, <1>11, <1>12, <1>13 DEF PagesInv

\* Where nothing changes it stays.
LEMMA PagesStutter ==
    ASSUME PagesInv, UNCHANGED vars
    PROVE  PagesInv'
<1>1. /\ file' = file /\ disk' = disk /\ metas' = metas /\ mti_txnid' = mti_txnid /\ readers' = readers
      /\ at' = at /\ txn' = txn /\ outer' = outer /\ save' = save
  BY DEF vars, fileVars, readVars
<1>2. PickMeta' = PickMeta /\ Parent' = Parent /\ Snapshot(txn)' = Snapshot(txn)
  BY <1>1 DEF PickMeta, Parent, Snapshot
<1>3. Counted'
  BY <1>1, <1>2 DEF PagesInv, Counted
<1>4. ReadersCounted'
  BY <1>1 DEF PagesInv, ReadersCounted
<1>5. Sound(PickMeta)'
  BY <1>2 DEF PagesInv, Sound
<1>6. CommitIntact' /\ SnapshotIntact'
  BY <1>1 DEF PagesInv, CommitIntact, SnapshotIntact, Intact
<1>7. \A P, s : Spared(P, s) => Spared(P, s)'
  BY <1>1, <1>2 DEF Spared, Keeps, Spares, Writing, Ending, DirtyPages, Unread, Known, Loose
<1>8. MetasSpared' /\ ReadersSpared'
  BY <1>1, <1>7 DEF PagesInv, MetasSpared, ReadersSpared
<1>9. WriterRight'
  BY <1>1, <1>2 DEF PagesInv, WriterRight, Writing, Unsaved
<1>10. SaveRight'
  BY <1>1 DEF PagesInv, SaveRight, Saving
<1>11. CommitRight'
  BY <1>1, <1>2 DEF PagesInv, CommitRight, Ending
<1>12. Typed'
  <2>1. Typed /\ file' \in [Pages -> Int] /\ disk' \in [Pages -> Int] /\ Bounded(txn') /\ IsSave(save')
    BY <1>1 DEF PagesInv, Typed
  <2>2. at' \in {"idle", "active", "save", "frees", "flush", "sync", "meta", "publish", "failed", "dead"}
    BY <1>1 DEF PagesInv, Typed
  <2> QED
    BY <1>1, <2>1, <2>2, NowTyped
<1>13. RoomRight'
  <2>1. Space(txn, Parent)' = Space(txn, Parent) /\ Space(Parent, NoTxn)' = Space(Parent, NoTxn)
    BY <1>1, <1>2 DEF Space, Counts
  <2> QED
    BY <1>1, <2>1 DEF PagesInv, RoomRight
<1> QED
  BY <1>3, <1>4, <1>5, <1>6, <1>8, <1>9, <1>10, <1>11, <1>12, <1>13 DEF PagesInv

\* Every step keeps it.
LEMMA PagesStep ==
    ASSUME PagesInv, [PagesNext]_vars
    PROVE  PagesInv'
<1>1. MainStep => PagesInv'
  BY MainKeeps, PageSpillKeeps DEF MainStep
<1>2. ChildStep => PagesInv'
  BY ChildBeginKeeps, ChildAbortKeeps, ChildCommitKeeps DEF ChildStep
<1>3. SaveStep => PagesInv'
  BY SaveDeleteKeeps, SaveFreesKeeps, SaveFreesDoneKeeps, SaveReserveKeeps, SaveFillKeeps DEF SaveStep, MainSaved
<1>4. CommitStep => PagesInv'
  BY <1>3, CommitBeginsKeeps, EndsKeep, PageFlushKeeps, EnvSyncKeeps, WriteMetaKeeps DEF CommitStep, MainSaved
<1>5. Fault => PagesInv'
  BY FlushFailsKeeps, WriteMetaFailsKeeps, EndsKeep, CrashKeeps DEF Fault
<1>6. Recovery => PagesInv'
  BY EndsKeep DEF Recovery
<1>7. (\E r \in Readers : ReaderStep(r)) => PagesInv'
  BY ReadersKeep
<1>8. TxnBegin \/ TxnAbort => PagesInv'
  BY TxnBeginKeeps, EndsKeep
<1>9. PagesNext => PagesInv'
  BY <1>1, <1>2, <1>4, <1>5, <1>6, <1>7, <1>8 DEF PagesNext
<1> QED
  BY <1>9, PagesStutter

\* The books of the writer, what it may write to, and what the meta pages and the readers hold
\* on to are in order in every state.
THEOREM PagesInOrder ==
    PagesSpec => []PagesInv
<1>1. PagesInv /\ [PagesNext]_vars => PagesInv'
  BY PagesStep
<1> QED
  BY <1>1, PagesBegin, PTL DEF PagesSpec

\* What the last two commits wrote stays in the file and on the disk, whatever the writer, its
\* nested transactions, the free list, failures and crashes do (mdb_page_alloc,
\* mdb_freelist_save, mdb_page_flush, mdb_env_write_meta).
THEOREM CommitsSurvive ==
    PagesSpec => []CommitIntact
<1>1. PagesInv => CommitIntact
  BY DEF PagesInv
<1> QED
  BY <1>1, PagesInOrder, PTL

\* No page of a snapshot that a reader has is given out again (mdb_find_oldest).
THEOREM SnapshotsSurvive ==
    PagesSpec => []SnapshotIntact
<1>1. PagesInv => SnapshotIntact
  BY DEF PagesInv
<1> QED
  BY <1>1, PagesInOrder, PTL

-----------------------------------------------------------------------------
(* What a transaction sees of its pages *)

Sees(contents, t, u) == InPlace(contents, t, u) /\ t.spills \cap DOMAIN t.dirty = {}

\* Also of a transaction that has failed, until it is aborted.
Seen == at = "active" => Sees(file, txn, Parent)

\* A transaction in order sees its pages.
LEMMA SeesInOrder ==
    ASSUME NEW contents, NEW t, NEW u, InOrder(contents, t, u)
    PROVE  Sees(contents, t, u)
  BY DEF InOrder, Sees, Books, SpillsRight

\* A failed write changes nothing of what is seen.
LEMMA SeesFailed ==
    ASSUME NEW t, NEW t2, NEW u, InPlace(file, t, u), Fails(t, t2, u)
    PROVE  Sees(file, t2, u)
<1>1. PICK x : Moves(t, x, u, {}, {}) /\ SameView(x, t2)
  BY DEF Fails
<1>2. InPlace(file, x, u) /\ x.spills \cap DOMAIN x.dirty = {}
  BY <1>1 DEF Moves, Books, SpillsRight
<1> QED
  BY <1>1, <1>2 DEF Sees, SameView, InPlace, OnFile

\* A write to the main tree, whether or not it fails.
LEMMA WriteSees ==
    ASSUME PagesInv, PagesInv', MainWrites
    PROVE  Seen'
<1>1. PICK kind, t : Writes(kind, t) /\ Operates(txn, t)
  BY DEF MainWrites
<1>2. /\ at = "active" /\ ~txn.error /\ txn' = t /\ file' = file /\ at' = "active" /\ outer' = outer
  BY <1>1 DEF Writes, fileVars
<1>3. Parent' = Parent /\ t.error \in BOOLEAN
  BY <1>1, <1>2 DEF Parent, Operates
<1>4. CASE t.error = TRUE
  <2>1. InPlace(file, txn, Parent)
    BY <1>2, WriterReady DEF Writing
  <2>2. Fails(txn, t, Parent)
    BY <1>1, <1>4 DEF Operates
  <2>3. Sees(file, t, Parent)
    BY <2>1, <2>2, SeesFailed
  <2> QED
    BY <1>2, <1>3, <2>3 DEF Seen
<1>5. CASE t.error = FALSE
  <2>1. InOrder(file', txn', Parent')
    BY <1>2, <1>5 DEF PagesInv, WriterRight, Writing
  <2>2. Sees(file', txn', Parent')
    BY <2>1, SeesInOrder
  <2> QED
    BY <2>2 DEF Seen
<1> QED
  BY <1>3, <1>4, <1>5

\* Whoever has not failed is in order.
LEMMA UnfailedSees ==
    ASSUME PagesInv', ~txn'.error
    PROVE  Seen'
<1> SUFFICES ASSUME at' = "active" PROVE Sees(file', txn', Parent')
  BY DEF Seen
<1>1. InOrder(file', txn', Parent')
  BY DEF PagesInv, WriterRight, Writing
<1> QED
  BY <1>1, SeesInOrder

\* Every step keeps it.
LEMMA SeenStep ==
    ASSUME PagesInv, PagesInv', Seen, [PagesNext]_vars
    PROVE  Seen'
<1>1. ASSUME at' = "active", at = "active", file' = file, txn' = txn, outer' = outer PROVE Seen'
  <2>1. Parent' = Parent
    BY <1>1 DEF Parent
  <2> QED
    BY <1>1, <2>1 DEF Seen
<1>2. at' # "active" => Seen'
  BY DEF Seen
<1>3. NoTxn.error = FALSE
  BY DEF NoTxn
<1>4. CASE TxnBegin
  <2>1. txn'.error = FALSE
    BY <1>3, <1>4 DEF TxnBegin, NoTxn
  <2> QED
    BY <2>1, UnfailedSees
<1>5. CASE MainStep
  <2>1. CASE PageSpill
    <3>1. IsTxn(txn) /\ ~txn.error
      BY <2>1, WriterReady DEF PageSpill, Writing, Ready, Books
    <3>2. PICK hs : txn' = SpilledOut(txn, hs)
      BY <2>1 DEF PageSpill
    <3>3. SpilledOut(txn, hs).error = txn.error
      BY <3>1 DEF SpilledOut, IsTxn, IsRecord
    <3> QED
      BY <3>1, <3>2, <3>3, UnfailedSees
  <2>2. CASE ~PageSpill
    <3>1. MainWrites
      BY <1>5, <2>2, MainOperates DEF MainStep
    <3> QED
      BY <3>1, WriteSees
  <2> QED
    BY <2>1, <2>2
<1>6. CASE ChildStep
  <2>1. at = "active" /\ (outer # <<>> => InOrder(file, Parent, NoTxn) /\ Parent.error = FALSE /\ Parent = Head(outer))
    BY <1>6 DEF PagesInv, WriterRight, ChildStep, ChildBegin, ChildAbort, ChildCommit, Parent
  <2>2. outer # <<>> => IsRecord(Head(outer)) /\ Head(outer).error = FALSE
    BY <2>1 DEF InOrder, Books, IsTxn
  <2>3. ~txn.error => IsRecord(txn)
    BY <2>1 DEF PagesInv, WriterRight, Writing, InOrder, Books, IsTxn
  <2>4. CASE ChildBegin
    <3>1. ~txn.error /\ txn' = [txn EXCEPT !.frees = <<>>, !.loose = <<>>, !.dirty = <<>>, !.spills = {}]
      BY <2>4 DEF ChildBegin
    <3>2. txn'.error = txn.error
      BY <2>3, <3>1 DEF IsRecord
    <3> QED
      BY <3>1, <3>2, UnfailedSees
  <2>5. CASE ChildAbort
    <3>1. txn' = [Head(outer) EXCEPT !.oldest = txn.oldest] /\ outer # <<>>
      BY <2>5 DEF ChildAbort
    <3>2. txn'.error = Head(outer).error
      BY <2>2, <3>1 DEF IsRecord
    <3> QED
      BY <2>2, <3>1, <3>2, UnfailedSees
  <2>6. CASE ChildCommit
    <3> DEFINE p == Head(outer)
               frees == p.frees \o txn.frees
               loose == p.loose \o txn.loose
               dirty == Over(txn.dirty, Without(p.dirty, txn.spills))
               spills == MergedSpills(p, txn)
    <3>1. ~txn.error
          /\ txn' = [txn EXCEPT !.frees = frees, !.loose = loose, !.dirty = dirty, !.spills = spills]
      BY <2>3, <2>6 DEF ChildCommit, IsRecord
    <3> HIDE DEF p, frees, loose, dirty, spills
    <3>2. txn'.error = txn.error
      BY <2>3, <3>1 DEF IsRecord
    <3> QED
      BY <3>1, <3>2, UnfailedSees
  <2> QED
    BY <1>6, <2>4, <2>5, <2>6 DEF ChildStep
<1>7. CASE CommitStep
  <2>1. \A t, next : Saves(t, next) => at' \in {"failed", next}
    BY DEF Saves
  <2>2. CASE CommitBegins
    BY <1>2, <2>1, <2>2 DEF CommitBegins
  <2>3. CASE SaveDelete
    BY <1>2, <2>1, <2>3 DEF SaveDelete
  <2>4. CASE SaveFrees
    BY <1>2, <2>1, <2>4 DEF SaveFrees
  <2>5. CASE SaveFreesDone
    BY <1>2, <2>1, <2>5 DEF SaveFreesDone
  <2>6. CASE SaveReserve
    BY <1>2, <2>1, <2>6 DEF SaveReserve
  <2>7. CASE SaveFill
    BY <1>2, <2>1, <2>7 DEF SaveFill
  <2>8. CASE PageFlush \/ EnvSync \/ WriteMeta
    BY <1>2, <2>8 DEF PageFlush, EnvSync, WriteMeta
  <2>9. CASE CommitEmpty \/ Publish
    BY <1>2, <2>9 DEF CommitEmpty, Publish, TxnEnds
  <2> QED
    BY <1>7, <2>2, <2>3, <2>4, <2>5, <2>6, <2>7, <2>8, <2>9 DEF CommitStep, SaveStep
<1>8. CASE Fault \/ Recovery \/ TxnAbort
  BY <1>2, <1>8 DEF Fault, Recovery, TxnAbort, TxnEnds, FlushFails, WriteMetaFails, WriterKilled, Crash,
     MutexFailed, Reopen
<1>9. ASSUME NEW r \in Readers, ReaderStep(r) PROVE Seen'
  <2>1. file' = file /\ at' = at /\ txn' = txn /\ outer' = outer
    BY <1>9 DEF ReaderStep, ReaderLooks, ReaderClaims, ReaderChecks, ReaderCopies, ReaderEnds, Reads, fileVars
  <2> QED
    BY <1>1, <1>2, <2>1
<1>10. CASE UNCHANGED vars
  BY <1>1, <1>2, <1>10 DEF vars, fileVars
<1> QED
  BY <1>4, <1>5, <1>6, <1>7, <1>8, <1>9, <1>10 DEF PagesNext

\* Seen by mdb_page_get: the newest of its own copies, or of its parent's, or the file's.
LEMMA SeenIsRight ==
    ASSUME PagesInv, Seen
    PROVE  SeesItsPages
<1> SUFFICES ASSUME at = "active", NEW h \in DOMAIN txn.pages
             PROVE  LET i == HoldsDirty(h) IN
                    IF i > 0 THEN h \in DOMAIN Chain[i].pages
                                  /\ Chain[i].pages[h].stamp = txn.pages[h].stamp
                    ELSE \A p \in Run(h, txn.pages[h].n) : file[p] = txn.pages[h].stamp
  BY DEF SeesItsPages
<1>1. NestedOnce /\ InPlace(file, txn, Parent) /\ txn.spills \cap DOMAIN txn.dirty = {}
  BY DEF PagesInv, WriterRight, NestedOnce, Seen, Sees
<1>2. HoldsDirty(h) = IF h \in txn.spills THEN 0
                      ELSE IF h \in DOMAIN txn.dirty THEN 1
                      ELSE IF h \in Parent.spills THEN 0
                      ELSE IF h \in DOMAIN Parent.dirty THEN 2 ELSE 0
  BY <1>1, ChainIs
<1>3. Chain[1] = txn /\ (outer # <<>> => Chain[2] = Parent)
  BY <1>1 DEF Chain, Parent, NestedOnce
<1>4. outer = <<>> => DOMAIN Parent.dirty = {}
  BY DEF Parent, NoTxn
<1>5. CASE h \in DOMAIN txn.dirty
  BY <1>1, <1>2, <1>3, <1>5
<1>6. CASE h \notin DOMAIN txn.dirty /\ h \notin txn.spills /\ h \notin Parent.spills /\ h \in DOMAIN Parent.dirty
  <2>1. HoldsDirty(h) = 2 /\ Chain[2] = Parent
    BY <1>2, <1>3, <1>4, <1>6
  <2> QED
    BY <1>1, <1>6, <2>1 DEF InPlace
<1>7. CASE h \notin DOMAIN txn.dirty
           /\ (h \in txn.spills \/ h \in Parent.spills \/ h \notin DOMAIN Parent.dirty)
  <2>1. HoldsDirty(h) = 0
    BY <1>2, <1>7
  <2> QED
    BY <1>1, <1>7, <2>1 DEF InPlace, OnFile
<1> QED
  BY <1>5, <1>6, <1>7

\* No transaction, nor one nested in it, sees any but its own version of a page, whatever is
\* touched, freed, spilled, merged, or fails (mdb_page_get, mdb_page_touch, mdb_page_spill).
THEOREM OwnPagesAreSeen ==
    PagesSpec => []SeesItsPages
<1>1. PagesInit => PagesInv /\ Seen
  BY PagesBegin DEF PagesInit, Seen
<1>2. PagesInv /\ Seen /\ [PagesNext]_vars => (PagesInv /\ Seen)'
  BY PagesStep, SeenStep
<1>3. PagesInv /\ Seen => SeesItsPages
  BY SeenIsRight
<1> QED
  BY <1>1, <1>2, <1>3, PTL DEF PagesSpec

-----------------------------------------------------------------------------
(* The audit *)

\* The newest snapshot accounts for each page once.
LEMMA AccountedIs ==
    ASSUME Sound(PickMeta)
    PROVE  PagesAccounted
<1> DEFINE snap == PickMeta
<1>1. /\ Covered(snap.pages) \cup Listed(snap) = 2 .. snap.last
      /\ \A h, k \in DOMAIN snap.pages :
             h = k \/ Run(h, snap.pages[h].n) \cap Run(k, snap.pages[k].n) = {}
      /\ \A id, other \in DOMAIN snap.recs : id # other => snap.recs[id].ids \cap snap.recs[other].ids = {}
  BY DEF Sound, RecordsApart
<1>2. Covered(snap.pages) \cap Listed(snap) = {}
  <2>1. \A id \in DOMAIN snap.recs : snap.recs[id].ids \cap Covered(snap.pages) = {}
    BY DEF Sound
  <2> QED
    BY <2>1 DEF Listed
<1> HIDE DEF snap
<1> QED
  BY <1>1, <1>2 DEF PagesAccounted, snap

\* Of the dirty pages of both there are finitely many, also once the writer has failed.
LEMMA RoomCountsIs ==
    ASSUME PagesInv
    PROVE  RoomCounts
<1> SUFFICES ASSUME at = "active"
             PROVE  txn.room = UmMax - Cardinality(DOMAIN txn.dirty \cup
                        UNION {DOMAIN outer[i].dirty \ txn.spills : i \in DOMAIN outer})
  BY DEF RoomCounts
<1>1. Space(txn, Parent) = UmMax /\ IsFiniteSet(DOMAIN txn.dirty) /\ txn.room \in 0 .. UmMax
  BY DEF PagesInv, RoomRight, Typed, Bounded
<1>2. IsFiniteSet(DOMAIN Parent.dirty)
  <2>1. CASE outer = <<>>
    <3>1. DOMAIN Parent.dirty = {}
      BY <2>1 DEF Parent, NoTxn
    <3> QED
      BY <3>1, FS_EmptySet
  <2>2. CASE outer # <<>>
    <3>1. Books(Parent, NoTxn, {})
      BY <2>2 DEF PagesInv, WriterRight, InOrder
    <3>2. IsFiniteSet(Counts(Parent, NoTxn)) /\ DOMAIN Parent.dirty \subseteq Counts(Parent, NoTxn)
      BY <3>1, CountsAre DEF Counts
    <3> QED
      BY <3>2, FS_Subset
  <2> QED
    BY <2>1, <2>2
<1>3. IsFiniteSet(Counts(txn, Parent))
  <2>1. IsFiniteSet(DOMAIN txn.dirty \cup DOMAIN Parent.dirty)
    BY <1>1, <1>2, FS_Union
  <2>2. Counts(txn, Parent) \subseteq DOMAIN txn.dirty \cup DOMAIN Parent.dirty
    BY DEF Counts
  <2> QED
    BY <2>1, <2>2, FS_Subset
<1>4. Counts(txn, Parent) =
          DOMAIN txn.dirty \cup (UNION {DOMAIN outer[i].dirty \ txn.spills : i \in DOMAIN outer})
  <2>1. CASE outer = <<>>
    <3>1. DOMAIN Parent.dirty = {} /\ DOMAIN outer = {}
      BY <2>1 DEF Parent, NoTxn
    <3> QED
      BY <3>1 DEF Counts
  <2>2. CASE outer # <<>>
    <3>1. outer = <<Parent>>
      BY <2>2 DEF PagesInv, WriterRight, Parent
    <3>2. DOMAIN outer = {1} /\ outer[1] = Parent
      BY <3>1
    <3> QED
      BY <3>2 DEF Counts
  <2> QED
    BY <2>1, <2>2
<1>5. Cardinality(Counts(txn, Parent)) \in Nat /\ txn.room \in Nat /\ UmMax \in Nat
  BY <1>1, <1>3, FS_CardinalityType, LmdbPagesAssumption
<1>6. txn.room = UmMax - Cardinality(Counts(txn, Parent))
  BY <1>1, <1>5 DEF Space
<1> QED
  BY <1>4, <1>6

\* While the list is saved, what is deleted has been read, and the room reserved is in records that
\* no reader needs.
LEMMA ListFitsIs ==
    ASSUME PagesInv
    PROVE  ListFits
<1>1. ASSUME at = "save" PROVE SaveBooks(txn, save) /\ Books(txn, Parent, {})
  <2>1. Writing /\ txn.error = FALSE /\ SaveBooks(txn, save)
    BY <1>1 DEF PagesInv, SaveRight, Saving, Writing
  <2> QED
    BY <2>1 DEF PagesInv, WriterRight, InOrder
<1>2. ASSUME at = "save", save.pglast < txn.pglast
      PROVE  DOMAIN txn.recs # {} /\ Least(DOMAIN txn.recs) <= txn.pglast
  <2>1. txn.pglast \in DOMAIN txn.recs /\ DOMAIN txn.recs \subseteq Nat
    BY <1>1, <1>2 DEF SaveBooks, Books, IsTxn, IsRecs
  <2>2. \A y \in DOMAIN txn.recs : Least(DOMAIN txn.recs) <= y
    BY <2>1, LeastIs
  <2> QED
    BY <2>1, <2>2
<1>3. ASSUME Reserving, RoomSuffices, NEW id \in DOMAIN txn.recs, id > txn.pglast
      PROVE  RoomBefore(id) >= MopLen
  <2>1. at = "save" /\ save.pglast >= txn.pglast
    BY <1>3 DEF Reserving
  <2>2. SaveBooks(txn, save) /\ Books(txn, Parent, {})
    BY <1>1, <2>1
  <2>3. id \in Nat /\ txn.pglast \in Nat
    BY <2>2 DEF Books, IsTxn, IsRecs
  <2>4. txn.pglast < id
    BY <1>3, <2>3
  <2> QED
    BY <1>3, <2>1, <2>2, <2>4, UnreadBeyond
<1> QED
  BY <1>2, <1>3 DEF ListFits

\* After each step all pages in the file are accounted for (mdb_audit), the room left is the room
\* for dirty pages less those of the transaction and its parent (mdb_page_dirty, mdb_page_spill,
\* mdb_txn_commit), and the assertions of mdb_freelist_save hold.
THEOREM PagesAreAccounted ==
    PagesSpec => []Audit
<1>1. PagesInv => PagesTypeOK
  BY DEF PagesInv, Typed, Counted, Bounded, Stamped, FreedBy, IsSave, PagesTypeOK
<1>2. PagesInv => PagesAccounted
  BY AccountedIs DEF PagesInv
<1>3. PagesInv => Audit
  BY <1>1, <1>2, RoomCountsIs, ListFitsIs DEF Audit
<1> QED
  BY <1>3, PagesInOrder, PTL

-----------------------------------------------------------------------------
(* An atomic store *)

\* A file that holds what a snapshot says holds what it means.
LEMMA FoundIsMeant ==
    ASSUME NEW contents, NEW snap, Intact(contents, snap)
    PROVE  Found(contents, snap.pages) = Meant(snap.pages)
<1> DEFINE main == DOMAIN MainTree(snap.pages)
<1>1. main = {h \in DOMAIN snap.pages : snap.pages[h].main}
  BY DEF MainTree, Restrict
<1>2. \A h \in main : [p \in Run(h, snap.pages[h].n) |-> contents[p]]
                      = [p \in Run(h, snap.pages[h].n) |-> snap.pages[h].stamp]
  BY <1>1 DEF Intact
<1> QED
  BY <1>2 DEF Found, Meant

\* The same main tree means the same.
LEMMA MeantSame ==
    ASSUME NEW t, NEW t2, SameMain(t, t2), IsPages(t.pages), IsPages(t2.pages)
    PROVE  Meant(t.pages) = Meant(t2.pages)
<1> DEFINE P == t.pages
           Q == t2.pages
<1>1. DOMAIN MainTree(P) = {h \in DOMAIN P : P[h].main} /\ DOMAIN MainTree(Q) = {h \in DOMAIN Q : Q[h].main}
  BY DEF MainTree, Restrict
<1>2. /\ \A h \in DOMAIN P : P[h].main \in BOOLEAN
      /\ \A h \in DOMAIN Q : Q[h].main \in BOOLEAN
  BY DEF IsPages
<1>3. /\ \A h \in DOMAIN P : P[h].main = TRUE => h \in DOMAIN Q /\ Q[h] = P[h]
      /\ \A h \in DOMAIN Q : Q[h].main = TRUE => h \in DOMAIN P /\ Q[h] = P[h]
  BY DEF SameMain
<1> HIDE DEF P, Q
<1>4. DOMAIN MainTree(P) = DOMAIN MainTree(Q) /\ \A h \in DOMAIN MainTree(P) : P[h] = Q[h]
  BY <1>1, <1>2, <1>3
<1>5. Meant(P) = Meant(Q)
  BY <1>4 DEF Meant
<1> QED
  BY <1>5 DEF P, Q

MeantBy(snap) == IF snap.whole THEN {Meant(snap.pages)} ELSE {}

\* What a reader gets, by what it reads.
Gets(r) ==
    IF readers[r].at = "checked" THEN [at |-> "asked", of |-> MeantBy(metas[readers[r].slot % 2])]
    ELSE IF readers[r].at = "reading" THEN [at |-> "reading", of |-> MeantBy(readers[r].snap)]
    ELSE [at |-> "none", of |-> {}]

\* Readers are never sent to a page that is not whole.
ShownIsWhole == metas[mti_txnid % 2].whole

\* The versions, by the numbers of the pages alone.
Reported ==
    /\ NewestVersion = Meant(PickMeta.pages)
    /\ ShownVersion = Meant(metas[mti_txnid % 2].pages)
    /\ VersionsRead = [r \in Readers |-> Gets(r)]

\* They are what the file holds.
LEMMA ReportedIs ==
    PagesInv /\ ShownIsWhole => Reported
<1> SUFFICES ASSUME PagesInv, ShownIsWhole PROVE Reported
  OBVIOUS
<1>1. /\ DOMAIN metas = {0, 1} /\ mti_txnid \in Nat /\ PickMeta.whole /\ PickMeta \in {metas[0], metas[1]}
      /\ mti_txnid % 2 \in {0, 1}
  BY DEF PagesInv, Counted, PickMeta
<1>2. \A m \in {0, 1} : metas[m].whole => Intact(file, metas[m]) /\ Intact(disk, metas[m])
  BY DEF PagesInv, CommitIntact
<1>3. NewestVersion = Meant(PickMeta.pages)
  <2>1. Intact(disk, PickMeta)
    BY <1>1, <1>2
  <2> QED
    BY <2>1, FoundIsMeant DEF NewestVersion
<1>4. ShownVersion = Meant(metas[mti_txnid % 2].pages)
  <2>1. Intact(file, metas[mti_txnid % 2])
    BY <1>1, <1>2 DEF ShownIsWhole
  <2> QED
    BY <2>1, FoundIsMeant DEF ShownVersion
<1>5. ASSUME NEW r \in Readers PROVE ReadBy(r) = Gets(r)
  <2>1. CASE readers[r].at = "checked"
    <3> DEFINE snap == metas[readers[r].slot % 2]
    <3>1. readers[r].slot \in Nat
      BY <2>1 DEF PagesInv, ReadersCounted
    <3>2. readers[r].slot % 2 \in {0, 1}
      BY <3>1
    <3>3. snap.whole => Intact(file, snap)
      BY <1>2, <3>2
    <3> HIDE DEF snap
    <3>4. FoundBy(snap) = MeantBy(snap)
      BY <3>3, FoundIsMeant DEF FoundBy, MeantBy
    <3>5. ReadBy(r) = [at |-> "asked", of |-> FoundBy(snap)] /\ Gets(r) = [at |-> "asked", of |-> MeantBy(snap)]
      BY <2>1 DEF ReadBy, Gets, snap
    <3> QED
      BY <3>4, <3>5
  <2>2. CASE readers[r].at = "reading"
    <3>1. readers[r].snap.whole => Intact(file, readers[r].snap)
      BY <2>2 DEF PagesInv, SnapshotIntact
    <3>2. FoundBy(readers[r].snap) = MeantBy(readers[r].snap)
      BY <3>1, FoundIsMeant DEF FoundBy, MeantBy
    <3> QED
      BY <2>2, <3>2 DEF ReadBy, Gets
  <2>3. CASE readers[r].at \notin {"checked", "reading"}
    BY <2>3 DEF ReadBy, Gets
  <2> QED
    BY <2>1, <2>2, <2>3
<1>6. VersionsRead = [r \in Readers |-> Gets(r)]
  BY <1>5 DEF VersionsRead
<1> QED
  BY <1>3, <1>4, <1>6 DEF Reported

Worked == {"active", "save", "frees", "flush", "sync", "meta"}

VersionsOf(a, t, o) ==
    IF a \notin Worked THEN <<>>
    ELSE IF o = <<>> THEN <<Meant(t.pages)>>
    ELSE <<Meant(t.pages), Meant(Head(o).pages)>>

\* A transaction is nested at most once.
LEMMA VersionsAre ==
    PagesInv => VersionsWorkedOn = VersionsOf(at, txn, outer)
<1> SUFFICES ASSUME PagesInv PROVE VersionsWorkedOn = VersionsOf(at, txn, outer)
  OBVIOUS
<1> DEFINE V == [i \in DOMAIN Chain |-> Meant(Chain[i].pages)]
<1>1. VersionsWorkedOn = IF at \in Worked THEN V ELSE <<>>
  BY DEF VersionsWorkedOn, Worked
<1>2. CASE outer = <<>>
  <2>1. Chain = <<txn>>
    BY <1>2 DEF Chain
  <2>2. DOMAIN Chain = 1 .. 1 /\ Chain[1] = txn
    BY <2>1
  <2>3. V = <<Meant(txn.pages)>>
    BY <2>2
  <2> QED
    BY <1>1, <1>2, <2>3 DEF VersionsOf
<1>3. CASE outer # <<>>
  <2> DEFINE p == Head(outer)
  <2>1. outer = <<p>>
    BY <1>3 DEF PagesInv, WriterRight
  <2> HIDE DEF p
  <2>2. Chain = <<txn>> \o <<p>>
    BY <2>1 DEF Chain
  <2>3. DOMAIN Chain = 1 .. 2 /\ Chain[1] = txn /\ Chain[2] = p
    BY <2>2
  <2>4. V = <<Meant(txn.pages), Meant(p.pages)>>
    BY <2>3
  <2> QED
    BY <1>1, <1>3, <2>4 DEF VersionsOf, p
<1> QED
  BY <1>2, <1>3

StoreRests == NewestVersion' = NewestVersion /\ ShownVersion' = ShownVersion /\ VersionsRead' = VersionsRead

\* A step of the store, or none.
StoreSteps ==
    \/ Store!StoreNext
    \/ VersionsWorkedOn' = VersionsWorkedOn /\ StoreRests

\* One version on top of another.
LEMMA TwoVersions ==
    ASSUME NEW a, NEW b
    PROVE  /\ <<a>> \o <<b>> = <<a, b>> /\ Tail(<<a>>) = <<>> /\ Head(<<a>>) = a /\ Len(<<a>>) = 1
           /\ Tail(<<a, b>>) = <<b>> /\ Head(<<a, b>>) = a /\ Len(<<a, b>>) = 2
<1>1. <<a>> \o <<b>> = <<a, b>>
  <2> DEFINE s == <<a>> \o <<b>>
             t == <<a, b>>
  <2>1. s \in Seq({a, b}) /\ Len(s) = 2 /\ s[1] = a /\ s[2] = b
    OBVIOUS
  <2>2. t \in Seq({a, b}) /\ Len(t) = 2 /\ t[1] = a /\ t[2] = b
    OBVIOUS
  <2> HIDE DEF s, t
  <2>3. s = [i \in 1 .. 2 |-> s[i]] /\ t = [i \in 1 .. 2 |-> t[i]]
    BY <2>1, <2>2
  <2>4. \A i \in 1 .. 2 : s[i] = t[i]
    BY <2>1, <2>2
  <2>5. s = t
    BY <2>3, <2>4
  <2> QED
    BY <2>5 DEF s, t
<1> QED
  BY <1>1

\* What may become of the versions worked on, as far as the others are concerned.
LEMMA StoreWorks ==
    ASSUME StoreRests
    PROVE  /\ VersionsWorkedOn' = VersionsWorkedOn => StoreSteps
           /\ VersionsWorkedOn' = <<>> => StoreSteps
           /\ VersionsWorkedOn = <<>> /\ ShownVersion = NewestVersion /\ VersionsWorkedOn' = <<NewestVersion>>
                  => StoreSteps
           /\ \A a, b : VersionsWorkedOn = <<a>> /\ VersionsWorkedOn' = <<b>> => StoreSteps
           /\ \A a, b, c : VersionsWorkedOn = <<a, c>> /\ VersionsWorkedOn' = <<b, c>> => StoreSteps
           /\ \A a : VersionsWorkedOn = <<a>> /\ VersionsWorkedOn' = <<a, a>> => StoreSteps
           /\ \A a, b : VersionsWorkedOn = <<a, b>> /\ VersionsWorkedOn' = <<a>> => StoreSteps
           /\ \A a, b : VersionsWorkedOn = <<a, b>> /\ VersionsWorkedOn' = <<b>> => StoreSteps
<1>1. VersionsWorkedOn' = VersionsWorkedOn => StoreSteps
  BY DEF StoreSteps
<1>2. ASSUME VersionsWorkedOn' = <<>> PROVE StoreSteps
  <2>1. CASE VersionsWorkedOn = <<>>
    BY <1>1, <1>2, <2>1
  <2>2. CASE VersionsWorkedOn # <<>>
    BY <1>2, <2>2 DEF StoreSteps, StoreRests, Store!StoreNext, Store!GiveUp, Store!Works
  <2> QED
    BY <2>1, <2>2
<1>3. ASSUME VersionsWorkedOn = <<>>, ShownVersion = NewestVersion, VersionsWorkedOn' = <<NewestVersion>>
      PROVE  StoreSteps
  BY <1>3 DEF StoreSteps, StoreRests, Store!StoreNext, Store!Begin
<1>4. ASSUME NEW a, NEW b, VersionsWorkedOn = <<a>>, VersionsWorkedOn' = <<b>> PROVE StoreSteps
  <2>1. Store!Change
    BY <1>4, TwoVersions DEF StoreRests, Store!Change, Store!Works
  <2> QED
    BY <2>1 DEF StoreSteps, Store!StoreNext
<1>5. ASSUME NEW a, NEW b, NEW c, VersionsWorkedOn = <<a, c>>, VersionsWorkedOn' = <<b, c>> PROVE StoreSteps
  <2>1. Store!Change
    BY <1>5, TwoVersions DEF StoreRests, Store!Change, Store!Works
  <2> QED
    BY <2>1 DEF StoreSteps, Store!StoreNext
<1>6. ASSUME NEW a, VersionsWorkedOn = <<a>>, VersionsWorkedOn' = <<a, a>> PROVE StoreSteps
  <2>1. Store!Nest
    BY <1>6, TwoVersions DEF StoreRests, Store!Nest, Store!Works
  <2> QED
    BY <2>1 DEF StoreSteps, Store!StoreNext
<1>7. ASSUME NEW a, NEW b, VersionsWorkedOn = <<a, b>>, VersionsWorkedOn' = <<a>> PROVE StoreSteps
  <2>1. <<a>> \o <<>> = <<a>>
    OBVIOUS
  <2>2. Store!Merge
    BY <1>7, <2>1, TwoVersions DEF StoreRests, Store!Merge, Store!Works
  <2> QED
    BY <2>2 DEF StoreSteps, Store!StoreNext
<1>8. ASSUME NEW a, NEW b, VersionsWorkedOn = <<a, b>>, VersionsWorkedOn' = <<b>> PROVE StoreSteps
  <2>1. Store!Undo
    BY <1>8, TwoVersions DEF StoreRests, Store!Undo, Store!Works
  <2> QED
    BY <2>1 DEF StoreSteps, Store!StoreNext
<1> QED
  BY <1>1, <1>2, <1>3, <1>4, <1>5, <1>6, <1>7, <1>8

\* Each state and the next.
StoreKnown == Reported /\ Reported' /\ PagesInv /\ PagesInv'

\* The versions follow from the meta pages, the readers and the writer's transactions.
LEMMA VersionsThen ==
    ASSUME StoreKnown
    PROVE  /\ VersionsWorkedOn = VersionsOf(at, txn, outer)
           /\ VersionsWorkedOn' = VersionsOf(at', txn', outer')
           /\ metas' = metas /\ mti_txnid' = mti_txnid /\ readers' = readers => StoreRests
<1>1. (PagesInv => VersionsWorkedOn = VersionsOf(at, txn, outer))'
  BY VersionsAre, PTL
<1>2. VersionsOf(at, txn, outer)' = VersionsOf(at', txn', outer')
  BY DEF VersionsOf, Worked, Meant, MainTree, Restrict, Run
<1>3. VersionsWorkedOn = VersionsOf(at, txn, outer) /\ VersionsWorkedOn' = VersionsOf(at', txn', outer')
  BY <1>1, <1>2, VersionsAre DEF StoreKnown
<1>4. ASSUME metas' = metas, mti_txnid' = mti_txnid, readers' = readers PROVE StoreRests
  <2>1. PickMeta' = PickMeta
    BY <1>4 DEF PickMeta
  <2>2. Meant(PickMeta.pages)' = Meant(PickMeta.pages)
        /\ Meant(metas[mti_txnid % 2].pages)' = Meant(metas[mti_txnid % 2].pages)
    BY <1>4, <2>1 DEF Meant, MainTree
  <2>3. \A r \in Readers : Gets(r)' = Gets(r)
    BY <1>4 DEF Gets, MeantBy, Meant, MainTree
  <2>4. [r \in Readers |-> Gets(r)]' = [r \in Readers |-> Gets(r)]
    BY <2>3
  <2> QED
    BY <2>2, <2>4 DEF StoreKnown, Reported, StoreRests
<1> QED
  BY <1>3, <1>4

\* Steps of the writer before the meta page is written.
LEMMA WriterSteps ==
    ASSUME StoreKnown
    PROVE  /\ TxnBegin => StoreSteps
           /\ MainStep => StoreSteps
           /\ ChildStep => StoreSteps
<1>1. /\ VersionsWorkedOn = VersionsOf(at, txn, outer) /\ VersionsWorkedOn' = VersionsOf(at', txn', outer')
      /\ metas' = metas /\ mti_txnid' = mti_txnid /\ readers' = readers => StoreRests
  BY VersionsThen
<1>2. PagesInv /\ (outer # <<>> => outer = <<Head(outer)>> /\ at = "active") /\ (outer = <<>> => at' = at')
  BY DEF StoreKnown, PagesInv, WriterRight
<1>3. ASSUME TxnBegin PROVE StoreSteps
  <2> DEFINE m == metas[mti_txnid % 2]
  <2>1. /\ at = "idle" /\ at' = "active" /\ outer' = outer /\ txn'.pages = m.pages
        /\ metas' = metas /\ mti_txnid' = mti_txnid /\ readers' = readers
    BY <1>3 DEF TxnBegin, fileVars, readVars, NoTxn
  <2>2. outer = <<>> /\ m = PickMeta
    BY <1>2, <2>1 DEF PagesInv, Counted
  <2>3. NewestVersion = Meant(m.pages) /\ ShownVersion = Meant(m.pages)
    BY <2>2 DEF StoreKnown, Reported
  <2> HIDE DEF m
  <2>4. VersionsWorkedOn = <<>> /\ VersionsWorkedOn' = <<NewestVersion>>
    BY <1>1, <2>1, <2>2, <2>3 DEF VersionsOf, Worked
  <2> QED
    BY <1>1, <2>1, <2>3, <2>4, StoreWorks
<1>4. ASSUME MainStep PROVE StoreSteps
  <2>1. /\ at = "active" /\ at' = "active" /\ outer' = outer
        /\ metas' = metas /\ mti_txnid' = mti_txnid /\ readers' = readers
    <3>1. CASE \E kind, t : Writes(kind, t)
      BY <3>1 DEF Writes, fileVars, readVars
    <3>2. CASE PageSpill
      BY <3>2 DEF PageSpill, readVars
    <3> QED
      BY <1>4, <3>1, <3>2 DEF MainStep, MainTouch, MainNew, MainLoosen, MainRootFreed, MainDrop,
         MainOverflowFree, MainOverwrite
  <2>2. CASE outer = <<>>
    <3>1. VersionsWorkedOn = <<Meant(txn.pages)>> /\ VersionsWorkedOn' = <<Meant(txn'.pages)>>
      BY <1>1, <2>1, <2>2 DEF VersionsOf, Worked
    <3> QED
      BY <1>1, <2>1, <3>1, StoreWorks
  <2>3. CASE outer # <<>>
    <3> DEFINE c == Meant(Head(outer).pages)
    <3>1. VersionsWorkedOn = <<Meant(txn.pages), c>> /\ VersionsWorkedOn' = <<Meant(txn'.pages), c>>
      BY <1>1, <2>1, <2>3 DEF VersionsOf, Worked
    <3> HIDE DEF c
    <3> QED
      BY <1>1, <2>1, <3>1, StoreWorks
  <2> QED
    BY <2>2, <2>3
<1>5. ASSUME ChildBegin PROVE StoreSteps
  <2>1. /\ at = "active" /\ at' = "active" /\ outer = <<>> /\ outer' = <<txn>> /\ ~txn.error
        /\ metas' = metas /\ mti_txnid' = mti_txnid /\ readers' = readers
        /\ txn' = [txn EXCEPT !.frees = <<>>, !.loose = <<>>, !.dirty = <<>>, !.spills = {}]
    BY <1>5 DEF ChildBegin, fileVars, readVars
  <2>2. txn'.pages = txn.pages
    <3>1. IsRecord(txn)
      BY <1>2, <2>1 DEF PagesInv, WriterRight, Writing, InOrder, Books, IsTxn
    <3> QED
      BY <2>1, <3>1 DEF IsRecord
  <2>3. Head(outer') = txn /\ outer' # <<>>
    BY <2>1
  <2>4. VersionsWorkedOn = <<Meant(txn.pages)>> /\ VersionsWorkedOn' = <<Meant(txn.pages), Meant(txn.pages)>>
    BY <1>1, <2>1, <2>2, <2>3 DEF VersionsOf, Worked
  <2> QED
    BY <1>1, <2>1, <2>4, StoreWorks
<1>6. ASSUME ChildAbort PROVE StoreSteps
  <2>1. /\ at = "active" /\ at' = "active" /\ outer # <<>> /\ outer' = Tail(outer)
        /\ metas' = metas /\ mti_txnid' = mti_txnid /\ readers' = readers
        /\ txn' = [Head(outer) EXCEPT !.oldest = txn.oldest]
    BY <1>6 DEF ChildAbort, fileVars, readVars
  <2>2. txn'.pages = Head(outer).pages
    <3>1. IsRecord(Head(outer))
      BY <1>2, <2>1 DEF PagesInv, WriterRight, InOrder, Books, IsTxn, Parent
    <3> QED
      BY <2>1, <3>1 DEF IsRecord
  <2>3. outer' = <<>>
    BY <1>2, <2>1, TwoVersions
  <2>4. VersionsWorkedOn = <<Meant(txn.pages), Meant(Head(outer).pages)>>
        /\ VersionsWorkedOn' = <<Meant(Head(outer).pages)>>
    BY <1>1, <2>1, <2>2, <2>3 DEF VersionsOf, Worked
  <2> QED
    BY <1>1, <2>1, <2>4, StoreWorks
<1>7. ASSUME ChildCommit PROVE StoreSteps
  <2> DEFINE parent == Head(outer)
             frees == parent.frees \o txn.frees
             loose == parent.loose \o txn.loose
             dirty == Over(txn.dirty, Without(parent.dirty, txn.spills))
  <2>1. /\ at = "active" /\ at' = "active" /\ outer # <<>> /\ outer' = Tail(outer) /\ ~txn.error
        /\ metas' = metas /\ mti_txnid' = mti_txnid /\ readers' = readers
        /\ txn' = [txn EXCEPT !.frees = parent.frees \o @, !.loose = parent.loose \o @,
                              !.dirty = Over(@, Without(parent.dirty, txn.spills)),
                              !.spills = MergedSpills(parent, txn)]
    BY <1>7 DEF ChildCommit, fileVars, readVars
  <2>2. txn'.pages = txn.pages
    <3>1. IsRecord(txn)
      BY <1>2, <2>1 DEF PagesInv, WriterRight, Writing, InOrder, Books, IsTxn
    <3>2. txn' = [txn EXCEPT !.frees = frees, !.loose = loose, !.dirty = dirty,
                             !.spills = MergedSpills(parent, txn)]
      BY <2>1, <3>1 DEF IsRecord
    <3> HIDE DEF frees, loose, dirty, parent
    <3> QED
      BY <3>1, <3>2 DEF IsRecord
  <2> HIDE DEF parent
  <2>3. outer' = <<>>
    BY <1>2, <2>1, TwoVersions
  <2>4. VersionsWorkedOn = <<Meant(txn.pages), Meant(Head(outer).pages)>>
        /\ VersionsWorkedOn' = <<Meant(txn.pages)>>
    BY <1>1, <2>1, <2>2, <2>3 DEF VersionsOf, Worked
  <2> QED
    BY <1>1, <2>1, <2>4, StoreWorks
<1> QED
  BY <1>3, <1>4, <1>5, <1>6, <1>7 DEF ChildStep

\* Steps of the commit before the meta page is written, in which the free list is saved.
LEMMA SaveSteps ==
    ASSUME StoreKnown, CommitBegins \/ SaveStep
    PROVE  StoreSteps
<1>1. /\ VersionsWorkedOn = VersionsOf(at, txn, outer) /\ VersionsWorkedOn' = VersionsOf(at', txn', outer')
      /\ metas' = metas /\ mti_txnid' = mti_txnid /\ readers' = readers => StoreRests
  BY VersionsThen
<1>2. PagesInv /\ txn'.error = FALSE => SameMain(txn, txn')
  BY CommitBeginsKeeps, SaveDeleteKeeps, SaveFreesKeeps, SaveFreesDoneKeeps, SaveReserveKeeps,
     SaveFillKeeps DEF SaveStep, MainSaved
<1> DEFINE Goes(next) == \E t : Saves(t, next)
<1>3. Goes("save") \/ Goes("frees") \/ Goes("flush")
  <2>1. CommitBegins => Goes("save")
    BY Zenon DEF CommitBegins
  <2>2. SaveDelete => Goes("save")
    BY Zenon DEF SaveDelete
  <2>3. SaveFrees => Goes("frees")
    BY Zenon DEF SaveFrees
  <2>4. SaveFreesDone => Goes("save")
    BY Zenon DEF SaveFreesDone
  <2>5. SaveReserve => Goes("save")
    BY Zenon DEF SaveReserve
  <2>6. SaveFill => Goes("flush")
    BY Zenon DEF SaveFill
  <2> QED
    BY <2>1, <2>2, <2>3, <2>4, <2>5, <2>6, Zenon DEF SaveStep
<1>4. /\ outer' = outer /\ metas' = metas /\ mti_txnid' = mti_txnid /\ readers' = readers
      /\ ~txn'.error => at' \in {"save", "frees", "flush"}
      /\ txn'.error => at' = "failed"
  BY <1>3 DEF Saves, fileVars, readVars
<1>8. at \in {"active", "save", "frees"}
  BY DEF CommitBegins, SaveStep, SaveDelete, SaveFrees, SaveFreesDone, SaveReserve, SaveFill, Reserving
<1> HIDE DEF Goes
<1>5. outer = <<>>
  <2>1. Saving => outer = <<>>
    BY DEF StoreKnown, PagesInv, SaveRight
  <2> QED
    BY <2>1 DEF CommitBegins, SaveStep, SaveDelete, SaveFrees, SaveFreesDone, SaveReserve, SaveFill,
       Reserving, Saving
<1>6. CASE txn'.error
  <2>1. VersionsWorkedOn' = <<>>
    BY <1>1, <1>4, <1>6 DEF VersionsOf, Worked
  <2> QED
    BY <1>1, <1>4, <2>1, StoreWorks
<1>7. CASE ~txn'.error
  <2>1. SameMain(txn, txn')
    BY <1>2, <1>3, <1>7 DEF StoreKnown
  <2>2. IsPages(txn.pages) /\ IsPages(txn'.pages)
    BY DEF StoreKnown, PagesInv, Typed, Bounded, Stamped, IsPages
  <2>3. Meant(txn'.pages) = Meant(txn.pages)
    BY <2>1, <2>2, MeantSame
  <2>4. VersionsWorkedOn = <<Meant(txn.pages)>> /\ VersionsWorkedOn' = <<Meant(txn'.pages)>>
    BY <1>1, <1>4, <1>5, <1>7, <1>8 DEF VersionsOf, Worked
  <2> QED
    BY <1>1, <1>4, <2>3, <2>4, StoreWorks
<1> QED
  BY <1>6, <1>7

\* Steps that end a transaction, or that only move data to the file and the disk.
LEMMA QuietSteps ==
    ASSUME StoreKnown
    PROVE  /\ PageFlush \/ EnvSync \/ Reopen => StoreSteps
           /\ FlushFails \/ WriterKilled \/ TxnAbort \/ CommitEmpty => StoreSteps
           /\ UNCHANGED vars => StoreSteps
<1>1. /\ VersionsWorkedOn = VersionsOf(at, txn, outer) /\ VersionsWorkedOn' = VersionsOf(at', txn', outer')
      /\ metas' = metas /\ mti_txnid' = mti_txnid /\ readers' = readers => StoreRests
  BY VersionsThen
<1>2. ASSUME PageFlush \/ EnvSync \/ Reopen PROVE StoreSteps
  <2>1. /\ metas' = metas /\ mti_txnid' = mti_txnid /\ readers' = readers /\ outer' = outer
        /\ (at \in Worked /\ at' \in Worked /\ txn' = txn) \/ (at \notin Worked /\ at' \notin Worked)
    BY <1>2 DEF PageFlush, EnvSync, Reopen, fileVars, readVars, Worked
  <2>2. VersionsWorkedOn' = VersionsWorkedOn
    BY <1>1, <2>1 DEF VersionsOf
  <2> QED
    BY <1>1, <2>1, <2>2, StoreWorks
<1>3. ASSUME FlushFails \/ WriterKilled \/ TxnAbort \/ CommitEmpty PROVE StoreSteps
  <2>1. /\ metas' = metas /\ mti_txnid' = mti_txnid /\ readers' = readers /\ at' \notin Worked
    BY <1>3 DEF FlushFails, WriterKilled, TxnAbort, CommitEmpty, TxnEnds, fileVars, readVars, Worked
  <2>2. VersionsWorkedOn' = <<>>
    BY <1>1, <2>1 DEF VersionsOf
  <2> QED
    BY <1>1, <2>1, <2>2, StoreWorks
<1>4. ASSUME UNCHANGED vars PROVE StoreSteps
  <2>1. /\ metas' = metas /\ mti_txnid' = mti_txnid /\ readers' = readers /\ at' = at /\ txn' = txn
        /\ outer' = outer
    BY <1>4 DEF vars, fileVars, readVars
  <2>2. VersionsWorkedOn' = VersionsWorkedOn
    BY <1>1, <2>1 DEF VersionsOf
  <2> QED
    BY <1>1, <2>1, <2>2, StoreWorks
<1> QED
  BY <1>2, <1>3, <1>4

\* When the other meta page than the one shown has become new, what readers get is what they got,
\* or what new says, if they have not read yet.
LEMMA AskersHear ==
    ASSUME StoreKnown, NEW new, metas' = [metas EXCEPT ![Toggle] = new], at = "meta",
           mti_txnid' = mti_txnid, readers' = readers
    PROVE  Store!AskersGet(MeantBy(new)) /\ ShownVersion' = ShownVersion
           /\ Toggle = (mti_txnid + 1) % 2 /\ Toggle \in {0, 1} /\ mti_txnid % 2 # Toggle
<1>1. /\ DOMAIN metas = {0, 1} /\ mti_txnid \in Nat /\ txn.txnid = mti_txnid + 1
  BY DEF StoreKnown, PagesInv, Counted
<1>2. Toggle = (mti_txnid + 1) % 2
  BY <1>1 DEF Toggle
<1>3. mti_txnid % 2 \in {0, 1} /\ Toggle \in {0, 1} /\ mti_txnid % 2 # Toggle
  BY <1>1, <1>2, TogglesIs
<1>4. \A m \in {0, 1} : metas'[m] = IF m = Toggle THEN new ELSE metas[m]
  BY <1>1
<1>5. Meant(metas[mti_txnid % 2].pages)' = Meant(metas[mti_txnid % 2].pages)
  <2>1. metas'[mti_txnid' % 2] = metas[mti_txnid % 2]
    BY <1>3, <1>4
  <2>2. Meant(metas[mti_txnid % 2].pages)' = Meant(metas'[mti_txnid' % 2].pages)
    BY DEF Meant, MainTree, Restrict, Run
  <2> QED
    BY <2>1, <2>2
<1>6. VersionsRead = [r \in Readers |-> Gets(r)] /\ VersionsRead' = [r \in Readers |-> Gets(r)']
  BY DEF StoreKnown, Reported
<1>7. ASSUME NEW r \in Readers
      PROVE  Gets(r)' = Gets(r) \/ (Gets(r).at = "asked" /\ Gets(r)' = [at |-> "asked", of |-> MeantBy(new)])
  <2>1. CASE readers[r].at = "checked"
    <3> DEFINE m == readers[r].slot % 2
    <3>1. readers[r].slot \in Nat
      BY <2>1 DEF StoreKnown, PagesInv, ReadersCounted
    <3>2. m \in {0, 1}
      BY <3>1
    <3>3. /\ Gets(r) = [at |-> "asked", of |-> MeantBy(metas[m])]
          /\ Gets(r)' = [at |-> "asked", of |-> MeantBy(metas[m])']
      BY <2>1 DEF Gets
    <3>4. MeantBy(metas[m])' = MeantBy(metas'[m])
      <4>1. m' = m
        OBVIOUS
      <4> QED
        BY <4>1 DEF MeantBy, Meant, MainTree, Restrict, Run
    <3> HIDE DEF m
    <3>5. metas'[m] = metas[m] \/ metas'[m] = new
      BY <1>4, <3>2
    <3> QED
      BY <3>3, <3>4, <3>5
  <2>2. CASE readers[r].at # "checked"
    BY <2>2 DEF Gets, MeantBy, Meant, MainTree
  <2> QED
    BY <2>1, <2>2
<1>8. Store!AskersGet(MeantBy(new))
  BY <1>6, <1>7 DEF Store!AskersGet
<1>9. ShownVersion' = ShownVersion
  BY <1>5 DEF StoreKnown, Reported
<1> QED
  BY <1>2, <1>3, <1>8, <1>9

\* The meta page is written, or is not.
LEMMA MetaSteps ==
    ASSUME StoreKnown
    PROVE  /\ WriteMeta => StoreSteps
           /\ WriteMetaFails => StoreSteps
<1>1. VersionsWorkedOn = VersionsOf(at, txn, outer) /\ VersionsWorkedOn' = VersionsOf(at', txn', outer')
  BY VersionsThen
<1>2. at = "meta" => outer = <<>>
  BY DEF StoreKnown, PagesInv, CommitRight, Ending
<1>3. /\ NewestVersion = Meant(PickMeta.pages) /\ NewestVersion' = Meant(PickMeta.pages)'
      /\ PickMeta' = IF metas'[0].txnid < metas'[1].txnid THEN metas'[1] ELSE metas'[0]
  BY DEF StoreKnown, Reported, PickMeta
<1>4. /\ at = "meta" => PickMeta.txnid = mti_txnid
      /\ mti_txnid \in Nat /\ DOMAIN metas = {0, 1} /\ metas[PickMeta.txnid % 2] = PickMeta
      /\ \A m \in {0, 1} : metas[m].txnid \in Nat
      /\ metas[(PickMeta.txnid + 1) % 2].txnid
           = IF PickMeta.txnid = 0 THEN 0 ELSE PickMeta.txnid - 1
      /\ at = "meta" => txn.txnid = mti_txnid + 1
  BY DEF StoreKnown, PagesInv, Counted
<1>5. ASSUME WriteMeta PROVE StoreSteps
  <2> DEFINE new == Snapshot(txn)
  <2>1. /\ at = "meta" /\ metas' = [metas EXCEPT ![Toggle] = new] /\ at' = "publish"
        /\ mti_txnid' = mti_txnid /\ readers' = readers
    BY <1>5 DEF WriteMeta, readVars
  <2>2. new.whole = TRUE /\ new.pages = txn.pages /\ new.txnid = mti_txnid + 1
    BY <1>4, <2>1 DEF Snapshot
  <2> HIDE DEF new
  <2>3. /\ Store!AskersGet(MeantBy(new)) /\ ShownVersion' = ShownVersion
        /\ Toggle = (mti_txnid + 1) % 2 /\ Toggle \in {0, 1} /\ mti_txnid % 2 # Toggle
    BY <2>1, AskersHear
  <2>4. PickMeta' = new
    <3>1. metas'[Toggle] = new /\ \A m \in {0, 1} : m # Toggle => metas'[m] = metas[m]
      BY <1>4, <2>1, <2>3
    <3>2. mti_txnid % 2 \in {0, 1} /\ metas[mti_txnid % 2].txnid = mti_txnid
      BY <1>4, <2>1
    <3>3. (Toggle = 0 /\ mti_txnid % 2 = 1) \/ (Toggle = 1 /\ mti_txnid % 2 = 0)
      BY <2>3, <3>2
    <3>4. CASE Toggle = 0 /\ mti_txnid % 2 = 1
      <4>1. metas'[0] = new /\ metas'[1].txnid = mti_txnid
        BY <3>1, <3>2, <3>4
      <4> QED
        BY <1>3, <1>4, <2>2, <4>1
    <3>5. CASE Toggle = 1 /\ mti_txnid % 2 = 0
      <4>1. metas'[1] = new /\ metas'[0].txnid = mti_txnid
        BY <3>1, <3>2, <3>5
      <4> QED
        BY <1>3, <1>4, <2>2, <4>1
    <3> QED
      BY <3>3, <3>4, <3>5
  <2>5. NewestVersion' = Meant(txn.pages)
    <3>1. PickMeta'.pages = txn.pages
      BY <2>2, <2>4
    <3>2. Meant(PickMeta.pages)' = Meant(PickMeta'.pages)
      BY DEF Meant, MainTree, Restrict, Run
    <3> QED
      BY <1>3, <3>1, <3>2
  <2>6. VersionsWorkedOn = <<Meant(txn.pages)>> /\ VersionsWorkedOn' = <<>>
    BY <1>1, <1>2, <2>1 DEF VersionsOf, Worked
  <2>7. MeantBy(new) = {NewestVersion'}
    BY <2>2, <2>5 DEF MeantBy
  <2>8. Store!Commit
    BY <2>3, <2>5, <2>6, <2>7, TwoVersions DEF Store!Commit
  <2> QED
    BY <2>8 DEF StoreSteps, Store!StoreNext
<1>6. ASSUME WriteMetaFails PROVE StoreSteps
  <2> DEFINE bad == [Snapshot(txn) EXCEPT !.txnid = metas[Toggle].txnid,
                                          !.last = metas[Toggle].last, !.whole = FALSE]
  <2>1. /\ at = "meta" /\ metas' = [metas EXCEPT ![Toggle] = bad] /\ at' = "failed"
        /\ mti_txnid' = mti_txnid /\ readers' = readers
    BY <1>6 DEF WriteMetaFails, readVars
  <2>2. bad.whole = FALSE /\ bad.txnid = metas[Toggle].txnid
    BY DEF Snapshot
  <2> HIDE DEF bad
  <2>3. /\ Store!AskersGet(MeantBy(bad)) /\ ShownVersion' = ShownVersion
        /\ Toggle = (mti_txnid + 1) % 2 /\ Toggle \in {0, 1} /\ mti_txnid % 2 # Toggle
    BY <2>1, AskersHear
  <2>4. PickMeta' = PickMeta
    <3>1. metas'[Toggle] = bad /\ \A m \in {0, 1} : m # Toggle => metas'[m] = metas[m]
      BY <1>4, <2>1, <2>3
    <3>2. /\ mti_txnid % 2 \in {0, 1} /\ metas[mti_txnid % 2] = PickMeta /\ PickMeta.txnid = mti_txnid
          /\ bad.txnid = IF mti_txnid = 0 THEN 0 ELSE mti_txnid - 1
      BY <1>4, <2>1, <2>2, <2>3
    <3>3. (Toggle = 0 /\ mti_txnid % 2 = 1) \/ (Toggle = 1 /\ mti_txnid % 2 = 0)
      BY <2>3, <3>2
    <3>4. CASE Toggle = 0 /\ mti_txnid % 2 = 1
      <4>1. metas'[0] = bad /\ metas'[1] = PickMeta /\ mti_txnid # 0
        BY <3>1, <3>2, <3>4
      <4> QED
        BY <1>3, <1>4, <3>2, <4>1
    <3>5. CASE Toggle = 1 /\ mti_txnid % 2 = 0
      <4>1. metas'[1] = bad /\ metas'[0] = PickMeta
        BY <3>1, <3>2, <3>5
      <4>2. ~ (mti_txnid < bad.txnid)
        BY <1>4, <3>2
      <4> QED
        BY <1>3, <3>2, <4>1, <4>2
    <3> QED
      BY <3>3, <3>4, <3>5
  <2>5. NewestVersion' = NewestVersion
    <3>1. Meant(PickMeta.pages)' = Meant(PickMeta'.pages)
      BY DEF Meant, MainTree, Restrict, Run
    <3> QED
      BY <1>3, <2>4, <3>1
  <2>6. VersionsWorkedOn = <<Meant(txn.pages)>> /\ VersionsWorkedOn' = <<>>
    BY <1>1, <1>2, <2>1 DEF VersionsOf, Worked
  <2>7. MeantBy(bad) = {}
    BY <2>2 DEF MeantBy
  <2>8. VersionsWorkedOn # <<>>
    BY <2>6
  <2>9. Store!Fail
    BY <2>3, <2>5, <2>6, <2>7, <2>8 DEF Store!Fail
  <2> QED
    BY <2>9 DEF StoreSteps, Store!StoreNext
<1> QED
  BY <1>5, <1>6

\* The number of the newest meta page is shown, or the machine starts again.
LEMMA ShownSteps ==
    ASSUME StoreKnown
    PROVE  /\ Publish \/ MutexFailed => StoreSteps
           /\ Crash => StoreSteps
<1>1. VersionsWorkedOn = VersionsOf(at, txn, outer) /\ VersionsWorkedOn' = VersionsOf(at', txn', outer')
  BY VersionsThen
<1>2. ASSUME metas' = metas, at' = "idle" PROVE ShownVersion' = NewestVersion /\ NewestVersion' = NewestVersion
  <2>1. PickMeta' = PickMeta
    BY <1>2 DEF PickMeta
  <2>2. metas'[mti_txnid' % 2] = PickMeta'
    BY <1>2 DEF StoreKnown, PagesInv, Counted
  <2>3. Meant(metas[mti_txnid % 2].pages)' = Meant(metas'[mti_txnid' % 2].pages)
        /\ Meant(PickMeta.pages)' = Meant(PickMeta'.pages)
    BY DEF Meant, MainTree, Restrict, Run
  <2> QED
    BY <2>1, <2>2, <2>3 DEF StoreKnown, Reported
<1>3. VersionsRead = [r \in Readers |-> Gets(r)] /\ VersionsRead' = [r \in Readers |-> Gets(r)']
  BY DEF StoreKnown, Reported
<1>4. ASSUME Publish \/ MutexFailed PROVE StoreSteps
  <2>1. /\ metas' = metas /\ readers' = readers /\ at' = "idle" /\ at \in {"publish", "dead"}
    BY <1>4 DEF Publish, MutexFailed, TxnEnds, fileVars
  <2>2. VersionsWorkedOn = <<>> /\ VersionsWorkedOn' = <<>>
    BY <1>1, <2>1 DEF VersionsOf, Worked
  <2>3. \A r \in Readers : Gets(r)' = Gets(r)
    BY <2>1 DEF Gets, MeantBy, Meant, MainTree
  <2>4. VersionsRead' = VersionsRead
    BY <1>3, <2>3
  <2>5. Store!Show
    BY <1>2, <2>1, <2>2, <2>4 DEF Store!Show
  <2> QED
    BY <2>5 DEF StoreSteps, Store!StoreNext
<1>5. ASSUME Crash PROVE StoreSteps
  <2>1. /\ metas' = metas /\ at' = "idle"
        /\ readers' = [r \in Readers |-> [at |-> "idle", seen |-> 0, slot |-> -1, snap |-> EmptyMeta]]
    BY <1>5 DEF Crash
  <2>2. VersionsWorkedOn' = <<>>
    BY <1>1, <2>1 DEF VersionsOf, Worked
  <2>3. \A r \in Readers : Gets(r)' = [at |-> "none", of |-> {}]
    BY <2>1 DEF Gets
  <2>4. VersionsRead' = [r \in Readers |-> [at |-> "none", of |-> {}]]
    BY <1>3, <2>3
  <2>5. Store!Crash
    BY <1>2, <2>1, <2>2, <2>4 DEF Store!Crash, Store!Nothing
  <2> QED
    BY <2>5 DEF StoreSteps, Store!StoreNext
<1> QED
  BY <1>4, <1>5

\* A reader asks, reads and is done, or looks again.
LEMMA ReaderSteps ==
    ASSUME StoreKnown, ShownIsWhole, NEW r \in Readers, ReaderStep(r)
    PROVE  StoreSteps
<1>1. VersionsWorkedOn = VersionsOf(at, txn, outer) /\ VersionsWorkedOn' = VersionsOf(at', txn', outer')
  BY VersionsThen
<1>2. metas' = metas /\ mti_txnid' = mti_txnid /\ at' = at /\ txn' = txn /\ outer' = outer
  BY DEF ReaderStep, ReaderLooks, ReaderClaims, ReaderChecks, ReaderCopies, ReaderEnds, Reads, fileVars
<1>3. VersionsWorkedOn' = VersionsWorkedOn
  BY <1>1, <1>2
<1>4. NewestVersion' = NewestVersion /\ ShownVersion' = ShownVersion
  <2>1. PickMeta' = PickMeta
    BY <1>2 DEF PickMeta
  <2>2. Meant(metas[mti_txnid % 2].pages)' = Meant(metas[mti_txnid % 2].pages)
        /\ Meant(PickMeta.pages)' = Meant(PickMeta.pages)
    BY <1>2, <2>1 DEF Meant, MainTree
  <2> QED
    BY <2>2 DEF StoreKnown, Reported
<1>5. VersionsRead = [i \in Readers |-> Gets(i)] /\ VersionsRead' = [i \in Readers |-> Gets(i)']
  BY DEF StoreKnown, Reported
<1>6. DOMAIN readers = Readers /\ readers[r] = [at |-> readers[r].at, seen |-> readers[r].seen,
                                                slot |-> readers[r].slot, snap |-> readers[r].snap]
  BY DEF StoreKnown, PagesInv, ReadersCounted
<1>7. ASSUME NEW f, readers' = [readers EXCEPT ![r] = f]
      PROVE  readers'[r] = f /\ \A i \in Readers : i # r => Gets(i)' = Gets(i)
  <2>1. readers'[r] = f /\ \A i \in Readers : i # r => readers'[i] = readers[i]
    BY <1>6, <1>7
  <2>2. ASSUME NEW i \in Readers, i # r PROVE Gets(i)' = Gets(i)
    <3>1. readers'[i] = readers[i]
      BY <2>1, <2>2
    <3>2. /\ MeantBy(metas[readers[i].slot % 2])' = MeantBy(metas[readers[i].slot % 2])
          /\ MeantBy(readers[i].snap)' = MeantBy(readers[i].snap)
      BY <1>2, <3>1 DEF MeantBy, Meant, MainTree
    <3> QED
      BY <3>1, <3>2 DEF Gets
  <2> QED
    BY <2>1, <2>2
<1>8. ASSUME NEW f, readers' = [readers EXCEPT ![r] = f], Gets(r)' = Gets(r) PROVE StoreSteps
  <2>1. \A i \in Readers : Gets(i)' = Gets(i)
    BY <1>7, <1>8
  <2>2. VersionsRead' = VersionsRead
    BY <1>5, <2>1
  <2> QED
    BY <1>3, <1>4, <2>2 DEF StoreSteps, StoreRests
<1>9. ASSUME NEW f, readers' = [readers EXCEPT ![r] = f], NEW a, NEW of, Gets(r)' = [at |-> a, of |-> of]
      PROVE  Store!Becomes(r, a, of)
  <2>1. \A i \in Readers : Gets(i)' = IF i = r THEN [at |-> a, of |-> of] ELSE Gets(i)
    BY <1>7, <1>9
  <2>2. VersionsRead' = [VersionsRead EXCEPT ![r] = [at |-> a, of |-> of]]
    BY <1>5, <2>1
  <2> QED
    BY <1>3, <1>4, <2>2 DEF Store!Becomes
<1>11. CASE ReaderLooks(r)
  <2>1. /\ readers[r].at = "idle"
        /\ readers' = [readers EXCEPT ![r] = [[readers[r] EXCEPT !.seen = mti_txnid] EXCEPT !.at = "looked"]]
    BY <1>11 DEF ReaderLooks, Reads
  <2>2. readers'[r].at = "looked"
    BY <1>6, <1>7, <2>1
  <2>3. Gets(r)' = Gets(r)
    BY <2>1, <2>2 DEF Gets
  <2> QED
    BY <1>8, <2>1, <2>3
<1>12. CASE ReaderClaims(r)
  <2>1. /\ readers[r].at = "looked"
        /\ readers' = [readers EXCEPT ![r] =
                          [[readers[r] EXCEPT !.slot = readers[r].seen] EXCEPT !.at = "claimed"]]
    BY <1>12 DEF ReaderClaims, Reads
  <2>2. readers'[r].at = "claimed"
    BY <1>6, <1>7, <2>1
  <2>3. Gets(r)' = Gets(r)
    BY <2>1, <2>2 DEF Gets
  <2> QED
    BY <1>8, <2>1, <2>3
<1>13. CASE ReaderChecks(r) /\ StillNewest(r)
  <2>1. /\ readers[r].at = "claimed" /\ readers[r].slot = mti_txnid
        /\ readers' = [readers EXCEPT ![r] = [readers[r] EXCEPT !.at = "checked"]]
    BY <1>13 DEF ReaderChecks, Reads, StillNewest
  <2>2. readers'[r].at = "checked" /\ readers'[r].slot = mti_txnid
    BY <1>6, <1>7, <2>1
  <2>3. Gets(r)' = [at |-> "asked", of |-> {ShownVersion}]
    <3>1. MeantBy(metas[mti_txnid % 2]) = {ShownVersion}
      BY DEF MeantBy, ShownIsWhole, StoreKnown, Reported
    <3>2. Gets(r)' = [at |-> "asked", of |-> MeantBy(metas[mti_txnid % 2])']
      BY <1>2, <2>2 DEF Gets, MeantBy, Meant, MainTree, Restrict, Run
    <3>3. MeantBy(metas[mti_txnid % 2])' = MeantBy(metas[mti_txnid % 2])
      BY <1>2 DEF MeantBy, Meant, MainTree
    <3> QED
      BY <3>1, <3>2, <3>3
  <2>4. Gets(r).at = "none"
    BY <2>1 DEF Gets
  <2>5. Store!Ask(r)
    BY <1>5, <1>9, <2>1, <2>3, <2>4 DEF Store!Ask
  <2> QED
    BY <2>5 DEF StoreSteps, Store!StoreNext
<1>14. CASE ReaderChecks(r) /\ ~ StillNewest(r)
  <2>1. /\ readers[r].at = "claimed"
        /\ readers' = [readers EXCEPT ![r] = [[readers[r] EXCEPT !.seen = mti_txnid] EXCEPT !.at = "looked"]]
    BY <1>14 DEF ReaderChecks, Reads
  <2>2. readers'[r].at = "looked"
    BY <1>6, <1>7, <2>1
  <2>3. Gets(r)' = Gets(r)
    BY <2>1, <2>2 DEF Gets
  <2> QED
    BY <1>8, <2>1, <2>3
<1>15. CASE ReaderCopies(r)
  <2> DEFINE snap == metas[readers[r].slot % 2]
  <2>1. /\ readers[r].at = "checked"
        /\ readers' = [readers EXCEPT ![r] = [[readers[r] EXCEPT !.snap = snap] EXCEPT !.at = "reading"]]
    BY <1>15 DEF ReaderCopies, Reads
  <2>2. readers'[r].at = "reading" /\ readers'[r].snap = snap
    BY <1>6, <1>7, <2>1
  <2>3. Gets(r) = [at |-> "asked", of |-> MeantBy(snap)]
    BY <2>1 DEF Gets
  <2> HIDE DEF snap
  <2>4. Gets(r)' = [at |-> "reading", of |-> MeantBy(snap)]
    BY <2>2 DEF Gets, MeantBy, Meant, MainTree, Restrict, Run
  <2>5. Store!Becomes(r, "reading", MeantBy(snap))
    BY <1>9, <2>1, <2>4
  <2>6. VersionsRead[r].at = "asked" /\ VersionsRead[r].of = MeantBy(snap)
    BY <1>5, <2>3
  <2>7. Store!Read(r)
    BY <2>5, <2>6 DEF Store!Read, Store!Becomes
  <2> QED
    BY <2>7 DEF StoreSteps, Store!StoreNext
<1>16. CASE ReaderEnds(r)
  <2>1. /\ readers[r].at = "reading"
        /\ readers' = [readers EXCEPT ![r] =
               [[readers[r] EXCEPT !.slot = -1, !.seen = 0, !.snap = EmptyMeta] EXCEPT !.at = "idle"]]
    BY <1>16 DEF ReaderEnds, Reads
  <2>2. readers'[r].at = "idle"
    BY <1>6, <1>7, <2>1
  <2>3. Gets(r)' = [at |-> "none", of |-> {}] /\ Gets(r).at = "reading"
    BY <2>1, <2>2 DEF Gets
  <2>4. Store!End(r)
    BY <1>5, <1>9, <2>1, <2>3 DEF Store!End
  <2> QED
    BY <2>4 DEF StoreSteps, Store!StoreNext
<1> QED
  BY <1>11, <1>12, <1>13, <1>14, <1>15, <1>16 DEF ReaderStep

\* A page that was shown to readers stays whole: only the other is written.
LEMMA ShownStaysWhole ==
    ASSUME PagesInv, PagesInv', ShownIsWhole, [PagesNext]_vars
    PROVE  ShownIsWhole'
<1>1. CASE at' \notin {"publish", "dead"}
  BY <1>1 DEF PagesInv, Counted, ShownIsWhole
<1>2. CASE WriteMeta
  <2>1. /\ metas' = [metas EXCEPT ![Toggle] = Snapshot(txn)] /\ mti_txnid' = mti_txnid
    BY <1>2 DEF WriteMeta, readVars
  <2>2. mti_txnid \in Nat /\ DOMAIN metas = {0, 1}
    BY DEF PagesInv, Counted
  <2>3. mti_txnid % 2 \in {0, 1} /\ Snapshot(txn).whole = TRUE
    BY <2>2 DEF Snapshot
  <2>4. metas'[mti_txnid % 2] = metas[mti_txnid % 2] \/ metas'[mti_txnid % 2] = Snapshot(txn)
    BY <2>1, <2>2, <2>3
  <2> QED
    BY <2>1, <2>3, <2>4 DEF ShownIsWhole
<1>3. CASE metas' = metas /\ mti_txnid' = mti_txnid
  BY <1>3 DEF ShownIsWhole
<1>4. at' \in {"publish", "dead"} => WriteMeta \/ (metas' = metas /\ mti_txnid' = mti_txnid)
  <2>2. ASSUME NEW r \in Readers, ReaderStep(r) PROVE metas' = metas /\ mti_txnid' = mti_txnid
    BY <2>2 DEF ReaderStep, ReaderLooks, ReaderClaims, ReaderChecks, ReaderCopies, ReaderEnds, Reads, fileVars
  <2>3. UNCHANGED vars => metas' = metas /\ mti_txnid' = mti_txnid
    BY DEF vars, fileVars, readVars
  <2>4. TxnBegin \/ TxnAbort \/ MainStep \/ ChildStep => at' \notin {"publish", "dead"}
    <3>1. \A kind, t : Writes(kind, t) => at' = "active"
      BY DEF Writes
    <3> QED
      BY <3>1 DEF TxnBegin, TxnAbort, TxnEnds, MainStep, MainTouch, MainNew, MainLoosen, MainRootFreed, MainDrop,
         MainOverflowFree, MainOverwrite, PageSpill, ChildStep, ChildBegin, ChildAbort, ChildCommit
  <2>5. CommitBegins \/ CommitEmpty \/ SaveStep \/ PageFlush \/ EnvSync
            => metas' = metas /\ mti_txnid' = mti_txnid
    BY DEF CommitBegins, CommitEmpty, SaveStep, SaveDelete, SaveFrees, SaveFreesDone, SaveReserve, SaveFill,
       Saves, PageFlush, EnvSync, fileVars, readVars
  <2>6. Publish \/ Recovery => at' \notin {"publish", "dead"} \/ (metas' = metas /\ mti_txnid' = mti_txnid)
    BY DEF Publish, TxnEnds, Recovery, MutexFailed, Reopen, fileVars, readVars
  <2>7. Fault => at' \notin {"publish", "dead"} \/ (metas' = metas /\ mti_txnid' = mti_txnid)
    BY DEF Fault, FlushFails, WriteMetaFails, WriterKilled, Crash, fileVars, readVars
  <2> QED
    BY <2>2, <2>3, <2>4, <2>5, <2>6, <2>7 DEF PagesNext, CommitStep
<1> QED
  BY <1>1, <1>2, <1>3, <1>4

\* Each step is one of the store, or changes nothing there.
LEMMA EachStoreStep ==
    ASSUME StoreKnown, ShownIsWhole, [PagesNext]_vars
    PROVE  StoreSteps
<1>1. ASSUME NEW r \in Readers, ReaderStep(r) PROVE StoreSteps
  BY <1>1, ReaderSteps
<1>2. TxnBegin \/ MainStep \/ ChildStep => StoreSteps
  BY WriterSteps
<1>3. CommitStep => StoreSteps
  BY SaveSteps, QuietSteps, MetaSteps, ShownSteps DEF CommitStep
<1>4. TxnAbort \/ Fault \/ Recovery \/ UNCHANGED vars => StoreSteps
  BY QuietSteps, MetaSteps, ShownSteps DEF Fault, Recovery
<1> QED
  BY <1>1, <1>2, <1>3, <1>4 DEF PagesNext

-----------------------------------------------------------------------------
(* A commit that writes nothing *)

\* Nothing says that there is something to write.
Unmarked(t, u) == ~t.marked /\ DOMAIN t.dirty = {} /\ DOMAIN u.dirty = {}

\* Of a transaction that has nothing to write all pages are those of the last commit; no page
\* is spilled without a flag that says so, and a nested transaction has the flags of its parent.
NothingToWrite ==
    at = "active" =>
        /\ ~txn.marked => txn.spills = {} /\ ~Parent.marked
        /\ ~Parent.marked => Parent.spills = {}
        /\ ~txn.error /\ Unmarked(txn, Parent) => txn.pages = PickMeta.pages
        /\ outer # <<>> /\ Unmarked(Parent, NoTxn) => Parent.pages = PickMeta.pages

\* A write to the main tree fails, or leaves something that says so.
Tells(t) ==
    /\ t.marked \/ (t.marked = txn.marked /\ t.spills \subseteq txn.spills)
    /\ t = txn \/ t.error = TRUE \/ t.marked \/ DOMAIN t.dirty # {}

\* The answer of mdb_page_get.
LEMMA HoldsDirtyIs ==
    ASSUME NEW h, Ready(txn)
    PROVE  HoldsDirty(h) \in Nat
<1>1. HoldsDirty(h) \in {0, 1, 2}
  BY ChainIs DEF Ready
<1> QED
  BY <1>1

\* Pages of the main tree that are written to, or new.
LEMMA PutTells ==
    ASSUME Ready(txn)
    PROVE  /\ \A h \in Main(1) : Tells(Touched(txn, h))
           /\ \A n \in Positive : Tells(NewPage(txn, n, TRUE))
           /\ \A h \in Main(2) : Tells(OverflowRewritten(txn, h))
<1>1. IsRecord(txn) /\ txn.room \in Nat /\ IsPages(txn.pages) /\ txn.error = FALSE
  BY DEF Ready, Books, IsTxn
<1>2. ASSUME NEW t, KeepsMarks(txn, t), t = txn \/ t.error = TRUE \/ DOMAIN t.dirty # {} PROVE Tells(t)
  BY <1>2 DEF Tells, KeepsMarks
<1>3. ASSUME NEW h \in Main(1) PROVE Tells(Touched(txn, h))
  <2> DEFINE t == Touched(txn, h)
  <2>1. h \in DOMAIN txn.pages /\ txn.pages[h].n = 1
    BY DEF Main
  <2>2. Touches(txn, t, h)
    BY <2>1, TouchedIs DEF Ready
  <2>3. KeepsMarks(txn, t)
    BY <1>1, HoldsDirtyIs, TouchedMarks
  <2> HIDE DEF t
  <2>4. t.error = TRUE \/ DOMAIN t.dirty # {}
    BY <2>2 DEF Touches, Follows
  <2>5. Tells(t)
    BY <1>2, <2>3, <2>4
  <2> QED
    BY <2>5 DEF t
<1>4. ASSUME NEW n \in Positive PROVE Tells(NewPage(txn, n, TRUE))
  <2> DEFINE t == NewPage(txn, n, TRUE)
  <2>1. Makes(txn, t, Parent, n, TRUE)
    BY NewPageIs DEF Ready
  <2>2. KeepsMarks(txn, t)
    BY <1>1, NewPageMarks
  <2> HIDE DEF t
  <2>3. t.error = TRUE \/ DOMAIN t.dirty # {}
    BY <2>1 DEF Makes, Adds
  <2>4. Tells(t)
    BY <1>2, <2>2, <2>3
  <2> QED
    BY <2>4 DEF t
<1>5. ASSUME NEW h \in Main(2) PROVE Tells(OverflowRewritten(txn, h))
  <2> DEFINE t == OverflowRewritten(txn, h)
  <2>1. h \in DOMAIN txn.pages /\ txn.pages[h].n \in Positive
    BY <1>1 DEF Main, IsPages
  <2>2. t.error \in BOOLEAN /\ (t.error = FALSE => t = txn \/ DOMAIN t.dirty # {})
    BY <2>1, OverflowRewrittenIs DEF Ready
  <2>3. KeepsMarks(txn, t)
    BY <1>1, <2>1, HoldsDirtyIs, OverwrittenMarks
  <2> HIDE DEF t
  <2>4. Tells(t)
    BY <1>2, <2>2, <2>3
  <2> QED
    BY <2>4 DEF t
<1> QED
  BY <1>3, <1>4, <1>5

\* Pages of the main tree that are given up, by way of a leaf that is dirty.
LEMMA DropTells ==
    ASSUME Ready(txn)
    PROVE  /\ \A h \in Main(1) : DirtyLeaves \ {h} # {} => Tells(Loosened(txn, h))
           /\ \A h \in DirtyLeaves : Tells(Freed([txn EXCEPT !.pages = Without(@, {h})], h))
           /\ \A h \in Main(2) : DirtyLeaves # {} => Tells(OverflowFreed(txn, h))
<1>1. IsRecord(txn)
  BY DEF Ready, Books, IsTxn
<1>2. ASSUME NEW t, KeepsMarks(txn, t), DOMAIN t.dirty # {} PROVE Tells(t)
  BY <1>2 DEF Tells, KeepsMarks
<1>3. ASSUME NEW h \in Main(1), DirtyLeaves \ {h} # {} PROVE Tells(Loosened(txn, h))
  <2>1. DOMAIN txn.dirty # {}
    BY <1>3 DEF DirtyLeaves
  <2>2. KeepsMarks(txn, Loosened(txn, h)) /\ Loosened(txn, h).dirty = txn.dirty
    BY <1>1, LoosenedMarks
  <2> QED
    BY <1>2, <2>1, <2>2
<1>4. ASSUME NEW h \in DirtyLeaves PROVE Tells(Freed([txn EXCEPT !.pages = Without(@, {h})], h))
  <2> DEFINE x == [txn EXCEPT !.pages = Without(txn.pages, {h})]
             t == Freed([txn EXCEPT !.pages = Without(@, {h})], h)
  <2>1. t = Freed(x, h)
    BY <1>1 DEF IsRecord
  <2>2. KeepsMarks(txn, x) /\ x.dirty = txn.dirty
    BY <1>1, PageMarks
  <2> HIDE DEF x, t
  <2>3. KeepsMarks(x, Freed(x, h)) /\ Freed(x, h).dirty = x.dirty
    BY <2>2, PageMarks DEF KeepsMarks
  <2>4. KeepsMarks(txn, t) /\ t.dirty = txn.dirty
    BY <2>1, <2>2, <2>3, MarksOn
  <2>5. DOMAIN txn.dirty # {}
    BY DEF DirtyLeaves
  <2>6. Tells(t)
    BY <1>2, <2>4, <2>5
  <2> QED
    BY <2>6 DEF t
<1>5. ASSUME NEW h \in Main(2), DirtyLeaves # {} PROVE Tells(OverflowFreed(txn, h))
  <2>1. PICK leaf : leaf \in DirtyLeaves
    BY <1>5
  <2>2. leaf \in DOMAIN txn.dirty /\ leaf # h
    BY <2>1 DEF DirtyLeaves, Main
  <2>3. KeepsMarks(txn, OverflowFreed(txn, h)) /\ DOMAIN txn.dirty \ {h} \subseteq DOMAIN OverflowFreed(txn, h).dirty
    BY <1>1, OverflowFreedMarks
  <2>4. DOMAIN OverflowFreed(txn, h).dirty # {}
    BY <2>2, <2>3
  <2> QED
    BY <1>2, <2>3, <2>4
<1> QED
  BY <1>3, <1>4, <1>5

\* Each write to the main tree, and the spilling of pages.
LEMMA MainTells ==
    ASSUME PagesInv, MainStep
    PROVE  Tells(txn') /\ at = "active" /\ at' = "active" /\ outer' = outer /\ metas' = metas
<1> DEFINE Told == Tells(txn') /\ at = "active" /\ at' = "active" /\ outer' = outer /\ metas' = metas
<1>1. ASSUME NEW kind, NEW t, Writes(kind, t), Ready(txn) => Tells(t) PROVE Told
  <2>1. Tells(t)
    BY <1>1, MainReady
  <2> QED
    BY <1>1, <2>1 DEF Writes, fileVars
<1> HIDE DEF Told
<1>2. 1 \in Positive /\ 2 \in Positive
  BY DEF Positive
<1>3. MainTouch \/ MainOverwrite => Told
  BY <1>1, PutTells DEF MainTouch, MainOverwrite
<1>4. MainNew => Told
  BY <1>1, <1>2, PutTells DEF MainNew
<1>5. MainLoosen => Told
  BY <1>1, DropTells DEF MainLoosen
<1>9. MainRootFreed => Told
  BY <1>1, DropTells DEF MainRootFreed
<1>10. MainOverflowFree => Told
  BY <1>1, DropTells DEF MainOverflowFree
<1>6. ASSUME MainDrop PROVE Told
  <2> DEFINE S == {h \in DOMAIN txn.pages : txn.pages[h].main}
             t == [txn EXCEPT !.pages = Without(@, S), !.marked = TRUE,
                              !.frees = @ \o Ascending(Covered(Restrict(txn.pages, S)))]
  <2>1. Writes("drop", t)
    BY <1>6 DEF MainDrop
  <2>2. ASSUME Ready(txn) PROVE t.marked
    <3>1. IsRecord(txn)
      BY <2>2 DEF Ready, Books, IsTxn
    <3> QED
      BY <3>1 DEF IsRecord
  <2> HIDE DEF t
  <2>3. Ready(txn) => Tells(t)
    BY <2>2 DEF Tells
  <2> QED
    BY <1>1, <2>1, <2>3
<1>7. ASSUME PageSpill PROVE Told
  <2>1. PICK hs \in SUBSET Spillable : txn' = SpilledOut(txn, hs)
    BY <1>7 DEF PageSpill
  <2>2. IsRecord(txn)
    BY <1>7, WriterReady DEF PageSpill, Writing, Ready, Books, IsTxn
  <2> DEFINE spills == txn.spills \cup hs
             dirty == Without(txn.dirty, hs)
             room == txn.room + Cardinality(hs)
  <2>3. txn' = [txn EXCEPT !.spills = spills, !.dirty = dirty, !.marked = TRUE, !.room = room]
    BY <2>1, <2>2 DEF SpilledOut, IsRecord
  <2> HIDE DEF spills, dirty, room
  <2>4. txn'.marked
    BY <2>2, <2>3 DEF IsRecord
  <2> QED
    BY <1>7, <2>4 DEF PageSpill, Tells, Told
<1>8. Told
  BY <1>3, <1>4, <1>5, <1>6, <1>7, <1>9, <1>10 DEF MainStep
<1> QED
  BY <1>8 DEF Told

\* A transaction begins with the pages of the last commit.
LEMMA BegunUnmarked ==
    ASSUME PagesInv, TxnBegin
    PROVE  NothingToWrite'
<1> DEFINE m == metas[mti_txnid % 2]
           z == [NoTxn EXCEPT !.txnid = mti_txnid + 1, !.pages = m.pages, !.root = m.root,
                              !.recs = m.recs, !.next = m.last + 1, !.oldest = txn.oldest]
<1>1. at = "idle" /\ txn' = z /\ outer' = outer /\ metas' = metas
  BY DEF TxnBegin, fileVars
<1>2. outer = <<>> /\ m = PickMeta
  BY <1>1 DEF PagesInv, Counted, WriterRight
<1> HIDE DEF m
<1>3. z.spills = {} /\ z.pages = m.pages
  BY DEF NoTxn
<1> HIDE DEF z
<1>4. Parent' = NoTxn /\ PickMeta' = PickMeta
  BY <1>1, <1>2 DEF Parent, PickMeta
<1>5. NoTxn.spills = {} /\ NoTxn.marked = FALSE
  BY DEF NoTxn
<1> QED
  BY <1>1, <1>2, <1>3, <1>4, <1>5 DEF NothingToWrite

\* A nested transaction begins, or is given up.
LEMMA NestedUnmarked ==
    ASSUME PagesInv, NothingToWrite
    PROVE  (ChildBegin => NothingToWrite') /\ (ChildAbort => NothingToWrite')
<1>1. NoTxn.spills = {} /\ NoTxn.marked = FALSE /\ DOMAIN NoTxn.dirty = {}
  BY DEF NoTxn
<1>2. ASSUME ChildBegin PROVE NothingToWrite'
  <2>1. /\ at = "active" /\ ~txn.error /\ outer = <<>> /\ outer' = <<txn>> /\ metas' = metas
        /\ txn' = [txn EXCEPT !.frees = <<>>, !.loose = <<>>, !.dirty = <<>>, !.spills = {}]
    BY <1>2 DEF ChildBegin, fileVars
  <2>2. IsRecord(txn)
    BY <2>1, WriterReady DEF Writing, Ready, Books, IsTxn
  <2>3. txn'.spills = {} /\ txn'.marked = txn.marked /\ txn'.pages = txn.pages
    BY <2>1, <2>2 DEF IsRecord
  <2>4. outer' # <<>> /\ Parent' = txn /\ Parent = NoTxn /\ PickMeta' = PickMeta
    BY <2>1 DEF Parent, PickMeta
  <2>5. ~txn.marked => txn.spills = {}
    BY <2>1 DEF NothingToWrite
  <2>6. ~txn.marked /\ DOMAIN txn.dirty = {} => txn.pages = PickMeta.pages
    BY <1>1, <2>1, <2>4 DEF NothingToWrite, Unmarked
  <2> QED
    BY <2>3, <2>4, <2>5, <2>6 DEF NothingToWrite, Unmarked
<1>3. ASSUME ChildAbort PROVE NothingToWrite'
  <2> DEFINE p == Parent
  <2>1. /\ at = "active" /\ outer # <<>> /\ outer' = Tail(outer) /\ metas' = metas
        /\ txn' = [p EXCEPT !.oldest = txn.oldest]
    BY <1>3 DEF ChildAbort, fileVars, Parent
  <2>2. outer = <<Head(outer)>> /\ IsRecord(p)
    BY <2>1 DEF PagesInv, WriterRight, InOrder, Books, IsTxn
  <2> HIDE DEF p
  <2>3. txn'.spills = p.spills /\ txn'.marked = p.marked /\ txn'.pages = p.pages /\ txn'.dirty = p.dirty
    BY <2>1, <2>2 DEF IsRecord
  <2>4. outer' = <<>> /\ Parent' = NoTxn /\ PickMeta' = PickMeta
    BY <2>1, <2>2 DEF Parent, PickMeta
  <2>5. ~p.marked => p.spills = {}
    BY <2>1 DEF NothingToWrite, p
  <2>6. ~p.marked /\ DOMAIN p.dirty = {} => p.pages = PickMeta.pages
    BY <1>1, <2>1 DEF NothingToWrite, Unmarked, p
  <2> QED
    BY <1>1, <2>3, <2>4, <2>5, <2>6 DEF NothingToWrite, Unmarked
<1> QED
  BY <1>2, <1>3

\* A nested transaction is merged with its parent.
LEMMA MergedUnmarked ==
    ASSUME PagesInv, NothingToWrite, ChildCommit
    PROVE  NothingToWrite'
<1> DEFINE p == Parent
           dirty == Over(txn.dirty, Without(p.dirty, txn.spills))
           spills == (p.spills \ DOMAIN txn.dirty) \cup txn.spills
<1>1. NoTxn.spills = {} /\ NoTxn.marked = FALSE /\ DOMAIN NoTxn.dirty = {}
  BY DEF NoTxn
<1>2. /\ at = "active" /\ ~txn.error /\ outer # <<>> /\ outer' = Tail(outer) /\ metas' = metas
      /\ txn' = [txn EXCEPT !.frees = p.frees \o txn.frees, !.loose = p.loose \o txn.loose,
                            !.dirty = dirty, !.spills = spills]
  <2>1. IsRecord(txn)
    BY WriterReady DEF ChildCommit, Writing, Ready, Books, IsTxn
  <2> QED
    BY <2>1 DEF ChildCommit, MergedSpills, fileVars, Parent, IsRecord
<1>3. IsRecord(txn)
  BY <1>2, WriterReady DEF Writing, Ready, Books, IsTxn
<1>4. outer = <<Head(outer)>>
  BY <1>2 DEF PagesInv, WriterRight
<1>5. DOMAIN dirty = DOMAIN txn.dirty \cup (DOMAIN p.dirty \ txn.spills)
  BY DEF Over, Without, Restrict
<1>6. ~txn.marked => spills = {}
  BY <1>2 DEF NothingToWrite
<1>7. ~txn.marked => txn.spills = {}
  BY <1>2 DEF NothingToWrite
<1>8. ~txn.marked /\ DOMAIN txn.dirty = {} /\ DOMAIN p.dirty = {} => txn.pages = PickMeta.pages
  BY <1>2 DEF NothingToWrite, Unmarked
<1> HIDE DEF p, dirty, spills
<1>9. txn'.spills = spills /\ txn'.marked = txn.marked /\ txn'.pages = txn.pages /\ txn'.dirty = dirty
  BY <1>2, <1>3 DEF IsRecord
<1>10. outer' = <<>> /\ Parent' = NoTxn /\ PickMeta' = PickMeta
  BY <1>2, <1>4 DEF Parent, PickMeta
<1> QED
  BY <1>1, <1>5, <1>6, <1>7, <1>8, <1>9, <1>10 DEF NothingToWrite, Unmarked

\* It is so after each step.
LEMMA NothingToWriteStays ==
    ASSUME PagesInv, NothingToWrite, [PagesNext]_vars
    PROVE  NothingToWrite'
<1>1. ASSUME MainStep PROVE NothingToWrite'
  <2>1. Tells(txn') /\ at = "active" /\ outer' = outer /\ metas' = metas
    BY <1>1, MainTells
  <2>2. Parent' = Parent /\ PickMeta' = PickMeta
    BY <2>1 DEF Parent, PickMeta
  <2> QED
    BY <2>1, <2>2 DEF NothingToWrite, Unmarked, Tells
<1>2. CASE at' = "active" /\ txn' = txn /\ outer' = outer /\ metas' = metas /\ at = "active"
  BY <1>2 DEF NothingToWrite, Unmarked, Parent, PickMeta
<1>3. CASE at' # "active"
  BY <1>3 DEF NothingToWrite
<1>4. ASSUME (\E r \in Readers : ReaderStep(r)) \/ UNCHANGED vars
      PROVE  at' = at /\ txn' = txn /\ outer' = outer /\ metas' = metas
  <2>1. ASSUME NEW r \in Readers, NEW a, NEW f, Reads(r, a, f)
        PROVE  at' = at /\ txn' = txn /\ outer' = outer /\ metas' = metas
    BY <2>1 DEF Reads, fileVars
  <2>2. ASSUME NEW r \in Readers, ReaderStep(r)
        PROVE  at' = at /\ txn' = txn /\ outer' = outer /\ metas' = metas
    BY <2>1, <2>2 DEF ReaderStep, ReaderLooks, ReaderClaims, ReaderChecks, ReaderCopies, ReaderEnds
  <2>3. UNCHANGED vars => at' = at /\ txn' = txn /\ outer' = outer /\ metas' = metas
    BY DEF vars, fileVars
  <2> QED
    BY <1>4, <2>2, <2>3
<1>5. TxnAbort => at' # "active"
  BY DEF TxnAbort, TxnEnds
<1>6. CommitStep => at' # "active"
  <2>1. ASSUME NEW t, NEW next, Saves(t, next), next # "active" PROVE at' # "active"
    BY <2>1 DEF Saves
  <2>2. CommitBegins => at' # "active"
    BY <2>1 DEF CommitBegins
  <2>3. SaveStep => at' # "active"
    BY <2>1 DEF SaveStep, SaveDelete, SaveFrees, SaveFreesDone, SaveReserve, SaveFill
  <2>4. CommitEmpty \/ PageFlush \/ EnvSync \/ WriteMeta \/ Publish => at' # "active"
    BY DEF CommitEmpty, TxnEnds, PageFlush, EnvSync, WriteMeta, Publish
  <2> QED
    BY <2>2, <2>3, <2>4 DEF CommitStep
<1>7. Fault \/ Recovery => at' # "active"
  BY DEF Fault, FlushFails, WriteMetaFails, WriterKilled, Crash, Recovery, MutexFailed, Reopen
<1>8. PagesNext => NothingToWrite'
  BY <1>1, <1>2, <1>3, <1>4, <1>5, <1>6, <1>7, BegunUnmarked, NestedUnmarked, MergedUnmarked
     DEF PagesNext, ChildStep
<1> QED
  BY <1>2, <1>3, <1>4, <1>8

\* A commit that finds nothing to write has nothing to write: mdb_txn_commit looks at the list
\* of dirty pages and at the flags of mdb_page_spill and mdb_drop.
LEMMA NoneUnwritten ==
    PagesInv /\ NothingToWrite => NothingUnwritten
<1> SUFFICES ASSUME PagesInv, NothingToWrite, at = "active", outer = <<>>, ~txn.error, ~Written
             PROVE  MainTree(txn.pages) = MainTree(PickMeta.pages)
  BY DEF NothingUnwritten
<1>1. ~txn.marked /\ DOMAIN txn.dirty = {}
  BY DEF Written
<1>2. DOMAIN Parent.dirty = {}
  BY DEF Parent, NoTxn
<1>3. txn.pages = PickMeta.pages
  BY <1>1, <1>2 DEF NothingToWrite, Unmarked
<1> QED
  BY <1>3

-----------------------------------------------------------------------------
(* The pages implement the store *)

\* At first the store has one version, which readers are shown, and nobody works or reads.
LEMMA StoreBegins ==
    PagesInit => ShownIsWhole /\ NothingToWrite /\ Store!StoreInit
<1> SUFFICES ASSUME PagesInit PROVE ShownIsWhole /\ NothingToWrite /\ Store!StoreInit
  OBVIOUS
<1>1. /\ disk = file /\ metas[0] = EmptyMeta /\ metas[1] = EmptyMeta /\ mti_txnid = 0 /\ at = "idle"
      /\ readers = [r \in Readers |-> [at |-> "idle", seen |-> 0, slot |-> -1, snap |-> EmptyMeta]]
  BY DEF PagesInit
<1>2. mti_txnid % 2 = 0 /\ PickMeta = EmptyMeta
  BY <1>1 DEF PickMeta
<1>3. ShownIsWhole
  BY <1>1, <1>2 DEF ShownIsWhole, EmptyMeta
<1>4. NothingToWrite
  BY <1>1 DEF NothingToWrite
<1>5. NewestVersion = ShownVersion
  BY <1>1, <1>2 DEF NewestVersion, ShownVersion
<1>6. VersionsWorkedOn = <<>>
  BY <1>1 DEF VersionsWorkedOn
<1>7. \A r \in Readers : ReadBy(r) = [at |-> "none", of |-> {}]
  BY <1>1 DEF ReadBy
<1>8. VersionsRead = [r \in Readers |-> [at |-> "none", of |-> {}]]
  BY <1>7 DEF VersionsRead
<1> QED
  BY <1>3, <1>4, <1>5, <1>6, <1>8 DEF Store!StoreInit, Store!Nothing

\* The data file is an atomic store: each step of the pages is a step of the store or changes
\* nothing there (mdb_txn_commit, mdb_env_write_meta, mdb_txn_renew0, mdb_mutex_failed), and a
\* commit that writes nothing had nothing to write.
THEOREM PagesAreAnAtomicStore ==
    PagesSpec => IsAtomicStore
<1>1. PagesInv /\ PagesInv' /\ ShownIsWhole /\ [PagesNext]_vars => ShownIsWhole'
  BY ShownStaysWhole
<1>2. PagesInv /\ NothingToWrite /\ [PagesNext]_vars => NothingToWrite'
  BY NothingToWriteStays
<1>3. PagesSpec => [](PagesInv /\ ShownIsWhole /\ NothingToWrite)
  BY <1>1, <1>2, PagesInOrder, StoreBegins, PTL DEF PagesSpec
<1>4. PagesInv /\ ShownIsWhole => Reported
  BY ReportedIs
<1>5. (PagesInv /\ ShownIsWhole => Reported)'
  BY <1>4, PTL
<1>6. ASSUME PagesInv, ShownIsWhole, PagesInv', ShownIsWhole', [PagesNext]_vars
      PROVE  [Store!StoreNext]_(Store!storeVars)
  <2>1. StoreKnown
    BY <1>4, <1>5, <1>6 DEF StoreKnown
  <2>2. StoreSteps
    BY <1>6, <2>1, EachStoreStep
  <2> QED
    BY <2>2 DEF StoreSteps, StoreRests, Store!storeVars
<1>7. PagesSpec => Store!StoreSpec
  BY <1>3, <1>6, StoreBegins, PTL DEF PagesSpec, Store!StoreSpec
<1>8. PagesInv /\ NothingToWrite => NothingUnwritten
  BY NoneUnwritten
<1>9. PagesSpec => []NothingUnwritten
  BY <1>3, <1>8, PTL
<1> QED
  BY <1>7, <1>9, PTL DEF IsAtomicStore


=============================================================================
