--------------------------- MODULE LmdbPagesMoves ----------------------------
(***************************************************************************)
(* What the writer of LmdbPages does to its pages, for any number of       *)
(* pages: the books a transaction keeps, and that allocating, copying,     *)
(* rewriting and freeing pages leave them in order.                        *)
(*                                                                         *)
(* Books(t, u, loan): every page that transaction t knows is used, free to *)
(* be taken, freed, loose, in a record it has not read yet, given up by    *)
(* its parent u, or on `loan` to the operation under way, and no page is   *)
(* two of these.  A move is a change of t that keeps its books, touches no *)
(* page of a snapshot, and loses no page's newest copy.                    *)
(*                                                                         *)
(* Then the operations on the main tree, and the steps of saving the free  *)
(* list, which work on the list while they save it: that each is a move or *)
(* fails, what it does to the free-list tree, that it leaves the main tree *)
(* alone, and where in the list the part of each record begins.  Last,     *)
(* what each operation leaves of the marks that say there is something to  *)
(* write.                                                                  *)
(***************************************************************************)
EXTENDS LmdbPages, FiniteSetTheorems, WellFoundedInduction, TLAPS

-----------------------------------------------------------------------------
(* What a transaction keeps of its pages *)

Loose(t) == ToSet(t.loose)

FreedBy(t) == ToSet(t.frees)

\* Records whose pages the transaction has not taken into pghead.
Unread(t) == {id \in DOMAIN t.recs : (t.pglast = 0 \/ t.pglast < id) /\ id < t.txnid}

Waiting(t) == UNION {t.recs[id].ids : id \in Unread(t)}

\* Where it may take a page from.
Takeable(t) == t.pghead \cup Waiting(t)

Known(t) == 2 .. t.next - 1

\* Runs of pages that the transaction uses or holds dirty: first page and length.
Blocks(t) == {<<h, t.pages[h].n>> : h \in DOMAIN t.pages} \cup {<<h, t.dirty[h]>> : h \in DOMAIN t.dirty}

RunOf(b) == Run(b[1], b[2])

Tiled(blocks) == \A b, c \in blocks : b = c \/ RunOf(b) \cap RunOf(c) = {}

DirtyPages(t) == UNION {Run(h, t.dirty[h]) : h \in DOMAIN t.dirty}

\* What the parent has given up, and gets back when the child ends.
Kept(u) == FreedBy(u) \cup Loose(u)

\* The dirty pages that its room counts: its own, and those of its parent it has not spilled.
Counts(t, u) == DOMAIN t.dirty \cup (DOMAIN u.dirty \ t.spills)

Space(t, u) == t.room + Cardinality(Counts(t, u))

Positive == Nat \ {0}

IsPages(pages) ==
    /\ DOMAIN pages \subseteq Nat
    /\ \A h \in DOMAIN pages :
           /\ pages[h] = [n |-> pages[h].n, stamp |-> pages[h].stamp, main |-> pages[h].main]
           /\ pages[h].n \in Positive /\ pages[h].main \in BOOLEAN /\ pages[h].stamp \in Nat

IsRecs(recs) ==
    /\ DOMAIN recs \subseteq Nat /\ IsFiniteSet(DOMAIN recs)
    /\ \A id \in DOMAIN recs :
           /\ recs[id] = [ids |-> recs[id].ids, room |-> recs[id].room, ov |-> recs[id].ov]
           /\ recs[id].room \in Nat /\ recs[id].ov \in Nat

IsRecord(t) ==
    t = [txnid |-> t.txnid, pages |-> t.pages, root |-> t.root, recs |-> t.recs, next |-> t.next,
         frees |-> t.frees, loose |-> t.loose, dirty |-> t.dirty, spills |-> t.spills,
         marked |-> t.marked, room |-> t.room, error |-> t.error, listed |-> t.listed,
         pghead |-> t.pghead, pglast |-> t.pglast, oldest |-> t.oldest]

\* t is the record of a transaction.
IsTxn(t) ==
    /\ IsRecord(t)
    /\ t.txnid \in Nat /\ t.next \in Nat /\ t.root \in Nat /\ t.pglast \in Nat /\ t.oldest \in Nat
    /\ t.room \in Nat /\ t.error \in BOOLEAN /\ t.listed \in BOOLEAN
    /\ t.frees \in Seq(Nat) /\ t.loose \in Seq(Nat)
    /\ IsPages(t.pages) /\ IsRecs(t.recs)
    /\ DOMAIN t.dirty \subseteq Nat /\ \A h \in DOMAIN t.dirty : t.dirty[h] \in Positive

\* No element is in two of these sets.
Apart(used, head, freed, loose, waiting, loan, kept) ==
    /\ used \cap (head \cup freed \cup loose \cup waiting \cup loan \cup kept) = {}
    /\ head \cap (freed \cup loose \cup waiting \cup loan \cup kept) = {}
    /\ freed \cap (loose \cup waiting \cup loan \cup kept) = {}
    /\ loose \cap (waiting \cup loan \cup kept) = {}
    /\ waiting \cap (loan \cup kept) = {}
    /\ loan \cap kept = {}

OnceEach(list) == \A i, j \in DOMAIN list : list[i] = list[j] => i = j

RecordsApart(recs, S) == \A id, other \in S : id # other => recs[id].ids \cap recs[other].ids = {}

Placed(t, u, loan) ==
    /\ 2 <= t.next /\ t.next <= MaxPg
    /\ Covered(t.pages) \cup t.pghead \cup FreedBy(t) \cup Loose(t) \cup Waiting(t) \cup loan \cup Kept(u)
           = Known(t)
    /\ Apart(Covered(t.pages), t.pghead, FreedBy(t), Loose(t), Waiting(t), loan, Kept(u))
    /\ OnceEach(t.loose)
    /\ RecordsApart(t.recs, Unread(t))

\* Runs that are used or dirty do not meet, and none is to be taken.
Laid(t, u) ==
    /\ Tiled(Blocks(t) \cup Blocks(u))
    /\ \A b \in Blocks(t) \cup Blocks(u) : RunOf(b) \subseteq Known(t) \ Takeable(t)
    /\ DirtyPages(t) \cap Kept(u) = {}
    /\ \A h \in Loose(t) : h \in DOMAIN t.dirty /\ t.dirty[h] = 1

\* A spilled page is not dirty, and not to be taken.
SpillsRight(t, u) ==
    /\ t.spills \cap (DOMAIN t.dirty \cup Loose(t) \cup Kept(u)) = {}
    /\ u.spills \cap DOMAIN u.dirty = {}
    /\ t.spills \cup u.spills \subseteq Known(t) \ Takeable(t)
    /\ \A k \in t.spills \cup u.spills, b \in Blocks(t) \cup Blocks(u) : k \in RunOf(b) => k = b[1]

\* A child writes to no page of its parent but those the parent has written to itself.
SparesParent(t, u) ==
    \A h \in (DOMAIN t.dirty \cup t.spills) \cap DOMAIN u.pages : h \in DOMAIN u.dirty \cup u.spills

\* Its records are numbered, and it has a list of free pages once it has read one.
Numbered(t) ==
    /\ t.pglast < t.txnid /\ t.oldest < t.txnid
    /\ \A id \in DOMAIN t.recs : 0 < id /\ id <= t.txnid
    /\ t.pglast = 0 => t.listed = FALSE /\ t.pghead = {}

Books(t, u, loan) ==
    /\ IsTxn(t) /\ IsTxn(u)
    /\ Placed(t, u, loan) /\ Laid(t, u) /\ SpillsRight(t, u) /\ SparesParent(t, u)
    /\ Numbered(t)

\* The free-list tree: its leaf, and the overflow pages of the records.
FreeTree(pages, root, recs) ==
    /\ root # 0 => root \in DOMAIN pages /\ pages[root].n = 1 /\ pages[root].main = FALSE
    /\ DOMAIN recs # {} => root # 0
    /\ \A id \in DOMAIN recs :
           recs[id].ov # 0 => /\ recs[id].ov \in DOMAIN pages /\ pages[recs[id].ov].main = FALSE
                              /\ recs[id].ov # root
    /\ \A id, other \in DOMAIN recs : recs[id].ov # 0 /\ recs[id].ov = recs[other].ov => id = other

-----------------------------------------------------------------------------
(* What a move must not do *)

\* The pages P of a snapshot of transaction s are none that t writes to or takes.
Spares(t, u, P, s) ==
    /\ P \subseteq Known(t)
    /\ P \cap (t.pghead \cup Loose(t) \cup DirtyPages(t) \cup DirtyPages(u)) = {}
    /\ \A h \in (t.spills \cup u.spills) \cap DOMAIN t.pages : Run(h, t.pages[h].n) \cap P = {}
    /\ \A id \in Unread(t) : id <= s => t.recs[id].ids \cap P = {}

\* t takes the pages of no record that a snapshot of transaction s may need.
Watched(t, s) == s \in Nat /\ t.oldest <= s + 1 /\ FindOldest(t) <= s + 1

OnFile(contents, t, h) == \A p \in Run(h, t.pages[h].n) : contents[p] = t.pages[h].stamp

\* The newest copy of each page is where it is looked for.
InPlace(contents, t, u) ==
    \A h \in DOMAIN t.pages :
        h \notin DOMAIN t.dirty =>
            IF h \notin t.spills /\ h \in DOMAIN u.dirty /\ h \notin u.spills
            THEN h \in DOMAIN u.pages /\ u.pages[h].stamp = t.pages[h].stamp
            ELSE OnFile(contents, t, h)

\* What no operation changes, even one that fails.
Steady(t, t2) == t2.txnid = t.txnid /\ t2.oldest \in {t.oldest, FindOldest(t)}

\* The list of freed pages only gets longer.
FreesMore(t, t2) ==
    /\ Len(t.frees) <= Len(t2.frees)
    /\ Len(t.frees) = Len(t2.frees) => t2.frees = t.frees

Moves(t, t2, u, loan, loan2) ==
    /\ Books(t2, u, loan2)
    /\ Steady(t, t2)
    /\ Space(t2, u) = Space(t, u) /\ FreesMore(t, t2)
    /\ t2.recs = t.recs
    /\ FreedBy(t) \subseteq FreedBy(t2)
    /\ t2.pglast = t.pglast \/ (t2.pglast > t.pglast /\ t2.pglast \in DOMAIN t.recs)
    /\ InPlace(file, t, u) => InPlace(file, t2, u)
    /\ \A P, s : Spares(t, u, P, s) /\ Watched(t, s) => Spares(t2, u, P, s)


-----------------------------------------------------------------------------
(* Numbers, lists and functions *)

\* Of some natural numbers one is the least.
LEMMA LeastNumber ==
    ASSUME NEW S \in SUBSET Nat, S # {}
    PROVE  \E n \in S : \A k \in S : n <= k
<1> DEFINE below(n) == 0 .. n
           belows == {below(n) : n \in S}
<1>1. \A n \in Nat : below(n) \in FiniteSubsetsOf(Nat)
  BY FS_Interval DEF FiniteSubsetsOf
<1>2. belows \subseteq FiniteSubsetsOf(Nat) /\ belows # {}
  BY <1>1
<1>3. PICK first \in belows : \A other \in belows : ~ (<<other, first>> \in StrictSubsetOrdering(Nat))
  <2> HIDE DEF belows
  <2> QED
    BY <1>2, FS_StrictSubsetOrderingWellFounded, WFMin
<1>4. PICK n \in S : first = below(n)
  BY <1>3
<1>5. ASSUME NEW k \in S, k < n
      PROVE  FALSE
  <2>1. below(k) \subseteq below(n) /\ n \in below(n) /\ n \notin below(k)
    BY <1>5
  <2>2. <<below(k), below(n)>> \in StrictSubsetOrdering(Nat)
    BY <2>1 DEF StrictSubsetOrdering
  <2> QED
    BY <1>3, <1>4, <1>5, <2>2
<1> QED
  BY <1>5

\* Every set of numbers has a least.
LEMMA LeastIs ==
    ASSUME NEW S \in SUBSET Nat, S # {}
    PROVE  Least(S) \in S /\ \A k \in S : Least(S) <= k
  BY LeastNumber DEF Least

Below(S, x) == {y \in S : y < x}

\* How many are below a number of a finite set, and that this grows with the number.
LEMMA BelowCounts ==
    ASSUME NEW S \in SUBSET Nat, IsFiniteSet(S)
    PROVE  /\ \A x \in S : Cardinality(Below(S, x)) \in 0 .. Cardinality(S) - 1
           /\ \A x, y \in S : x < y => Cardinality(Below(S, x)) < Cardinality(Below(S, y))
<1>1. ASSUME NEW x \in S
      PROVE  IsFiniteSet(Below(S, x)) /\ Cardinality(Below(S, x)) \in Nat /\ x \notin Below(S, x)
  <2>1. x \in Nat /\ Below(S, x) \in SUBSET S
    BY DEF Below
  <2>2. x \notin Below(S, x)
    BY <2>1 DEF Below
  <2> QED
    BY <2>1, <2>2, FS_Subset, FS_CardinalityType
\* A set that holds x and those below it has one more.
<1>2. ASSUME NEW x \in S, NEW T, IsFiniteSet(T), Below(S, x) \cup {x} \subseteq T
      PROVE  Cardinality(T) \in Nat /\ Cardinality(Below(S, x)) < Cardinality(T)
  <2>1. Cardinality(Below(S, x) \cup {x}) = Cardinality(Below(S, x)) + 1
    BY <1>1, FS_AddElement
  <2>2. Cardinality(Below(S, x) \cup {x}) <= Cardinality(T) /\ Cardinality(T) \in Nat
    BY <1>2, FS_Subset, FS_CardinalityType
  <2> QED
    BY <1>1, <2>1, <2>2
<1>3. ASSUME NEW x \in S
      PROVE  Cardinality(Below(S, x)) \in 0 .. Cardinality(S) - 1
  <2>1. Below(S, x) \cup {x} \subseteq S
    BY DEF Below
  <2>2. Cardinality(S) \in Nat /\ Cardinality(Below(S, x)) < Cardinality(S)
    BY <1>2, <2>1
  <2> QED
    BY <1>1, <2>2
<1>4. ASSUME NEW x \in S, NEW y \in S, x < y
      PROVE  Cardinality(Below(S, x)) < Cardinality(Below(S, y))
  <2>1. Below(S, x) \cup {x} \subseteq Below(S, y)
    <3>1. \A z \in S : z \in Nat
      OBVIOUS
    <3>2. ASSUME NEW z \in Below(S, x) \cup {x} PROVE z \in S /\ z < y
      <4>1. z \in S /\ (z < x \/ z = x)
        BY DEF Below
      <4>2. z \in Nat /\ x \in Nat /\ y \in Nat
        BY <3>1, <4>1
      <4> QED
        BY <1>4, <4>1, <4>2
    <3> QED
      BY <3>2 DEF Below
  <2> QED
    BY <1>1, <1>2, <2>1
<1> QED
  BY <1>3, <1>4

\* A finite set of numbers as a list: all of them, each once, the smallest first.
LEMMA AscendingIs ==
    ASSUME NEW S \in SUBSET Nat, IsFiniteSet(S)
    PROVE  /\ Cardinality(S) \in Nat
           /\ Ascending(S) \in Seq(Nat) /\ Len(Ascending(S)) = Cardinality(S)
           /\ \A i \in 1 .. Cardinality(S) : Ascending(S)[i] \in S
           /\ \A i, j \in 1 .. Cardinality(S) : i < j => Ascending(S)[i] < Ascending(S)[j]
           /\ \A x \in S : \E i \in 1 .. Cardinality(S) : Ascending(S)[i] = x
<1> DEFINE n == Cardinality(S)
           list == Ascending(S)
           rank == [x \in S |-> Cardinality(Below(S, x))]
           ranks == {rank[x] : x \in S}
<1>1. n \in Nat /\ \A x \in S : x \in Nat
  BY FS_CardinalityType
<1>2. \A x \in S : rank[x] \in 0 .. n - 1
  BY BelowCounts
<1>3. \A x, y \in S : x < y => rank[x] < rank[y]
  BY BelowCounts
<1>4. \A x, y \in S : rank[x] = rank[y] => x = y
  <2> HIDE DEF rank
  <2> QED
    BY <1>1, <1>2, <1>3
<1>5. \A k \in 0 .. n - 1 : \E x \in S : rank[x] = k
  <2>1. rank \in Bijection(S, ranks)
    <3>1. rank \in [S -> ranks] /\ \A r \in ranks : \E x \in S : rank[x] = r
      OBVIOUS
    <3> HIDE DEF rank, ranks
    <3> QED
      BY <1>4, <3>1 DEF Bijection, Injection, Surjection, IsInjective
  <2>2. ExistsBijection(S, ranks)
    BY <2>1 DEF ExistsBijection
  <2>3. Cardinality(ranks) = n
    <3> HIDE DEF rank, ranks
    <3> QED
      BY <2>2, FS_Bijection
  <2>4. ranks \in SUBSET (0 .. n - 1)
    BY <1>2
  <2>5. IsFiniteSet(0 .. n - 1) /\ Cardinality(0 .. n - 1) = n
    <3> HIDE DEF n
    <3>1. 0 \in Int /\ n - 1 \in Int
      BY <1>1
    <3>2. IsFiniteSet(0 .. n - 1) /\ Cardinality(0 .. n - 1) = IF 0 > n - 1 THEN 0 ELSE n - 1 - 0 + 1
      BY <3>1, FS_Interval
    <3> QED
      BY <1>1, <3>2
  <2>6. 0 .. n - 1 = ranks
    <3> HIDE DEF rank, ranks, n
    <3> QED
      BY <2>3, <2>4, <2>5, FS_Subset
  <2> QED
    BY <2>6
<1>6. list = [i \in 1 .. n |-> CHOOSE x \in S : Cardinality(Below(S, x)) = i - 1]
  BY DEF Ascending, Below
<1>7. \A i \in 1 .. n : list[i] \in S /\ rank[list[i]] = i - 1
  <2>1. SUFFICES ASSUME NEW i \in 1 .. n PROVE list[i] \in S /\ rank[list[i]] = i - 1
    OBVIOUS
  <2>2. \E x \in S : rank[x] = i - 1
    <3> HIDE DEF rank, n
    <3> QED
      BY <1>1, <1>5
  <2>3. \E x \in S : Cardinality(Below(S, x)) = i - 1
    BY <2>2
  <2>4. list[i] = CHOOSE x \in S : Cardinality(Below(S, x)) = i - 1
    BY <1>6
  <2>5. list[i] \in S /\ Cardinality(Below(S, list[i])) = i - 1
    <3> HIDE DEF rank, list
    <3> QED
      BY <2>3, <2>4
  <2> HIDE DEF list
  <2> QED
    BY <2>5
<1>8. list \in [1 .. n -> Nat]
  <2> HIDE DEF rank, n
  <2> QED
    BY <1>1, <1>6, <1>7
<1>9. list \in Seq(Nat) /\ Len(list) = n
  <2> HIDE DEF list, n
  <2> QED
    BY <1>1, <1>8
<1>10. ASSUME NEW i \in 1 .. n, NEW j \in 1 .. n, i < j
       PROVE  list[i] < list[j]
  <2> DEFINE x == list[i]
             y == list[j]
  <2>1. x \in S /\ y \in S /\ rank[x] = i - 1 /\ rank[y] = j - 1
    BY <1>7
  <2>2. i \in Int /\ j \in Int
    BY <1>1
  <2> HIDE DEF rank, list, n, x, y
  <2>6. x \in Nat /\ y \in Nat
    BY <1>1, <2>1
  <2>3. rank[x] < rank[y]
    BY <1>10, <2>1, <2>2
  <2>4. ~ (y < x) /\ x # y
    BY <1>2, <1>3, <2>1, <2>6, <2>3
  <2>5. x < y
    BY <2>6, <2>4
  <2> QED
    BY <2>5 DEF x, y
<1>11. ASSUME NEW x \in S
       PROVE  \E i \in 1 .. n : list[i] = x
  <2>1. rank[x] + 1 \in 1 .. n
    <3> HIDE DEF rank, n
    <3> QED
      BY <1>1, <1>2
  <2>2. PICK i \in 1 .. n : i = rank[x] + 1
    BY <2>1
  <2> HIDE DEF rank, list, n
  <2>3. list[i] \in S /\ rank[list[i]] = i - 1
    BY <1>7
  <2>4. rank[list[i]] = rank[x]
    BY <1>1, <1>2, <2>2, <2>3
  <2>5. list[i] = x
    BY <1>4, <2>3, <2>4
  <2> QED
    BY <2>5
<1>12. \A i \in 1 .. n : list[i] \in S
  BY <1>7
<1>13. \A i, j \in 1 .. n : i < j => list[i] < list[j]
  BY <1>10
<1>14. \A x \in S : \E i \in 1 .. n : list[i] = x
  BY <1>11
<1> QED
  BY <1>1, <1>9, <1>12, <1>13, <1>14

\* The elements of a list.
LEMMA ToSetOf ==
    ASSUME NEW S, NEW list \in Seq(S)
    PROVE  ToSet(list) \subseteq S /\ \A x : x \in ToSet(list) <=> \E i \in 1 .. Len(list) : x = list[i]
  BY DEF ToSet

\* The elements of two lists joined.
LEMMA ToSetJoined ==
    ASSUME NEW S, NEW first \in Seq(S), NEW second \in Seq(S)
    PROVE  first \o second \in Seq(S) /\ ToSet(first \o second) = ToSet(first) \cup ToSet(second)
<1> DEFINE all == first \o second
<1>1. all \in Seq(S) /\ Len(all) = Len(first) + Len(second) /\ Len(first) \in Nat /\ Len(second) \in Nat
  OBVIOUS
<1>2. \A i \in 1 .. Len(all) : all[i] = IF i <= Len(first) THEN first[i] ELSE second[i - Len(first)]
  OBVIOUS
<1>3. ASSUME NEW x \in ToSet(all) PROVE x \in ToSet(first) \cup ToSet(second)
  <2>1. PICK i \in 1 .. Len(all) : x = all[i]
    BY <1>1, ToSetOf
  <2>2. CASE i <= Len(first)
    <3>1. i \in 1 .. Len(first) /\ x = first[i]
      BY <1>1, <1>2, <2>1, <2>2
    <3> QED
      BY <3>1, ToSetOf
  <2>3. CASE ~ (i <= Len(first))
    <3>1. i - Len(first) \in 1 .. Len(second) /\ x = second[i - Len(first)]
      BY <1>1, <1>2, <2>1, <2>3
    <3> QED
      BY <3>1, ToSetOf
  <2> QED
    BY <2>2, <2>3
<1>4. ASSUME NEW x \in ToSet(first) PROVE x \in ToSet(all)
  <2>1. PICK i \in 1 .. Len(first) : x = first[i]
    BY ToSetOf
  <2>2. i \in 1 .. Len(all) /\ x = all[i]
    BY <1>1, <1>2, <2>1
  <2> QED
    BY <1>1, <2>2, ToSetOf
<1>5. ASSUME NEW x \in ToSet(second) PROVE x \in ToSet(all)
  <2>1. PICK i \in 1 .. Len(second) : x = second[i]
    BY ToSetOf
  <2>2. PICK j \in 1 .. Len(all) : j = i + Len(first)
    BY <1>1
  <2>3. ~ (j <= Len(first)) /\ j - Len(first) = i
    BY <1>1, <2>2
  <2>4. x = all[j]
    BY <1>2, <2>1, <2>3
  <2> QED
    BY <1>1, <2>4, ToSetOf
<1> QED
  BY <1>1, <1>3, <1>4, <1>5

\* The elements of a list with one more.
LEMMA ToSetAppended ==
    ASSUME NEW S, NEW list \in Seq(S), NEW x \in S
    PROVE  Append(list, x) \in Seq(S) /\ ToSet(Append(list, x)) = ToSet(list) \cup {x}
<1>1. Append(list, x) = list \o <<x>> /\ <<x>> \in Seq(S)
  OBVIOUS
<1>2. ToSet(<<x>>) = {x}
  BY DEF ToSet
<1>3. list \o <<x>> \in Seq(S) /\ ToSet(list \o <<x>>) = ToSet(list) \cup ToSet(<<x>>)
  BY <1>1, ToSetJoined
<1> QED
  BY <1>1, <1>2, <1>3

\* Without its first element a list of different ones has all the others.
LEMMA ToSetTail ==
    ASSUME NEW S, NEW list \in Seq(S), list # <<>>, OnceEach(list)
    PROVE  /\ Head(list) \in ToSet(list) /\ Tail(list) \in Seq(S) /\ OnceEach(Tail(list))
           /\ ToSet(Tail(list)) = ToSet(list) \ {Head(list)}
<1> DEFINE rest == Tail(list)
<1>1. /\ rest \in Seq(S) /\ Len(list) \in Nat \ {0} /\ Len(rest) = Len(list) - 1 /\ Head(list) = list[1]
      /\ DOMAIN list = 1 .. Len(list) /\ DOMAIN rest = 1 .. Len(rest)
  OBVIOUS
<1>2. \A i \in 1 .. Len(rest) : i + 1 \in 1 .. Len(list) /\ rest[i] = list[i + 1]
  OBVIOUS
<1>3. \A i, j \in 1 .. Len(list) : list[i] = list[j] => i = j
  BY <1>1 DEF OnceEach
<1> HIDE DEF rest
<1>4. OnceEach(rest)
  <2>1. SUFFICES ASSUME NEW i \in 1 .. Len(rest), NEW j \in 1 .. Len(rest), rest[i] = rest[j]
                 PROVE  i = j
    BY <1>1 DEF OnceEach
  <2>2. i + 1 = j + 1
    BY <1>2, <1>3, <2>1
  <2> QED
    BY <1>1, <2>2
<1>5. ASSUME NEW x \in ToSet(rest) PROVE x \in ToSet(list) /\ x # Head(list)
  <2>1. PICK i \in 1 .. Len(rest) : x = rest[i]
    BY <1>1, ToSetOf
  <2>2. PICK j \in 1 .. Len(list) : j = i + 1 /\ x = list[j]
    BY <1>2, <2>1
  <2>3. j # 1 /\ 1 \in 1 .. Len(list)
    BY <1>1, <2>1, <2>2
  <2> QED
    BY <1>1, <1>3, <2>2, <2>3, ToSetOf
<1>6. ASSUME NEW x \in ToSet(list), x # Head(list) PROVE x \in ToSet(rest)
  <2>1. PICK i \in 1 .. Len(list) : x = list[i]
    BY ToSetOf
  <2>2. i # 1
    BY <1>1, <1>6, <2>1
  <2>3. PICK j \in 1 .. Len(rest) : j = i - 1
    BY <1>1, <2>1, <2>2
  <2>4. j + 1 = i
    BY <1>1, <2>3
  <2>5. x = rest[j]
    BY <1>2, <2>1, <2>4
  <2> QED
    BY <1>1, <2>5, ToSetOf
<1>7. Head(list) \in ToSet(list)
  BY <1>1, ToSetOf
<1> QED
  BY <1>1, <1>4, <1>5, <1>6, <1>7 DEF rest

\* A function changed at one point.
LEMMA WithIs ==
    ASSUME NEW f, NEW x, NEW v
    PROVE  /\ DOMAIN With(f, x, v) = DOMAIN f \cup {x}
           /\ With(f, x, v)[x] = v
           /\ \A y \in DOMAIN f : y # x => With(f, x, v)[y] = f[y]
  BY DEF With, Over

\* A function with some points left out.
LEMMA WithoutIs ==
    ASSUME NEW f, NEW S
    PROVE  DOMAIN Without(f, S) = DOMAIN f \ S /\ \A y \in DOMAIN f \ S : Without(f, S)[y] = f[y]
  BY DEF Without, Restrict

\* The pages up to the last are finitely many.
LEMMA KnownIsFinite ==
    ASSUME NEW t, t.next \in Nat
    PROVE  IsFiniteSet(Known(t)) /\ Known(t) \subseteq Nat
<1>1. 2 \in Int /\ t.next - 1 \in Int
  OBVIOUS
<1>2. IsFiniteSet(2 .. (t.next - 1))
  BY <1>1, FS_Interval
<1> QED
  BY <1>2 DEF Known

\* The pages of a run.
LEMMA RunIs ==
    ASSUME NEW h \in Nat, NEW n \in Nat
    PROVE  \A p : p \in Run(h, n) <=> p \in Nat /\ h <= p /\ p < h + n
  BY DEF Run

\* A run has its first page, and one of length 1 no other.
LEMMA RunHasFirst ==
    ASSUME NEW h \in Nat, NEW n \in Positive
    PROVE  h \in Run(h, n) /\ Run(h, 1) = {h}
  BY DEF Run, Positive

-----------------------------------------------------------------------------
(* Blocks *)

\* Some of the blocks of a tiling are a tiling.
LEMMA TiledPart ==
    ASSUME NEW B, NEW C, Tiled(B), C \subseteq B
    PROVE  Tiled(C)
  BY DEF Tiled

\* A tiling stays one with a block that meets none of it.
LEMMA TiledMore ==
    ASSUME NEW B, NEW c, Tiled(B), \A b \in B : RunOf(b) \cap RunOf(c) = {}
    PROVE  Tiled(B \cup {c})
  BY DEF Tiled

\* A page in use is a block.
LEMMA BlockOfPage ==
    ASSUME NEW t, NEW h \in DOMAIN t.pages
    PROVE  <<h, t.pages[h].n>> \in Blocks(t)
  BY DEF Blocks

\* A page on the dirty list is a block.
LEMMA BlockOfDirty ==
    ASSUME NEW t, NEW h \in DOMAIN t.dirty
    PROVE  <<h, t.dirty[h]>> \in Blocks(t)
  BY DEF Blocks

\* Blocks are runs of at least one page.
LEMMA BlockIs ==
    ASSUME NEW t, IsTxn(t), NEW b \in Blocks(t)
    PROVE  /\ b = <<b[1], b[2]>> /\ b[1] \in Nat /\ b[2] \in Positive
           /\ b[1] \in RunOf(b)
           /\ \/ b[1] \in DOMAIN t.pages /\ b[2] = t.pages[b[1]].n
              \/ b[1] \in DOMAIN t.dirty /\ b[2] = t.dirty[b[1]]
<1>1. \/ \E h \in DOMAIN t.pages : b = <<h, t.pages[h].n>>
      \/ \E h \in DOMAIN t.dirty : b = <<h, t.dirty[h]>>
  BY DEF Blocks
<1>2. \/ b = <<b[1], b[2]>> /\ b[1] \in DOMAIN t.pages /\ b[2] = t.pages[b[1]].n
      \/ b = <<b[1], b[2]>> /\ b[1] \in DOMAIN t.dirty /\ b[2] = t.dirty[b[1]]
  BY <1>1
<1>3. b[1] \in Nat /\ b[2] \in Positive
  BY <1>2 DEF IsTxn, IsPages
<1> QED
  BY <1>2, <1>3, RunHasFirst DEF RunOf

\* The page numbers that pages in use cover.
LEMMA CoveredIs ==
    ASSUME NEW pages
    PROVE  \A p : p \in Covered(pages) <=> \E h \in DOMAIN pages : p \in Run(h, pages[h].n)
  BY DEF Covered

\* The page numbers that dirty pages cover.
LEMMA DirtyPagesIs ==
    ASSUME NEW t
    PROVE  \A p : p \in DirtyPages(t) <=> \E h \in DOMAIN t.dirty : p \in Run(h, t.dirty[h])
  BY DEF DirtyPages

\* The page numbers in the records not yet read.
LEMMA WaitingIs ==
    ASSUME NEW t
    PROVE  \A p : p \in Waiting(t) <=> \E id \in Unread(t) : p \in t.recs[id].ids
  BY DEF Waiting

-----------------------------------------------------------------------------
(* Moves: to and from the pages that are free *)

\* The dirty pages that the room counts are some of the pages known.
LEMMA CountsAre ==
    ASSUME NEW t, NEW u, NEW loan, Books(t, u, loan)
    PROVE  /\ Counts(t, u) \subseteq Known(t) /\ IsFiniteSet(Counts(t, u))
           /\ Cardinality(Counts(t, u)) \in Nat /\ t.room \in Nat
<1>1. IsTxn(t) /\ IsTxn(u) /\ t.room \in Nat /\ t.next \in Nat
  BY DEF Books, IsTxn
<1>2. \A b \in Blocks(t) \cup Blocks(u) : RunOf(b) \subseteq Known(t)
  BY DEF Books, Laid
<1>3. ASSUME NEW h \in DOMAIN t.dirty PROVE h \in Known(t)
  <2>1. <<h, t.dirty[h]>> \in Blocks(t) /\ h \in Nat /\ t.dirty[h] \in Positive
    BY <1>1, BlockOfDirty DEF IsTxn
  <2>2. h \in Run(h, t.dirty[h]) /\ RunOf(<<h, t.dirty[h]>>) \subseteq Known(t)
    BY <1>2, <2>1, RunHasFirst
  <2> QED
    BY <2>2 DEF RunOf
<1>4. ASSUME NEW h \in DOMAIN u.dirty PROVE h \in Known(t)
  <2>1. <<h, u.dirty[h]>> \in Blocks(u) /\ h \in Nat /\ u.dirty[h] \in Positive
    BY <1>1, BlockOfDirty DEF IsTxn
  <2>2. h \in Run(h, u.dirty[h]) /\ RunOf(<<h, u.dirty[h]>>) \subseteq Known(t)
    BY <1>2, <2>1, RunHasFirst
  <2> QED
    BY <2>2 DEF RunOf
<1>5. Counts(t, u) \subseteq Known(t)
  BY <1>3, <1>4 DEF Counts
<1> QED
  BY <1>1, <1>5, KnownIsFinite, FS_Subset, FS_CardinalityType

\* The counts of a transaction whose dirty pages and freed pages are the same.
LEMMA CountsSame ==
    ASSUME NEW t, NEW t2, NEW u, NEW loan, Books(t, u, loan), t2.frees = t.frees,
           t2.dirty = t.dirty, t2.spills = t.spills, t2.room = t.room
    PROVE  Space(t2, u) = Space(t, u) /\ FreesMore(t, t2)
<1>1. Len(t.frees) \in Nat
  BY DEF Books, IsTxn
<1> QED
  BY <1>1 DEF Space, Counts, FreesMore

\* With one dirty page more, or one less, the room has changed by one.
LEMMA CountsChange ==
    ASSUME NEW t, NEW t2, NEW u, NEW loan, NEW h, Books(t, u, loan), t2.frees = t.frees,
           \/ /\ h \notin Counts(t, u) /\ Counts(t2, u) = Counts(t, u) \cup {h}
              /\ t2.room = t.room - 1
           \/ /\ h \in Counts(t, u) /\ Counts(t2, u) = Counts(t, u) \ {h}
              /\ t2.room = t.room + 1
    PROVE  Space(t2, u) = Space(t, u) /\ FreesMore(t, t2)
<1> DEFINE C == Counts(t, u)
           D == Counts(t2, u)
<1>1. IsFiniteSet(C) /\ Cardinality(C) \in Nat /\ t.room \in Nat
  BY CountsAre
<1>2. FreesMore(t, t2)
  <2>1. Len(t.frees) \in Nat
    BY DEF Books, IsTxn
  <2> QED
    BY <2>1 DEF FreesMore
<1> HIDE DEF C, D
<1>3. \/ h \notin C /\ D = C \cup {h} /\ t2.room = t.room - 1
      \/ h \in C /\ D = C \ {h} /\ t2.room = t.room + 1
  BY DEF C, D
<1>4. CASE h \notin C /\ D = C \cup {h} /\ t2.room = t.room - 1
  <2>1. Cardinality(D) = Cardinality(C) + 1
    BY <1>1, <1>4, FS_AddElement
  <2>2. t2.room + Cardinality(D) = t.room + Cardinality(C)
    BY <1>1, <1>4, <2>1
  <2> QED
    BY <1>2, <2>2 DEF Space, C, D
<1>5. CASE h \in C /\ D = C \ {h} /\ t2.room = t.room + 1
  <2>1. Cardinality(D) = Cardinality(C) - 1
    BY <1>1, <1>5, FS_RemoveElement
  <2>2. t2.room + Cardinality(D) = t.room + Cardinality(C)
    BY <1>1, <1>5, <2>1
  <2> QED
    BY <1>2, <2>2 DEF Space, C, D
<1> QED
  BY <1>3, <1>4, <1>5

\* A run that is taken is no part of a page in use, nor of what else the books know.
LEMMA RunTaken ==
    ASSUME NEW t, NEW t2, NEW u, NEW p \in Nat, NEW num \in Positive, Books(t, u, {}), IsTxn(t2),
           \/ Run(p, num) \subseteq t.pghead /\ t2.next = t.next
           \/ p = t.next /\ t2.next = t.next + num /\ t2.next <= MaxPg,
           t2.pages = t.pages, t2.recs = t.recs, t2.frees = t.frees, t2.loose = t.loose,
           t2.spills = t.spills, t2.txnid = t.txnid, t2.pglast = t.pglast, t2.oldest = t.oldest,
           t2.pghead = t.pghead \ Run(p, num), t2.dirty = With(t.dirty, p, num),
           t2.room = t.room - 1, t2.listed = t.listed
    PROVE  Moves(t, t2, u, {}, Run(p, num)) /\ p # 0 /\ p \notin DOMAIN t.dirty
<1> DEFINE X == Run(p, num)
           B == Blocks(t) \cup Blocks(u)
<1>1. p \in X /\ t.next \in Nat /\ num \in Nat /\ t2.next \in Nat
  BY RunHasFirst DEF Books, IsTxn, Positive
<1>2. Known(t) \subseteq Known(t2) /\ Known(t2) \subseteq Nat /\ 2 <= t2.next /\ t2.next <= MaxPg
  BY <1>1 DEF Books, Placed, Known, Positive
<1>3. /\ X \subseteq Known(t2) /\ t.pghead \subseteq Known(t)
      /\ X \cap (Known(t) \ t.pghead) = {}
  <2>1. CASE X \subseteq t.pghead
    BY <1>2, <2>1 DEF Books, Placed
  <2>2. CASE p = t.next /\ t2.next = t.next + num
    <3>1. \A x \in X : t.next <= x /\ x < t2.next
      BY <1>1, <2>2 DEF Run
    <3> QED
      BY <1>1, <1>2, <3>1 DEF Known, Books, Placed, Run
  <2> QED
    BY <2>1, <2>2
<1>4. \A b \in B : RunOf(b) \subseteq Known(t) \ Takeable(t)
  BY DEF Books, Laid
<1>5. \A b \in B : RunOf(b) \cap X = {}
  BY <1>3, <1>4 DEF Takeable
<1>6. p # 0 /\ p \notin DOMAIN t.dirty /\ p \notin DOMAIN t.pages
  <2>1. p # 0
    BY <1>1, <1>3 DEF Known
  <2>2. ASSUME p \in DOMAIN t.dirty PROVE FALSE
    <3>1. <<p, t.dirty[p]>> \in B /\ p \in RunOf(<<p, t.dirty[p]>>)
      BY <2>2, BlockOfDirty, RunHasFirst DEF Books, IsTxn, RunOf
    <3> QED
      BY <1>1, <1>5, <3>1
  <2>3. ASSUME p \in DOMAIN t.pages PROVE FALSE
    <3>1. <<p, t.pages[p].n>> \in B /\ p \in RunOf(<<p, t.pages[p].n>>)
      BY <2>3, BlockOfPage, RunHasFirst DEF Books, IsTxn, IsPages, RunOf
    <3> QED
      BY <1>1, <1>5, <3>1
  <2> QED
    BY <2>1, <2>2, <2>3
<1>7. /\ FreedBy(t2) = FreedBy(t) /\ Loose(t2) = Loose(t) /\ Unread(t2) = Unread(t)
      /\ Waiting(t2) = Waiting(t) /\ Takeable(t2) = (t.pghead \ X) \cup Waiting(t)
  BY DEF FreedBy, Loose, Unread, Waiting, Takeable
<1>8. /\ DOMAIN t2.dirty = DOMAIN t.dirty \cup {p} /\ t2.dirty[p] = num
      /\ \A h \in DOMAIN t.dirty : t2.dirty[h] = t.dirty[h]
  <2>1. /\ DOMAIN With(t.dirty, p, num) = DOMAIN t.dirty \cup {p} /\ With(t.dirty, p, num)[p] = num
        /\ \A h \in DOMAIN t.dirty : h # p => With(t.dirty, p, num)[h] = t.dirty[h]
    BY DEF With, Over
  <2> QED
    BY <1>6, <2>1
<1>9. Blocks(t2) = Blocks(t) \cup {<<p, num>>} /\ RunOf(<<p, num>>) = X
  BY <1>8 DEF Blocks, RunOf
<1>10. DirtyPages(t2) = DirtyPages(t) \cup X
  BY <1>8 DEF DirtyPages
<1> HIDE DEF X, B
<1>11. Placed(t2, u, X)
  <2>1. Apart(Covered(t.pages), t.pghead, FreedBy(t), Loose(t), Waiting(t), {}, Kept(u))
        /\ Covered(t.pages) \cup t.pghead \cup FreedBy(t) \cup Loose(t) \cup Waiting(t) \cup Kept(u)
               = Known(t)
        /\ OnceEach(t.loose) /\ RecordsApart(t.recs, Unread(t))
    BY DEF Books, Placed
  <2>2. X \cap (Covered(t.pages) \cup FreedBy(t) \cup Loose(t) \cup Waiting(t) \cup Kept(u)) = {}
    BY <1>3, <2>1 DEF Apart
  <2>3. Apart(Covered(t2.pages), t2.pghead, FreedBy(t2), Loose(t2), Waiting(t2), X, Kept(u))
    BY <1>7, <2>1, <2>2 DEF Apart, X
  <2>4. Known(t2) = Known(t) \cup X
    <3>1. CASE X \subseteq t.pghead /\ t2.next = t.next
      BY <1>3, <3>1 DEF Known
    <3>2. CASE p = t.next /\ t2.next = t.next + num
      <4>1. 2 <= t.next /\ t.next \in Nat
        BY <1>1 DEF Books, Placed
      <4> QED
        BY <1>1, <3>2, <4>1 DEF Known, Run, X
    <3> QED
      BY <3>1, <3>2 DEF X
  <2>5. Covered(t2.pages) \cup t2.pghead \cup FreedBy(t2) \cup Loose(t2) \cup Waiting(t2) \cup X \cup Kept(u)
            = Known(t2)
    BY <1>3, <1>7, <2>1, <2>4 DEF X
  <2> QED
    BY <1>2, <1>7, <2>1, <2>3, <2>5 DEF Placed
<1>12. Laid(t2, u)
  <2>1. Tiled(B) /\ DirtyPages(t) \cap Kept(u) = {} /\ \A h \in Loose(t) : h \in DOMAIN t.dirty /\ t.dirty[h] = 1
    BY DEF Books, Laid, B
  <2>2. Tiled(B \cup {<<p, num>>})
    BY <1>5, <1>9, <2>1, TiledMore
  <2>3. Blocks(t2) \cup Blocks(u) = B \cup {<<p, num>>}
    BY <1>9 DEF B
  <2>4. X \cap Kept(u) = {}
    BY <1>3 DEF Books, Placed, Apart
  <2>5. \A b \in B \cup {<<p, num>>} : RunOf(b) \subseteq Known(t2) \ Takeable(t2)
    BY <1>2, <1>3, <1>4, <1>7, <1>9 DEF Takeable, Books, Placed, Apart
  <2> QED
    BY <1>7, <1>8, <1>10, <2>1, <2>2, <2>3, <2>4, <2>5 DEF Laid
<1>13. SpillsRight(t2, u)
  <2>1. /\ t.spills \cap (DOMAIN t.dirty \cup Loose(t) \cup Kept(u)) = {}
        /\ t.spills \cup u.spills \subseteq Known(t) \ Takeable(t)
        /\ \A k \in t.spills \cup u.spills, b \in B : k \in RunOf(b) => k = b[1]
        /\ u.spills \cap DOMAIN u.dirty = {}
    BY DEF Books, SpillsRight, B
  <2>2. (t.spills \cup u.spills) \cap X = {}
    BY <1>3, <2>1 DEF Takeable
  <2>3. Blocks(t2) \cup Blocks(u) = B \cup {<<p, num>>}
    BY <1>9 DEF B
  <2>4. \A k \in t.spills \cup u.spills, b \in Blocks(t2) \cup Blocks(u) : k \in RunOf(b) => k = b[1]
    BY <1>9, <2>1, <2>2, <2>3
  <2>5. t.spills \cup u.spills \subseteq Known(t2) \ Takeable(t2)
    BY <1>2, <1>7, <2>1 DEF Takeable
  <2>6. t.spills \cap (DOMAIN t2.dirty \cup Loose(t) \cup Kept(u)) = {}
    BY <1>1, <1>8, <2>1, <2>2
  <2> QED
    BY <1>7, <2>1, <2>4, <2>5, <2>6 DEF SpillsRight
<1>14. SparesParent(t2, u)
  <2>1. p \notin DOMAIN u.pages
    <3>1. SUFFICES ASSUME p \in DOMAIN u.pages PROVE FALSE
      OBVIOUS
    <3>2. <<p, u.pages[p].n>> \in B /\ p \in RunOf(<<p, u.pages[p].n>>)
      BY <3>1, BlockOfPage, RunHasFirst DEF Books, IsTxn, IsPages, RunOf, B
    <3> QED
      BY <1>1, <1>5, <3>2
  <2> QED
    BY <1>8, <2>1 DEF Books, SparesParent
<1>15. Numbered(t2)
  BY DEF Books, Numbered, X
<1>16. InPlace(file, t, u) => InPlace(file, t2, u)
  BY <1>8 DEF InPlace, OnFile
<1>17. ASSUME NEW P, NEW s, Spares(t, u, P, s)
       PROVE  Spares(t2, u, P, s)
  <2>1. X \cap P = {}
    BY <1>3, <1>17 DEF Spares
  <2> QED
    BY <1>2, <1>7, <1>10, <1>17, <2>1 DEF Spares
<1>18. Space(t2, u) = Space(t, u) /\ FreesMore(t, t2)
  <2>1. p \notin DOMAIN u.dirty
    <3>1. SUFFICES ASSUME p \in DOMAIN u.dirty PROVE FALSE
      OBVIOUS
    <3>2. <<p, u.dirty[p]>> \in B /\ p \in RunOf(<<p, u.dirty[p]>>)
      BY <3>1, BlockOfDirty, RunHasFirst DEF Books, IsTxn, RunOf, B
    <3> QED
      BY <1>1, <1>5, <3>2
  <2>2. p \notin Counts(t, u) /\ Counts(t2, u) = Counts(t, u) \cup {p}
    BY <1>6, <1>8, <2>1 DEF Counts
  <2> QED
    BY <2>2, CountsChange
<1> QED
  BY <1>6, <1>7, <1>18, <1>11, <1>12, <1>13, <1>14, <1>15, <1>16, <1>17 DEF Moves, Books, Steady, X

\* The books say nothing of the other fields of a transaction.
LEMMA Unmoved ==
    ASSUME NEW t, NEW t2, NEW u, NEW loan, Books(t, u, loan), IsTxn(t2),
           t2.pages = t.pages, t2.recs = t.recs, t2.frees = t.frees, t2.loose = t.loose,
           t2.spills = t.spills, t2.txnid = t.txnid, t2.pglast = t.pglast, t2.next = t.next,
           t2.pghead = t.pghead, t2.dirty = t.dirty,
           t2.oldest \in {t.oldest, FindOldest(t)}, t2.oldest < t2.txnid,
           t2.room = t.room, t2.listed = t.listed
    PROVE  Moves(t, t2, u, loan, loan)
<1>1. /\ FreedBy(t2) = FreedBy(t) /\ Loose(t2) = Loose(t) /\ Unread(t2) = Unread(t)
      /\ Waiting(t2) = Waiting(t) /\ Takeable(t2) = Takeable(t) /\ Known(t2) = Known(t)
      /\ Blocks(t2) = Blocks(t) /\ DirtyPages(t2) = DirtyPages(t)
  BY DEF FreedBy, Loose, Unread, Waiting, Takeable, Known, Blocks, DirtyPages
<1>2. Placed(t2, u, loan)
  BY <1>1 DEF Books, Placed
<1>3. Laid(t2, u)
  BY <1>1 DEF Books, Laid
<1>4. SpillsRight(t2, u)
  BY <1>1 DEF Books, SpillsRight
<1>5. SparesParent(t2, u) /\ Numbered(t2)
  BY DEF Books, SparesParent, Numbered
<1>6. InPlace(file, t, u) => InPlace(file, t2, u)
  BY DEF InPlace, OnFile
<1>7. \A P, s : Spares(t, u, P, s) => Spares(t2, u, P, s)
  BY <1>1 DEF Spares
<1> QED
  BY CountsSame, <1>1, <1>2, <1>3, <1>4, <1>5, <1>6, <1>7 DEF Moves, Books, Steady

\* A loose page is dirty and free to be taken.
LEMMA LooseTaken ==
    ASSUME NEW t, NEW t2, NEW u, Books(t, u, {}), IsTxn(t2), t.loose # <<>>,
           t2.pages = t.pages, t2.recs = t.recs, t2.frees = t.frees, t2.loose = Tail(t.loose),
           t2.spills = t.spills, t2.txnid = t.txnid, t2.pglast = t.pglast, t2.next = t.next,
           t2.pghead = t.pghead, t2.dirty = t.dirty, t2.oldest = t.oldest,
           t2.room = t.room, t2.listed = t.listed
    PROVE  /\ Moves(t, t2, u, {}, Run(Head(t.loose), 1))
           /\ Head(t.loose) \in Nat \ {0}
           /\ Head(t.loose) \in DOMAIN t.dirty /\ t.dirty[Head(t.loose)] = 1
<1> DEFINE p == Head(t.loose)
<1>1. /\ p \in Loose(t) /\ Loose(t2) = Loose(t) \ {p} /\ OnceEach(t2.loose) /\ Loose(t) \subseteq Nat
      /\ p \in Nat
  <2>1. t.loose \in Seq(Nat) /\ OnceEach(t.loose)
    BY DEF Books, Placed, IsTxn
  <2>2. p \in ToSet(t.loose) /\ OnceEach(Tail(t.loose)) /\ ToSet(Tail(t.loose)) = ToSet(t.loose) \ {p}
    BY <2>1, ToSetTail
  <2>3. ToSet(t.loose) \subseteq Nat
    BY <2>1, ToSetOf
  <2> QED
    BY <2>2, <2>3 DEF Loose
<1> HIDE DEF p
<1>2. /\ FreedBy(t2) = FreedBy(t) /\ Unread(t2) = Unread(t)
      /\ Waiting(t2) = Waiting(t) /\ Takeable(t2) = Takeable(t) /\ Known(t2) = Known(t)
      /\ Blocks(t2) = Blocks(t) /\ DirtyPages(t2) = DirtyPages(t)
  BY DEF FreedBy, Unread, Waiting, Takeable, Known, Blocks, DirtyPages
<1>3. Run(p, 1) = {p} /\ p \in Nat \ {0}
  <2>1. p \in Known(t)
    BY <1>1 DEF Books, Placed
  <2>2. p # 0
    BY <1>1, <2>1 DEF Known
  <2> QED
    BY <1>1, <2>2 DEF Run
<1>4. Placed(t2, u, {p})
  <2>1. Apart(Covered(t.pages), t.pghead, FreedBy(t), Loose(t), Waiting(t), {}, Kept(u))
    BY DEF Books, Placed
  <2>2. Apart(Covered(t2.pages), t2.pghead, FreedBy(t2), Loose(t2), Waiting(t2), {p}, Kept(u))
    BY <1>1, <1>2, <2>1 DEF Apart
  <2> QED
    BY <1>1, <1>2, <2>2 DEF Books, Placed
<1>5. Laid(t2, u)
  BY <1>1, <1>2 DEF Books, Laid
<1>6. SpillsRight(t2, u)
  BY <1>1, <1>2 DEF Books, SpillsRight
<1>7. SparesParent(t2, u) /\ Numbered(t2)
  BY DEF Books, SparesParent, Numbered
<1>8. InPlace(file, t, u) => InPlace(file, t2, u)
  BY DEF InPlace, OnFile
<1>9. \A P, s : Spares(t, u, P, s) => Spares(t2, u, P, s)
  BY <1>1, <1>2 DEF Spares
<1>10. p \in DOMAIN t.dirty /\ t.dirty[p] = 1
  BY <1>1 DEF Books, Laid
<1>11. Moves(t, t2, u, {}, {p})
  BY CountsSame, <1>2, <1>4, <1>5, <1>6, <1>7, <1>8, <1>9 DEF Moves, Books, Steady
<1> QED
  BY <1>3, <1>10, <1>11 DEF p

\* The records up to `last` are read: their pages may be taken now.
LEMMA RecordsRead ==
    ASSUME NEW t, NEW t2, NEW u, NEW last \in DOMAIN t.recs, Books(t, u, {}), IsTxn(t2),
           t.pglast < last, last < t.oldest,
           t2.pages = t.pages, t2.recs = t.recs, t2.frees = t.frees, t2.loose = t.loose,
           t2.spills = t.spills, t2.txnid = t.txnid, t2.pglast = last, t2.next = t.next,
           t2.pghead = t.pghead \cup
               UNION {t.recs[id].ids : id \in {x \in DOMAIN t.recs : t.pglast < x /\ x <= last}},
           t2.dirty = t.dirty, t2.oldest = t.oldest, t2.room = t.room
    PROVE  Moves(t, t2, u, {}, {})
<1> DEFINE F == {x \in DOMAIN t.recs : t.pglast < x /\ x <= last}
           X == UNION {t.recs[id].ids : id \in F}
<1>1. /\ DOMAIN t.recs \subseteq Nat /\ t.pglast \in Nat /\ t.oldest \in Nat /\ t.txnid \in Nat /\ last \in Nat
      /\ t.oldest < t.txnid /\ \A id \in DOMAIN t.recs : 0 < id
  BY DEF Books, IsTxn, IsRecs, Numbered
<1>2. \A id \in F : id \in Unread(t) /\ id < t.oldest /\ id \in Nat
  BY <1>1 DEF Unread
<1>3. \A id \in Unread(t2) : id \in Unread(t) /\ id \notin F
  BY <1>1 DEF Unread
<1>4. X \subseteq Waiting(t)
  BY <1>2 DEF Waiting
<1>5. Waiting(t2) \subseteq Waiting(t) /\ Waiting(t) \subseteq Waiting(t2) \cup X
  <2>1. \A id \in Unread(t) : id \in F \/ id \in Unread(t2)
    BY <1>1 DEF Unread
  <2> QED
    BY <1>3, <2>1 DEF Waiting
<1>6. X \cap Waiting(t2) = {}
  <2>1. RecordsApart(t.recs, Unread(t))
    BY DEF Books, Placed
  <2>2. \A id \in F, other \in Unread(t2) : t.recs[id].ids \cap t.recs[other].ids = {}
    BY <1>2, <1>3, <2>1 DEF RecordsApart
  <2> QED
    BY <2>2 DEF Waiting
<1>7. /\ FreedBy(t2) = FreedBy(t) /\ Loose(t2) = Loose(t)
      /\ Known(t2) = Known(t) /\ Blocks(t2) = Blocks(t) /\ DirtyPages(t2) = DirtyPages(t)
  BY DEF FreedBy, Loose, Known, Blocks, DirtyPages
<1>8. t2.pghead = t.pghead \cup X
  OBVIOUS
<1> HIDE DEF X, F
<1>9. Takeable(t2) \subseteq Takeable(t)
  BY <1>4, <1>5, <1>8 DEF Takeable
<1>10. Placed(t2, u, {})
  <2>1. Apart(Covered(t.pages), t.pghead, FreedBy(t), Loose(t), Waiting(t), {}, Kept(u))
    BY DEF Books, Placed
  <2>2. Apart(Covered(t2.pages), t2.pghead, FreedBy(t2), Loose(t2), Waiting(t2), {}, Kept(u))
    BY <1>4, <1>5, <1>6, <1>7, <1>8, <2>1 DEF Apart
  <2>3. RecordsApart(t2.recs, Unread(t2))
    BY <1>3 DEF Books, Placed, RecordsApart
  <2> QED
    BY <1>4, <1>5, <1>7, <1>8, <2>2, <2>3 DEF Books, Placed
<1>11. Laid(t2, u)
  BY <1>7, <1>9 DEF Books, Laid
<1>12. SpillsRight(t2, u)
  BY <1>7, <1>9 DEF Books, SpillsRight
<1>13. SparesParent(t2, u) /\ Numbered(t2)
  BY <1>1 DEF Books, SparesParent, Numbered
<1>14. InPlace(file, t, u) => InPlace(file, t2, u)
  BY DEF InPlace, OnFile
<1>15. ASSUME NEW P, NEW s, Spares(t, u, P, s), Watched(t, s)
       PROVE  Spares(t2, u, P, s)
  <2>1. \A id \in F : id <= s
    BY <1>1, <1>2, <1>15 DEF Watched
  <2>2. P \cap X = {}
    BY <1>2, <1>15, <2>1 DEF Spares, X
  <2> QED
    BY <1>3, <1>7, <1>8, <1>15, <2>2 DEF Spares
<1> QED
  BY CountsSame, <1>1, <1>7, <1>10, <1>11, <1>12, <1>13, <1>14, <1>15 DEF Moves, Books, Steady

\* One move after another.
LEMMA MovesOn ==
    ASSUME NEW t, NEW t2, NEW t3, NEW u, NEW loan, NEW loan2, NEW loan3, t.pglast \in Nat,
           t.frees \in Seq(Nat),
           Moves(t, t2, u, loan, loan2), Moves(t2, t3, u, loan2, loan3)
    PROVE  Moves(t, t3, u, loan, loan3)
<1>1. FindOldest(t2) = FindOldest(t)
  BY DEF FindOldest, Moves, Steady
<1>2. \A s : Watched(t, s) => Watched(t2, s)
  BY <1>1 DEF Watched, Moves, Steady
<1>3. t2.pglast \in Nat /\ t3.pglast \in Nat
  BY DEF Moves, Books, IsTxn
<1>4. FreesMore(t, t3)
  <2>1. t2.frees \in Seq(Nat) /\ t3.frees \in Seq(Nat) /\ FreesMore(t, t2) /\ FreesMore(t2, t3)
    BY DEF Moves, Books, IsTxn
  <2>2. Len(t.frees) \in Nat /\ Len(t2.frees) \in Nat /\ Len(t3.frees) \in Nat
    BY <2>1
  <2>3. Len(t.frees) <= Len(t3.frees)
    BY <2>1, <2>2 DEF FreesMore
  <2>4. ASSUME Len(t.frees) = Len(t3.frees) PROVE t3.frees = t.frees
    <3>1. Len(t.frees) = Len(t2.frees) /\ Len(t2.frees) = Len(t3.frees)
      BY <2>1, <2>2, <2>4 DEF FreesMore
    <3> QED
      BY <2>1, <3>1 DEF FreesMore
  <2> QED
    BY <2>3, <2>4 DEF FreesMore
<1> QED
  BY <1>1, <1>2, <1>3, <1>4 DEF Moves, Steady

-----------------------------------------------------------------------------
(* Moves: pages that come into use, and go out of it *)

\* A page in use is a number in use.
LEMMA FirstCovered ==
    ASSUME NEW t, IsTxn(t), NEW h \in DOMAIN t.pages
    PROVE  /\ h \in Nat /\ t.pages[h].n \in Positive
           /\ h \in Run(h, t.pages[h].n) /\ Run(h, t.pages[h].n) \subseteq Covered(t.pages)
<1>1. h \in Nat /\ t.pages[h].n \in Positive
  BY DEF IsTxn, IsPages
<1> QED
  BY <1>1, RunHasFirst DEF Covered

\* Two runs of a transaction and its parent with the same first page are one.
LEMMA SameBlock ==
    ASSUME NEW t, NEW u, NEW loan, Books(t, u, loan), NEW h, NEW n, NEW m,
           <<h, n>> \in Blocks(t) \cup Blocks(u), <<h, m>> \in Blocks(t) \cup Blocks(u)
    PROVE  n = m
<1>1. h \in RunOf(<<h, n>>) /\ h \in RunOf(<<h, m>>)
  <2>1. \A b \in Blocks(t) \cup Blocks(u) : b[1] \in RunOf(b)
    BY BlockIs DEF Books
  <2> QED
    BY <2>1
<1>2. <<h, n>> = <<h, m>>
  BY <1>1 DEF Books, Laid, Tiled
<1> QED
  BY <1>2

\* A run on loan whose first page is dirty becomes a page.
NowPlaced(t, t2, p, v) ==
    /\ t2.pages = With(t.pages, p, v) /\ t2.recs = t.recs /\ t2.frees = t.frees /\ t2.loose = t.loose
    /\ t2.spills = t.spills /\ t2.txnid = t.txnid /\ t2.pglast = t.pglast /\ t2.next = t.next
    /\ t2.pghead = t.pghead /\ t2.dirty = t.dirty /\ t2.oldest = t.oldest
    /\ t2.room = t.room /\ t2.listed = t.listed

\* A page that was on loan, and is dirty, comes to be used.
LEMMA PagePlaced ==
    ASSUME NEW t, NEW t2, NEW u, NEW loan, NEW p, NEW v, Books(t, u, loan), IsTxn(t2),
           p \in DOMAIN t.dirty, t.dirty[p] = v.n, Run(p, v.n) \subseteq loan, NowPlaced(t, t2, p, v)
    PROVE  /\ Moves(t, t2, u, loan, loan \ Run(p, v.n))
           /\ p \notin DOMAIN t.pages
           /\ DOMAIN t2.pages = DOMAIN t.pages \cup {p} /\ t2.pages[p] = v
           /\ \A h \in DOMAIN t.pages : t2.pages[h] = t.pages[h]
<1> USE DEF NowPlaced
<1> DEFINE X == Run(p, v.n)
<1>1. p \in Nat /\ v.n \in Positive /\ p \in X
  <2>1. p \in Nat /\ v.n \in Positive
    BY DEF Books, IsTxn
  <2> QED
    BY <2>1, RunHasFirst
<1>2. p \notin DOMAIN t.pages
  <2>1. SUFFICES ASSUME p \in DOMAIN t.pages PROVE FALSE
    OBVIOUS
  <2>2. p \in Covered(t.pages)
    BY <2>1, FirstCovered DEF Books
  <2> QED
    BY <1>1, <2>2 DEF Books, Placed, Apart
<1>3. /\ DOMAIN t2.pages = DOMAIN t.pages \cup {p} /\ t2.pages[p] = v
      /\ \A h \in DOMAIN t.pages : t2.pages[h] = t.pages[h]
  <2>1. /\ DOMAIN With(t.pages, p, v) = DOMAIN t.pages \cup {p} /\ With(t.pages, p, v)[p] = v
        /\ \A h \in DOMAIN t.pages : h # p => With(t.pages, p, v)[h] = t.pages[h]
    BY DEF With, Over
  <2> QED
    BY <1>2, <2>1
<1>4. Covered(t2.pages) = Covered(t.pages) \cup X
  BY <1>3 DEF Covered
<1>5. Blocks(t2) = Blocks(t)
  BY <1>3 DEF Blocks
<1>6. /\ FreedBy(t2) = FreedBy(t) /\ Loose(t2) = Loose(t) /\ Unread(t2) = Unread(t)
      /\ Waiting(t2) = Waiting(t) /\ Takeable(t2) = Takeable(t) /\ Known(t2) = Known(t)
      /\ DirtyPages(t2) = DirtyPages(t)
  BY DEF FreedBy, Loose, Unread, Waiting, Takeable, Known, DirtyPages
<1>7. X \subseteq DirtyPages(t)
  BY DEF DirtyPages
<1> HIDE DEF X
<1>8. Placed(t2, u, loan \ X)
  <2>1. Apart(Covered(t.pages), t.pghead, FreedBy(t), Loose(t), Waiting(t), loan, Kept(u)) /\ X \subseteq loan
    BY DEF Books, Placed, X
  <2>2. Apart(Covered(t2.pages), t2.pghead, FreedBy(t2), Loose(t2), Waiting(t2), loan \ X, Kept(u))
    BY <1>4, <1>6, <2>1 DEF Apart
  <2> QED
    BY <1>4, <1>6, <2>1, <2>2 DEF Books, Placed
<1>9. Laid(t2, u)
  BY <1>5, <1>6 DEF Books, Laid
<1>10. SpillsRight(t2, u)
  BY <1>5, <1>6 DEF Books, SpillsRight
<1>11. SparesParent(t2, u) /\ Numbered(t2)
  BY DEF Books, SparesParent, Numbered
<1>12. InPlace(file, t, u) => InPlace(file, t2, u)
  BY <1>3 DEF InPlace, OnFile
<1>13. ASSUME NEW P, NEW s, Spares(t, u, P, s) PROVE Spares(t2, u, P, s)
  <2>1. X \cap P = {}
    BY <1>7, <1>13 DEF Spares
  <2>2. \A h \in (t2.spills \cup u.spills) \cap DOMAIN t2.pages : Run(h, t2.pages[h].n) \cap P = {}
    BY <1>3, <1>13, <2>1 DEF Spares, X
  <2> QED
    BY <1>6, <1>13, <2>2 DEF Spares
<1> QED
  BY CountsSame, <1>2, <1>3, <1>6, <1>8, <1>9, <1>10, <1>11, <1>12, <1>13 DEF Moves, Books, Steady, X

\* Pages are taken out of the tree; where they go is still open.
LEMMA PagesDropped ==
    ASSUME NEW t, NEW t2, NEW u, NEW loan, NEW S, Books(t, u, loan), IsTxn(t2), S \subseteq DOMAIN t.pages,
           t2.pages = Without(t.pages, S), t2.recs = t.recs, t2.frees = t.frees, t2.loose = t.loose,
           t2.spills = t.spills, t2.txnid = t.txnid, t2.pglast = t.pglast, t2.next = t.next,
           t2.pghead = t.pghead, t2.dirty = t.dirty, t2.oldest = t.oldest,
           t2.room = t.room, t2.listed = t.listed
    PROVE  /\ Moves(t, t2, u, loan, loan \cup UNION {Run(h, t.pages[h].n) : h \in S})
           /\ DOMAIN t2.pages = DOMAIN t.pages \ S
           /\ \A h \in DOMAIN t2.pages : t2.pages[h] = t.pages[h]
<1> DEFINE X == UNION {Run(h, t.pages[h].n) : h \in S}
<1>1. DOMAIN t2.pages = DOMAIN t.pages \ S /\ \A h \in DOMAIN t2.pages : t2.pages[h] = t.pages[h]
  BY DEF Without, Restrict
<1>2. Covered(t2.pages) \cup X = Covered(t.pages)
  BY <1>1 DEF Covered
<1>3. Covered(t2.pages) \cap X = {}
  <2>1. SUFFICES ASSUME NEW h \in DOMAIN t2.pages, NEW k \in S
                 PROVE  Run(h, t2.pages[h].n) \cap Run(k, t.pages[k].n) = {}
    BY DEF Covered
  <2>2. <<h, t.pages[h].n>> \in Blocks(t) /\ <<k, t.pages[k].n>> \in Blocks(t) /\ h # k
    BY <1>1, BlockOfPage
  <2>3. RunOf(<<h, t.pages[h].n>>) \cap RunOf(<<k, t.pages[k].n>>) = {}
    BY <2>2 DEF Books, Laid, Tiled
  <2> QED
    BY <1>1, <2>3 DEF RunOf
<1>4. Blocks(t2) \subseteq Blocks(t)
  BY <1>1 DEF Blocks
<1>5. /\ FreedBy(t2) = FreedBy(t) /\ Loose(t2) = Loose(t) /\ Unread(t2) = Unread(t)
      /\ Waiting(t2) = Waiting(t) /\ Takeable(t2) = Takeable(t) /\ Known(t2) = Known(t)
      /\ DirtyPages(t2) = DirtyPages(t)
  BY DEF FreedBy, Loose, Unread, Waiting, Takeable, Known, DirtyPages
<1> HIDE DEF X
<1>6. Placed(t2, u, loan \cup X)
  <2>1. Apart(Covered(t.pages), t.pghead, FreedBy(t), Loose(t), Waiting(t), loan, Kept(u))
    BY DEF Books, Placed
  <2>2. Apart(Covered(t2.pages), t2.pghead, FreedBy(t2), Loose(t2), Waiting(t2), loan \cup X, Kept(u))
    BY <1>2, <1>3, <1>5, <2>1 DEF Apart
  <2> QED
    BY <1>2, <1>5, <2>2 DEF Books, Placed
<1>7. Laid(t2, u)
  <2>1. Tiled(Blocks(t2) \cup Blocks(u))
    BY <1>4, TiledPart DEF Books, Laid
  <2> QED
    BY <1>4, <1>5, <2>1 DEF Books, Laid
<1>8. SpillsRight(t2, u)
  BY <1>4, <1>5 DEF Books, SpillsRight
<1>9. SparesParent(t2, u) /\ Numbered(t2)
  BY DEF Books, SparesParent, Numbered
<1>10. InPlace(file, t, u) => InPlace(file, t2, u)
  BY <1>1 DEF InPlace, OnFile
<1>11. \A P, s : Spares(t, u, P, s) => Spares(t2, u, P, s)
  BY <1>1, <1>5 DEF Spares
<1> QED
  BY CountsSame, <1>1, <1>5, <1>6, <1>7, <1>8, <1>9, <1>10, <1>11 DEF Moves, Books, Steady, X

\* What is on loan is freed.
LEMMA LoanFreed ==
    ASSUME NEW t, NEW t2, NEW u, NEW loan, NEW X, Books(t, u, loan), IsTxn(t2), X \subseteq loan,
           t2.pages = t.pages, t2.recs = t.recs, FreedBy(t2) = FreedBy(t) \cup X, t2.loose = t.loose,
           t2.spills = t.spills, t2.txnid = t.txnid, t2.pglast = t.pglast, t2.next = t.next,
           t2.pghead = t.pghead, t2.dirty = t.dirty, t2.oldest = t.oldest,
           t2.room = t.room, t2.listed = t.listed, FreesMore(t, t2)
    PROVE  Moves(t, t2, u, loan, loan \ X)
<1>1. /\ Loose(t2) = Loose(t) /\ Unread(t2) = Unread(t)
      /\ Waiting(t2) = Waiting(t) /\ Takeable(t2) = Takeable(t) /\ Known(t2) = Known(t)
      /\ DirtyPages(t2) = DirtyPages(t) /\ Blocks(t2) = Blocks(t)
  BY DEF Loose, Unread, Waiting, Takeable, Known, DirtyPages, Blocks
<1>2. Placed(t2, u, loan \ X)
  <2>1. Apart(Covered(t.pages), t.pghead, FreedBy(t), Loose(t), Waiting(t), loan, Kept(u))
    BY DEF Books, Placed
  <2>2. Apart(Covered(t2.pages), t2.pghead, FreedBy(t2), Loose(t2), Waiting(t2), loan \ X, Kept(u))
    BY <1>1, <2>1 DEF Apart
  <2> QED
    BY <1>1, <2>2 DEF Books, Placed
<1>3. Laid(t2, u)
  BY <1>1 DEF Books, Laid
<1>4. SpillsRight(t2, u)
  BY <1>1 DEF Books, SpillsRight
<1>5. SparesParent(t2, u) /\ Numbered(t2)
  BY DEF Books, SparesParent, Numbered
<1>6. InPlace(file, t, u) => InPlace(file, t2, u)
  BY DEF InPlace, OnFile
<1>7. \A P, s : Spares(t, u, P, s) => Spares(t2, u, P, s)
  BY <1>1 DEF Spares
<1> QED
  BY <1>1, <1>2, <1>3, <1>4, <1>5, <1>6, <1>7 DEF Moves, Books, Steady, Space, Counts

\* A dirty page on loan becomes loose.
LEMMA LoanLoosened ==
    ASSUME NEW t, NEW t2, NEW u, NEW loan, NEW h \in loan, Books(t, u, loan), IsTxn(t2),
           h \in DOMAIN t.dirty, t.dirty[h] = 1,
           t2.pages = t.pages, t2.recs = t.recs, t2.frees = t.frees, t2.loose = <<h>> \o t.loose,
           t2.spills = t.spills, t2.txnid = t.txnid, t2.pglast = t.pglast, t2.next = t.next,
           t2.pghead = t.pghead, t2.dirty = t.dirty, t2.oldest = t.oldest,
           t2.room = t.room, t2.listed = t.listed
    PROVE  Moves(t, t2, u, loan, loan \ {h})
<1>1. /\ FreedBy(t2) = FreedBy(t) /\ Unread(t2) = Unread(t)
      /\ Waiting(t2) = Waiting(t) /\ Takeable(t2) = Takeable(t) /\ Known(t2) = Known(t)
      /\ DirtyPages(t2) = DirtyPages(t) /\ Blocks(t2) = Blocks(t)
  BY DEF FreedBy, Unread, Waiting, Takeable, Known, DirtyPages, Blocks
<1>2. h \in Nat /\ Run(h, 1) = {h}
  <2>1. h \in Nat
    BY DEF Books, IsTxn
  <2> QED
    BY <2>1, RunHasFirst DEF Positive
<1>3. Loose(t2) = Loose(t) \cup {h}
  <2>1. t.loose \in Seq(Nat) /\ <<h>> \in Seq(Nat) /\ ToSet(<<h>>) = {h}
    BY <1>2 DEF Books, IsTxn, ToSet
  <2>2. \A list \in Seq(Nat), other \in Seq(Nat) : ToSet(list \o other) = ToSet(list) \cup ToSet(other)
    BY ToSetJoined
  <2>3. ToSet(<<h>> \o t.loose) = ToSet(<<h>>) \cup ToSet(t.loose)
    BY <2>1, <2>2
  <2> QED
    BY <2>1, <2>3 DEF Loose
<1>4. h \notin Loose(t)
  BY DEF Books, Placed, Apart
<1>5. OnceEach(t2.loose)
  <2> DEFINE all == <<h>> \o t.loose
  <2>1. t.loose \in Seq(Nat) /\ OnceEach(t.loose)
    BY DEF Books, Placed, IsTxn
  <2>2. /\ DOMAIN all = 1 .. Len(t.loose) + 1 /\ DOMAIN t.loose = 1 .. Len(t.loose) /\ Len(t.loose) \in Nat
        /\ all[1] = h
    BY <1>2, <2>1
  <2>3. \A i \in DOMAIN all : i # 1 => i - 1 \in DOMAIN t.loose /\ all[i] = t.loose[i - 1]
    BY <1>2, <2>1
  <2>4. \A i \in DOMAIN all : i # 1 => all[i] \in Loose(t)
    BY <2>3 DEF Loose, ToSet
  <2> HIDE DEF all
  <2>5. ASSUME NEW i \in DOMAIN all, NEW j \in DOMAIN all, all[i] = all[j]
        PROVE  i = j
    <3>1. CASE i = 1 \/ j = 1
      BY <1>4, <2>2, <2>4, <2>5, <3>1
    <3>2. CASE i # 1 /\ j # 1
      <4>1. i - 1 = j - 1
        BY <2>1, <2>3, <2>5, <3>2 DEF OnceEach
      <4> QED
        BY <2>2, <4>1
    <3> QED
      BY <3>1, <3>2
  <2> QED
    BY <2>5 DEF OnceEach, all
<1>6. h \in DirtyPages(t)
  BY <1>2 DEF DirtyPages
<1>7. Placed(t2, u, loan \ {h})
  <2>1. Apart(Covered(t.pages), t.pghead, FreedBy(t), Loose(t), Waiting(t), loan, Kept(u))
    BY DEF Books, Placed
  <2>2. Apart(Covered(t2.pages), t2.pghead, FreedBy(t2), Loose(t2), Waiting(t2), loan \ {h}, Kept(u))
    BY <1>1, <1>3, <2>1 DEF Apart
  <2> QED
    BY <1>1, <1>3, <1>5, <2>2 DEF Books, Placed
<1>8. Laid(t2, u)
  BY <1>1, <1>3 DEF Books, Laid
<1>9. SpillsRight(t2, u)
  BY <1>1, <1>3 DEF Books, SpillsRight
<1>10. SparesParent(t2, u) /\ Numbered(t2)
  BY DEF Books, SparesParent, Numbered
<1>11. InPlace(file, t, u) => InPlace(file, t2, u)
  BY DEF InPlace, OnFile
<1>12. \A P, s : Spares(t, u, P, s) => Spares(t2, u, P, s)
  BY <1>1, <1>3, <1>6 DEF Spares
<1> QED
  BY CountsSame, <1>1, <1>7, <1>8, <1>9, <1>10, <1>11, <1>12 DEF Moves, Books, Steady

\* Overflow pages that the transaction has written itself go back to where it takes from.
LEMMA RunReturned ==
    ASSUME NEW t, NEW t2, NEW u, NEW h \in DOMAIN t.pages, Books(t, u, {}), IsTxn(t2), u = NoTxn,
           h \in DOMAIN t.dirty \/ h \in t.spills, t.listed = TRUE, t2.listed = TRUE,
           DOMAIN t2.pages = DOMAIN t.pages \ {h}, \A k \in DOMAIN t2.pages : t2.pages[k] = t.pages[k],
           DOMAIN t2.dirty = DOMAIN t.dirty \ {h}, \A k \in DOMAIN t2.dirty : t2.dirty[k] = t.dirty[k],
           t2.recs = t.recs, t2.frees = t.frees, t2.loose = t.loose,
           t2.spills = t.spills \ {h}, t2.txnid = t.txnid, t2.pglast = t.pglast, t2.next = t.next,
           t2.pghead = t.pghead \cup Run(h, t.pages[h].n), t2.oldest = t.oldest,
           t2.room = IF h \in DOMAIN t.dirty THEN t.room + 1 ELSE t.room
    PROVE  Moves(t, t2, u, {}, {})
<1> DEFINE X == Run(h, t.pages[h].n)
<1>1. h \in Nat /\ h \in X /\ X \subseteq Covered(t.pages) /\ t.pages[h].n \in Positive
  BY FirstCovered DEF Books
<1>2. \A k \in DOMAIN t2.pages : k \in DOMAIN t.pages /\ k # h
  OBVIOUS
<1>3. Blocks(u) = {} /\ Kept(u) = {} /\ u.spills = {} /\ DirtyPages(u) = {} /\ DOMAIN u.pages = {}
      /\ DOMAIN u.dirty = {}
  BY DEF NoTxn, Blocks, Kept, FreedBy, Loose, ToSet, DirtyPages
<1>4. \A b \in Blocks(t2) : b \in Blocks(t) /\ b[1] # h
  BY <1>2 DEF Blocks
<1>5. <<h, t.pages[h].n>> \in Blocks(t) /\ RunOf(<<h, t.pages[h].n>>) = X
  BY BlockOfPage DEF RunOf
<1>6. \A b \in Blocks(t2) : RunOf(b) \cap X = {}
  <2>1. SUFFICES ASSUME NEW b \in Blocks(t2) PROVE RunOf(b) \cap X = {}
    OBVIOUS
  <2>2. b \in Blocks(t) /\ b # <<h, t.pages[h].n>>
    BY <1>4
  <2> QED
    BY <1>5, <2>2 DEF Books, Laid, Tiled
<1>7. /\ Covered(t2.pages) \subseteq Covered(t.pages) /\ Covered(t2.pages) \cap X = {}
      /\ Covered(t.pages) \subseteq Covered(t2.pages) \cup X
  <2>1. Covered(t2.pages) \subseteq Covered(t.pages)
    BY <1>2 DEF Covered
  <2>2. ASSUME NEW k \in DOMAIN t2.pages PROVE Run(k, t2.pages[k].n) \cap X = {}
    <3>1. PICK b \in Blocks(t2) : b = <<k, t2.pages[k].n>>
      BY BlockOfPage
    <3>2. RunOf(b) \cap X = {}
      BY <1>6
    <3> QED
      BY <3>1, <3>2 DEF RunOf
  <2>3. Covered(t.pages) \subseteq Covered(t2.pages) \cup X
    BY DEF Covered
  <2> QED
    BY <2>1, <2>2, <2>3 DEF Covered
<1>8. /\ FreedBy(t2) = FreedBy(t) /\ Loose(t2) = Loose(t) /\ Unread(t2) = Unread(t)
      /\ Waiting(t2) = Waiting(t) /\ Known(t2) = Known(t) /\ Takeable(t2) = Takeable(t) \cup X
  BY DEF FreedBy, Loose, Unread, Waiting, Takeable, Known
<1>9. DirtyPages(t2) \subseteq DirtyPages(t)
  BY <1>2 DEF DirtyPages
\* Of the spilled pages only h is in the run.
<1>10. t2.spills \cap X = {}
  <2>1. \A k \in t.spills : k \in RunOf(<<h, t.pages[h].n>>) => k = <<h, t.pages[h].n>>[1]
    BY <1>5 DEF Books, SpillsRight
  <2> QED
    BY <1>5, <2>1
<1> HIDE DEF X
<1>11. Placed(t2, u, {})
  <2>1. Apart(Covered(t.pages), t.pghead, FreedBy(t), Loose(t), Waiting(t), {}, Kept(u))
    BY DEF Books, Placed
  <2>2. Apart(Covered(t2.pages), t2.pghead, FreedBy(t2), Loose(t2), Waiting(t2), {}, Kept(u))
    BY <1>1, <1>7, <1>8, <2>1 DEF Apart, X
  <2> QED
    BY <1>1, <1>7, <1>8, <2>2 DEF Books, Placed, X
<1>12. Laid(t2, u)
  <2>1. Blocks(t2) \cup Blocks(u) \subseteq Blocks(t) \cup Blocks(u)
    BY <1>4
  <2>2. Tiled(Blocks(t2) \cup Blocks(u))
    BY <2>1, TiledPart DEF Books, Laid
  <2>3. \A b \in Blocks(t2) \cup Blocks(u) : RunOf(b) \subseteq Known(t2) \ Takeable(t2)
    BY <1>3, <1>4, <1>6, <1>8 DEF Books, Laid
  <2>4. \A k \in Loose(t2) : k \in DOMAIN t2.dirty /\ t2.dirty[k] = 1
    <3>1. h \notin Loose(t)
      BY <1>1 DEF Books, Placed, Apart
    <3> QED
      BY <1>2, <1>8, <3>1 DEF Books, Laid
  <2> QED
    BY <1>3, <2>2, <2>3, <2>4 DEF Laid
<1>13. SpillsRight(t2, u)
  <2>1. t2.spills \cap (DOMAIN t2.dirty \cup Loose(t2) \cup Kept(u)) = {}
    BY <1>2, <1>8 DEF Books, SpillsRight
  <2>2. t2.spills \cup u.spills \subseteq Known(t2) \ Takeable(t2)
    BY <1>3, <1>8, <1>10 DEF Books, SpillsRight
  <2>3. \A k \in t2.spills \cup u.spills, b \in Blocks(t2) \cup Blocks(u) : k \in RunOf(b) => k = b[1]
    BY <1>4 DEF Books, SpillsRight
  <2> QED
    BY <1>3, <2>1, <2>2, <2>3 DEF SpillsRight
<1>14. SparesParent(t2, u) /\ Numbered(t2)
  BY <1>3 DEF Books, SparesParent, Numbered
<1>15. InPlace(file, t, u) => InPlace(file, t2, u)
  BY <1>2 DEF InPlace, OnFile
<1>16. ASSUME NEW P, NEW s, Spares(t, u, P, s) PROVE Spares(t2, u, P, s)
  <2>1. X \cap P = {}
    <3>1. CASE h \in DOMAIN t.dirty
      <4>8. <<h, t.dirty[h]>> \in Blocks(t) \cup Blocks(u)
        BY <3>1, BlockOfDirty
      <4>9. <<h, t.pages[h].n>> \in Blocks(t) \cup Blocks(u)
        BY <1>5
      <4>1. t.dirty[h] = t.pages[h].n
        BY <4>8, <4>9, SameBlock
      <4>2. X \subseteq DirtyPages(t)
        BY <3>1, <4>1 DEF DirtyPages, X
      <4> QED
        BY <1>16, <4>2 DEF Spares
    <3>2. CASE h \in t.spills
      BY <1>16, <3>2 DEF Spares, X
    <3> QED
      BY <3>1, <3>2
  <2>2. \A k \in (t2.spills \cup u.spills) \cap DOMAIN t2.pages : Run(k, t2.pages[k].n) \cap P = {}
    BY <1>2, <1>16 DEF Spares
  <2> QED
    BY <1>8, <1>9, <1>16, <2>1, <2>2 DEF Spares, X
<1>17. Space(t2, u) = Space(t, u) /\ FreesMore(t, t2)
  <2>1. Counts(t2, u) = DOMAIN t2.dirty /\ Counts(t, u) = DOMAIN t.dirty
    BY <1>3 DEF Counts
  <2>2. CASE h \in DOMAIN t.dirty
    BY <2>1, <2>2, CountsChange
  <2>3. CASE h \notin DOMAIN t.dirty
    <3>1. Len(t.frees) \in Nat
      BY DEF Books, IsTxn
    <3>2. Counts(t2, u) = Counts(t, u)
      BY <2>1, <2>3
    <3>3. t2.room = t.room
      BY <2>3
    <3> HIDE DEF Counts
    <3> QED
      BY <3>1, <3>2, <3>3 DEF Space, FreesMore
  <2> QED
    BY <2>2, <2>3
<1> QED
  BY <1>17, <1>8, <1>11, <1>12, <1>13, <1>14, <1>15, <1>16 DEF Moves, Books, Steady

\* A dirty page is written to.
LEMMA PageRewritten ==
    ASSUME NEW t, NEW t2, NEW u, NEW loan, NEW h \in DOMAIN t.pages, Books(t, u, loan), IsTxn(t2),
           h \in DOMAIN t.dirty, DOMAIN t2.pages = DOMAIN t.pages, t2.pages[h].n = t.pages[h].n,
           \A k \in DOMAIN t.pages : k # h => t2.pages[k] = t.pages[k],
           t2.recs = t.recs, t2.frees = t.frees, t2.loose = t.loose,
           t2.spills = t.spills, t2.txnid = t.txnid, t2.pglast = t.pglast, t2.next = t.next,
           t2.pghead = t.pghead, t2.dirty = t.dirty, t2.oldest = t.oldest,
           t2.room = t.room, t2.listed = t.listed
    PROVE  Moves(t, t2, u, loan, loan)
<1>1. \A k \in DOMAIN t.pages : t2.pages[k].n = t.pages[k].n
  OBVIOUS
<1>2. Covered(t2.pages) = Covered(t.pages) /\ Blocks(t2) = Blocks(t)
  BY <1>1 DEF Covered, Blocks
<1>3. /\ FreedBy(t2) = FreedBy(t) /\ Loose(t2) = Loose(t) /\ Unread(t2) = Unread(t)
      /\ Waiting(t2) = Waiting(t) /\ Takeable(t2) = Takeable(t) /\ Known(t2) = Known(t)
      /\ DirtyPages(t2) = DirtyPages(t)
  BY DEF FreedBy, Loose, Unread, Waiting, Takeable, Known, DirtyPages
<1>4. Placed(t2, u, loan)
  BY <1>2, <1>3 DEF Books, Placed
<1>5. Laid(t2, u)
  BY <1>2, <1>3 DEF Books, Laid
<1>6. SpillsRight(t2, u)
  BY <1>2, <1>3 DEF Books, SpillsRight
<1>7. SparesParent(t2, u) /\ Numbered(t2)
  BY DEF Books, SparesParent, Numbered
<1>8. InPlace(file, t, u) => InPlace(file, t2, u)
  BY DEF InPlace, OnFile
<1>9. \A P, s : Spares(t, u, P, s) => Spares(t2, u, P, s)
  BY <1>1, <1>3 DEF Spares
<1> QED
  BY CountsSame, <1>3, <1>4, <1>5, <1>6, <1>7, <1>8, <1>9 DEF Moves, Books, Steady

\* A page that the transaction has spilled, or its parent has written to, is dirty in it.
NowDirty(t, t2, h) ==
    /\ t2.dirty = With(t.dirty, h, t.pages[h].n) /\ t2.spills = t.spills \ {h}
    /\ t2.pages = t.pages /\ t2.recs = t.recs /\ t2.frees = t.frees /\ t2.loose = t.loose
    /\ t2.txnid = t.txnid /\ t2.pglast = t.pglast /\ t2.next = t.next /\ t2.pghead = t.pghead
    /\ t2.oldest = t.oldest /\ t2.root = t.root /\ t2.error = t.error /\ t2.listed = t.listed

\* A page that was written in this transaction before is dirty again.
LEMMA PageDirtied ==
    ASSUME NEW t, NEW t2, NEW u, NEW h \in DOMAIN t.pages, Books(t, u, {}), IsTxn(t2),
           h \notin DOMAIN t.dirty, h \in t.spills \cup u.spills \cup DOMAIN u.dirty,
           NowDirty(t, t2, h), t2.room = IF h \in Counts(t, u) THEN t.room ELSE t.room - 1
    PROVE  Moves(t, t2, u, {}, {}) /\ DOMAIN t2.dirty = DOMAIN t.dirty \cup {h}
<1> USE DEF NowDirty
<1> DEFINE n == t.pages[h].n
           X == Run(h, n)
<1>1. h \in Nat /\ h \in X /\ X \subseteq Covered(t.pages) /\ n \in Positive
  BY FirstCovered DEF Books
<1>2. /\ DOMAIN t2.dirty = DOMAIN t.dirty \cup {h} /\ t2.dirty[h] = n
      /\ \A k \in DOMAIN t.dirty : t2.dirty[k] = t.dirty[k]
  <2>1. /\ DOMAIN With(t.dirty, h, n) = DOMAIN t.dirty \cup {h} /\ With(t.dirty, h, n)[h] = n
        /\ \A k \in DOMAIN t.dirty : k # h => With(t.dirty, h, n)[k] = t.dirty[k]
    BY DEF With, Over
  <2> QED
    BY <2>1
<1>3. Blocks(t2) = Blocks(t)
  BY <1>2 DEF Blocks
<1>4. DirtyPages(t2) = DirtyPages(t) \cup X
  BY <1>2 DEF DirtyPages
<1>5. /\ FreedBy(t2) = FreedBy(t) /\ Loose(t2) = Loose(t) /\ Unread(t2) = Unread(t)
      /\ Waiting(t2) = Waiting(t) /\ Takeable(t2) = Takeable(t) /\ Known(t2) = Known(t)
  BY DEF FreedBy, Loose, Unread, Waiting, Takeable, Known
<1> HIDE DEF X, n
<1>6. Placed(t2, u, {})
  BY <1>5 DEF Books, Placed
<1>7. X \cap Kept(u) = {} /\ h \notin Loose(t)
  BY <1>1 DEF Books, Placed, Apart
<1>8. Laid(t2, u)
  <2>1. DirtyPages(t2) \cap Kept(u) = {}
    BY <1>4, <1>7 DEF Books, Laid
  <2>2. \A k \in Loose(t2) : k \in DOMAIN t2.dirty /\ t2.dirty[k] = 1
    BY <1>2, <1>5 DEF Books, Laid
  <2> QED
    BY <1>3, <1>5, <2>1, <2>2 DEF Books, Laid
<1>9. SpillsRight(t2, u)
  <2>1. t2.spills \cap (DOMAIN t2.dirty \cup Loose(t2) \cup Kept(u)) = {}
    BY <1>2, <1>5 DEF Books, SpillsRight
  <2> QED
    BY <1>3, <1>5, <2>1 DEF Books, SpillsRight
<1>10. SparesParent(t2, u) /\ Numbered(t2)
  BY <1>2 DEF Books, SparesParent, Numbered
<1>11. InPlace(file, t, u) => InPlace(file, t2, u)
  BY <1>2 DEF InPlace, OnFile
<1>12. ASSUME NEW P, NEW s, Spares(t, u, P, s) PROVE Spares(t2, u, P, s)
  <2>1. X \cap P = {}
    <3>1. CASE h \in DOMAIN u.dirty
      <4>8. <<h, u.dirty[h]>> \in Blocks(t) \cup Blocks(u)
        BY <3>1, BlockOfDirty
      <4>9. <<h, n>> \in Blocks(t) \cup Blocks(u)
        BY BlockOfPage DEF n
      <4>1. u.dirty[h] = n
        BY <4>8, <4>9, SameBlock
      <4>2. X \subseteq DirtyPages(u)
        BY <3>1, <4>1 DEF DirtyPages, X
      <4> QED
        BY <1>12, <4>2 DEF Spares
    <3>2. CASE h \in t.spills \cup u.spills
      BY <1>12, <3>2 DEF Spares, X, n
    <3> QED
      BY <3>1, <3>2
  <2> QED
    BY <1>4, <1>5, <1>12, <2>1 DEF Spares
<1>13. Space(t2, u) = Space(t, u) /\ FreesMore(t, t2)
  <2>1. Counts(t2, u) = Counts(t, u) \cup {h}
    BY <1>2 DEF Counts
  <2>2. CASE h \notin Counts(t, u)
    BY <2>1, <2>2, CountsChange
  <2>3. CASE h \in Counts(t, u)
    <3>1. Len(t.frees) \in Nat
      BY DEF Books, IsTxn
    <3>2. Counts(t2, u) = Counts(t, u)
      BY <2>1, <2>3
    <3> QED
      BY <2>3, <3>1, <3>2 DEF Space, FreesMore
  <2> QED
    BY <2>2, <2>3
<1> QED
  BY <1>13, <1>2, <1>5, <1>6, <1>8, <1>9, <1>10, <1>11, <1>12 DEF Moves, Books, Steady

\* Loose pages are freed.
LEMMA AllLooseFreed ==
    ASSUME NEW t, NEW t2, NEW u, Books(t, u, {}), IsTxn(t2),
           FreedBy(t2) = FreedBy(t) \cup Loose(t), t2.loose = <<>>, t2.dirty = Without(t.dirty, Loose(t)),
           t2.pages = t.pages, t2.recs = t.recs, t2.spills = t.spills,
           t2.txnid = t.txnid, t2.pglast = t.pglast, t2.next = t.next,
           t2.pghead = t.pghead, t2.oldest = t.oldest, t2.room = t.room, t2.listed = t.listed
    PROVE  /\ Books(t2, u, {}) /\ Space(t2, u) <= Space(t, u)
           /\ InPlace(file, t, u) => InPlace(file, t2, u)
           /\ \A P, s : Spares(t, u, P, s) => Spares(t2, u, P, s)
<1>1. DOMAIN t2.dirty = DOMAIN t.dirty \ Loose(t) /\ \A k \in DOMAIN t2.dirty : t2.dirty[k] = t.dirty[k]
  BY DEF Without, Restrict
<1>2. Blocks(t2) \subseteq Blocks(t) /\ DirtyPages(t2) \subseteq DirtyPages(t)
  BY <1>1 DEF Blocks, DirtyPages
<1>3. /\ Loose(t2) = {} /\ Unread(t2) = Unread(t)
      /\ Waiting(t2) = Waiting(t) /\ Takeable(t2) = Takeable(t) /\ Known(t2) = Known(t)
  BY DEF Loose, ToSet, Unread, Waiting, Takeable, Known
<1>4. Placed(t2, u, {})
  <2>1. Apart(Covered(t.pages), t.pghead, FreedBy(t), Loose(t), Waiting(t), {}, Kept(u))
    BY DEF Books, Placed
  <2>2. Apart(Covered(t2.pages), t2.pghead, FreedBy(t2), Loose(t2), Waiting(t2), {}, Kept(u))
    BY <1>3, <2>1 DEF Apart
  <2>3. OnceEach(t2.loose)
    BY DEF OnceEach
  <2> QED
    BY <1>3, <2>2, <2>3 DEF Books, Placed
<1>5. Laid(t2, u)
  <2>1. Tiled(Blocks(t2) \cup Blocks(u))
    BY <1>2, TiledPart DEF Books, Laid
  <2> QED
    BY <1>2, <1>3, <2>1 DEF Books, Laid
<1>6. SpillsRight(t2, u)
  <2>1. t2.spills \cap (DOMAIN t2.dirty \cup Loose(t2) \cup Kept(u)) = {}
    BY <1>1, <1>3 DEF Books, SpillsRight
  <2> QED
    BY <1>2, <1>3, <2>1 DEF Books, SpillsRight
<1>7. SparesParent(t2, u) /\ Numbered(t2)
  BY <1>1 DEF Books, SparesParent, Numbered
<1>8. ASSUME InPlace(file, t, u) PROVE InPlace(file, t2, u)
  <2>1. \A h \in DOMAIN t.pages : h \notin Loose(t)
    <3>1. SUFFICES ASSUME NEW h \in DOMAIN t.pages PROVE h \notin Loose(t)
      OBVIOUS
    <3>2. h \in Covered(t.pages)
      BY FirstCovered DEF Books
    <3> QED
      BY <3>2 DEF Books, Placed, Apart
  <2> QED
    BY <1>1, <1>8, <2>1 DEF InPlace, OnFile
<1>9. \A P, s : Spares(t, u, P, s) => Spares(t2, u, P, s)
  BY <1>2, <1>3 DEF Spares
<1>10. Space(t2, u) <= Space(t, u)
  <2>1. Counts(t2, u) \subseteq Counts(t, u)
    BY <1>1 DEF Counts
  <2>2. /\ IsFiniteSet(Counts(t, u)) /\ Cardinality(Counts(t, u)) \in Nat /\ t.room \in Nat
    BY CountsAre
  <2>3. Cardinality(Counts(t2, u)) \in Nat /\ Cardinality(Counts(t2, u)) <= Cardinality(Counts(t, u))
    BY <2>1, <2>2, FS_Subset, FS_CardinalityType
  <2> QED
    BY <2>2, <2>3 DEF Space
<1> QED
  BY <1>3, <1>4, <1>5, <1>6, <1>7, <1>8, <1>9, <1>10 DEF Books

-----------------------------------------------------------------------------
(* Taking pages: mdb_page_alloc *)

\* mdb_find_oldest: before the transaction, and no later than any reader.
LEMMA FindOldestIs ==
    ASSUME NEW t, t.txnid \in Positive, Slots \subseteq Nat
    PROVE  FindOldest(t) \in Nat /\ FindOldest(t) < t.txnid /\ \A s \in Slots : FindOldest(t) <= s
<1>1. {t.txnid - 1} \cup Slots \in SUBSET Nat /\ {t.txnid - 1} \cup Slots # {}
  <2>1. t.txnid - 1 \in Nat
    BY DEF Positive
  <2> HIDE DEF Slots
  <2> QED
    BY <2>1
<1>2. FindOldest(t) \in {t.txnid - 1} \cup Slots /\ \A s \in {t.txnid - 1} \cup Slots : FindOldest(t) <= s
  BY <1>1, LeastIs DEF FindOldest
<1>3. FindOldest(t) \in Nat /\ FindOldest(t) <= t.txnid - 1
  BY <1>1, <1>2
<1> QED
  BY <1>2, <1>3 DEF Positive

\* A transaction with its books in order has a number greater than 0.
LEMMA TxnidPositive ==
    ASSUME NEW t, NEW u, NEW loan, Books(t, u, loan)
    PROVE  t.txnid \in Positive /\ t.pglast \in Nat /\ t.frees \in Seq(Nat)
<1>1. t.frees \in Seq(Nat) /\ t.txnid \in Nat /\ t.pglast \in Nat /\ t.pglast < t.txnid
  BY DEF Books, IsTxn, Numbered
<1> QED
  BY <1>1 DEF Positive

\* The records that may be read, the oldest first; and how many of them are.
LEMMA FetchableIs ==
    ASSUME NEW t, IsTxn(t), NEW num
    PROVE  LET ids == Fetchable(t, t.oldest)
               k   == Taken(t, ids, num)
           IN /\ Len(ids) \in Nat /\ k \in 0 .. Len(ids)
              /\ \A i \in 1 .. Len(ids) :
                     ids[i] \in DOMAIN t.recs /\ t.pglast < ids[i] /\ ids[i] < t.oldest
              /\ \A i, j \in 1 .. Len(ids) : i < j => ids[i] < ids[j]
              /\ \A x \in DOMAIN t.recs : t.pglast < x /\ x < t.oldest => \E i \in 1 .. Len(ids) : ids[i] = x
<1> DEFINE S   == {id \in DOMAIN t.recs : id > t.pglast /\ id < t.oldest}
           ids == Fetchable(t, t.oldest)
           k   == Taken(t, ids, num)
           enough == {j \in 0 .. Len(ids) : RunStarts(Merged(t, ids, j), num) # {}}
<1>1. S \in SUBSET Nat /\ IsFiniteSet(S) /\ DOMAIN t.recs \subseteq Nat
  <2>1. S \subseteq DOMAIN t.recs /\ IsFiniteSet(DOMAIN t.recs) /\ DOMAIN t.recs \subseteq Nat
    BY DEF IsTxn, IsRecs
  <2> QED
    BY <2>1, FS_Subset
<1>2. ids = Ascending(S)
  BY DEF Fetchable, Older
<1> HIDE DEF S
<1>3. /\ Len(ids) \in Nat
      /\ \A i \in 1 .. Len(ids) : ids[i] \in S
      /\ \A i, j \in 1 .. Len(ids) : i < j => ids[i] < ids[j]
      /\ \A x \in S : \E i \in 1 .. Len(ids) : ids[i] = x
  BY <1>1, <1>2, AscendingIs
<1>4. k = IF enough = {} THEN Len(ids) ELSE Least(enough)
  BY DEF Taken
<1> HIDE DEF ids
<1>5. k \in 0 .. Len(ids)
  <2>1. CASE enough = {}
    BY <1>3, <1>4, <2>1
  <2>2. CASE enough # {}
    <3>1. enough \in SUBSET Nat
      OBVIOUS
    <3> HIDE DEF enough
    <3>2. Least(enough) \in enough
      BY <2>2, <3>1, LeastIs
    <3> QED
      BY <1>4, <2>2, <3>2 DEF enough
  <2> QED
    BY <2>1, <2>2
<1>6. \A i \in 1 .. Len(ids) : ids[i] \in DOMAIN t.recs /\ t.pglast < ids[i] /\ ids[i] < t.oldest
  BY <1>1, <1>3 DEF S, IsTxn
<1>7. \A x \in DOMAIN t.recs : t.pglast < x /\ x < t.oldest => x \in S
  BY <1>1 DEF S, IsTxn
<1> QED
  BY <1>3, <1>5, <1>6, <1>7 DEF ids

\* What reading records does not change.
SamePages(t, t2) ==
    /\ t2.pages = t.pages /\ t2.root = t.root /\ t2.dirty = t.dirty /\ t2.next = t.next
    /\ t2.recs = t.recs /\ t2.loose = t.loose /\ t2.error = t.error /\ t2.spills = t.spills
    /\ t2.frees = t.frees /\ t2.room = t.room /\ (t.listed => t2.listed)

\* Reading records of the free list (mdb_page_alloc) is a move.
LEMMA FetchedIs ==
    ASSUME NEW t, NEW u, NEW num, Books(t, u, {}), Slots \subseteq Nat
    PROVE  LET f == Fetched(t, t.oldest, num) IN Moves(t, f, u, {}, {}) /\ SamePages(t, f)
<1> DEFINE ids == Fetchable(t, t.oldest)
           k   == Taken(t, ids, num)
           f   == Fetched(t, t.oldest, num)
<1>1. IsTxn(t)
  BY DEF Books
<1>2. f = IF k = 0 THEN t
          ELSE [t EXCEPT !.pghead = Merged(t, ids, k), !.listed = TRUE, !.pglast = ids[k]]
  BY DEF Fetched
<1>3. /\ Len(ids) \in Nat /\ k \in 0 .. Len(ids)
      /\ \A i \in 1 .. Len(ids) : ids[i] \in DOMAIN t.recs /\ t.pglast < ids[i] /\ ids[i] < t.oldest
      /\ \A i, j \in 1 .. Len(ids) : i < j => ids[i] < ids[j]
      /\ \A x \in DOMAIN t.recs : t.pglast < x /\ x < t.oldest => \E i \in 1 .. Len(ids) : ids[i] = x
  BY <1>1, FetchableIs
<1>4. Merged(t, ids, k) = t.pghead \cup UNION {t.recs[ids[i]].ids : i \in 1 .. k}
  BY DEF Merged
<1> HIDE DEF ids, k, f
<1>5. CASE k = 0
  <2>1. f = t /\ t.oldest < t.txnid
    BY <1>2, <1>5 DEF Books, Numbered
  <2> QED
    BY <2>1, <1>1, Unmoved DEF SamePages, f
<1>6. CASE k # 0
  <2> DEFINE last == ids[k]
             read == {x \in DOMAIN t.recs : t.pglast < x /\ x <= last}
  <2>1. k \in 1 .. Len(ids) /\ 1 .. k \subseteq 1 .. Len(ids)
    BY <1>3, <1>6
  <2>2. last \in DOMAIN t.recs /\ t.pglast < last /\ last < t.oldest /\ DOMAIN t.recs \subseteq Nat
        /\ last \in Nat /\ t.oldest \in Nat /\ t.pglast \in Nat
    BY <1>1, <1>3, <2>1 DEF IsTxn, IsRecs
  <2>3. f = [t EXCEPT !.pghead = Merged(t, ids, k), !.listed = TRUE, !.pglast = last]
    BY <1>2, <1>6
  <2>4. \A i \in 1 .. k : ids[i] \in read
    <3>1. SUFFICES ASSUME NEW i \in 1 .. k PROVE ids[i] \in read
      OBVIOUS
    <3>2. ids[i] \in DOMAIN t.recs /\ t.pglast < ids[i] /\ ids[i] \in Nat
      BY <1>3, <2>1, <2>2
    <3>3. i = k \/ i < k
      BY <2>1
    <3>4. ids[i] <= last
      BY <1>3, <2>1, <2>2, <3>2, <3>3
    <3> QED
      BY <3>2, <3>4
  <2>5. \A x \in read : \E i \in 1 .. k : ids[i] = x
    <3>1. SUFFICES ASSUME NEW x \in read PROVE \E i \in 1 .. k : ids[i] = x
      OBVIOUS
    <3>2. x \in DOMAIN t.recs /\ x \in Nat /\ t.pglast < x /\ x <= last /\ x < t.oldest
      BY <2>2
    <3>3. PICK i \in 1 .. Len(ids) : ids[i] = x
      BY <1>3, <3>2
    <3>4. ~ (k < i)
      BY <1>3, <2>1, <2>2, <3>2, <3>3
    <3> QED
      BY <2>1, <3>3, <3>4
  <2> HIDE DEF last, read
  <2>6. UNION {t.recs[ids[i]].ids : i \in 1 .. k} = UNION {t.recs[id].ids : id \in read}
    BY <2>4, <2>5
  <2>7. /\ f.pghead = t.pghead \cup UNION {t.recs[id].ids : id \in read} /\ f.pglast = last
        /\ f.oldest = t.oldest /\ f.txnid = t.txnid /\ SamePages(t, f) /\ IsTxn(f)
    BY <1>1, <1>4, <2>2, <2>3, <2>6 DEF IsTxn, IsRecord, SamePages
  <2>8. Moves(t, f, u, {}, {})
    BY <2>2, <2>7, RecordsRead DEF SamePages, read
  <2> QED
    BY <2>7, <2>8 DEF f
<1> QED
  BY <1>5, <1>6 DEF f

\* Looking for the oldest reader again is a move.
LEMMA RefreshIs ==
    ASSUME NEW t, NEW u, NEW num, Books(t, u, {}), Slots \subseteq Nat
    PROVE  LET r == Refresh(t, num) IN Moves(t, r, u, {}, {}) /\ SamePages(t, r)
<1> DEFINE r == Refresh(t, num)
<1>1. r = t \/ r = [t EXCEPT !.oldest = FindOldest(t)]
  BY DEF Refresh
<1>2. FindOldest(t) \in Nat /\ FindOldest(t) < t.txnid
  BY TxnidPositive, FindOldestIs
<1>3. IsTxn(t) /\ t.oldest < t.txnid
  BY DEF Books, Numbered
<1> HIDE DEF r
<1>4. SamePages(t, r) /\ IsTxn(r) /\ r.oldest \in {t.oldest, FindOldest(t)} /\ r.oldest < r.txnid
      /\ r.txnid = t.txnid /\ r.pglast = t.pglast /\ r.pghead = t.pghead /\ r.listed = t.listed
  BY <1>1, <1>2, <1>3 DEF SamePages, IsTxn, IsRecord
<1>5. Moves(t, r, u, {}, {})
  BY <1>4, Unmoved DEF SamePages
<1> QED
  BY <1>4, <1>5 DEF r

\* A failed operation leaves the pages where they were, and so what is seen of them, and the
\* room there is.
SameView(t, t2) ==
    /\ t2.pages = t.pages /\ t2.dirty = t.dirty /\ t2.spills = t.spills
    /\ t2.room = t.room /\ t2.frees = t.frees /\ (t.listed => t2.listed)
    /\ t2.pghead \subseteq Pages

\* No page becomes loose where there was none.
NoneLoosened(t, t2) == t.loose = <<>> => t2.loose = <<>>

\* What mdb_page_alloc answers, when it does not fail: pages that nothing uses.
Allots(t, a, u, num) ==
    /\ a.t.error = FALSE /\ a.page \in Nat \ {0}
    /\ Moves(t, a.t, u, {}, Run(a.page, num))
    /\ a.page \in DOMAIN a.t.dirty /\ a.t.dirty[a.page] = num
    /\ a.t.pages = t.pages /\ a.t.root = t.root /\ NoneLoosened(t, a.t)

\* What the books know are pages of the map.
LEMMA KnownPages ==
    ASSUME NEW t, NEW u, NEW loan, Books(t, u, loan)
    PROVE  Known(t) \subseteq Pages /\ t.pghead \subseteq Pages
           /\ FreedBy(t) \subseteq Pages /\ Covered(t.pages) \subseteq Pages
<1>1. t.next \in Nat /\ t.next <= MaxPg /\ MaxPg \in Nat
  BY LmdbPagesAssumption DEF Books, Placed, IsTxn
<1>2. Known(t) \subseteq Pages
  BY <1>1 DEF Known, Pages
<1> QED
  BY <1>2 DEF Books, Placed

\* What the error flag leaves as it was.
LEMMA FailedIs ==
    ASSUME NEW t, IsRecord(t), t.pghead \subseteq Pages
    PROVE  /\ Failed(t).error = TRUE /\ Failed(t).txnid = t.txnid /\ Failed(t).oldest = t.oldest
           /\ IsRecord(Failed(t)) /\ SameView(t, Failed(t))
<1> DEFINE f == Failed(t)
<1>1. f = [t EXCEPT !.error = TRUE]
  BY DEF Failed
<1> HIDE DEF f
<1>2. f.error = TRUE /\ f.txnid = t.txnid /\ f.oldest = t.oldest /\ IsRecord(f) /\ SameView(t, f)
  BY <1>1 DEF IsRecord, SameView
<1> QED
  BY <1>2 DEF f

\* mdb_page_alloc fails and changes no page, or allots pages that nothing uses.
LEMMA AllocIs ==
    ASSUME NEW t, NEW u, NEW num \in Positive, Books(t, u, {}), Slots \subseteq Nat, t.error = FALSE
    PROVE  LET a == Alloc(t, num) IN
           /\ Steady(t, a.t) /\ IsRecord(a.t)
           /\ \/ a.t.error = TRUE /\ a.page = 0 /\ SameView(t, a.t)
              \/ Allots(t, a, u, num)
<1> DEFINE a == Alloc(t, num)
           r == Refresh(t, num)
           f == Fetched(r, r.oldest, num)
           starts == RunStarts(f.pghead, num)
           p    == IF starts # {} THEN Least(starts) ELSE f.next
           next == IF starts # {} THEN f.next ELSE f.next + num
           out  == Dirtied([f EXCEPT !.pghead = @ \ Run(p, num), !.next = next], p, num)
<1>1. IsTxn(t) /\ t.room \in Nat /\ t.loose \in Seq(Nat) /\ t.oldest < t.txnid
  BY DEF Books, IsTxn, Numbered
<1>2. num \in Nat /\ num > 0 /\ (num = 1 \/ num > 1)
  BY DEF Positive
<1>3. CASE num = 1 /\ t.loose # <<>>
  <2> DEFINE t2 == [t EXCEPT !.loose = Tail(@)]
  <2>1. a = [t |-> t2, page |-> Head(t.loose)] /\ t2 = [t EXCEPT !.loose = Tail(t.loose)]
    BY <1>3 DEF Alloc
  <2>2. Tail(t.loose) \in Seq(Nat)
    BY <1>1, <1>3
  <2>3. /\ IsTxn(t2) /\ t2.pages = t.pages /\ t2.recs = t.recs /\ t2.frees = t.frees /\ t2.loose = Tail(t.loose)
        /\ t2.spills = t.spills /\ t2.txnid = t.txnid /\ t2.pglast = t.pglast /\ t2.next = t.next
        /\ t2.pghead = t.pghead /\ t2.dirty = t.dirty /\ t2.oldest = t.oldest /\ t2.error = FALSE
        /\ t2.root = t.root /\ t2.room = t.room /\ t2.listed = t.listed
    <3> HIDE DEF t2
    <3> QED
      BY <1>1, <2>1, <2>2 DEF IsTxn, IsRecord
  <2> HIDE DEF t2
  <2>4. /\ Moves(t, t2, u, {}, Run(Head(t.loose), 1)) /\ Head(t.loose) \in Nat \ {0}
        /\ Head(t.loose) \in DOMAIN t.dirty /\ t.dirty[Head(t.loose)] = 1
    BY <1>3, <2>3, LooseTaken
  <2>5. Steady(t, t2) /\ IsRecord(t2) /\ a.t = t2 /\ a.page = Head(t.loose)
    BY <2>1, <2>3, <2>4 DEF Moves, IsTxn
  <2> QED
    BY <1>3, <2>3, <2>4, <2>5 DEF Allots, NoneLoosened
<1>4. CASE ~ (num = 1 /\ t.loose # <<>>) /\ t.room = 0
  <2>1. a = [t |-> Failed(t), page |-> 0]
    BY <1>2, <1>4 DEF Alloc
  <2>2. /\ Failed(t).error = TRUE /\ Failed(t).txnid = t.txnid /\ Failed(t).oldest = t.oldest
        /\ IsRecord(Failed(t)) /\ SameView(t, Failed(t))
    BY <1>1, FailedIs, KnownPages DEF IsTxn
  <2> QED
    BY <2>1, <2>2 DEF Steady
<1>5. CASE ~ (num = 1 /\ t.loose # <<>>) /\ t.room > 0
  <2>1. a = IF next > f.next /\ next >= MaxPg THEN [t |-> Failed(f), page |-> 0]
            ELSE [t |-> out, page |-> p]
    <3>1. (num > 1 \/ t.loose = <<>>) /\ t.room > 0 /\ t.room # 0
      BY <1>1, <1>2, <1>5
    <3> HIDE DEF r, f
    <3> QED
      BY <1>5, <3>1, Zenon DEF Alloc, r, f
  <2>2. Moves(t, r, u, {}, {}) /\ SamePages(t, r)
    BY RefreshIs
  <2>3. Moves(r, f, u, {}, {}) /\ SamePages(r, f)
    <3> HIDE DEF r
    <3> QED
      BY <2>2, FetchedIs DEF Moves, f
  <2> HIDE DEF r, f, starts, p, next, out
  <2>4. Moves(t, f, u, {}, {}) /\ SamePages(t, f)
    BY <2>2, <2>3, MovesOn, TxnidPositive DEF SamePages
  <2>5. Books(f, u, {}) /\ IsTxn(f) /\ Steady(t, f)
    BY <2>4 DEF Moves, Books
  <2>6. CASE next > f.next /\ next >= MaxPg
    <3>1. /\ Failed(f).error = TRUE /\ Failed(f).txnid = f.txnid /\ Failed(f).oldest = f.oldest
          /\ IsRecord(Failed(f)) /\ SameView(f, Failed(f))
      BY <2>5, FailedIs, KnownPages DEF IsTxn
    <3>2. SameView(t, Failed(f))
      BY <2>4, <3>1 DEF SamePages, SameView
    <3> QED
      BY <2>1, <2>5, <2>6, <3>1, <3>2 DEF Steady
  <2>7. CASE ~ (next > f.next /\ next >= MaxPg)
    <3>1. f.next \in Nat /\ f.room \in Nat /\ f.room > 0 /\ MaxPg \in Nat /\ f.pghead \subseteq Nat
          /\ f.next <= MaxPg
      <4>1. f.next \in Nat /\ f.room \in Nat /\ f.room = t.room
        BY <2>4, <2>5 DEF IsTxn, SamePages
      <4>2. f.pghead \subseteq Known(f) /\ Known(f) \subseteq Nat /\ f.next <= MaxPg
        BY <2>5 DEF Books, Placed, Known
      <4> QED
        BY <1>5, <4>1, <4>2, LmdbPagesAssumption
    <3>2. p \in Nat /\ \/ Run(p, num) \subseteq f.pghead /\ next = f.next
                       \/ p = f.next /\ next = f.next + num /\ next <= MaxPg
      <4>1. CASE starts # {}
        <5>1. starts \in SUBSET Nat
          BY <3>1 DEF starts, RunStarts
        <5>2. p \in starts /\ next = f.next
          BY <4>1, <5>1, LeastIs DEF p, next
        <5> QED
          BY <5>1, <5>2 DEF starts, RunStarts
      <4>2. CASE starts = {}
        BY <1>2, <2>7, <3>1, <4>2 DEF p, next
      <4> QED
        BY <4>1, <4>2
    <3>3. next \in Nat /\ f.room - 1 \in Nat
      <4>1. next \in Nat
        BY <1>2, <3>1 DEF next
      <4> QED
        BY <3>1, <4>1
    <3>4. out = [f EXCEPT !.pghead = f.pghead \ Run(p, num), !.next = next,
                          !.dirty = With(f.dirty, p, num), !.room = f.room - 1]
      BY <2>5 DEF out, Dirtied, IsTxn
    <3>5. /\ DOMAIN With(f.dirty, p, num) = DOMAIN f.dirty \cup {p} /\ With(f.dirty, p, num)[p] = num
          /\ \A h \in DOMAIN f.dirty : With(f.dirty, p, num)[h] \in {f.dirty[h], num}
      BY DEF With, Over
    <3>6. DOMAIN With(f.dirty, p, num) \subseteq Nat
          /\ \A h \in DOMAIN With(f.dirty, p, num) : With(f.dirty, p, num)[h] \in Positive
      BY <2>5, <3>2, <3>5 DEF IsTxn
    <3>7. /\ IsTxn(out) /\ out.pages = f.pages /\ out.recs = f.recs /\ out.frees = f.frees
          /\ out.loose = f.loose /\ out.spills = f.spills /\ out.txnid = f.txnid /\ out.pglast = f.pglast
          /\ out.oldest = f.oldest /\ out.pghead = f.pghead \ Run(p, num) /\ out.next = next
          /\ out.dirty = With(f.dirty, p, num) /\ out.root = f.root /\ out.error = f.error
          /\ out.room = f.room - 1 /\ out.listed = f.listed
      BY <2>5, <3>3, <3>4, <3>6 DEF IsTxn, IsRecord
    <3>8. Moves(f, out, u, {}, Run(p, num)) /\ p # 0
      BY <2>5, <3>2, <3>7, RunTaken
    <3>9. Moves(t, out, u, {}, Run(p, num))
      BY <2>4, <3>8, MovesOn, TxnidPositive
    <3>10. a.t = out /\ a.page = p
      BY <2>1, <2>7
    <3>11. p \in DOMAIN out.dirty /\ out.dirty[p] = num /\ out.pages = t.pages /\ out.root = t.root
           /\ out.error = FALSE /\ out.loose = t.loose
      BY <2>4, <3>5, <3>7 DEF SamePages
    <3>12. Steady(t, out) /\ IsRecord(out)
      BY <3>7, <3>9 DEF Moves, IsTxn
    <3> QED
      BY <3>2, <3>8, <3>9, <3>10, <3>11, <3>12 DEF Allots, NoneLoosened
  <2> QED
    BY <2>6, <2>7
<1>6. t.room = 0 \/ t.room > 0
  BY <1>1
<1> HIDE DEF a
<1> QED
  BY <1>3, <1>4, <1>5, <1>6 DEF a

-----------------------------------------------------------------------------
(* The operations on pages *)

Parent == IF outer = <<>> THEN NoTxn ELSE Head(outer)

\* Transactions are nested once at most.
NestedOnce == outer # <<>> => outer = <<Head(outer)>>

\* There is nothing in the parent of a transaction that is not nested.
LEMMA NoTxnIs ==
    Parent = NoTxn => /\ DOMAIN Parent.pages = {} /\ DOMAIN Parent.dirty = {} /\ Parent.spills = {}
                      /\ Kept(Parent) = {} /\ Blocks(Parent) = {} /\ DirtyPages(Parent) = {}
  BY DEF NoTxn, Kept, FreedBy, Loose, ToSet, Blocks, DirtyPages

\* Where mdb_page_get finds a page.
LEMMA ChainIs ==
    ASSUME NEW h, NestedOnce
    PROVE  /\ Spilled(h) <=> h \in txn.spills \cup Parent.spills
           /\ HoldsDirty(h) = IF h \in txn.spills THEN 0
                              ELSE IF h \in DOMAIN txn.dirty THEN 1
                              ELSE IF h \in Parent.spills THEN 0
                              ELSE IF h \in DOMAIN Parent.dirty THEN 2 ELSE 0
<1> DEFINE knows == {i \in DOMAIN Chain : h \in Chain[i].spills \cup DOMAIN Chain[i].dirty}
           of(i) == h \in Chain[i].spills \cup DOMAIN Chain[i].dirty
<1>1. HoldsDirty(h) = IF knows = {} THEN 0 ELSE IF h \in Chain[Least(knows)].spills THEN 0 ELSE Least(knows)
  BY DEF HoldsDirty
<1>2. CASE outer = <<>>
  <2>1. DOMAIN Chain = {1} /\ Chain[1] = txn /\ Parent.spills = {} /\ DOMAIN Parent.dirty = {}
    BY <1>2 DEF Chain, Parent, NoTxn
  <2>2. knows = IF of(1) THEN {1} ELSE {}
    BY <2>1
  <2>3. Least({1}) = 1
    <3>1. {1} \in SUBSET Nat
      OBVIOUS
    <3> QED
      BY <3>1, LeastIs
  <2> HIDE DEF knows
  <2> QED
    BY <1>1, <2>1, <2>2, <2>3 DEF Spilled
<1>3. CASE outer # <<>>
  <2>1. DOMAIN Chain = {1, 2} /\ Chain[1] = txn /\ Chain[2] = Parent
    <3>1. Chain = <<txn>> \o <<Parent>>
      BY <1>3 DEF NestedOnce, Chain, Parent
    <3> HIDE DEF Chain, Parent
    <3> QED
      BY <3>1
  <2>2. knows = (IF of(1) THEN {1} ELSE {}) \cup (IF of(2) THEN {2} ELSE {})
    BY <2>1
  <2>3. knows \in SUBSET {1, 2}
    BY <2>2
  <2>4. knows # {} => Least(knows) = IF 1 \in knows THEN 1 ELSE 2
    <3>1. SUFFICES ASSUME knows # {} PROVE Least(knows) = IF 1 \in knows THEN 1 ELSE 2
      OBVIOUS
    <3> HIDE DEF knows
    <3>2. Least(knows) \in knows /\ \A k \in knows : Least(knows) <= k
      <4>1. knows \in SUBSET Nat
        BY <2>3
      <4> QED
        BY <3>1, <4>1, LeastIs
    <3>3. PICK l \in {1, 2} : l = Least(knows)
      BY <2>3, <3>2
    <3>4. l \in knows /\ (1 \in knows => l <= 1)
      BY <3>2, <3>3
    <3>5. l = IF 1 \in knows THEN 1 ELSE 2
      BY <3>4
    <3> QED
      BY <3>3, <3>5
  <2>5. (1 \in knows <=> of(1)) /\ (2 \in knows <=> of(2))
    BY <2>2
  <2> HIDE DEF knows
  <2>6. CASE of(1)
    BY <1>1, <2>1, <2>4, <2>5, <2>6 DEF Spilled
  <2>7. CASE ~ of(1) /\ of(2)
    <3>1. knows # {} /\ Least(knows) = 2
      BY <2>4, <2>5, <2>7
    <3> QED
      BY <1>1, <2>1, <2>7, <3>1 DEF Spilled
  <2>8. CASE ~ of(1) /\ ~ of(2)
    <3>1. knows = {}
      BY <2>3, <2>5, <2>8
    <3> QED
      BY <1>1, <2>1, <2>8, <3>1 DEF Spilled
  <2> QED
    BY <2>6, <2>7, <2>8
<1> QED
  BY <1>2, <1>3

\* An operation fails, or is a move.
Works(t, t2, u) == t2.error = FALSE => Moves(t, t2, u, {}, {})

\* A page that t2 has and t had not.
Adds(t, t2, p) ==
    /\ p \notin DOMAIN t.pages /\ DOMAIN t2.pages = DOMAIN t.pages \cup {p}
    /\ p \in DOMAIN t2.dirty /\ p # 0
    /\ \A h \in DOMAIN t.pages : t2.pages[h] = t.pages[h]

\* mdb_page_new fails, or has one page more.
Makes(t, t2, u, num, main) ==
    /\ Steady(t, t2) /\ IsRecord(t2) /\ t2.error \in BOOLEAN
    /\ t2.error = FALSE =>
           /\ Moves(t, t2, u, {}, {}) /\ t2.root = t.root /\ NoneLoosened(t, t2)
           /\ \E p : Adds(t, t2, p) /\ t2.pages[p].n = num /\ t2.pages[p].main = main
    /\ t2.error = TRUE => SameView(t, t2)

\* mdb_page_new.
LEMMA NewPageIs ==
    ASSUME NEW t, NEW u, NEW num \in Positive, NEW main \in BOOLEAN,
           Books(t, u, {}), Slots \subseteq Nat, t.error = FALSE, Fresh \in Nat
    PROVE  Makes(t, NewPage(t, num, main), u, num, main)
<1> DEFINE t2 == NewPage(t, num, main)
           a  == Alloc(t, num)
           p  == a.page
           f  == a.t
           v  == [n |-> num, stamp |-> Fresh, main |-> main]
<1>1. Steady(t, f) /\ IsRecord(f)
      /\ ((f.error = TRUE /\ a.page = 0 /\ SameView(t, f)) \/ Allots(t, a, u, num))
  BY AllocIs DEF f
<1>2. t2 = IF p = 0 THEN f ELSE [f EXCEPT !.pages = With(f.pages, p, v)]
  BY DEF NewPage
<1> HIDE DEF t2, a, f
<1>3. CASE f.error = TRUE /\ a.page = 0 /\ SameView(t, f)
  BY <1>1, <1>2, <1>3 DEF t2, Makes
<1>4. CASE Allots(t, a, u, num)
  <2>1. p # 0 /\ p \in Nat /\ Books(f, u, Run(p, num)) /\ IsTxn(f) /\ f.pages = t.pages
    BY <1>4 DEF Allots, Moves, Books, f
  <2>2. v.n = num /\ v.main = main /\ v.stamp \in Nat /\ v = [n |-> v.n, stamp |-> v.stamp, main |-> v.main]
    OBVIOUS
  <2> HIDE DEF v, p
  <2>3. t2 = [f EXCEPT !.pages = With(f.pages, p, v)]
    BY <1>2, <2>1
  <2>4. IsPages(With(f.pages, p, v))
    <3>1. /\ DOMAIN With(f.pages, p, v) = DOMAIN f.pages \cup {p} /\ With(f.pages, p, v)[p] = v
          /\ \A h \in DOMAIN f.pages : With(f.pages, p, v)[h] = IF h = p THEN v ELSE f.pages[h]
      BY DEF With, Over
    <3>2. IsPages(f.pages)
      BY <2>1 DEF IsTxn
    <3> QED
      BY <2>1, <2>2, <3>1, <3>2 DEF IsPages
  <2>5. /\ IsTxn(t2) /\ t2.pages = With(f.pages, p, v) /\ t2.recs = f.recs /\ t2.frees = f.frees
        /\ t2.loose = f.loose /\ t2.spills = f.spills /\ t2.txnid = f.txnid /\ t2.pglast = f.pglast
        /\ t2.next = f.next /\ t2.pghead = f.pghead /\ t2.dirty = f.dirty /\ t2.oldest = f.oldest
        /\ t2.root = f.root /\ t2.error = f.error /\ t2.room = f.room /\ t2.listed = f.listed
    BY <2>1, <2>3, <2>4 DEF IsTxn, IsRecord
  <2>6. p \in DOMAIN f.dirty /\ f.dirty[p] = v.n /\ Run(p, v.n) \subseteq Run(p, num)
    BY <1>4, <2>2 DEF Allots, p, f
  <2>14. NowPlaced(f, t2, p, v)
    BY <2>5 DEF NowPlaced
  <2>7. /\ Moves(f, t2, u, Run(p, num), Run(p, num) \ Run(p, v.n))
        /\ p \notin DOMAIN f.pages
        /\ DOMAIN t2.pages = DOMAIN f.pages \cup {p} /\ t2.pages[p] = v
        /\ \A h \in DOMAIN f.pages : t2.pages[h] = f.pages[h]
    BY <2>1, <2>5, <2>6, <2>14, PagePlaced
  <2>8. Moves(f, t2, u, Run(p, num), {})
    BY <2>2, <2>7
  <2>9. Moves(t, f, u, {}, Run(p, num))
    BY <1>4 DEF Allots, p, f
  <2>10. Moves(t, t2, u, {}, {})
    BY <2>8, <2>9, MovesOn, TxnidPositive
  <2>11. Adds(t, t2, p)
    BY <2>1, <2>5, <2>6, <2>7 DEF Adds
  <2>12. t2.error = FALSE /\ t2.root = t.root /\ NoneLoosened(t, t2)
    BY <1>4, <2>5 DEF Allots, NoneLoosened, f
  <2>13. Steady(t, t2) /\ IsRecord(t2)
    BY <2>5, <2>10 DEF Moves, IsTxn
  <2> QED
    BY <2>2, <2>7, <2>10, <2>11, <2>12, <2>13 DEF t2, Makes
<1> QED
  BY <1>1, <1>3, <1>4

\* The page h has been written to where it is.
WrittenTo(t, t2, h) ==
    /\ DOMAIN t2.pages = DOMAIN t.pages
    /\ t2.pages[h].n = t.pages[h].n /\ t2.pages[h].main = t.pages[h].main
    /\ \A k \in DOMAIN t.pages : k # h => t2.pages[k] = t.pages[k]
    /\ h \in DOMAIN t2.dirty
    /\ t2.root = t.root /\ t2.error = t.error /\ t2.loose = t.loose

\* A page with another stamp.
LEMMA Restamped ==
    ASSUME NEW pages, IsPages(pages), NEW h \in DOMAIN pages, NEW c
    PROVE  [pages[h] EXCEPT !.stamp = c] = [n |-> pages[h].n, stamp |-> c, main |-> pages[h].main]
<1>1. pages[h] = [n |-> pages[h].n, stamp |-> pages[h].stamp, main |-> pages[h].main]
  BY DEF IsPages
<1> QED
  BY <1>1

\* Writing to a dirty page is a move.
LEMMA RewrittenIs ==
    ASSUME NEW t, NEW u, NEW loan, NEW h \in DOMAIN t.pages, Books(t, u, loan), h \in DOMAIN t.dirty,
           Fresh \in Nat
    PROVE  Moves(t, Rewritten(t, h), u, loan, loan) /\ WrittenTo(t, Rewritten(t, h), h)
<1> DEFINE t2 == Rewritten(t, h)
           pages == [t.pages EXCEPT ![h] = [t.pages[h] EXCEPT !.stamp = Fresh]]
<1>1. IsTxn(t) /\ IsPages(t.pages)
  BY DEF Books, IsTxn
<1>2. t2 = [t EXCEPT !.pages = pages]
  BY <1>1 DEF IsTxn, IsRecord, Rewritten
<1>3. /\ DOMAIN pages = DOMAIN t.pages
      /\ pages[h] = [n |-> t.pages[h].n, stamp |-> Fresh, main |-> t.pages[h].main]
      /\ \A k \in DOMAIN t.pages : k # h => pages[k] = t.pages[k]
  BY <1>1, Restamped
<1> HIDE DEF t2, pages
<1>4. pages[h].n = t.pages[h].n /\ pages[h].main = t.pages[h].main /\ pages[h].stamp \in Nat
      /\ pages[h] = [n |-> pages[h].n, stamp |-> pages[h].stamp, main |-> pages[h].main]
  BY <1>3
<1>5. IsPages(pages)
  BY <1>1, <1>3, <1>4 DEF IsPages
<1>6. /\ IsTxn(t2) /\ t2.pages = pages /\ t2.recs = t.recs /\ t2.frees = t.frees
      /\ t2.loose = t.loose /\ t2.spills = t.spills /\ t2.txnid = t.txnid /\ t2.pglast = t.pglast
      /\ t2.next = t.next /\ t2.pghead = t.pghead /\ t2.dirty = t.dirty /\ t2.oldest = t.oldest
      /\ t2.root = t.root /\ t2.error = t.error /\ t2.room = t.room /\ t2.listed = t.listed
  BY <1>1, <1>2, <1>5 DEF IsTxn, IsRecord
<1>7. /\ DOMAIN t2.pages = DOMAIN t.pages /\ t2.pages[h].n = t.pages[h].n
      /\ \A k \in DOMAIN t.pages : k # h => t2.pages[k] = t.pages[k]
  BY <1>3, <1>4, <1>6
<1>8. Moves(t, t2, u, loan, loan)
  BY <1>6, <1>7, PageRewritten
<1>9. WrittenTo(t, t2, h)
  BY <1>3, <1>4, <1>6 DEF WrittenTo
<1> QED
  BY <1>8, <1>9 DEF t2

\* A page that is dirty in the parent, or spilled, becomes dirty and is written to.
LEMMA DirtiedIs ==
    ASSUME NEW t, NEW x, NEW u, NEW h \in DOMAIN t.pages, Books(t, u, {}),
           h \notin DOMAIN t.dirty, h \in t.spills \cup u.spills \cup DOMAIN u.dirty,
           IsRecord(x), NowDirty(t, x, h), x.room \in Nat, Fresh \in Nat,
           x.room = IF h \in Counts(t, u) THEN t.room ELSE t.room - 1
    PROVE  Moves(t, Rewritten(x, h), u, {}, {}) /\ WrittenTo(t, Rewritten(x, h), h)
<1> DEFINE t2 == Rewritten(x, h)
<1>1. IsTxn(t) /\ IsPages(t.pages) /\ t.pages[h].n \in Positive /\ h \in Nat
  BY DEF Books, IsTxn, IsPages
<1>2. /\ DOMAIN x.dirty = DOMAIN t.dirty \cup {h} /\ x.dirty[h] = t.pages[h].n
      /\ \A k \in DOMAIN t.dirty : x.dirty[k] \in {t.dirty[k], t.pages[h].n}
  BY DEF With, Over, NowDirty
<1>3. DOMAIN x.dirty \subseteq Nat /\ \A k \in DOMAIN x.dirty : x.dirty[k] \in Positive
  BY <1>1, <1>2 DEF IsTxn
<1>4. IsTxn(x)
  BY <1>1, <1>3 DEF IsTxn, NowDirty
<1>5. Moves(t, x, u, {}, {}) /\ DOMAIN x.dirty = DOMAIN t.dirty \cup {h}
  BY <1>4, PageDirtied
<1>6. Books(x, u, {}) /\ h \in DOMAIN x.pages /\ h \in DOMAIN x.dirty
  BY <1>5 DEF Moves, NowDirty
<1>7. Moves(x, t2, u, {}, {}) /\ WrittenTo(x, t2, h)
  BY <1>6, RewrittenIs
<1> HIDE DEF t2
<1>8. Moves(t, t2, u, {}, {})
  BY <1>5, <1>7, MovesOn, TxnidPositive
<1>9. WrittenTo(t, t2, h)
  BY <1>7 DEF WrittenTo, NowDirty
<1> QED
  BY <1>8, <1>9 DEF t2

\* The page h of t is the page p of t2, and is dirty.
Follows(t, t2, h, p) ==
    /\ p \in DOMAIN t2.dirty /\ p # 0 /\ (p = h \/ p \notin DOMAIN t.pages)
    /\ DOMAIN t2.pages = (DOMAIN t.pages \ {h}) \cup {p}
    /\ t2.pages[p].n = t.pages[h].n /\ t2.pages[p].main = t.pages[h].main
    /\ \A k \in DOMAIN t.pages : k # h => t2.pages[k] = t.pages[k]
    /\ (t2.root = IF t.root = h THEN p ELSE t.root) /\ NoneLoosened(t, t2)

\* Pages in use have numbers above those of the meta pages.
LEMMA PagesFromTwo ==
    ASSUME NEW t, NEW u, NEW loan, NEW h \in DOMAIN t.pages, Books(t, u, loan)
    PROVE  h \in Nat /\ h # 0 /\ h \in Known(t) /\ t.pages[h].n \in Positive
<1>1. IsTxn(t) /\ Covered(t.pages) \subseteq Known(t)
  BY DEF Books, Placed
<1>2. h \in Known(t)
  BY <1>1, FirstCovered
<1> QED
  BY <1>1, <1>2, FirstCovered DEF Known

\* A page written to in place is where it was.
LEMMA WrittenFollows ==
    ASSUME NEW t, NEW t2, NEW u, NEW loan, NEW h \in DOMAIN t.pages, Books(t, u, loan), WrittenTo(t, t2, h)
    PROVE  Follows(t, t2, h, h)
  BY PagesFromTwo DEF WrittenTo, Follows, NoneLoosened

IsPage(v) ==
    /\ v = [n |-> v.n, stamp |-> v.stamp, main |-> v.main]
    /\ v.n \in Positive /\ v.main \in BOOLEAN /\ v.stamp \in Nat

\* Pages and one more are pages.
LEMMA PagesWith ==
    ASSUME NEW pages, IsPages(pages), NEW p \in Nat, NEW v, IsPage(v)
    PROVE  IsPages(With(pages, p, v))
<1>1. /\ DOMAIN With(pages, p, v) = DOMAIN pages \cup {p} /\ With(pages, p, v)[p] = v
      /\ \A k \in DOMAIN pages : k # p => With(pages, p, v)[k] = pages[k]
  BY DEF With, Over
<1> QED
  BY <1>1 DEF IsPages, IsPage

\* Some of the pages are pages.
LEMMA PagesWithout ==
    ASSUME NEW pages, IsPages(pages), NEW S
    PROVE  IsPages(Without(pages, S))
<1>1. /\ DOMAIN Without(pages, S) = DOMAIN pages \ S
      /\ \A k \in DOMAIN pages \ S : Without(pages, S)[k] = pages[k]
  BY DEF Without, Restrict
<1> QED
  BY <1>1 DEF IsPages

\* The page h has been freed, and v put at p instead.
NowCopied(f, t2, h, p, v) ==
    /\ t2.pages = With(Without(f.pages, {h}), p, v)
    /\ t2.root = (IF f.root = h THEN p ELSE f.root) /\ t2.frees = Append(f.frees, h)
    /\ t2.recs = f.recs /\ t2.loose = f.loose /\ t2.spills = f.spills /\ t2.txnid = f.txnid
    /\ t2.pglast = f.pglast /\ t2.next = f.next /\ t2.pghead = f.pghead /\ t2.dirty = f.dirty
    /\ t2.oldest = f.oldest /\ t2.error = f.error /\ t2.room = f.room /\ t2.listed = f.listed

\* A single page on loan comes to be used.
LEMMA SinglePlaced ==
    ASSUME NEW t, NEW t2, NEW u, NEW p, p \in Nat, NEW v, Books(t, u, {p}), IsTxn(t2),
           p \in DOMAIN t.dirty, t.dirty[p] = 1, v.n = 1, NowPlaced(t, t2, p, v)
    PROVE  Moves(t, t2, u, {p}, {})
<1>1. Run(p, v.n) = {p} /\ Run(p, v.n) \subseteq {p} /\ {p} \ Run(p, v.n) = {} /\ t.dirty[p] = v.n
  BY RunHasFirst DEF Positive
<1>2. Moves(t, t2, u, {p}, {p} \ Run(p, v.n))
  BY <1>1, PagePlaced
<1> QED
  BY <1>1, <1>2

IsCopy(pages, h, v) == IsPage(v) /\ v.n = 1 /\ v.main = pages[h].main

\* A page is copied to one on loan, and the old one is freed.
LEMMA CopiedFrom ==
    ASSUME NEW f, NEW t2, NEW u, NEW h \in DOMAIN f.pages, NEW v, NEW p \in Nat \ {0},
           Books(f, u, Run(p, 1)), p \in DOMAIN f.dirty, f.dirty[p] = 1, f.pages[h].n = 1, f.error = FALSE,
           IsCopy(f.pages, h, v), IsRecord(t2), NowCopied(f, t2, h, p, v)
    PROVE  Moves(f, t2, u, Run(p, 1), {}) /\ Follows(f, t2, h, p)
<1>1. p \in Nat /\ p # 0
  OBVIOUS
<1>2. Books(f, u, Run(p, 1)) /\ IsTxn(f)
  BY DEF Books
<1>3. h \in Nat /\ h # 0 /\ Run(h, 1) = {h} /\ Run(p, 1) = {p}
  BY <1>1, PagesFromTwo, RunHasFirst DEF Positive
<1>4. p \notin DOMAIN f.pages /\ p # h
  <2>1. Covered(f.pages) \cap Run(p, 1) = {}
    BY <1>2 DEF Books, Placed, Apart
  <2> QED
    BY <1>1, <1>2, <1>3, <2>1, FirstCovered
<1>5. /\ DOMAIN Without(f.pages, {h}) = DOMAIN f.pages \ {h}
      /\ \A k \in DOMAIN f.pages \ {h} : Without(f.pages, {h})[k] = f.pages[k]
  BY DEF Without, Restrict
\* The page is taken out, then freed, then the new one put in.
<1> DEFINE f1 == [f EXCEPT !.pages = Without(f.pages, {h})]
           f2 == [f1 EXCEPT !.frees = Append(f.frees, h)]
<1>6. f1 = [f EXCEPT !.pages = Without(f.pages, {h})] /\ f2 = [f1 EXCEPT !.frees = Append(f.frees, h)]
  OBVIOUS
<1> HIDE DEF f1, f2
<1>7. /\ IsTxn(f1) /\ f1.pages = Without(f.pages, {h}) /\ f1.recs = f.recs /\ f1.frees = f.frees
      /\ f1.loose = f.loose /\ f1.spills = f.spills /\ f1.txnid = f.txnid /\ f1.pglast = f.pglast
      /\ f1.next = f.next /\ f1.pghead = f.pghead /\ f1.dirty = f.dirty /\ f1.oldest = f.oldest
      /\ f1.error = FALSE /\ f1.root = f.root /\ f1.room = f.room /\ f1.listed = f.listed
  <2>1. IsPages(Without(f.pages, {h}))
    BY <1>2, PagesWithout DEF IsTxn
  <2> QED
    BY <1>1, <1>2, <1>6, <2>1 DEF IsTxn, IsRecord
<1>8. Moves(f, f1, u, Run(p, 1), {p, h})
  <2>1. {h} \subseteq DOMAIN f.pages /\ UNION {Run(k, f.pages[k].n) : k \in {h}} = {h}
    BY <1>1, <1>3
  <2>2. Moves(f, f1, u, Run(p, 1), Run(p, 1) \cup UNION {Run(k, f.pages[k].n) : k \in {h}})
    BY <1>2, <1>7, <2>1, PagesDropped
  <2>3. Run(p, 1) \cup {h} = {p, h}
    BY <1>3
  <2> QED
    BY <2>1, <2>2, <2>3
<1>9. /\ Append(f.frees, h) \in Seq(Nat) /\ ToSet(Append(f.frees, h)) = FreedBy(f) \cup {h}
      /\ Len(Append(f.frees, h)) = Len(f.frees) + 1 /\ Len(f.frees) \in Nat
  <2>1. f.frees \in Seq(Nat)
    BY <1>2 DEF IsTxn
  <2> QED
    BY <1>3, <2>1, ToSetAppended DEF FreedBy
<1>10. /\ IsTxn(f2) /\ f2.pages = f1.pages /\ f2.recs = f1.recs /\ f2.frees = Append(f.frees, h)
       /\ f2.loose = f1.loose /\ f2.spills = f1.spills /\ f2.txnid = f1.txnid /\ f2.pglast = f1.pglast
       /\ f2.next = f1.next /\ f2.pghead = f1.pghead /\ f2.dirty = f1.dirty /\ f2.oldest = f1.oldest
       /\ f2.error = FALSE /\ f2.root = f.root /\ f2.room = f.room /\ f2.listed = f.listed
  BY <1>6, <1>7, <1>9 DEF IsTxn, IsRecord
<1>11. Moves(f1, f2, u, {p, h}, {p})
  <2>1. FreedBy(f2) = FreedBy(f1) \cup {h}
    BY <1>7, <1>9, <1>10 DEF FreedBy
  <2>2. Books(f1, u, {p, h}) /\ {h} \subseteq {p, h}
    BY <1>8 DEF Moves
  <2>5. FreesMore(f1, f2) /\ f2.room = f1.room /\ f2.listed = f1.listed
    BY <1>7, <1>9, <1>10 DEF FreesMore
  <2>3. Moves(f1, f2, u, {p, h}, {p, h} \ {h})
    BY <1>10, <2>1, <2>2, <2>5, LoanFreed
  <2>4. {p, h} \ {h} = {p}
    BY <1>4
  <2> QED
    BY <2>3, <2>4
<1>12. IsPages(t2.pages)
  <2>1. IsPages(f2.pages) /\ t2.pages = With(f2.pages, p, v)
    BY <1>7, <1>10 DEF IsTxn, NowCopied
  <2> QED
    BY <1>1, <2>1, PagesWith DEF IsCopy
<1>13. IsTxn(t2)
  BY <1>1, <1>2, <1>9, <1>12 DEF IsTxn, NowCopied
<1>14. Moves(f2, t2, u, {p}, {})
  <2>1. Books(f2, u, {p}) /\ p \in DOMAIN f2.dirty /\ f2.dirty[p] = 1 /\ v.n = 1
    BY <1>7, <1>10, <1>11 DEF Moves, IsCopy
  <2>2. NowPlaced(f2, t2, p, v)
    BY <1>7, <1>10 DEF NowPlaced, NowCopied
  <2> QED
    BY <1>1, <1>13, <2>1, <2>2, SinglePlaced
<1>15. f.pglast \in Nat /\ f1.pglast \in Nat /\ f.frees \in Seq(Nat) /\ f1.frees \in Seq(Nat)
  BY <1>2, <1>7 DEF IsTxn
<1>16. Moves(f, f2, u, Run(p, 1), {p})
  BY <1>8, <1>11, <1>15, MovesOn
<1>17. Moves(f, t2, u, Run(p, 1), {})
  BY <1>14, <1>15, <1>16, MovesOn
<1>18. f2.pages = Without(f.pages, {h})
  BY <1>7, <1>10
<1>19. DOMAIN f2.pages = DOMAIN f.pages \ {h} /\ \A k \in DOMAIN f2.pages : f2.pages[k] = f.pages[k]
  BY <1>5, <1>18
<1>20. DOMAIN t2.pages = (DOMAIN f.pages \ {h}) \cup {p} /\ t2.pages[p] = v
       /\ \A k \in DOMAIN f.pages : k # h => t2.pages[k] = f.pages[k]
  <2>1. t2.pages = With(f2.pages, p, v)
    BY <1>18 DEF NowCopied
  <2>2. DOMAIN t2.pages = DOMAIN f2.pages \cup {p} /\ t2.pages[p] = v
        /\ \A k \in DOMAIN f2.pages : k # p => t2.pages[k] = f2.pages[k]
    BY <2>1 DEF With, Over
  <2> QED
    BY <1>4, <1>19, <2>2
<1>21. p \in DOMAIN t2.dirty
  BY DEF NowCopied
<1>22. Follows(f, t2, h, p)
  BY <1>1, <1>4, <1>20, <1>21 DEF Follows, NowCopied, IsCopy, NoneLoosened
<1> QED
  BY <1>17, <1>22

\* The same from the transaction before the allocation.
LEMMA CopiedIs ==
    ASSUME NEW t, NEW t2, NEW f, NEW u, NEW h \in DOMAIN t.pages, NEW v, NEW p,
           Books(t, u, {}), t.pages[h].n = 1, Allots(t, [t |-> f, page |-> p], u, 1),
           IsCopy(t.pages, h, v), IsRecord(t2), NowCopied(f, t2, h, p, v)
    PROVE  Moves(t, t2, u, {}, {}) /\ Follows(t, t2, h, p) /\ t2.error = FALSE
<1>1. /\ p \in Nat \ {0} /\ Moves(t, f, u, {}, Run(p, 1)) /\ p \in DOMAIN f.dirty /\ f.dirty[p] = 1
      /\ f.pages = t.pages /\ f.root = t.root /\ f.error = FALSE
  BY DEF Allots
<1>2. Books(f, u, Run(p, 1)) /\ f.pages[h].n = 1 /\ IsCopy(f.pages, h, v) /\ h \in DOMAIN f.pages
  BY <1>1 DEF Moves
<1>3. Moves(f, t2, u, Run(p, 1), {}) /\ Follows(f, t2, h, p)
  BY <1>1, <1>2, CopiedFrom
<1>4. Moves(t, t2, u, {}, {})
  BY <1>1, <1>3, MovesOn, TxnidPositive
<1>5. Follows(t, t2, h, p)
  BY <1>1, <1>3 DEF Follows, NoneLoosened, Allots
<1> QED
  BY <1>1, <1>4, <1>5 DEF NowCopied

\* mdb_page_touch: the page is written to, where it is or on a new page.
Touches(t, t2, h) ==
    /\ Steady(t, t2) /\ IsRecord(t2) /\ t2.error \in BOOLEAN
    /\ t2.error = FALSE => Moves(t, t2, Parent, {}, {}) /\ \E p : Follows(t, t2, h, p)
    /\ t2.error = TRUE => SameView(t, t2)

\* A spilled page is none of those that the room counts.
LEMMA NotCounted ==
    ASSUME NEW t, NEW u, NEW h, Books(t, u, {}), h \notin DOMAIN t.dirty, h \in t.spills \cup u.spills
    PROVE  h \notin Counts(t, u)
  BY DEF Counts, Books, SpillsRight

\* mdb_page_touch: dirty, unspilled, or copied.
LEMMA TouchedIs ==
    ASSUME NEW t, NEW h \in DOMAIN t.pages, Books(t, Parent, {}), t.pages[h].n = 1, t.error = FALSE,
           NestedOnce, Slots \subseteq Nat, Fresh \in Nat, t = txn \/ h \in DOMAIN t.dirty
    PROVE  Touches(t, Touched(t, h), h)
<1> DEFINE t2 == Touched(t, h)
           u  == Parent
<1> SUFFICES Touches(t, t2, h)
  OBVIOUS
<1> HIDE DEF t2, u
<1>1. IsTxn(t) /\ IsRecord(t) /\ t.room \in Nat /\ h \in Nat
  BY DEF Books, IsTxn, IsPages
\* Where it is.
<1>2. ASSUME Moves(t, t2, u, {}, {}), WrittenTo(t, t2, h)
      PROVE  Touches(t, t2, h)
  <2>1. Follows(t, t2, h, h)
    BY <1>2, WrittenFollows
  <2>2. Steady(t, t2) /\ IsRecord(t2) /\ t2.error = FALSE
    BY <1>2 DEF Moves, WrittenTo, Books, IsTxn
  <2> QED
    BY <1>2, <2>1, <2>2 DEF u, Touches
<1>3. CASE h \in DOMAIN t.dirty
  <2>1. t2 = Rewritten(t, h)
    BY <1>3 DEF Touched, t2
  <2>2. Moves(t, t2, u, {}, {}) /\ WrittenTo(t, t2, h)
    BY <1>3, <2>1, RewrittenIs DEF u
  <2> QED
    BY <1>2, <2>2
<1>4. CASE h \notin DOMAIN t.dirty
  <2>1. t = txn
    BY <1>4
  <2>2. /\ Spilled(h) <=> h \in t.spills \cup u.spills
        /\ HoldsDirty(h) = IF h \in t.spills THEN 0
                           ELSE IF h \in DOMAIN t.dirty THEN 1
                           ELSE IF h \in u.spills THEN 0
                           ELSE IF h \in DOMAIN u.dirty THEN 2 ELSE 0
    BY <2>1, ChainIs DEF u
  <2>3. HoldsDirty(h) > 0 => h \notin t.spills /\ h \in DOMAIN u.dirty
    BY <1>4, <2>2
  <2>4. HoldsDirty(h) = 0 \/ HoldsDirty(h) > 0
    BY <2>2
  <2>5. CASE HoldsDirty(h) > 0
    <3> DEFINE x == [t EXCEPT !.dirty = With(t.dirty, h, 1)]
    <3>1. t2 = Rewritten(x, h) /\ x = [t EXCEPT !.dirty = With(t.dirty, h, 1)]
      BY <1>1, <1>4, <2>5 DEF Touched, t2, IsRecord
    <3> HIDE DEF x
    <3>2. IsRecord(x) /\ NowDirty(t, x, h) /\ x.room \in Nat /\ x.room = t.room
      BY <1>1, <2>3, <2>5, <3>1 DEF IsRecord, NowDirty
    <3>5. h \in Counts(t, u)
      BY <2>3, <2>5 DEF Counts
    <3>3. h \in t.spills \cup u.spills \cup DOMAIN u.dirty
      BY <2>3, <2>5
    <3>4. Moves(t, t2, u, {}, {}) /\ WrittenTo(t, t2, h)
      BY <1>4, <3>1, <3>2, <3>3, <3>5, DirtiedIs DEF u
    <3> QED
      BY <1>2, <3>4
  <2>6. CASE HoldsDirty(h) = 0 /\ Spilled(h) /\ t.room = 0
    <3>1. t2 = Failed(t)
      BY <1>4, <2>6 DEF Touched, t2
    <3>2. t2.error = TRUE /\ t2.txnid = t.txnid /\ t2.oldest = t.oldest /\ IsRecord(t2) /\ SameView(t, t2)
      BY <1>1, <3>1, FailedIs, KnownPages
    <3> QED
      BY <3>2 DEF Steady, Touches
  <2>7. CASE HoldsDirty(h) = 0 /\ Spilled(h) /\ t.room # 0
    <3> DEFINE x == Dirtied([t EXCEPT !.spills = @ \ {h}], h, 1)
    <3>1. t2 = Rewritten(x, h)
      BY <1>4, <2>7 DEF Touched, t2
    <3>2. x = [t EXCEPT !.spills = t.spills \ {h}, !.dirty = With(t.dirty, h, 1), !.room = t.room - 1]
      BY <1>1 DEF Dirtied, IsRecord
    <3>3. t.room - 1 \in Nat
      BY <1>1, <2>7
    <3> HIDE DEF x
    <3>4. IsRecord(x) /\ NowDirty(t, x, h) /\ x.room \in Nat /\ x.room = t.room - 1
      BY <1>1, <3>2, <3>3 DEF IsRecord, NowDirty
    <3>7. h \notin Counts(t, u)
      BY <1>4, <2>2, <2>7, NotCounted DEF u
    <3>5. h \in t.spills \cup u.spills \cup DOMAIN u.dirty
      BY <2>2, <2>7
    <3>6. Moves(t, t2, u, {}, {}) /\ WrittenTo(t, t2, h)
      BY <1>4, <3>1, <3>4, <3>5, <3>7, DirtiedIs DEF u
    <3> QED
      BY <1>2, <3>6
  <2>8. CASE HoldsDirty(h) = 0 /\ ~ Spilled(h)
    <3> DEFINE a == Alloc(t, 1)
               f == a.t
               p == a.page
               v == [t.pages[h] EXCEPT !.stamp = Fresh]
    <3>1. Steady(t, f) /\ IsRecord(f)
          /\ ((f.error = TRUE /\ p = 0 /\ SameView(t, f)) \/ Allots(t, a, u, 1))
      <4>1. 1 \in Positive
        BY DEF Positive
      <4> QED
        BY <4>1, AllocIs DEF u
    <3>2. t2 = IF p = 0 THEN f
               ELSE [Freed(f, h) EXCEPT !.pages = With(Without(@, {h}), p, v), !.root = IF @ = h THEN p ELSE @]
      BY <1>4, <2>8 DEF Touched, t2
    <3> HIDE DEF a
    <3>3. CASE f.error = TRUE /\ p = 0 /\ SameView(t, f)
      BY <3>1, <3>2, <3>3 DEF Touches
    <3>4. CASE Allots(t, a, u, 1)
      <4>1. Allots(t, [t |-> f, page |-> p], u, 1)
        BY <3>4 DEF Allots
      <4>2. v = [n |-> t.pages[h].n, stamp |-> Fresh, main |-> t.pages[h].main] /\ t.pages[h].main \in BOOLEAN
        <5>1. IsPages(t.pages)
          BY <1>1 DEF IsTxn
        <5>2. t.pages[h].main \in BOOLEAN
          BY <5>1 DEF IsPages
        <5>3. v = [n |-> t.pages[h].n, stamp |-> Fresh, main |-> t.pages[h].main]
          BY <5>1, Restamped
        <5> QED
          BY <5>2, <5>3
      <4> HIDE DEF v, f, p
      <4>3. IsCopy(t.pages, h, v)
        BY <4>2 DEF IsCopy, IsPage, Positive
      <4>4. p # 0 /\ IsRecord(f)
        BY <3>4 DEF Allots, Moves, Books, IsTxn, f, p
      <4>5. t2 = [Freed(f, h) EXCEPT !.pages = With(Without(Freed(f, h).pages, {h}), p, v),
                                     !.root = IF Freed(f, h).root = h THEN p ELSE Freed(f, h).root]
        BY <3>2, <4>4
      <4>6. IsRecord(t2) /\ NowCopied(f, t2, h, p, v)
        BY <4>4, <4>5 DEF IsRecord, NowCopied, Freed
      <4>7. Moves(t, t2, u, {}, {}) /\ Follows(t, t2, h, p) /\ t2.error = FALSE
        BY <4>1, <4>3, <4>6, CopiedIs DEF u
      <4> QED
        BY <4>6, <4>7 DEF u, Moves, Touches
    <3> QED
      BY <3>1, <3>3, <3>4
  <2> QED
    BY <2>4, <2>5, <2>6, <2>7, <2>8
<1> QED
  BY <1>3, <1>4

\* The pages S are gone from the trees.
Drops(t, t2, S) ==
    /\ DOMAIN t2.pages = DOMAIN t.pages \ S
    /\ \A k \in DOMAIN t2.pages : t2.pages[k] = t.pages[k]
    /\ t2.root = t.root /\ t2.error = t.error /\ t2.recs = t.recs

RunsOf(t, S) == UNION {Run(h, t.pages[h].n) : h \in S}

\* Pages taken out of the trees are on loan until they are freed.
LEMMA DroppedIs ==
    ASSUME NEW t, NEW x, NEW u, NEW S, S \subseteq DOMAIN t.pages, Books(t, u, {}),
           x = [t EXCEPT !.pages = Without(t.pages, S)]
    PROVE  /\ IsTxn(x) /\ Moves(t, x, u, {}, RunsOf(t, S)) /\ Drops(t, x, S)
           /\ x.frees = t.frees /\ x.loose = t.loose /\ x.spills = t.spills /\ x.txnid = t.txnid
           /\ x.pglast = t.pglast /\ x.next = t.next /\ x.pghead = t.pghead /\ x.dirty = t.dirty
           /\ x.oldest = t.oldest /\ x.recs = t.recs /\ x.pages = Without(t.pages, S)
           /\ x.room = t.room /\ x.listed = t.listed
<1>1. IsTxn(t)
  BY DEF Books
<1>2. IsPages(Without(t.pages, S))
  BY <1>1, PagesWithout DEF IsTxn
<1>3. /\ IsTxn(x) /\ x.pages = Without(t.pages, S) /\ x.recs = t.recs /\ x.frees = t.frees
      /\ x.loose = t.loose /\ x.spills = t.spills /\ x.txnid = t.txnid /\ x.pglast = t.pglast
      /\ x.next = t.next /\ x.pghead = t.pghead /\ x.dirty = t.dirty /\ x.oldest = t.oldest
      /\ x.root = t.root /\ x.error = t.error /\ x.room = t.room /\ x.listed = t.listed
  BY <1>1, <1>2 DEF IsTxn, IsRecord
<1>4. Moves(t, x, u, {}, {} \cup UNION {Run(h, t.pages[h].n) : h \in S})
  BY <1>3, PagesDropped
<1>5. Moves(t, x, u, {}, RunsOf(t, S))
  <2>1. {} \cup UNION {Run(h, t.pages[h].n) : h \in S} = RunsOf(t, S)
    BY DEF RunsOf
  <2> QED
    BY <1>4, <2>1
<1>6. Drops(t, x, S)
  <2>1. DOMAIN x.pages = DOMAIN t.pages \ S /\ \A k \in DOMAIN t.pages \ S : x.pages[k] = t.pages[k]
    BY <1>3 DEF Without, Restrict
  <2> QED
    BY <1>3, <2>1 DEF Drops
<1> QED
  BY <1>3, <1>5, <1>6

\* The pages S are freed.
NowGivenUp(t, t2, S) ==
    /\ t2.pages = Without(t.pages, S) /\ t2.frees \in Seq(Nat) /\ FreedBy(t2) = FreedBy(t) \cup RunsOf(t, S)
    /\ t2.recs = t.recs /\ t2.loose = t.loose /\ t2.spills = t.spills /\ t2.txnid = t.txnid
    /\ t2.pglast = t.pglast /\ t2.next = t.next /\ t2.pghead = t.pghead /\ t2.dirty = t.dirty
    /\ t2.oldest = t.oldest /\ t2.room = t.room /\ t2.error = t.error /\ t2.listed = t.listed
    /\ t2.root = t.root /\ FreesMore(t, t2)

\* What is on loan is put on the list of freed pages.
LEMMA LoanGivenUp ==
    ASSUME NEW t, NEW t2, NEW u, NEW loan, Books(t, u, loan), IsTxn(t2),
           t2.pages = t.pages, t2.recs = t.recs, FreedBy(t2) = FreedBy(t) \cup loan, t2.loose = t.loose,
           t2.spills = t.spills, t2.txnid = t.txnid, t2.pglast = t.pglast, t2.next = t.next,
           t2.pghead = t.pghead, t2.dirty = t.dirty, t2.oldest = t.oldest,
           t2.room = t.room, t2.listed = t.listed, FreesMore(t, t2)
    PROVE  Moves(t, t2, u, loan, {})
<1>1. loan \subseteq loan /\ loan \ loan = {}
  OBVIOUS
<1>2. Moves(t, t2, u, loan, loan \ loan)
  BY LoanFreed
<1> QED
  BY <1>1, <1>2

\* Pages taken out of the trees and freed in one step.
LEMMA GivenUp ==
    ASSUME NEW t, NEW t2, NEW u, NEW S, S \subseteq DOMAIN t.pages, Books(t, u, {}), IsRecord(t2),
           NowGivenUp(t, t2, S)
    PROVE  Moves(t, t2, u, {}, {}) /\ Drops(t, t2, S) /\ t2.loose = t.loose
<1> DEFINE x == [t EXCEPT !.pages = Without(t.pages, S)]
<1>1. x = [t EXCEPT !.pages = Without(t.pages, S)] /\ IsTxn(t)
  BY DEF Books
<1> HIDE DEF x
<1>2. /\ IsTxn(x) /\ Moves(t, x, u, {}, RunsOf(t, S)) /\ Drops(t, x, S)
      /\ x.frees = t.frees /\ x.loose = t.loose /\ x.spills = t.spills /\ x.txnid = t.txnid
      /\ x.pglast = t.pglast /\ x.next = t.next /\ x.pghead = t.pghead /\ x.dirty = t.dirty
      /\ x.oldest = t.oldest /\ x.recs = t.recs /\ x.pages = Without(t.pages, S)
      /\ x.room = t.room /\ x.listed = t.listed
  BY <1>1, DroppedIs
<1>3. IsTxn(t2)
  <2>1. IsPages(t2.pages)
    BY <1>1, PagesWithout DEF IsTxn, NowGivenUp
  <2> QED
    BY <1>1, <2>1 DEF IsTxn, NowGivenUp
<1>4. Books(x, u, RunsOf(t, S)) /\ FreedBy(t2) = FreedBy(x) \cup RunsOf(t, S)
  BY <1>2 DEF Moves, NowGivenUp, FreedBy
<1>5. /\ t2.pages = x.pages /\ t2.recs = x.recs /\ t2.loose = x.loose /\ t2.spills = x.spills
      /\ t2.txnid = x.txnid /\ t2.pglast = x.pglast /\ t2.next = x.next /\ t2.pghead = x.pghead
      /\ t2.dirty = x.dirty /\ t2.oldest = x.oldest /\ t2.room = x.room /\ t2.listed = x.listed
      /\ FreesMore(x, t2)
  BY <1>2 DEF NowGivenUp, FreesMore
<1>6. Moves(x, t2, u, RunsOf(t, S), {})
  BY <1>3, <1>4, <1>5, LoanGivenUp
<1>7. Moves(t, t2, u, {}, {})
  BY <1>2, <1>6, MovesOn, TxnidPositive
<1>8. Drops(t, t2, S)
  BY <1>2, <1>5 DEF Drops, NowGivenUp
<1> QED
  BY <1>7, <1>8 DEF NowGivenUp

\* The run of a single page.
LEMMA RunsOfOne ==
    ASSUME NEW t, NEW h
    PROVE  RunsOf(t, {h}) = Run(h, t.pages[h].n)
  BY DEF RunsOf

\* mdb_page_loose
LEMMA LoosenedIs ==
    ASSUME NEW t, NEW u, NEW h \in DOMAIN t.pages, Books(t, u, {}), t.pages[h].n = 1
    PROVE  Moves(t, Loosened(t, h), u, {}, {}) /\ Drops(t, Loosened(t, h), {h})
<1> DEFINE t2 == Loosened(t, h)
           x  == [t EXCEPT !.pages = Without(t.pages, {h})]
<1>1. IsTxn(t) /\ IsRecord(t) /\ t.frees \in Seq(Nat) /\ t.loose \in Seq(Nat) /\ h \in Nat
  BY DEF Books, IsTxn, IsPages
<1>2. x = [t EXCEPT !.pages = Without(t.pages, {h})]
  OBVIOUS
<1>3. t2 = IF h \in DOMAIN t.dirty THEN [x EXCEPT !.loose = <<h>> \o x.loose] ELSE Freed(x, h)
  BY DEF Loosened
<1>4. RunsOf(t, {h}) = {h}
  <2>1. Run(h, 1) = {h}
    BY <1>1 DEF Run
  <2>2. RunsOf(t, {h}) = Run(h, t.pages[h].n)
    BY RunsOfOne
  <2> QED
    BY <2>1, <2>2
<1> HIDE DEF t2, x
<1>5. CASE h \in DOMAIN t.dirty
  <2>1. t.dirty[h] = 1
    <3>1. <<h, t.dirty[h]>> \in Blocks(t) \cup Blocks(u) /\ <<h, 1>> \in Blocks(t) \cup Blocks(u)
      BY <1>5 DEF Blocks
    <3> QED
      BY <3>1, SameBlock
  <2>2. /\ IsTxn(x) /\ Moves(t, x, u, {}, RunsOf(t, {h})) /\ Drops(t, x, {h})
        /\ x.frees = t.frees /\ x.loose = t.loose /\ x.spills = t.spills /\ x.txnid = t.txnid
        /\ x.pglast = t.pglast /\ x.next = t.next /\ x.pghead = t.pghead /\ x.dirty = t.dirty
        /\ x.oldest = t.oldest /\ x.recs = t.recs /\ x.pages = Without(t.pages, {h})
        /\ x.room = t.room /\ x.listed = t.listed
    BY <1>2, DroppedIs
  <2>3. <<h>> \o x.loose \in Seq(Nat)
    BY <1>1, <2>2
  <2>4. /\ IsTxn(t2) /\ t2.pages = x.pages /\ t2.recs = x.recs /\ t2.frees = x.frees
        /\ t2.loose = <<h>> \o x.loose /\ t2.spills = x.spills /\ t2.txnid = x.txnid /\ t2.pglast = x.pglast
        /\ t2.next = x.next /\ t2.pghead = x.pghead /\ t2.dirty = x.dirty /\ t2.oldest = x.oldest
        /\ t2.root = x.root /\ t2.error = x.error /\ t2.room = x.room /\ t2.listed = x.listed
    <3>1. t2 = [x EXCEPT !.loose = <<h>> \o x.loose]
      BY <1>3, <1>5
    <3> QED
      BY <2>2, <2>3, <3>1 DEF IsTxn, IsRecord
  <2>5. Moves(x, t2, u, {h}, {h} \ {h})
    <3>1. Books(x, u, {h}) /\ h \in {h} /\ h \in DOMAIN x.dirty /\ x.dirty[h] = 1
      BY <1>4, <1>5, <2>1, <2>2 DEF Moves
    <3> QED
      BY <2>4, <3>1, LoanLoosened
  <2>6. Moves(x, t2, u, {h}, {})
    <3>1. {h} \ {h} = {}
      OBVIOUS
    <3> QED
      BY <2>5, <3>1
  <2>7. Moves(t, x, u, {}, {h})
    BY <1>4, <2>2
  <2>8. Moves(t, t2, u, {}, {})
    BY <2>6, <2>7, MovesOn, TxnidPositive
  <2>9. Drops(t, t2, {h})
    BY <2>2, <2>4 DEF Drops
  <2> QED
    BY <2>8, <2>9 DEF t2
<1>6. CASE h \notin DOMAIN t.dirty
  <2>1. t2 = [t EXCEPT !.pages = Without(t.pages, {h}), !.frees = Append(t.frees, h)]
    BY <1>1, <1>2, <1>3, <1>6 DEF Freed, IsRecord
  <2>2. /\ Append(t.frees, h) \in Seq(Nat) /\ ToSet(Append(t.frees, h)) = ToSet(t.frees) \cup {h}
        /\ Len(Append(t.frees, h)) = Len(t.frees) + 1 /\ Len(t.frees) \in Nat
    BY <1>1, ToSetAppended
  <2>5. /\ IsRecord(t2) /\ t2.pages = Without(t.pages, {h}) /\ t2.frees = Append(t.frees, h)
        /\ t2.recs = t.recs /\ t2.loose = t.loose /\ t2.spills = t.spills /\ t2.txnid = t.txnid
        /\ t2.pglast = t.pglast /\ t2.next = t.next /\ t2.pghead = t.pghead /\ t2.dirty = t.dirty
        /\ t2.oldest = t.oldest /\ t2.room = t.room /\ t2.error = t.error /\ t2.listed = t.listed
        /\ t2.root = t.root
    BY <1>1, <2>1 DEF IsRecord
  <2>6. FreesMore(t, t2)
    BY <2>2, <2>5 DEF FreesMore
  <2>3. NowGivenUp(t, t2, {h})
    BY <1>4, <2>2, <2>5, <2>6 DEF NowGivenUp, FreedBy
  <2>4. {h} \subseteq DOMAIN t.pages
    OBVIOUS
  <2> QED
    BY <2>3, <2>4, <2>5, GivenUp DEF t2
<1> QED
  BY <1>5, <1>6

\* The numbers of a run, from the last to the first.
LEMMA RunBackwards ==
    ASSUME NEW h \in Nat, NEW n \in Positive
    PROVE  /\ [i \in 1 .. n |-> h + n - i] \in Seq(Nat)
           /\ ToSet([i \in 1 .. n |-> h + n - i]) = Run(h, n)
           /\ Len([i \in 1 .. n |-> h + n - i]) \in Positive
<1> DEFINE list == [i \in 1 .. n |-> h + n - i]
<1>1. n \in Nat /\ n > 0
  BY DEF Positive
<1>2. list \in Seq(Nat) /\ Len(list) = n
  BY <1>1
<1>3. \A i \in 1 .. n : list[i] = h + n - i
  OBVIOUS
<1>4. DOMAIN list = 1 .. n
  OBVIOUS
<1> HIDE DEF list
<1>5. ASSUME NEW x \in ToSet(list) PROVE x \in Run(h, n)
  <2>1. PICK i \in 1 .. n : x = list[i]
    BY <1>4 DEF ToSet
  <2> QED
    BY <1>1, <1>3, <2>1 DEF Run
<1>6. ASSUME NEW x \in Run(h, n) PROVE x \in ToSet(list)
  <2>1. PICK i \in 1 .. n : i = h + n - x
    BY <1>1 DEF Run
  <2>2. x \in Int /\ h + n - i = x
    BY <1>1, <2>1 DEF Run
  <2>3. x = list[i]
    BY <1>3, <2>2
  <2> QED
    BY <1>4, <2>3 DEF ToSet
<1> QED
  BY <1>2, <1>5, <1>6 DEF list

\* mdb_ovpage_free
LEMMA OverflowFreedIs ==
    ASSUME NEW t, NEW h \in DOMAIN t.pages, Books(t, Parent, {})
    PROVE  /\ Moves(t, OverflowFreed(t, h), Parent, {}, {}) /\ Drops(t, OverflowFreed(t, h), {h})
           /\ OverflowFreed(t, h).loose = t.loose
<1> DEFINE t2 == OverflowFreed(t, h)
           u  == Parent
           n  == t.pages[h].n
           list == [i \in 1 .. n |-> h + n - i]
<1>1. IsTxn(t) /\ IsRecord(t) /\ t.frees \in Seq(Nat) /\ h \in Nat /\ n \in Positive /\ t.room \in Nat
  BY DEF Books, IsTxn, IsPages
<1>2. CASE t.listed /\ outer = <<>> /\ (h \in DOMAIN t.dirty \/ h \in t.spills)
  <2> DEFINE room == IF h \in DOMAIN t.dirty THEN t.room + 1 ELSE t.room
             pages == Without(t.pages, {h})
             dirty == Without(t.dirty, {h})
  <2>1. t2 = [t EXCEPT !.pages = pages, !.pghead = t.pghead \cup Run(h, n), !.spills = t.spills \ {h},
                       !.dirty = dirty, !.room = room]
    BY <1>1, <1>2 DEF OverflowFreed, IsRecord
  <2>2. room \in Nat
    BY <1>1
  <2>3. IsPages(pages)
    BY <1>1, PagesWithout DEF IsTxn
  <2>4. /\ DOMAIN pages = DOMAIN t.pages \ {h} /\ \A k \in DOMAIN pages : pages[k] = t.pages[k]
        /\ DOMAIN dirty = DOMAIN t.dirty \ {h} /\ \A k \in DOMAIN dirty : dirty[k] = t.dirty[k]
    BY DEF Without, Restrict
  <2> HIDE DEF t2, room, pages, dirty
  <2>5. /\ IsTxn(t2) /\ t2.pages = pages /\ t2.dirty = dirty /\ t2.recs = t.recs /\ t2.frees = t.frees
        /\ t2.loose = t.loose /\ t2.spills = t.spills \ {h} /\ t2.txnid = t.txnid /\ t2.pglast = t.pglast
        /\ t2.next = t.next /\ t2.pghead = t.pghead \cup Run(h, n) /\ t2.oldest = t.oldest
        /\ t2.root = t.root /\ t2.error = t.error /\ t2.room = room /\ t2.listed = t.listed
    BY <1>1, <2>1, <2>2, <2>3, <2>4 DEF IsTxn, IsRecord
  <2>6. /\ DOMAIN t2.pages = DOMAIN t.pages \ {h} /\ \A k \in DOMAIN t2.pages : t2.pages[k] = t.pages[k]
        /\ DOMAIN t2.dirty = DOMAIN t.dirty \ {h} /\ \A k \in DOMAIN t2.dirty : t2.dirty[k] = t.dirty[k]
    BY <2>4, <2>5
  <2>10. /\ t.listed = TRUE /\ t2.listed = TRUE
         /\ t2.room = IF h \in DOMAIN t.dirty THEN t.room + 1 ELSE t.room
    BY <1>1, <1>2, <2>5 DEF IsTxn, room
  <2>7. u = NoTxn
    BY <1>2 DEF Parent
  <2>8. Moves(t, t2, u, {}, {})
    BY <1>2, <2>5, <2>6, <2>7, <2>10, RunReturned
  <2>9. Drops(t, t2, {h})
    BY <2>5, <2>6 DEF Drops
  <2> QED
    BY <2>5, <2>8, <2>9 DEF t2
<1>3. CASE ~ (t.listed /\ outer = <<>> /\ (h \in DOMAIN t.dirty \/ h \in t.spills))
  <2>1. t2 = [t EXCEPT !.pages = Without(t.pages, {h}), !.frees = t.frees \o list]
    BY <1>1, <1>3 DEF OverflowFreed, IsRecord
  <2>2. list \in Seq(Nat) /\ ToSet(list) = Run(h, n) /\ Len(list) \in Positive
    BY <1>1, RunBackwards
  <2> HIDE DEF list, t2
  <2>3. t.frees \o list \in Seq(Nat) /\ ToSet(t.frees \o list) = ToSet(t.frees) \cup ToSet(list)
    BY <1>1, <2>2, ToSetJoined
  <2>9. Len(t.frees \o list) = Len(t.frees) + Len(list) /\ Len(t.frees) \in Nat
    BY <1>1, <2>2
  <2>4. RunsOf(t, {h}) = Run(h, n)
    BY RunsOfOne
  <2>5. /\ IsRecord(t2) /\ t2.pages = Without(t.pages, {h}) /\ t2.frees = t.frees \o list
        /\ t2.recs = t.recs /\ t2.loose = t.loose /\ t2.spills = t.spills /\ t2.txnid = t.txnid
        /\ t2.pglast = t.pglast /\ t2.next = t.next /\ t2.pghead = t.pghead /\ t2.dirty = t.dirty
        /\ t2.oldest = t.oldest /\ t2.room = t.room /\ t2.error = t.error /\ t2.listed = t.listed
        /\ t2.root = t.root
    BY <1>1, <2>1 DEF IsRecord
  <2>6. FreedBy(t2) = FreedBy(t) \cup RunsOf(t, {h})
    BY <2>2, <2>3, <2>4, <2>5 DEF FreedBy
  <2>10. FreesMore(t, t2)
    BY <2>2, <2>5, <2>9 DEF FreesMore, Positive
  <2>7. NowGivenUp(t, t2, {h})
    BY <2>3, <2>5, <2>6, <2>10 DEF NowGivenUp
  <2>8. {h} \subseteq DOMAIN t.pages
    OBVIOUS
  <2> QED
    BY <2>5, <2>7, <2>8, GivenUp DEF t2
<1> QED
  BY <1>2, <1>3

\* What an operation on the page h of the main tree leaves of the others.
Others(t, t2, h) ==
    /\ t2.root = t.root
    /\ \A k \in DOMAIN t.pages : k # h => k \in DOMAIN t2.pages /\ t2.pages[k] = t.pages[k]

\* A failed operation has made a move, and then changed nothing of what is seen.
Fails(t, t2, u) == \E x : Moves(t, x, u, {}, {}) /\ SameView(x, t2)

\* An operation that failed before it changed anything.
LEMMA FailsAtOnce ==
    ASSUME NEW t, NEW t2, NEW u, Books(t, u, {}), SameView(t, t2)
    PROVE  Fails(t, t2, u)
<1>1. IsTxn(t) /\ t.oldest < t.txnid
  BY DEF Books, Numbered
<1>2. Moves(t, t, u, {}, {})
  BY <1>1, Unmoved
<1> QED
  BY <1>2 DEF Fails

\* mdb_cursor_put over a value on overflow pages.
LEMMA OverflowRewrittenIs ==
    ASSUME NEW t, NEW h \in DOMAIN t.pages, Books(t, Parent, {}), t.error = FALSE,
           NestedOnce, Slots \subseteq Nat, Fresh \in Nat, t = txn
    PROVE  LET t2 == OverflowRewritten(t, h) IN
           /\ Steady(t, t2) /\ t2.error \in BOOLEAN
           /\ t2.error = FALSE => Moves(t, t2, Parent, {}, {}) /\ Others(t, t2, h)
                                  /\ (t2 = t \/ DOMAIN t2.dirty # {})
           /\ t2.error = TRUE => Fails(t, t2, Parent)
<1> DEFINE t2 == OverflowRewritten(t, h)
           u  == Parent
           n  == t.pages[h].n
<1> SUFFICES /\ Steady(t, t2) /\ t2.error \in BOOLEAN
             /\ t2.error = FALSE => Moves(t, t2, u, {}, {}) /\ Others(t, t2, h)
                                    /\ (t2 = t \/ DOMAIN t2.dirty # {})
             /\ t2.error = TRUE => Fails(t, t2, u)
  OBVIOUS
<1> HIDE DEF t2, u
<1>1. IsTxn(t) /\ IsRecord(t) /\ t.room \in Nat /\ h \in Nat /\ n \in Positive /\ t.pages[h].main \in BOOLEAN
  BY DEF Books, IsTxn, IsPages
\* In place.
<1>2. ASSUME Moves(t, t2, u, {}, {}), WrittenTo(t, t2, h)
      PROVE  Steady(t, t2) /\ t2.error = FALSE /\ Others(t, t2, h) /\ DOMAIN t2.dirty # {}
  BY <1>2 DEF Moves, WrittenTo, Others
<1>3. CASE h \in DOMAIN t.dirty
  <2>1. t2 = Rewritten(t, h)
    BY <1>3 DEF OverflowRewritten, t2
  <2>2. Moves(t, t2, u, {}, {}) /\ WrittenTo(t, t2, h)
    BY <1>3, <2>1, RewrittenIs DEF u
  <2> QED
    BY <1>2, <2>2
<1>4. CASE h \notin DOMAIN t.dirty
  <2>1. /\ Spilled(h) <=> h \in t.spills \cup u.spills
        /\ HoldsDirty(h) = IF h \in t.spills THEN 0
                           ELSE IF h \in DOMAIN t.dirty THEN 1
                           ELSE IF h \in u.spills THEN 0
                           ELSE IF h \in DOMAIN u.dirty THEN 2 ELSE 0
    BY ChainIs DEF u
  <2>2. HoldsDirty(h) > 0 => h \notin t.spills /\ h \in DOMAIN u.dirty
    BY <1>4, <2>1
  <2>3. HoldsDirty(h) = 0 \/ HoldsDirty(h) > 0
    BY <2>1
  <2>4. CASE HoldsDirty(h) > 0
    <3> DEFINE x == [t EXCEPT !.dirty = With(t.dirty, h, n)]
    <3>1. t2 = Rewritten(x, h) /\ x = [t EXCEPT !.dirty = With(t.dirty, h, n)]
      BY <1>1, <1>4, <2>4 DEF OverflowRewritten, t2, IsRecord
    <3> HIDE DEF x
    <3>2. IsRecord(x) /\ NowDirty(t, x, h) /\ x.room \in Nat /\ x.room = t.room
      BY <1>1, <2>2, <2>4, <3>1 DEF IsRecord, NowDirty
    <3>5. h \in Counts(t, u)
      BY <2>2, <2>4 DEF Counts
    <3>3. h \in t.spills \cup u.spills \cup DOMAIN u.dirty
      BY <2>2, <2>4
    <3>4. Moves(t, t2, u, {}, {}) /\ WrittenTo(t, t2, h)
      BY <1>4, <3>1, <3>2, <3>3, <3>5, DirtiedIs DEF u
    <3> QED
      BY <1>2, <3>4
  <2>5. CASE HoldsDirty(h) = 0 /\ Spilled(h) /\ t.room = 0
    <3>1. t2 = t /\ t.oldest < t.txnid
      BY <1>4, <2>5 DEF OverflowRewritten, t2, Books, Numbered
    <3>2. Moves(t, t, u, {}, {})
      BY <1>1, <3>1, Unmoved DEF u
    <3> QED
      BY <3>1, <3>2 DEF Moves, Others
  <2>6. CASE HoldsDirty(h) = 0 /\ Spilled(h) /\ t.room # 0
    <3> DEFINE x == Dirtied([t EXCEPT !.spills = @ \ {h}], h, n)
    <3>1. t2 = Rewritten(x, h)
      BY <1>4, <2>6 DEF OverflowRewritten, t2
    <3>2. x = [t EXCEPT !.spills = t.spills \ {h}, !.dirty = With(t.dirty, h, n), !.room = t.room - 1]
      BY <1>1 DEF Dirtied, IsRecord
    <3>3. t.room - 1 \in Nat
      BY <1>1, <2>6
    <3> HIDE DEF x
    <3>4. IsRecord(x) /\ NowDirty(t, x, h) /\ x.room \in Nat /\ x.room = t.room - 1
      BY <1>1, <3>2, <3>3 DEF IsRecord, NowDirty
    <3>7. h \notin Counts(t, u)
      BY <1>4, <2>1, <2>6, NotCounted DEF u
    <3>5. h \in t.spills \cup u.spills \cup DOMAIN u.dirty
      BY <2>1, <2>6
    <3>6. Moves(t, t2, u, {}, {}) /\ WrittenTo(t, t2, h)
      BY <1>4, <3>1, <3>4, <3>5, <3>7, DirtiedIs DEF u
    <3> QED
      BY <1>2, <3>6
  <2>7. CASE HoldsDirty(h) = 0 /\ ~ Spilled(h)
    <3> DEFINE x == OverflowFreed(t, h)
               main == t.pages[h].main
    <3>1. t2 = NewPage(x, n, main)
      BY <1>4, <2>7 DEF OverflowRewritten, t2
    <3>2. Moves(t, x, u, {}, {}) /\ Drops(t, x, {h})
      BY OverflowFreedIs DEF u
    <3> HIDE DEF x, main, n
    <3>3. Books(x, u, {}) /\ x.error = FALSE /\ main \in BOOLEAN /\ Steady(t, x)
      BY <1>1, <3>2 DEF Moves, Drops, main
    <3>7. n \in Positive
      BY <1>1
    <3>8. Makes(x, t2, u, n, main)
      BY <3>1, <3>3, <3>7, NewPageIs
    <3>4. /\ Steady(x, t2) /\ t2.error \in BOOLEAN
          /\ t2.error = FALSE =>
                 /\ Moves(x, t2, u, {}, {}) /\ t2.root = x.root /\ NoneLoosened(x, t2)
                 /\ \E p : Adds(x, t2, p) /\ t2.pages[p].n = n /\ t2.pages[p].main = main
          /\ t2.error = TRUE => SameView(x, t2)
      BY <3>8 DEF Makes
    <3>5. Steady(t, t2)
      BY <3>3, <3>4 DEF Steady, FindOldest
    <3>6. ASSUME t2.error = FALSE PROVE Moves(t, t2, u, {}, {}) /\ Others(t, t2, h) /\ DOMAIN t2.dirty # {}
      <4>1. Moves(t, t2, u, {}, {})
        BY <3>2, <3>4, <3>6, MovesOn, TxnidPositive DEF u
      <4>2. Others(t, t2, h) /\ DOMAIN t2.dirty # {}
        BY <3>2, <3>4, <3>6 DEF Others, Drops, Adds
      <4> QED
        BY <4>1, <4>2
    <3>9. t2.error = TRUE => Fails(t, t2, u)
      BY <3>2, <3>4 DEF Fails
    <3> QED
      BY <3>4, <3>5, <3>6, <3>9
  <2> QED
    BY <2>3, <2>4, <2>5, <2>6, <2>7
<1> QED
  BY <1>3, <1>4

-----------------------------------------------------------------------------
(* Writes to the main tree *)

TreeOf(t) == FreeTree(t.pages, t.root, t.recs)

\* The free-list tree is as it was.
KeepsTree(t, t2) ==
    /\ t2.root = t.root /\ t2.recs = t.recs
    /\ \A k \in DOMAIN t.pages : t.pages[k].main = FALSE => k \in DOMAIN t2.pages /\ t2.pages[k] = t.pages[k]

\* A free-list tree that is as it was is in order.
LEMMA TreeKept ==
    ASSUME NEW t, NEW t2, TreeOf(t), KeepsTree(t, t2)
    PROVE  TreeOf(t2)
  BY DEF TreeOf, FreeTree, KeepsTree

\* A write fails, or moves pages of the main tree.
Operates(t, t2) ==
    /\ Steady(t, t2) /\ t2.error \in BOOLEAN
    /\ t2.error = FALSE => Moves(t, t2, Parent, {}, {}) /\ TreeOf(t2)
    /\ t2.error = TRUE => Fails(t, t2, Parent)

\* The writer has a transaction in order, and readers that are counted.
Ready(t) ==
    /\ Books(t, Parent, {}) /\ TreeOf(t) /\ t.error = FALSE
    /\ NestedOnce /\ Slots \subseteq Nat /\ Fresh \in Nat

\* A move that leaves the free-list tree alone is an operation.
LEMMA MovedOperates ==
    ASSUME NEW t, NEW t2, Ready(t), Moves(t, t2, Parent, {}, {}), KeepsTree(t, t2)
    PROVE  Operates(t, t2)
<1>1. SameView(t2, t2)
  BY KnownPages DEF SameView, Moves
<1>2. Fails(t, t2, Parent)
  BY <1>1 DEF Fails
<1> QED
  BY <1>2, TreeKept DEF Ready, Operates, Moves, Books, IsTxn

\* mdb_page_touch on a page of the main tree.
LEMMA MainTouched ==
    ASSUME NEW h \in DOMAIN txn.pages, Ready(txn), txn.pages[h].main = TRUE, txn.pages[h].n = 1
    PROVE  Operates(txn, Touched(txn, h))
<1> DEFINE t2 == Touched(txn, h)
<1>1. Touches(txn, t2, h)
  BY TouchedIs DEF Ready
<1> HIDE DEF t2
<1>2. ASSUME t2.error = FALSE PROVE TreeOf(t2)
  <2>1. PICK p : Follows(txn, t2, h, p)
    BY <1>1, <1>2 DEF Touches
  <2>2. Moves(txn, t2, Parent, {}, {})
    BY <1>1, <1>2 DEF Touches
  <2>3. h # 0
    BY PagesFromTwo DEF Ready
  <2>4. txn.root # h
    BY <2>3 DEF Ready, TreeOf, FreeTree
  <2>5. KeepsTree(txn, t2)
    BY <2>1, <2>2, <2>4 DEF KeepsTree, Follows, Moves
  <2> QED
    BY <2>5, TreeKept DEF Ready
<1>3. t2.error = TRUE => Fails(txn, t2, Parent)
  BY <1>1, FailsAtOnce DEF Touches, Ready
<1> QED
  BY <1>1, <1>2, <1>3 DEF Operates, Touches, t2

\* mdb_page_new for the main tree.
LEMMA MainMade ==
    ASSUME NEW num \in Positive, Ready(txn)
    PROVE  Operates(txn, NewPage(txn, num, TRUE))
<1> DEFINE t2 == NewPage(txn, num, TRUE)
<1>1. Makes(txn, t2, Parent, num, TRUE)
  BY NewPageIs DEF Ready
<1> HIDE DEF t2
<1>2. ASSUME t2.error = FALSE PROVE TreeOf(t2)
  <2>1. PICK p : Adds(txn, t2, p)
    BY <1>1, <1>2 DEF Makes
  <2>2. Moves(txn, t2, Parent, {}, {}) /\ t2.root = txn.root
    BY <1>1, <1>2 DEF Makes
  <2>5. KeepsTree(txn, t2)
    BY <2>1, <2>2 DEF KeepsTree, Adds, Moves
  <2> QED
    BY <2>5, TreeKept DEF Ready
<1>3. t2.error = TRUE => Fails(txn, t2, Parent)
  BY <1>1, FailsAtOnce DEF Makes, Ready
<1> QED
  BY <1>1, <1>2, <1>3 DEF Operates, Makes, t2

\* Pages of the main tree are dropped from it.
LEMMA MainDropped ==
    ASSUME NEW t2, NEW S, Ready(txn), Moves(txn, t2, Parent, {}, {}), Drops(txn, t2, S),
           \A h \in S : h \in DOMAIN txn.pages /\ txn.pages[h].main = TRUE
    PROVE  Operates(txn, t2)
<1>1. KeepsTree(txn, t2)
  BY DEF KeepsTree, Drops
<1> QED
  BY <1>1, MovedOperates

\* mdb_page_loose on a page of the main tree.
LEMMA MainLoosened ==
    ASSUME NEW h \in DOMAIN txn.pages, Ready(txn), txn.pages[h].main = TRUE, txn.pages[h].n = 1
    PROVE  Operates(txn, Loosened(txn, h))
<1> DEFINE t2 == Loosened(txn, h)
<1>1. Moves(txn, t2, Parent, {}, {}) /\ Drops(txn, t2, {h})
  BY LoosenedIs DEF Ready
<1> HIDE DEF t2
<1>2. Operates(txn, t2)
  BY <1>1, MainDropped
<1> QED
  BY <1>2 DEF t2

\* mdb_ovpage_free on a value of the main tree.
LEMMA MainOverflowFreed ==
    ASSUME NEW h \in DOMAIN txn.pages, Ready(txn), txn.pages[h].main = TRUE
    PROVE  Operates(txn, OverflowFreed(txn, h))
<1> DEFINE t2 == OverflowFreed(txn, h)
<1>1. Moves(txn, t2, Parent, {}, {}) /\ Drops(txn, t2, {h})
  BY OverflowFreedIs DEF Ready
<1> HIDE DEF t2
<1>2. Operates(txn, t2)
  BY <1>1, MainDropped
<1> QED
  BY <1>2 DEF t2

\* A value on overflow pages is written anew.
LEMMA MainOverwritten ==
    ASSUME NEW h \in DOMAIN txn.pages, Ready(txn), txn.pages[h].main = TRUE
    PROVE  Operates(txn, OverflowRewritten(txn, h))
<1> DEFINE t2 == OverflowRewritten(txn, h)
<1>1. /\ Steady(txn, t2) /\ t2.error \in BOOLEAN
      /\ t2.error = FALSE => Moves(txn, t2, Parent, {}, {}) /\ Others(txn, t2, h)
      /\ t2.error = TRUE => Fails(txn, t2, Parent)
  BY OverflowRewrittenIs DEF Ready
<1> HIDE DEF t2
<1>2. ASSUME t2.error = FALSE PROVE TreeOf(t2)
  <2>1. KeepsTree(txn, t2)
    BY <1>1, <1>2 DEF KeepsTree, Others, Moves
  <2> QED
    BY <2>1, TreeKept DEF Ready
<1>3. Operates(txn, t2)
  BY <1>1, <1>2 DEF Operates
<1> QED
  BY <1>3 DEF t2

\* A page is freed although it is dirty.
LEMMA FreedIs ==
    ASSUME NEW t, NEW t2, NEW h \in DOMAIN t.pages, NEW u, Books(t, u, {}), t.pages[h].n = 1,
           t2 = Freed([t EXCEPT !.pages = Without(t.pages, {h})], h)
    PROVE  Moves(t, t2, u, {}, {}) /\ Drops(t, t2, {h}) /\ IsRecord(t2) /\ t2.loose = t.loose
<1>1. IsRecord(t) /\ t.frees \in Seq(Nat) /\ h \in Nat
  BY DEF Books, IsTxn, IsPages
<1>2. t2 = [t EXCEPT !.pages = Without(t.pages, {h}), !.frees = Append(t.frees, h)]
  BY <1>1 DEF Freed, IsRecord
<1>3. /\ Append(t.frees, h) \in Seq(Nat) /\ ToSet(Append(t.frees, h)) = ToSet(t.frees) \cup {h}
      /\ Len(Append(t.frees, h)) = Len(t.frees) + 1 /\ Len(t.frees) \in Nat
  BY <1>1, ToSetAppended
<1>4. RunsOf(t, {h}) = {h}
  <2>1. RunsOf(t, {h}) = Run(h, 1)
    BY RunsOfOne
  <2>2. 1 \in Positive
    BY DEF Positive
  <2> QED
    BY <1>1, <2>1, <2>2, RunHasFirst
<1>5. /\ IsRecord(t2) /\ t2.pages = Without(t.pages, {h}) /\ t2.frees = Append(t.frees, h)
      /\ t2.recs = t.recs /\ t2.loose = t.loose /\ t2.spills = t.spills /\ t2.txnid = t.txnid
      /\ t2.pglast = t.pglast /\ t2.next = t.next /\ t2.pghead = t.pghead /\ t2.dirty = t.dirty
      /\ t2.oldest = t.oldest /\ t2.room = t.room /\ t2.error = t.error /\ t2.listed = t.listed
      /\ t2.root = t.root
  BY <1>1, <1>2 DEF IsRecord
<1>9. FreesMore(t, t2)
  BY <1>3, <1>5 DEF FreesMore
<1>6. FreedBy(t2) = FreedBy(t) \cup RunsOf(t, {h})
  BY <1>3, <1>4, <1>5 DEF FreedBy
<1>7. NowGivenUp(t, t2, {h})
  BY <1>3, <1>5, <1>6, <1>9 DEF NowGivenUp
<1>8. {h} \subseteq DOMAIN t.pages
  OBVIOUS
<1> QED
  BY <1>5, <1>7, <1>8, GivenUp

\* mdb_rebalance frees the root of the main tree.
LEMMA MainRootGone ==
    ASSUME NEW h \in DOMAIN txn.pages, Ready(txn), txn.pages[h].main = TRUE, txn.pages[h].n = 1
    PROVE  Operates(txn, Freed([txn EXCEPT !.pages = Without(@, {h})], h))
<1> DEFINE t2 == Freed([txn EXCEPT !.pages = Without(@, {h})], h)
<1>1. t2 = Freed([txn EXCEPT !.pages = Without(txn.pages, {h})], h)
  BY DEF Ready, Books, IsTxn, IsRecord
<1> HIDE DEF t2
<1>2. Moves(txn, t2, Parent, {}, {}) /\ Drops(txn, t2, {h})
  BY <1>1, FreedIs DEF Ready
<1>3. Operates(txn, t2)
  BY <1>2, MainDropped
<1> QED
  BY <1>3 DEF t2

\* The whole tree.
\* The main tree S is dropped.
Dropped(S, t2) ==
    /\ S = {h \in DOMAIN txn.pages : txn.pages[h].main}
    /\ t2 = [txn EXCEPT !.pages = Without(@, S), !.marked = TRUE,
                        !.frees = @ \o Ascending(Covered(Restrict(txn.pages, S)))]

\* mdb_drop0 frees all pages of the main tree.
LEMMA MainGone ==
    ASSUME Ready(txn), NEW S, NEW t2, Dropped(S, t2)
    PROVE  Operates(txn, t2)
<1> DEFINE list == Ascending(Covered(Restrict(txn.pages, S)))
<1>1. IsRecord(txn) /\ txn.frees \in Seq(Nat) /\ IsPages(txn.pages)
  BY DEF Ready, Books, IsTxn
<1>5. t2 = [txn EXCEPT !.pages = Without(txn.pages, S), !.marked = TRUE, !.frees = txn.frees \o list]
  BY <1>1 DEF IsRecord, Dropped
<1>2. Covered(Restrict(txn.pages, S)) = RunsOf(txn, S)
  <2> DEFINE g == Restrict(txn.pages, S)
  <2>1. DOMAIN g = S /\ \A h \in S : g[h] = txn.pages[h]
    BY DEF Restrict
  <2> HIDE DEF g
  <2>2. \A p : p \in Covered(g) <=> \E h \in S : p \in Run(h, txn.pages[h].n)
    BY <2>1, CoveredIs
  <2>3. \A p : p \in RunsOf(txn, S) <=> \E h \in S : p \in Run(h, txn.pages[h].n)
    BY DEF RunsOf
  <2>4. Covered(g) = RunsOf(txn, S)
    BY <2>2, <2>3
  <2> QED
    BY <2>4 DEF g
<1>3. RunsOf(txn, S) \in SUBSET Nat /\ IsFiniteSet(RunsOf(txn, S))
  <2>1. RunsOf(txn, S) \subseteq Covered(txn.pages)
    BY DEF RunsOf, Covered, Dropped
  <2>2. Covered(txn.pages) \subseteq Known(txn) /\ txn.next \in Nat
    BY DEF Ready, Books, Placed, IsTxn
  <2>3. Known(txn) \subseteq Nat /\ IsFiniteSet(Known(txn))
    BY <2>2, KnownIsFinite
  <2> QED
    BY <2>1, <2>2, <2>3, FS_Subset
<1>4. list \in Seq(Nat) /\ ToSet(list) = RunsOf(txn, S)
  <2> DEFINE X == RunsOf(txn, S)
  <2>1. /\ Cardinality(X) \in Nat /\ Ascending(X) \in Seq(Nat) /\ Len(Ascending(X)) = Cardinality(X)
        /\ \A i \in 1 .. Cardinality(X) : Ascending(X)[i] \in X
        /\ \A x \in X : \E i \in 1 .. Cardinality(X) : Ascending(X)[i] = x
    <3> HIDE DEF X
    <3>1. X \in SUBSET Nat /\ IsFiniteSet(X)
      BY <1>3 DEF X
    <3> QED
      BY <3>1, AscendingIs
  <2>2. list = Ascending(X)
    BY <1>2
  <2> HIDE DEF X, list
  <2>3. \A x : x \in ToSet(list) <=> \E i \in 1 .. Len(list) : x = list[i]
    BY <2>1, <2>2, ToSetOf
  <2>4. ToSet(list) \subseteq X
    BY <2>1, <2>2, <2>3
  <2>5. X \subseteq ToSet(list)
    BY <2>1, <2>2, <2>3
  <2>6. list \in Seq(Nat)
    BY <2>1, <2>2
  <2> QED
    BY <2>4, <2>5, <2>6 DEF X
<1> HIDE DEF list
<1>6. txn.frees \o list \in Seq(Nat) /\ ToSet(txn.frees \o list) = ToSet(txn.frees) \cup ToSet(list)
  <2>1. txn.frees \in Seq(Nat) /\ list \in Seq(Nat)
    BY <1>1, <1>4
  <2> QED
    BY <2>1, ToSetJoined
<1>7. /\ IsRecord(t2) /\ t2.pages = Without(txn.pages, S) /\ t2.frees = txn.frees \o list
      /\ t2.recs = txn.recs /\ t2.loose = txn.loose /\ t2.spills = txn.spills /\ t2.txnid = txn.txnid
      /\ t2.pglast = txn.pglast /\ t2.next = txn.next /\ t2.pghead = txn.pghead /\ t2.dirty = txn.dirty
      /\ t2.oldest = txn.oldest /\ t2.room = txn.room /\ t2.error = txn.error /\ t2.listed = txn.listed
      /\ t2.root = txn.root
  BY <1>1, <1>5 DEF IsRecord
<1>12. FreesMore(txn, t2)
  <2>1. txn.frees \in Seq(Nat) /\ list \in Seq(Nat)
    BY <1>1, <1>4
  <2>2. Len(t2.frees) = Len(txn.frees) + Len(list) /\ Len(txn.frees) \in Nat /\ Len(list) \in Nat
    BY <1>7, <2>1
  <2>3. Len(t2.frees) = Len(txn.frees) => list = <<>>
    BY <2>1, <2>2
  <2>4. Len(t2.frees) = Len(txn.frees) => t2.frees = txn.frees
    BY <1>7, <2>1, <2>3
  <2> QED
    BY <2>2, <2>4 DEF FreesMore
<1>8. FreedBy(t2) = FreedBy(txn) \cup RunsOf(txn, S)
  BY <1>4, <1>6, <1>7 DEF FreedBy
<1>9. NowGivenUp(txn, t2, S)
  BY <1>6, <1>7, <1>8, <1>12 DEF NowGivenUp
<1>10. Moves(txn, t2, Parent, {}, {}) /\ Drops(txn, t2, S)
  <2>1. S \subseteq DOMAIN txn.pages
    BY DEF Dropped
  <2>2. Books(txn, Parent, {})
    BY DEF Ready
  <2> QED
    BY <1>7, <1>9, <2>1, <2>2, GivenUp
<1>11. \A h \in S : h \in DOMAIN txn.pages /\ txn.pages[h].main = TRUE
  BY <1>1 DEF IsPages, Dropped
<1> QED
  BY <1>10, <1>11, MainDropped

-----------------------------------------------------------------------------
(* Steps of the commit *)

\* The main tree is as it was.
SameMain(t, t2) ==
    /\ \A h \in DOMAIN t.pages : t.pages[h].main = TRUE => h \in DOMAIN t2.pages /\ t2.pages[h] = t.pages[h]
    /\ \A h \in DOMAIN t2.pages : t2.pages[h].main = TRUE => h \in DOMAIN t.pages /\ t2.pages[h] = t.pages[h]

\* It stays so.
LEMMA SameMainOn ==
    ASSUME NEW t, NEW t2, NEW t3, SameMain(t, t2), SameMain(t2, t3)
    PROVE  SameMain(t, t3)
  BY DEF SameMain

\* When no page of it goes, comes or is copied.
LEMMA OthersSameMain ==
    ASSUME NEW t, NEW t2
    PROVE  /\ t2.pages = t.pages => SameMain(t, t2)
           /\ \A S : Drops(t, t2, S) /\ (\A h \in S : t.pages[h].main = FALSE) => SameMain(t, t2)
           /\ \A p : Adds(t, t2, p) /\ t2.pages[p].main = FALSE => SameMain(t, t2)
           /\ \A h, p : Follows(t, t2, h, p) /\ h \in DOMAIN t.pages /\ t.pages[h].main = FALSE => SameMain(t, t2)
<1>1. t2.pages = t.pages => SameMain(t, t2)
  BY DEF SameMain
<1>2. ASSUME NEW S, Drops(t, t2, S), \A h \in S : t.pages[h].main = FALSE PROVE SameMain(t, t2)
  BY <1>2 DEF SameMain, Drops
<1>3. ASSUME NEW p, Adds(t, t2, p), t2.pages[p].main = FALSE PROVE SameMain(t, t2)
  BY <1>3 DEF SameMain, Adds
<1>4. ASSUME NEW h, NEW p, Follows(t, t2, h, p), h \in DOMAIN t.pages, t.pages[h].main = FALSE PROVE SameMain(t, t2)
  BY <1>4 DEF SameMain, Follows
<1> QED
  BY <1>1, <1>2, <1>3, <1>4

\* A transaction after part of the commit.
Leads(t, t2) ==
    /\ Books(t2, Parent, {}) /\ TreeOf(t2)
    /\ InPlace(file, t, Parent) => InPlace(file, t2, Parent)
    /\ \A P, s : Spares(t, Parent, P, s) /\ Watched(t, s) => Spares(t2, Parent, P, s)
    /\ FreedBy(t) \subseteq FreedBy(t2) /\ FreesMore(t, t2) /\ NoneLoosened(t, t2) /\ SameMain(t, t2)
    /\ Space(t2, Parent) <= Space(t, Parent)
    /\ t2.pglast = t.pglast \/ (t2.pglast > t.pglast /\ t2.pglast \in DOMAIN t.recs)

Advances(t, t2) ==
    /\ Steady(t, t2) /\ IsRecord(t2) /\ t2.error \in BOOLEAN
    /\ t2.error = FALSE => Leads(t, t2)
    /\ t2.error = TRUE => Fails(t, t2, Parent)

\* A list that gets longer twice.
LEMMA FreesMoreOn ==
    ASSUME NEW t, NEW t2, NEW t3, t.frees \in Seq(Nat), t2.frees \in Seq(Nat), t3.frees \in Seq(Nat),
           FreesMore(t, t2), FreesMore(t2, t3)
    PROVE  FreesMore(t, t3)
<1>1. Len(t.frees) \in Nat /\ Len(t2.frees) \in Nat /\ Len(t3.frees) \in Nat
  OBVIOUS
<1>2. Len(t.frees) <= Len(t3.frees)
  <2>1. Len(t.frees) <= Len(t2.frees) /\ Len(t2.frees) <= Len(t3.frees)
    BY DEF FreesMore
  <2>2. \A a, b, c \in Nat : a <= b /\ b <= c => a <= c
    OBVIOUS
  <2> QED
    BY <1>1, <2>1, <2>2, Zenon
<1>3. ASSUME Len(t.frees) = Len(t3.frees) PROVE t3.frees = t.frees
  <2>1. Len(t.frees) = Len(t2.frees) /\ Len(t2.frees) = Len(t3.frees)
    BY <1>1, <1>3 DEF FreesMore
  <2> QED
    BY <2>1 DEF FreesMore
<1> QED
  BY <1>2, <1>3 DEF FreesMore

\* The room and the dirty pages of a transaction in order.
LEMMA SpaceIs ==
    ASSUME NEW t, NEW u, NEW loan, Books(t, u, loan)
    PROVE  Space(t, u) \in Nat /\ t.room <= Space(t, u)
  BY CountsAre DEF Space

\* A failure after a move is a failure.
LEMMA FailsOn ==
    ASSUME NEW t, NEW t2, NEW t3, NEW u, Books(t, u, {}), Moves(t, t2, u, {}, {}), Fails(t2, t3, u)
    PROVE  Fails(t, t3, u)
<1>1. PICK x : Moves(t2, x, u, {}, {}) /\ SameView(x, t3)
  BY DEF Fails
<1>2. Moves(t, x, u, {}, {})
  BY <1>1, MovesOn, TxnidPositive
<1> QED
  BY <1>1, <1>2 DEF Fails

\* A move with the free-list tree in order is a step of saving the list.
LEMMA MovedLeads ==
    ASSUME NEW t, NEW t2, Moves(t, t2, Parent, {}, {}), TreeOf(t2), NoneLoosened(t, t2), SameMain(t, t2)
    PROVE  Advances(t, t2) /\ Leads(t, t2)
<1>1. Books(t2, Parent, {}) /\ Space(t2, Parent) = Space(t, Parent)
  BY DEF Moves
<1>2. Space(t2, Parent) <= Space(t, Parent)
  BY <1>1, SpaceIs
<1>3. Leads(t, t2)
  BY <1>2 DEF Moves, Leads
<1>4. Fails(t, t2, Parent)
  <2>1. SameView(t2, t2)
    BY <1>1, KnownPages DEF SameView
  <2> QED
    BY <2>1 DEF Fails
<1> QED
  BY <1>3, <1>4 DEF Moves, Advances, Books, IsTxn

\* Records that the transaction has not read do not gain pages.
NoneGained(t, recs) ==
    /\ \A id \in DOMAIN recs : 0 < id /\ id <= t.txnid
    /\ \A id \in DOMAIN recs \cup DOMAIN t.recs :
           (t.pglast = 0 \/ t.pglast < id) /\ id < t.txnid =>
               id \in DOMAIN recs /\ id \in DOMAIN t.recs /\ recs[id].ids = t.recs[id].ids

NowRecorded(t, t2, recs) ==
    /\ t2.recs = recs
    /\ t2.pages = t.pages /\ t2.frees = t.frees /\ t2.loose = t.loose /\ t2.dirty = t.dirty
    /\ t2.spills = t.spills /\ t2.txnid = t.txnid /\ t2.pglast = t.pglast /\ t2.next = t.next
    /\ t2.pghead = t.pghead /\ t2.oldest = t.oldest /\ t2.root = t.root /\ t2.error = t.error
    /\ t2.room = t.room /\ t2.listed = t.listed

\* Records change that the transaction has read, or writes itself: the books stay in order.
LEMMA RecsChanged ==
    ASSUME NEW t, NEW t2, NEW recs, NEW u, Books(t, u, {}), IsRecs(recs), NoneGained(t, recs),
           t2 = [t EXCEPT !.recs = recs]
    PROVE  /\ IsRecord(t2) /\ NowRecorded(t, t2, recs) /\ Books(t2, u, {})
           /\ InPlace(file, t, u) => InPlace(file, t2, u)
           /\ \A P, s : Spares(t, u, P, s) => Spares(t2, u, P, s)
<1>1. IsTxn(t) /\ IsRecord(t)
  BY DEF Books, IsTxn
<1>2. IsRecord(t2) /\ NowRecorded(t, t2, recs)
  BY <1>1 DEF NowRecorded, IsRecord
<1> USE DEF NowRecorded
<1>3. IsTxn(t2)
  BY <1>1, <1>2 DEF IsTxn
<1>4. Unread(t2) = Unread(t) /\ \A id \in Unread(t) : recs[id].ids = t.recs[id].ids
  BY <1>2 DEF Unread, NoneGained
<1>5. Waiting(t2) = Waiting(t)
  BY <1>2, <1>4 DEF Waiting
<1>6. /\ FreedBy(t2) = FreedBy(t) /\ Loose(t2) = Loose(t) /\ Known(t2) = Known(t) /\ Blocks(t2) = Blocks(t)
      /\ DirtyPages(t2) = DirtyPages(t) /\ Covered(t2.pages) = Covered(t.pages)
  BY <1>2 DEF FreedBy, Loose, Known, Blocks, DirtyPages
<1>7. Takeable(t2) = Takeable(t)
  BY <1>2, <1>5 DEF Takeable
<1>8. Placed(t2, u, {})
  <2>1. Placed(t, u, {})
    BY DEF Books
  <2>2. RecordsApart(t2.recs, Unread(t2))
    BY <1>2, <1>4, <2>1 DEF Placed, RecordsApart
  <2>3. Apart(Covered(t2.pages), t2.pghead, FreedBy(t2), Loose(t2), Waiting(t2), {}, Kept(u))
    BY <1>2, <1>5, <1>6, <2>1 DEF Placed, Apart
  <2> QED
    BY <1>2, <1>5, <1>6, <2>1, <2>2, <2>3 DEF Placed
<1>9. Laid(t2, u)
  BY <1>2, <1>6, <1>7 DEF Books, Laid
<1>10. SpillsRight(t2, u)
  BY <1>2, <1>6, <1>7 DEF Books, SpillsRight
<1>11. SparesParent(t2, u)
  BY <1>2 DEF Books, SparesParent
<1>12. Numbered(t2)
  BY <1>2 DEF Books, Numbered, NoneGained
<1>13. Books(t2, u, {})
  BY <1>3, <1>8, <1>9, <1>10, <1>11, <1>12 DEF Books
<1>14. InPlace(file, t, u) => InPlace(file, t2, u)
  BY <1>2 DEF InPlace, OnFile
<1>15. ASSUME NEW P, NEW s, Spares(t, u, P, s) PROVE Spares(t2, u, P, s)
  BY <1>2, <1>4, <1>6, <1>15 DEF Spares
<1> QED
  BY <1>2, <1>13, <1>14, <1>15

\* A move, and then a change of the records.
LEMMA RecordedLeads ==
    ASSUME NEW t, NEW t2, NEW t3, NEW recs, Moves(t, t2, Parent, {}, {}), IsRecs(recs),
           NoneLoosened(t, t2), SameMain(t, t2), NoneGained(t2, recs), t3 = [t2 EXCEPT !.recs = recs],
           FreeTree(t2.pages, t2.root, recs)
    PROVE  Leads(t, t3) /\ Steady(t, t3) /\ IsRecord(t3) /\ NowRecorded(t2, t3, recs)
<1> DEFINE u == Parent
<1>0. Books(t2, u, {})
  BY DEF Moves
<1> HIDE DEF u
<1>1. /\ IsRecord(t3) /\ NowRecorded(t2, t3, recs) /\ Books(t3, u, {})
      /\ InPlace(file, t2, u) => InPlace(file, t3, u)
      /\ \A P, s : Spares(t2, u, P, s) => Spares(t3, u, P, s)
  BY <1>0, RecsChanged
<1>2. TreeOf(t3)
  BY <1>1 DEF TreeOf, NowRecorded
<1>3. FreedBy(t3) = FreedBy(t2)
  BY <1>1 DEF FreedBy, NowRecorded
<1>4. Steady(t, t3)
  BY <1>1 DEF Steady, Moves, NowRecorded
<1>6. Space(t3, u) <= Space(t, u)
  <2>1. Space(t3, u) = Space(t2, u) /\ Space(t2, u) = Space(t, u)
    BY <1>1 DEF Space, Counts, NowRecorded, Moves, u
  <2> QED
    BY <1>0, <2>1, SpaceIs
<1>7. FreesMore(t, t3) /\ NoneLoosened(t, t3)
  BY <1>1 DEF FreesMore, NoneLoosened, NowRecorded, Moves
<1>8. SameMain(t, t3)
  BY <1>1, SameMainOn, OthersSameMain DEF NowRecorded
<1>5. Leads(t, t3)
  BY <1>1, <1>2, <1>3, <1>6, <1>7, <1>8 DEF Leads, Moves, NowRecorded, u
<1> QED
  BY <1>1, <1>4, <1>5

\* The root of the free-list tree is written to.
LEMMA RootFollows ==
    ASSUME NEW t, NEW t2, NEW p, TreeOf(t), t.root # 0, Follows(t, t2, t.root, p), t2.recs = t.recs
    PROVE  /\ TreeOf(t2) /\ t2.root = p
           /\ \A id \in DOMAIN t.recs : t.recs[id].ov # 0 => t2.pages[t.recs[id].ov] = t.pages[t.recs[id].ov]
<1>1. /\ t.root \in DOMAIN t.pages /\ t.pages[t.root].n = 1 /\ t.pages[t.root].main = FALSE
      /\ \A id \in DOMAIN t.recs :
             t.recs[id].ov # 0 => /\ t.recs[id].ov \in DOMAIN t.pages /\ t.pages[t.recs[id].ov].main = FALSE
                                  /\ t.recs[id].ov # t.root
      /\ \A id, other \in DOMAIN t.recs : t.recs[id].ov # 0 /\ t.recs[id].ov = t.recs[other].ov => id = other
  BY DEF TreeOf, FreeTree
<1>2. /\ p # 0 /\ (p = t.root \/ p \notin DOMAIN t.pages) /\ t2.root = p
      /\ DOMAIN t2.pages = (DOMAIN t.pages \ {t.root}) \cup {p}
      /\ t2.pages[p].n = 1 /\ t2.pages[p].main = FALSE
      /\ \A k \in DOMAIN t.pages : k # t.root => t2.pages[k] = t.pages[k]
  BY <1>1 DEF Follows
<1>3. \A id \in DOMAIN t.recs : t.recs[id].ov # 0 =>
          /\ t2.pages[t.recs[id].ov] = t.pages[t.recs[id].ov]
          /\ t.recs[id].ov \in DOMAIN t2.pages /\ t.recs[id].ov # p
  BY <1>1, <1>2
<1>4. p \in DOMAIN t2.pages
  BY <1>2
<1>5. FreeTree(t2.pages, p, t.recs)
  BY <1>1, <1>2, <1>3, <1>4 DEF FreeTree
<1> QED
  BY <1>2, <1>3, <1>5 DEF TreeOf

\* It is there, and the transaction has written to it.
HasRoot(t, t2) ==
    /\ t2.root # 0 /\ t2.root \in DOMAIN t2.dirty
    /\ \A id \in DOMAIN t.recs : t.recs[id].ov # 0 => t2.pages[t.recs[id].ov] = t.pages[t.recs[id].ov]

\* The leaf of the free-list tree is touched.
LEMMA RootIsTouched ==
    ASSUME NEW t, Ready(t), t.root # 0, t = txn \/ t.root \in DOMAIN t.dirty
    PROVE  LET t2 == Touched(t, t.root) IN
           /\ Advances(t, t2)
           /\ t2.error = FALSE => Moves(t, t2, Parent, {}, {}) /\ TreeOf(t2) /\ HasRoot(t, t2)
           /\ t2.error = TRUE => SameView(t, t2)
<1> DEFINE t2 == Touched(t, t.root)
<1>1. t.root \in DOMAIN t.pages /\ t.pages[t.root].n = 1 /\ t.pages[t.root].main = FALSE
  BY DEF Ready, TreeOf, FreeTree
<1>2. Touches(t, t2, t.root)
  BY <1>1, TouchedIs DEF Ready
<1> HIDE DEF t2
<1>3. ASSUME t2.error = FALSE
      PROVE  Leads(t, t2) /\ Moves(t, t2, Parent, {}, {}) /\ TreeOf(t2) /\ HasRoot(t, t2)
  <2>1. PICK p : Follows(t, t2, t.root, p)
    BY <1>2, <1>3 DEF Touches
  <2>2. Moves(t, t2, Parent, {}, {})
    BY <1>2, <1>3 DEF Touches
  <2>3. t2.recs = t.recs /\ TreeOf(t)
    BY <2>2 DEF Moves, Ready
  <2>4. /\ TreeOf(t2) /\ t2.root = p
        /\ \A id \in DOMAIN t.recs : t.recs[id].ov # 0 => t2.pages[t.recs[id].ov] = t.pages[t.recs[id].ov]
    BY <2>1, <2>3, RootFollows
  <2>5. p # 0 /\ p \in DOMAIN t2.dirty /\ NoneLoosened(t, t2) /\ SameMain(t, t2)
    BY <1>1, <2>1, OthersSameMain DEF Follows
  <2> QED
    BY <2>2, <2>4, <2>5, MovedLeads DEF HasRoot
<1>4. t2.error = TRUE => SameView(t, t2) /\ Fails(t, t2, Parent)
  BY <1>2, FailsAtOnce DEF Touches, Ready
<1> QED
  BY <1>2, <1>3, <1>4 DEF t2, Touches, Advances

\* To do nothing is a move.
LEMMA Stays ==
    ASSUME NEW t, NEW u, NEW loan, Books(t, u, loan)
    PROVE  Moves(t, t, u, loan, loan)
<1>1. IsTxn(t) /\ t.oldest < t.txnid
  BY DEF Books, Numbered
<1> QED
  BY <1>1, Unmoved

\* The loose pages of a transaction that has no list to return them to.
LEMMA LooseFreedIs ==
    ASSUME NEW t, Ready(t)
    PROVE  LET t2 == LooseFreed(t) IN Advances(t, t2) /\ t2.recs = t.recs /\ t2.error = FALSE
<1> DEFINE t2 == LooseFreed(t)
<1>1. IsTxn(t) /\ IsRecord(t) /\ t.frees \in Seq(Nat) /\ t.loose \in Seq(Nat) /\ Books(t, Parent, {})
  BY DEF Ready, Books, IsTxn
<1>2. CASE t.listed \/ t.loose = <<>>
  <2>1. t2 = t
    BY <1>2 DEF LooseFreed
  <2>2. Moves(t, t, Parent, {}, {}) /\ TreeOf(t)
    BY <1>1, Stays DEF Ready
  <2> HIDE DEF t2
  <2>3. Advances(t, t2) /\ t2.recs = t.recs /\ t2.error = FALSE
    BY <2>1, <2>2, MovedLeads, OthersSameMain DEF Ready, NoneLoosened
  <2> QED
    BY <2>3 DEF t2
<1>3. CASE ~ (t.listed \/ t.loose = <<>>)
  <2> DEFINE dirty == Without(t.dirty, ToSet(t.loose))
             frees == t.frees \o t.loose
             none  == <<>>
  <2>1. t2 = [t EXCEPT !.frees = frees, !.loose = none, !.dirty = dirty]
    BY <1>1, <1>3 DEF LooseFreed, IsRecord
  <2>2. frees \in Seq(Nat) /\ ToSet(frees) = ToSet(t.frees) \cup ToSet(t.loose) /\ none \in Seq(Nat)
    BY <1>1, ToSetJoined
  <2>11. Len(t.frees) < Len(frees)
    <3>1. Len(frees) = Len(t.frees) + Len(t.loose) /\ Len(t.frees) \in Nat /\ Len(t.loose) \in Nat
      BY <1>1
    <3>2. Len(t.loose) # 0
      BY <1>1, <1>3
    <3>3. ASSUME NEW a \in Nat, NEW b \in Nat, b # 0 PROVE a < a + b
      BY <3>3
    <3>4. Len(t.frees) < Len(t.frees) + Len(t.loose)
      BY <3>1, <3>2, <3>3
    <3> QED
      BY <3>1, <3>4
  <2>3. DOMAIN dirty = DOMAIN t.dirty \ ToSet(t.loose) /\ \A h \in DOMAIN dirty : dirty[h] = t.dirty[h]
    BY DEF Without, Restrict
  <2>4. dirty = Without(t.dirty, Loose(t)) /\ none = <<>>
    BY DEF Loose
  <2> HIDE DEF t2, dirty, frees, none
  <2>5. DOMAIN dirty \subseteq Nat /\ \A h \in DOMAIN dirty : dirty[h] \in Positive
    BY <1>1, <2>3 DEF IsTxn
  <2>6. /\ IsTxn(t2) /\ t2.frees = frees /\ t2.loose = none /\ t2.dirty = dirty
        /\ t2.pages = t.pages /\ t2.recs = t.recs /\ t2.spills = t.spills
        /\ t2.txnid = t.txnid /\ t2.pglast = t.pglast /\ t2.next = t.next
        /\ t2.pghead = t.pghead /\ t2.oldest = t.oldest /\ t2.root = t.root /\ t2.error = t.error
        /\ t2.room = t.room /\ t2.listed = t.listed
    BY <1>1, <2>1, <2>2, <2>5 DEF IsTxn, IsRecord
  <2>7. FreedBy(t2) = FreedBy(t) \cup Loose(t)
    BY <2>2, <2>6 DEF FreedBy, Loose
  <2>8. /\ Books(t2, Parent, {}) /\ Space(t2, Parent) <= Space(t, Parent)
        /\ InPlace(file, t, Parent) => InPlace(file, t2, Parent)
        /\ \A P, s : Spares(t, Parent, P, s) => Spares(t2, Parent, P, s)
    BY <1>1, <2>4, <2>6, <2>7, AllLooseFreed
  <2>9. TreeOf(t2)
    BY <2>6 DEF Ready, TreeOf
  <2>15. SameMain(t, t2)
    BY <2>6, OthersSameMain
  <2>12. FreesMore(t, t2) /\ NoneLoosened(t, t2)
    <3>1. Len(t.frees) \in Nat /\ Len(frees) \in Nat
      BY <1>1, <2>2
    <3> QED
      BY <2>4, <2>6, <2>11, <3>1 DEF FreesMore, NoneLoosened
  <2>13. FreedBy(t) \subseteq FreedBy(t2) /\ Steady(t, t2) /\ IsRecord(t2) /\ t2.error = FALSE
    BY <2>6, <2>7 DEF Ready, Steady, IsTxn
  <2>14. Leads(t, t2)
    BY <2>6, <2>8, <2>9, <2>12, <2>13, <2>15 DEF Leads
  <2>10. Advances(t, t2) /\ t2.recs = t.recs /\ t2.error = FALSE
    BY <2>6, <2>13, <2>14 DEF Advances
  <2> QED
    BY <2>10 DEF t2
<1> QED
  BY <1>2, <1>3

\* The leaf of the free-list tree is touched, when there is one.
LEMMA RootTouchedIs ==
    ASSUME Ready(txn)
    PROVE  LET t2 == RootTouched(txn) IN
           /\ Advances(txn, t2)
           /\ t2.error = FALSE => /\ Moves(txn, t2, Parent, {}, {}) /\ TreeOf(t2)
                                  /\ t2.root = 0 \/ t2.root \in DOMAIN t2.dirty
           /\ t2.error = TRUE => SameView(txn, t2)
<1> DEFINE t2 == RootTouched(txn)
<1>1. CASE txn.root = 0
  <2>1. t2 = txn
    BY <1>1 DEF RootTouched
  <2>2. Moves(txn, txn, Parent, {}, {}) /\ TreeOf(txn)
    BY Stays DEF Ready
  <2> HIDE DEF t2
  <2>3. Advances(txn, t2) /\ t2.error = FALSE
    BY <2>1, <2>2, MovedLeads, OthersSameMain DEF NoneLoosened, Ready
  <2> QED
    BY <1>1, <2>1, <2>2, <2>3 DEF t2
<1>2. CASE txn.root # 0
  <2>1. t2 = Touched(txn, txn.root)
    BY <1>2 DEF RootTouched
  <2> HIDE DEF t2
  <2>2. /\ Advances(txn, t2)
        /\ t2.error = FALSE => Moves(txn, t2, Parent, {}, {}) /\ TreeOf(t2) /\ HasRoot(txn, t2)
        /\ t2.error = TRUE => SameView(txn, t2)
    BY <1>2, <2>1, RootIsTouched
  <2> QED
    BY <2>2 DEF t2, HasRoot
<1> QED
  BY <1>1, <1>2

\* After a move that did not fail the next may follow.
LEMMA StillReady ==
    ASSUME NEW t, NEW t2, Ready(t), Moves(t, t2, Parent, {}, {}), TreeOf(t2), t2.error = FALSE
    PROVE  Ready(t2)
  BY DEF Ready, Moves

\* A step of saving the list after a move.
LEMMA AdvancesOn ==
    ASSUME NEW t, NEW t2, NEW t3, Ready(t), Moves(t, t2, Parent, {}, {}), NoneLoosened(t, t2),
           SameMain(t, t2), Advances(t2, t3)
    PROVE  Advances(t, t3)
<1>1. Steady(t, t3)
  BY DEF Moves, Advances, Steady, FindOldest
<1>2. ASSUME t3.error = FALSE PROVE Leads(t, t3)
  <2>1. Leads(t2, t3)
    BY <1>2 DEF Advances
  <2>2. t.pglast \in Nat /\ t2.pglast \in Nat
    BY DEF Ready, Moves, Books, IsTxn
  <2>3. t3.pglast = t.pglast \/ (t3.pglast > t.pglast /\ t3.pglast \in DOMAIN t.recs)
    <3>1. t3.pglast \in Nat
      BY <2>1 DEF Leads, Books, IsTxn
    <3>2. /\ t2.recs = t.recs
          /\ t2.pglast = t.pglast \/ (t2.pglast > t.pglast /\ t2.pglast \in DOMAIN t.recs)
      BY DEF Moves
    <3>3. t3.pglast = t2.pglast \/ (t3.pglast > t2.pglast /\ t3.pglast \in DOMAIN t2.recs)
      BY <2>1 DEF Leads
    <3> QED
      BY <2>2, <3>1, <3>2, <3>3
  <2>4. ASSUME NEW P, NEW s, Spares(t, Parent, P, s), Watched(t, s) PROVE Spares(t3, Parent, P, s)
    <3>1. Spares(t2, Parent, P, s)
      BY <2>4 DEF Moves
    <3>2. Watched(t2, s)
      BY <2>4 DEF Moves, Steady, Watched, FindOldest
    <3> QED
      BY <2>1, <3>1, <3>2 DEF Leads
  <2>5. FreesMore(t, t3) /\ NoneLoosened(t, t3)
    <3>1. t.frees \in Seq(Nat) /\ t2.frees \in Seq(Nat) /\ t3.frees \in Seq(Nat)
      BY <2>1 DEF Ready, Moves, Leads, Books, IsTxn
    <3> QED
      BY <2>1, <3>1, FreesMoreOn DEF Moves, Leads, NoneLoosened
  <2>6. Space(t3, Parent) <= Space(t, Parent)
    BY <2>1 DEF Leads, Moves
  <2>7. SameMain(t, t3)
    BY <2>1, SameMainOn DEF Leads
  <2> QED
    BY <2>1, <2>3, <2>4, <2>5, <2>6, <2>7 DEF Leads, Moves
<1>3. t3.error = TRUE => Fails(t, t3, Parent)
  BY FailsOn DEF Advances, Ready
<1> QED
  BY <1>1, <1>2, <1>3 DEF Advances

\* mdb_txn_commit, before the free list is saved.
LEMMA CommitBegun ==
    ASSUME Ready(txn)
    PROVE  LET t2 == LooseFreed(IF txn.listed THEN RootTouched(txn) ELSE txn) IN
           Advances(txn, t2) /\ (t2.error = FALSE => t2.recs = txn.recs)
<1> DEFINE x  == IF txn.listed THEN RootTouched(txn) ELSE txn
           t2 == LooseFreed(x)
<1>1. /\ Advances(txn, x)
      /\ x.error = FALSE => Moves(txn, x, Parent, {}, {}) /\ TreeOf(x)
      /\ x.error = TRUE => SameView(txn, x) /\ txn.listed
  <2>1. CASE txn.listed
    BY <2>1, RootTouchedIs
  <2>2. CASE ~ txn.listed
    <3>1. Moves(txn, txn, Parent, {}, {}) /\ TreeOf(txn)
      BY Stays DEF Ready
    <3> QED
      BY <2>2, <3>1, MovedLeads, OthersSameMain DEF NoneLoosened, Ready
  <2> QED
    BY <2>1, <2>2
<1>2. t2 = LooseFreed(x)
  OBVIOUS
<1> HIDE DEF x, t2
<1>3. CASE x.error = FALSE
  <2>1. Ready(x)
    BY <1>1, <1>3, StillReady
  <2>2. Advances(x, t2) /\ t2.recs = x.recs
    BY <1>2, <2>1, LooseFreedIs
  <2>3. Advances(txn, t2) /\ t2.recs = txn.recs
    <3>1. NoneLoosened(txn, x) /\ SameMain(txn, x)
      BY <1>1, <1>3 DEF Advances, Leads
    <3> QED
      BY <1>1, <1>3, <2>2, <3>1, AdvancesOn DEF Moves
  <2> QED
    BY <2>3 DEF t2, x
<1>4. CASE x.error = TRUE
  <2>1. t2 = x
    BY <1>1, <1>2, <1>4 DEF LooseFreed, SameView
  <2>2. Advances(txn, t2) /\ t2.error = TRUE
    BY <1>1, <1>4, <2>1
  <2> QED
    BY <2>2 DEF t2, x
<1> QED
  BY <1>1, <1>3, <1>4 DEF Advances

\* A record is put where it had none, or instead of the one it had; it is empty.
Recorded(t, t2, id, len) ==
    /\ DOMAIN t2.recs = DOMAIN t.recs \cup {id} /\ t2.recs[id].ids = {} /\ t2.recs[id].room = len
    /\ \A k \in DOMAIN t.recs : k # id => t2.recs[k] = t.recs[k]

IsRec(r) ==
    /\ r = [ids |-> r.ids, room |-> r.room, ov |-> r.ov]
    /\ r.room \in Nat /\ r.ov \in Nat

\* Records and one more are records.
LEMMA RecsWith ==
    ASSUME NEW recs, NEW id \in Nat, NEW r, IsRecs(recs), IsRec(r)
    PROVE  IsRecs(With(recs, id, r))
<1>1. /\ DOMAIN With(recs, id, r) = DOMAIN recs \cup {id} /\ With(recs, id, r)[id] = r
      /\ \A y \in DOMAIN recs : y # id => With(recs, id, r)[y] = recs[y]
  BY DEF With, Over
<1>2. IsFiniteSet(DOMAIN recs \cup {id})
  BY FS_AddElement DEF IsRecs
<1> QED
  BY <1>1, <1>2 DEF IsRecs, IsRec

\* The free-list tree without what it says of one record.
TreeBut(t, id) ==
    /\ t.root # 0 /\ t.root \in DOMAIN t.pages /\ t.pages[t.root].n = 1 /\ t.pages[t.root].main = FALSE
    /\ \A k \in DOMAIN t.recs \ {id} :
           t.recs[k].ov # 0 => /\ t.recs[k].ov \in DOMAIN t.pages /\ t.pages[t.recs[k].ov].main = FALSE
                               /\ t.recs[k].ov # t.root
    /\ \A k, other \in DOMAIN t.recs \ {id} : t.recs[k].ov # 0 /\ t.recs[k].ov = t.recs[other].ov => k = other

\* A tree in order is in order but for any one record.
LEMMA TreeButOne ==
    ASSUME NEW t, NEW id, TreeOf(t), t.root # 0
    PROVE  TreeBut(t, id)
  BY DEF TreeOf, FreeTree, TreeBut

\* The overflow pages of that record may go.
LEMMA TreeButDropped ==
    ASSUME NEW t, NEW t2, NEW id \in DOMAIN t.recs, TreeOf(t), t.root # 0, t.recs[id].ov # 0,
           Drops(t, t2, {t.recs[id].ov})
    PROVE  TreeBut(t2, id)
  BY DEF TreeOf, FreeTree, TreeBut, Drops

\* Another page may come.
LEMMA TreeButAdded ==
    ASSUME NEW t, NEW t2, NEW id, NEW p, TreeBut(t, id), Adds(t, t2, p), t2.root = t.root, t2.recs = t.recs
    PROVE  TreeBut(t2, id) /\ p # t2.root /\ \A k \in DOMAIN t.recs \ {id} : t.recs[k].ov # p
  BY DEF TreeBut, Adds

\* And the record may be put with it.
LEMMA TreeWith ==
    ASSUME NEW t, NEW id, NEW r, TreeBut(t, id),
           r.ov # 0 => /\ r.ov \in DOMAIN t.pages /\ t.pages[r.ov].main = FALSE /\ r.ov # t.root
                       /\ \A k \in DOMAIN t.recs \ {id} : t.recs[k].ov # r.ov
    PROVE  FreeTree(t.pages, t.root, With(t.recs, id, r))
<1> DEFINE recs == With(t.recs, id, r)
<1>1. /\ DOMAIN recs = DOMAIN t.recs \cup {id} /\ recs[id] = r
      /\ \A y \in DOMAIN t.recs : y # id => recs[y] = t.recs[y]
  BY DEF With, Over
<1> HIDE DEF recs
<1>2. \A k \in DOMAIN recs :
           recs[k].ov # 0 => /\ recs[k].ov \in DOMAIN t.pages /\ t.pages[recs[k].ov].main = FALSE
                             /\ recs[k].ov # t.root
  BY <1>1 DEF TreeBut
<1>3. \A k, other \in DOMAIN recs : recs[k].ov # 0 /\ recs[k].ov = recs[other].ov => k = other
  BY <1>1 DEF TreeBut
<1>4. FreeTree(t.pages, t.root, recs)
  BY <1>2, <1>3 DEF TreeBut, FreeTree
<1> QED
  BY <1>4 DEF recs

\* A record on overflow pages takes one at least.
LEMMA OvPagesPositive ==
    ASSUME NEW len \in Nat
    PROVE  OvPages(len) \in Positive
<1>1. PageWords \in Nat /\ PageWords > 0
  BY LmdbPagesAssumption
<1>2. (len + 2) \div PageWords \in Nat
  BY <1>1
<1> QED
  BY <1>2 DEF OvPages, Positive

Had(t, id) == id \in DOMAIN t.recs /\ t.recs[id].ov # 0

\* The transaction has read the record, or writes it.
Own(t, id) == 0 < id /\ (id = t.txnid \/ id <= t.pglast)

\* It may change one of these, and none that it has not read gains a page.
LEMMA OwnChanges ==
    ASSUME NEW t, NEW t2, NEW u, NEW id, NEW recs, Books(t2, u, {}), id \in Nat, Own(t, id), t.pglast \in Nat,
           t2.txnid = t.txnid, t2.pglast = t.pglast \/ t2.pglast > t.pglast,
           DOMAIN recs \in {DOMAIN t2.recs, DOMAIN t2.recs \cup {id}, DOMAIN t2.recs \ {id}},
           \A k \in DOMAIN recs : k # id => recs[k] = t2.recs[k]
    PROVE  NoneGained(t2, recs)
<1>1. /\ t2.pglast < t2.txnid /\ t2.pglast \in Nat /\ t2.txnid \in Nat /\ DOMAIN t2.recs \subseteq Nat
      /\ \A k \in DOMAIN t2.recs : 0 < k /\ k <= t2.txnid
  BY DEF Books, Numbered, IsTxn, IsRecs
<1>2. 0 < id /\ id <= t2.txnid
  BY <1>1 DEF Own
<1>3. ~ ((t2.pglast = 0 \/ t2.pglast < id) /\ id < t2.txnid)
  BY <1>1 DEF Own
<1>4. \A k \in DOMAIN recs : 0 < k /\ k <= t2.txnid
  BY <1>1, <1>2
<1> QED
  BY <1>3, <1>4 DEF NoneGained

\* The steps of PutRecord from where the root has been written to.
Puts(t, id, len, x, y, r, z) ==
    /\ x = IF Had(t, id) THEN OverflowFreed(t, t.recs[id].ov) ELSE t
    /\ y = IF len > NodeRoom THEN NewPage(x, OvPages(len), FALSE) ELSE x
    /\ r = [ids |-> {}, room |-> len,
            ov |-> IF len > NodeRoom /\ ~y.error
                   THEN CHOOSE h \in DOMAIN y.pages \ DOMAIN x.pages : TRUE ELSE 0]
    /\ z = [y EXCEPT !.recs = With(y.recs, id, r)]

\* A record is put into the free-list tree that has a leaf (mdb_cursor_put).
LEMMA RecordPut ==
    ASSUME NEW t, NEW id, id \in Nat, NEW len \in Nat, Ready(t), t.root # 0, Own(t, id),
           NEW x, NEW y, NEW r, NEW z, Puts(t, id, len, x, y, r, z)
    PROVE  Advances(t, z) /\ (z.error = FALSE => Recorded(t, z, id, len))
<1>1. /\ Books(t, Parent, {}) /\ TreeOf(t) /\ t.error = FALSE /\ Slots \subseteq Nat /\ t.pglast \in Nat
      /\ Fresh \in Nat /\ t.frees \in Seq(Nat)
  BY DEF Ready, Books, IsTxn
<1>2. Moves(t, x, Parent, {}, {}) /\ x.error = FALSE /\ TreeBut(x, id) /\ x.loose = t.loose /\ SameMain(t, x)
  <2>1. CASE Had(t, id)
    <3> DEFINE ov == t.recs[id].ov
    <3>1. id \in DOMAIN t.recs /\ ov # 0 /\ ov \in DOMAIN t.pages /\ t.pages[ov].main = FALSE
      BY <1>1, <2>1 DEF TreeOf, FreeTree, Had
    <3>2. x = OverflowFreed(t, ov)
      BY <2>1 DEF Puts
    <3> HIDE DEF ov
    <3>3. Moves(t, x, Parent, {}, {}) /\ Drops(t, x, {ov}) /\ x.loose = t.loose
      BY <1>1, <3>1, <3>2, OverflowFreedIs
    <3>4. TreeBut(x, id)
      BY <1>1, <3>1, <3>3, TreeButDropped DEF ov
    <3>5. SameMain(t, x)
      <4> DEFINE S == {ov}
      <4>1. \A h \in S : t.pages[h].main = FALSE
        BY <3>1
      <4>2. Drops(t, x, S)
        BY <3>3
      <4> HIDE DEF S
      <4> QED
        BY <4>1, <4>2, OthersSameMain
    <3> QED
      BY <1>1, <3>3, <3>4, <3>5 DEF Drops
  <2>2. CASE ~ Had(t, id)
    <3>1. x = t
      BY <2>2 DEF Puts
    <3> QED
      BY <1>1, <3>1, Stays, TreeButOne, OthersSameMain
  <2> QED
    BY <2>1, <2>2
<1>3. Books(x, Parent, {})
  BY <1>2 DEF Moves
<1>4. /\ Steady(t, y) /\ IsRecord(y) /\ y.error \in BOOLEAN
      /\ y.error = TRUE => SameView(x, y)
      /\ y.error = FALSE => /\ Moves(t, y, Parent, {}, {}) /\ TreeBut(y, id) /\ NoneLoosened(t, y)
                            /\ SameMain(t, y)
                            /\ r.ov # 0 => /\ r.ov \in DOMAIN y.pages /\ y.pages[r.ov].main = FALSE
                                           /\ r.ov # y.root
                                           /\ \A k \in DOMAIN y.recs \ {id} : y.recs[k].ov # r.ov
                            /\ r.ov \in Nat
  <2>1. CASE len > NodeRoom
    <3> DEFINE num == OvPages(len)
    <3>1. num \in Positive
      BY OvPagesPositive
    <3>2. y = NewPage(x, num, FALSE)
      BY <2>1 DEF Puts
    <3> HIDE DEF num
    <3>3. Makes(x, y, Parent, num, FALSE)
      BY <1>1, <1>2, <1>3, <3>1, <3>2, NewPageIs
    <3>4. Steady(t, y) /\ IsRecord(y) /\ y.error \in BOOLEAN /\ (y.error = TRUE => SameView(x, y))
      BY <1>2, <3>3 DEF Makes, Moves, Steady, FindOldest
    <3>5. ASSUME y.error = FALSE
          PROVE  /\ Moves(t, y, Parent, {}, {}) /\ TreeBut(y, id) /\ NoneLoosened(t, y)
                 /\ SameMain(t, y) /\ r.ov \in DOMAIN y.pages /\ y.pages[r.ov].main = FALSE
                 /\ r.ov # y.root
                 /\ \A k \in DOMAIN y.recs \ {id} : y.recs[k].ov # r.ov
                 /\ r.ov \in Nat
      <4>1. PICK p : Adds(x, y, p) /\ y.pages[p].n = num /\ y.pages[p].main = FALSE
        BY <3>3, <3>5 DEF Makes
      <4>2. Moves(x, y, Parent, {}, {}) /\ y.root = x.root /\ y.recs = x.recs
        BY <3>3, <3>5 DEF Makes, Moves
      <4>3. r.ov = CHOOSE h \in DOMAIN y.pages \ DOMAIN x.pages : TRUE
        BY <2>1, <3>5 DEF Puts
      <4>4. DOMAIN y.pages \ DOMAIN x.pages = {p}
        BY <4>1 DEF Adds
      <4>5. r.ov = p
        BY <4>3, <4>4
      <4>6. TreeBut(y, id) /\ p # y.root /\ \A k \in DOMAIN x.recs \ {id} : x.recs[k].ov # p
        BY <1>2, <4>1, <4>2, TreeButAdded
      <4>7. Moves(t, y, Parent, {}, {})
        BY <1>1, <1>2, <4>2, MovesOn
      <4>8. p \in DOMAIN y.pages /\ DOMAIN y.pages \subseteq Nat
        BY <4>2, <4>4 DEF Moves, Books, IsTxn, IsPages
      <4>9. NoneLoosened(t, y)
        BY <1>2, <3>3, <3>5 DEF Makes, NoneLoosened
      <4>10. SameMain(t, y)
        BY <1>2, <4>1, SameMainOn, OthersSameMain
      <4> QED
        BY <4>1, <4>2, <4>5, <4>6, <4>7, <4>8, <4>9, <4>10
    <3> QED
      BY <3>4, <3>5
  <2>2. CASE ~ (len > NodeRoom)
    <3>1. y = x /\ r.ov = 0
      BY <2>2 DEF Puts
    <3>2. Steady(t, x) /\ IsRecord(x)
      BY <1>2, <1>3 DEF Moves, Books, IsTxn
    <3>3. Steady(t, y) /\ IsRecord(y) /\ y.error \in BOOLEAN
      BY <1>2, <3>1, <3>2
    <3>4. Moves(t, y, Parent, {}, {}) /\ TreeBut(y, id) /\ NoneLoosened(t, y) /\ SameMain(t, y) /\ y.error = FALSE
      BY <1>2, <3>1 DEF NoneLoosened
    <3>5. r.ov = 0 /\ r.ov \in Nat
      BY <3>1
    <3> QED
      BY <3>3, <3>4, <3>5
  <2> QED
    BY <2>1, <2>2
<1> DEFINE recs == With(y.recs, id, r)
<1>5. z = [y EXCEPT !.recs = recs]
  BY DEF Puts
<1>6. /\ DOMAIN recs = DOMAIN y.recs \cup {id} /\ recs[id] = r
      /\ \A k \in DOMAIN y.recs : k # id => recs[k] = y.recs[k]
  BY DEF With, Over
<1>7. r.ids = {} /\ r.room = len /\ r = [ids |-> r.ids, room |-> r.room, ov |-> r.ov]
  BY DEF Puts
<1>8. y.error = FALSE => FreeTree(y.pages, y.root, recs)
  BY <1>4, TreeWith
<1>9. y.error = FALSE => IsRecs(recs)
  <2> SUFFICES ASSUME y.error = FALSE PROVE IsRecs(recs)
    OBVIOUS
  <2>1. IsRecs(y.recs)
    BY <1>4 DEF Moves, Books, IsTxn
  <2>2. IsRec(r)
    BY <1>4, <1>7 DEF IsRec
  <2> QED
    BY <2>1, <2>2, RecsWith
<1> HIDE DEF recs
<1>10. ASSUME y.error = FALSE PROVE Advances(t, z) /\ Recorded(t, z, id, len)
  <2>1. Moves(t, y, Parent, {}, {}) /\ IsRecs(recs) /\ FreeTree(y.pages, y.root, recs) /\ y.recs = t.recs
    BY <1>4, <1>8, <1>9, <1>10 DEF Moves
  <2>2. NoneGained(y, recs)
    <3>1. /\ Books(y, Parent, {}) /\ y.txnid = t.txnid
          /\ y.pglast = t.pglast \/ y.pglast > t.pglast
      BY <2>1 DEF Moves, Steady
    <3>2. \A k \in DOMAIN recs : k # id => recs[k] = y.recs[k]
      BY <1>6
    <3>3. DOMAIN recs \in {DOMAIN y.recs, DOMAIN y.recs \cup {id}, DOMAIN y.recs \ {id}}
      BY <1>6
    <3> QED
      BY <1>1, <3>1, <3>2, <3>3, OwnChanges
  <2>3. Leads(t, z) /\ Steady(t, z) /\ IsRecord(z) /\ NowRecorded(y, z, recs)
    BY <1>4, <1>5, <1>10, <2>1, <2>2, RecordedLeads
  <2>4. Recorded(t, z, id, len)
    BY <1>6, <1>7, <2>1, <2>3 DEF Recorded, NowRecorded
  <2> QED
    BY <1>10, <2>3, <2>4 DEF Advances, NowRecorded
<1>11. ASSUME y.error = TRUE PROVE Advances(t, z) /\ z.error = TRUE
  <2>1. /\ IsRecord(z) /\ z.txnid = y.txnid /\ z.oldest = y.oldest /\ z.error = y.error
        /\ z.pages = y.pages /\ z.dirty = y.dirty /\ z.spills = y.spills /\ z.room = y.room
        /\ z.frees = y.frees /\ z.listed = y.listed /\ z.pghead = y.pghead
    BY <1>4, <1>5 DEF IsRecord
  <2>2. SameView(x, z)
    BY <1>4, <1>11, <2>1 DEF SameView
  <2>3. Fails(t, z, Parent)
    BY <1>2, <2>2 DEF Fails
  <2> QED
    BY <1>4, <1>11, <2>1, <2>3 DEF Advances, Steady
<1> QED
  BY <1>4, <1>10, <1>11

\* A record that fits where it was is emptied there.
LEMMA RecordEmptied ==
    ASSUME NEW t, NEW id \in DOMAIN t.recs, NEW len \in Nat, Ready(t), Own(t, id), NEW r, NEW z,
           r = [ids |-> {}, room |-> len, ov |-> t.recs[id].ov],
           z = [t EXCEPT !.recs[id] = r]
    PROVE  Advances(t, z) /\ (z.error = FALSE => Recorded(t, z, id, len))
<1> DEFINE recs == [t.recs EXCEPT ![id] = r]
<1>1. Books(t, Parent, {}) /\ IsRecord(t) /\ IsRecs(t.recs) /\ TreeOf(t) /\ t.error = FALSE
  BY DEF Ready, Books, IsTxn
<1>2. r.ids = {} /\ r.room = len /\ r.ov = t.recs[id].ov /\ r = [ids |-> r.ids, room |-> r.room, ov |-> r.ov]
  OBVIOUS
<1>3. /\ DOMAIN recs = DOMAIN t.recs /\ recs[id] = r
      /\ \A k \in DOMAIN t.recs : k # id => recs[k] = t.recs[k]
  OBVIOUS
<1>4. z = [t EXCEPT !.recs = recs]
  BY <1>1 DEF IsRecord
<1> HIDE DEF recs
<1>5. IsRecs(recs)
  BY <1>1, <1>2, <1>3 DEF IsRecs
<1>6. \A k \in DOMAIN recs : recs[k].ov = t.recs[k].ov
  BY <1>2, <1>3
<1>7. FreeTree(t.pages, t.root, recs)
  BY <1>1, <1>3, <1>6 DEF TreeOf, FreeTree
<1>8. NoneGained(t, recs)
  <2>1. t.pglast \in Nat /\ id \in Nat
    BY <1>1 DEF Books, IsTxn, IsRecs
  <2>2. DOMAIN recs \in {DOMAIN t.recs, DOMAIN t.recs \cup {id}, DOMAIN t.recs \ {id}}
    BY <1>3
  <2> QED
    BY <1>1, <1>3, <2>1, <2>2, OwnChanges
<1>9. Moves(t, t, Parent, {}, {})
  BY <1>1, Stays
<1>10. Leads(t, z) /\ Steady(t, z) /\ IsRecord(z) /\ NowRecorded(t, z, recs)
  BY <1>4, <1>5, <1>7, <1>8, <1>9, RecordedLeads, OthersSameMain DEF NoneLoosened
<1>11. id \in DOMAIN t.recs
  OBVIOUS
<1>12. Recorded(t, z, id, len)
  BY <1>2, <1>3, <1>10, <1>11 DEF Recorded, NowRecorded
<1>13. z.error = FALSE
  BY <1>1, <1>10 DEF NowRecorded
<1> QED
  BY <1>10, <1>12, <1>13 DEF Advances

\* The leaf of a free-list tree that had none.
Roots(t, new, t2) ==
    /\ new = NewPage(t, 1, FALSE)
    /\ t2 = IF new.error THEN new
            ELSE [new EXCEPT !.root = CHOOSE h \in DOMAIN new.pages \ DOMAIN t.pages : TRUE]

\* The first leaf of the free-list tree.
LEMMA RootIsMade ==
    ASSUME NEW t, NEW new, NEW t2, Ready(t), t.root = 0, Roots(t, new, t2)
    PROVE  /\ Advances(t, t2)
           /\ t2.error = FALSE => Moves(t, t2, Parent, {}, {}) /\ TreeOf(t2) /\ HasRoot(t, t2)
<1> DEFINE p == CHOOSE h \in DOMAIN new.pages \ DOMAIN t.pages : TRUE
<1>1. Makes(t, new, Parent, 1, FALSE)
  <2>1. 1 \in Positive
    BY DEF Positive
  <2>2. Makes(t, NewPage(t, 1, FALSE), Parent, 1, FALSE)
    BY <2>1, NewPageIs DEF Ready
  <2> QED
    BY <2>2 DEF Roots
<1>2. new.error = TRUE \/ new.error = FALSE
  BY <1>1 DEF Makes
<1>3. CASE new.error = TRUE
  BY <1>1, <1>3, FailsAtOnce DEF Makes, Advances, Roots, Ready
<1>4. CASE new.error = FALSE
  <2>1. t2 = [new EXCEPT !.root = p]
    BY <1>4 DEF Roots
  <2>2. PICK q : Adds(t, new, q) /\ new.pages[q].n = 1 /\ new.pages[q].main = FALSE
    BY <1>1, <1>4 DEF Makes
  <2>3. p = q
    BY <2>2 DEF Adds
  <2> HIDE DEF p
  <2>4. Moves(t, new, Parent, {}, {})
    BY <1>1, <1>4 DEF Makes
  <2>5. Books(new, Parent, {}) /\ IsTxn(new) /\ new.oldest < new.txnid /\ new.recs = t.recs
    BY <2>4 DEF Moves, Books, Numbered
  <2>6. q \in Nat /\ q # 0 /\ q \in DOMAIN new.pages /\ q \in DOMAIN new.dirty
    BY <2>2, <2>5 DEF Adds, IsTxn, IsPages
  <2>7. /\ IsTxn(t2) /\ t2.root = q /\ t2.error = FALSE
        /\ t2.pages = new.pages /\ t2.recs = new.recs /\ t2.frees = new.frees /\ t2.loose = new.loose
        /\ t2.spills = new.spills /\ t2.txnid = new.txnid /\ t2.pglast = new.pglast /\ t2.next = new.next
        /\ t2.pghead = new.pghead /\ t2.dirty = new.dirty /\ t2.oldest = new.oldest
        /\ t2.room = new.room /\ t2.listed = new.listed
    BY <1>4, <2>1, <2>3, <2>5, <2>6 DEF IsTxn, IsRecord
  <2>8. Moves(new, t2, Parent, {}, {})
    BY <2>5, <2>7, Unmoved
  <2>9. Moves(t, t2, Parent, {}, {})
    <3>1. t.pglast \in Nat /\ t.frees \in Seq(Nat)
      BY DEF Ready, Books, IsTxn
    <3> QED
      BY <2>4, <2>8, <3>1, MovesOn
  <2>10. DOMAIN t.recs = {}
    BY DEF Ready, TreeOf, FreeTree
  <2>11. TreeOf(t2)
    BY <2>2, <2>5, <2>6, <2>7, <2>10 DEF TreeOf, FreeTree
  <2>13. NoneLoosened(t, t2)
    BY <1>1, <1>4, <2>7 DEF Makes, NoneLoosened
  <2>14. SameMain(t, t2)
    BY <2>2, <2>7, SameMainOn, OthersSameMain
  <2>12. HasRoot(t, t2)
    BY <2>6, <2>7, <2>10 DEF HasRoot
  <2> QED
    BY <2>7, <2>9, <2>11, <2>12, <2>13, <2>14, MovedLeads
<1> QED
  BY <1>2, <1>3, <1>4

\* mdb_cursor_put of a record of the free list.
LEMMA PutRecordIs ==
    ASSUME NEW t, NEW id, id \in Nat, NEW len \in Nat, Ready(t), Own(t, id),
           t = txn \/ t.root = 0 \/ t.root \in DOMAIN t.dirty
    PROVE  LET z == PutRecord(t, id, len) IN
           Advances(t, z) /\ (z.error = FALSE => Recorded(t, z, id, len))
<1> DEFINE new == NewPage(t, 1, FALSE)
           t1 == IF t.root # 0 THEN Touched(t, t.root)
                 ELSE IF new.error THEN new
                 ELSE [new EXCEPT !.root = CHOOSE h \in DOMAIN new.pages \ DOMAIN t.pages : TRUE]
           had == Had(t, id)
           inPlace == /\ had /\ OvPages(len) <= t.pages[t.recs[id].ov].n
                      /\ t.recs[id].ov \in DOMAIN t.dirty
           x == IF had THEN OverflowFreed(t1, t.recs[id].ov) ELSE t1
           y == IF len > NodeRoom THEN NewPage(x, OvPages(len), FALSE) ELSE x
           r == [ids |-> {}, room |-> len,
                 ov |-> IF len > NodeRoom /\ ~y.error
                        THEN CHOOSE h \in DOMAIN y.pages \ DOMAIN x.pages : TRUE ELSE 0]
           s == [ids |-> {}, room |-> len, ov |-> t1.recs[id].ov]
           z == PutRecord(t, id, len)
<1>1. z = IF t1.error THEN t1
          ELSE IF inPlace THEN [t1 EXCEPT !.recs[id] = s]
          ELSE [y EXCEPT !.recs = With(@, id, r)]
  BY DEF PutRecord, Had
<1>2. /\ Advances(t, t1)
      /\ t1.error = FALSE => Moves(t, t1, Parent, {}, {}) /\ TreeOf(t1) /\ HasRoot(t, t1)
  <2>1. CASE t.root # 0
    BY <2>1, RootIsTouched
  <2>2. CASE t.root = 0
    <3>1. t1 = IF new.error THEN new
               ELSE [new EXCEPT !.root = CHOOSE h \in DOMAIN new.pages \ DOMAIN t.pages : TRUE]
      BY <2>2
    <3>2. Roots(t, new, t1)
      BY <3>1 DEF Roots
    <3> HIDE DEF t1, new
    <3> QED
      BY <2>2, <3>2, RootIsMade
  <2> QED
    BY <2>1, <2>2
<1>3. /\ x = IF had THEN OverflowFreed(t1, t.recs[id].ov) ELSE t1
      /\ y = IF len > NodeRoom THEN NewPage(x, OvPages(len), FALSE) ELSE x
      /\ r = [ids |-> {}, room |-> len,
              ov |-> IF len > NodeRoom /\ ~y.error
                     THEN CHOOSE h \in DOMAIN y.pages \ DOMAIN x.pages : TRUE ELSE 0]
      /\ s = [ids |-> {}, room |-> len, ov |-> t1.recs[id].ov]
      /\ inPlace => had
      /\ had <=> Had(t, id)
  OBVIOUS
<1> HIDE DEF t1, x, y, r, s, z, inPlace, had, new
<1>4. t1.error = TRUE \/ t1.error = FALSE
  BY <1>2 DEF Advances
<1>5. CASE t1.error = TRUE
  BY <1>1, <1>2, <1>5 DEF z
<1>6. CASE t1.error = FALSE
  <2>1. Moves(t, t1, Parent, {}, {}) /\ TreeOf(t1) /\ t1.root # 0
    BY <1>2, <1>6 DEF HasRoot
  <2>2. Ready(t1)
    BY <1>6, <2>1, StillReady
  <2>3. t1.recs = t.recs /\ Own(t1, id) /\ NoneLoosened(t, t1) /\ SameMain(t, t1)
    <3>1. t.pglast \in Nat /\ t1.pglast \in Nat /\ t1.txnid = t.txnid /\ t1.recs = t.recs
          /\ (t1.pglast = t.pglast \/ t1.pglast > t.pglast)
      BY <2>1 DEF Moves, Steady, Ready, Books, IsTxn
    <3> QED
      BY <1>2, <1>6, <3>1 DEF Own, Advances, Leads
  <2>4. had <=> Had(t1, id)
    BY <1>3, <2>3 DEF Had
  <2>5. ASSUME Advances(t1, z), z.error = FALSE => Recorded(t1, z, id, len)
        PROVE  Advances(t, z) /\ (z.error = FALSE => Recorded(t, z, id, len))
    <3>1. Advances(t, z)
      BY <2>1, <2>3, <2>5, AdvancesOn
    <3> QED
      BY <2>3, <2>5, <3>1 DEF Recorded
  <2>6. CASE inPlace
    <3>1. z = [t1 EXCEPT !.recs[id] = s]
      BY <1>1, <1>6, <2>6
    <3>2. id \in DOMAIN t1.recs
      BY <1>3, <2>4, <2>6 DEF Had
    <3>3. Advances(t1, z) /\ (z.error = FALSE => Recorded(t1, z, id, len))
      BY <1>3, <2>2, <2>3, <3>1, <3>2, RecordEmptied
    <3> QED
      BY <2>5, <3>3 DEF z
  <2>7. CASE ~ inPlace
    <3>1. z = [y EXCEPT !.recs = With(@, id, r)]
      BY <1>1, <1>6, <2>7
    <3>2. Puts(t1, id, len, x, y, r, z)
      BY <1>3, <2>3, <2>4, <3>1 DEF Puts
    <3>3. Advances(t1, z) /\ (z.error = FALSE => Recorded(t1, z, id, len))
      BY <2>1, <2>2, <2>3, <3>2, RecordPut
    <3> QED
      BY <2>5, <3>3 DEF z
  <2> QED
    BY <2>6, <2>7
<1> QED
  BY <1>4, <1>5, <1>6

\* A step of saving the list, and a move after it.
LEMMA LeadsOn ==
    ASSUME NEW t, NEW t2, NEW t3, Leads(t, t2), Steady(t, t2), Moves(t2, t3, Parent, {}, {}),
           TreeOf(t3), t3.pglast = t2.pglast, NoneLoosened(t2, t3), SameMain(t2, t3), t.frees \in Seq(Nat)
    PROVE  Leads(t, t3) /\ Steady(t, t3)
<1>1. Steady(t, t3)
  BY DEF Moves, Steady, FindOldest
<1>2. ASSUME NEW P, NEW s, Spares(t, Parent, P, s), Watched(t, s) PROVE Spares(t3, Parent, P, s)
  <2>1. Spares(t2, Parent, P, s)
    BY <1>2 DEF Leads
  <2>2. Watched(t2, s)
    BY <1>2 DEF Steady, Watched, FindOldest
  <2> QED
    BY <2>1, <2>2 DEF Moves
<1>4. FreesMore(t, t3) /\ NoneLoosened(t, t3)
  <2>1. t2.frees \in Seq(Nat) /\ t3.frees \in Seq(Nat)
    BY DEF Moves, Leads, Books, IsTxn
  <2> QED
    BY <2>1, FreesMoreOn DEF Moves, Leads, NoneLoosened
<1>5. SameMain(t, t3)
  BY SameMainOn DEF Leads
<1>3. Leads(t, t3)
  BY <1>2, <1>4, <1>5 DEF Leads, Moves
<1> QED
  BY <1>1, <1>3

\* A record, with its overflow pages, is taken out of the free-list tree.
RecordGone(t, t2, id) ==
    DOMAIN t2.recs = DOMAIN t.recs \ {id} /\ \A k \in DOMAIN t2.recs : t2.recs[k] = t.recs[k]

\* Without records the tree has no leaf.
LeafGone(y, z) ==
    z = IF y.recs # <<>> THEN y
        ELSE Freed([y EXCEPT !.pages = Without(y.pages, {y.root}), !.root = 0], y.root)

\* The last leaf of the free-list tree is freed.
LEMMA LeafIsGone ==
    ASSUME NEW y, NEW z, Books(y, Parent, {}), TreeOf(y), y.root # 0, LeafGone(y, z)
    PROVE  Moves(y, z, Parent, {}, {}) /\ TreeOf(z) /\ z.pglast = y.pglast /\ z.error = y.error
           /\ NoneLoosened(y, z) /\ SameMain(y, z)
<1>1. IsTxn(y) /\ IsRecord(y) /\ y.frees \in Seq(Nat)
  BY DEF Books, IsTxn
<1>2. CASE y.recs # <<>>
  <2>1. z = y
    BY <1>2 DEF LeafGone
  <2> QED
    BY <2>1, Stays, OthersSameMain DEF NoneLoosened
<1>3. CASE y.recs = <<>>
  <2> DEFINE h == y.root
             w == Freed([y EXCEPT !.pages = Without(y.pages, {h})], h)
  <2>1. h \in DOMAIN y.pages /\ y.pages[h].n = 1 /\ y.pages[h].main = FALSE
    BY DEF TreeOf, FreeTree
  <2>2. w = Freed([y EXCEPT !.pages = Without(y.pages, {h})], h)
    OBVIOUS
  <2>3. z = [y EXCEPT !.pages = Without(y.pages, {h}), !.root = 0, !.frees = Append(y.frees, h)]
    BY <1>1, <1>3 DEF LeafGone, Freed, IsRecord
  <2>4. w = [y EXCEPT !.pages = Without(y.pages, {h}), !.frees = Append(y.frees, h)]
    BY <1>1 DEF Freed, IsRecord
  <2> HIDE DEF w, h
  <2>5. Moves(y, w, Parent, {}, {}) /\ Drops(y, w, {h}) /\ IsRecord(w) /\ w.loose = y.loose
    BY <2>1, <2>2, FreedIs
  <2>6. z = [w EXCEPT !.root = 0]
    BY <1>1, <2>3, <2>4 DEF IsRecord
  <2>7. Books(w, Parent, {}) /\ IsTxn(w) /\ w.oldest < w.txnid
    BY <2>5 DEF Moves, Books, Numbered
  <2>8. /\ IsTxn(z) /\ z.root = 0 /\ z.error = w.error
        /\ z.pages = w.pages /\ z.recs = w.recs /\ z.frees = w.frees /\ z.loose = w.loose
        /\ z.spills = w.spills /\ z.txnid = w.txnid /\ z.pglast = w.pglast /\ z.next = w.next
        /\ z.pghead = w.pghead /\ z.dirty = w.dirty /\ z.oldest = w.oldest
        /\ z.room = w.room /\ z.listed = w.listed
    BY <2>6, <2>7 DEF IsTxn, IsRecord
  <2>9. Moves(w, z, Parent, {}, {})
    BY <2>7, <2>8, Unmoved
  <2>10. Moves(y, z, Parent, {}, {})
    <3>1. y.pglast \in Nat
      BY <1>1 DEF IsTxn
    <3> QED
      BY <1>1, <2>5, <2>9, <3>1, MovesOn
  <2>11. DOMAIN z.recs = {}
    BY <1>3, <2>10 DEF Moves
  <2>12. TreeOf(z)
    BY <2>8, <2>11 DEF TreeOf, FreeTree
  <2>13. z.pglast = y.pglast /\ z.error = y.error
    BY <1>1, <2>3 DEF IsRecord
  <2>14. SameMain(y, z)
    BY <2>1, <2>5, <2>8, SameMainOn, OthersSameMain
  <2> QED
    BY <2>5, <2>8, <2>10, <2>12, <2>13, <2>14 DEF NoneLoosened
<1> QED
  BY <1>2, <1>3

Deletes(t, id, x, y, z) ==
    /\ x = IF t.recs[id].ov = 0 THEN t ELSE OverflowFreed(t, t.recs[id].ov)
    /\ y = [x EXCEPT !.recs = Without(x.recs, {id})]
    /\ LeafGone(y, z)

\* A record is deleted, and the last with its leaf.
LEMMA DeletedIs ==
    ASSUME NEW t, NEW id \in DOMAIN t.recs, Ready(t), t.root # 0, id <= t.pglast,
           NEW x, NEW y, NEW z, Deletes(t, id, x, y, z)
    PROVE  Advances(t, z) /\ RecordGone(t, z, id)
<1> DEFINE ov == t.recs[id].ov
           recs == Without(x.recs, {id})
<1>1. Books(t, Parent, {}) /\ TreeOf(t) /\ t.error = FALSE
  BY DEF Ready
<1>2. Moves(t, x, Parent, {}, {}) /\ x.error = FALSE /\ TreeBut(x, id) /\ NoneLoosened(t, x) /\ SameMain(t, x)
  <2>1. CASE ov # 0
    <3>1. ov \in DOMAIN t.pages /\ t.pages[ov].main = FALSE
      BY <1>1, <2>1 DEF TreeOf, FreeTree
    <3>2. x = OverflowFreed(t, ov)
      BY <2>1 DEF Deletes
    <3> HIDE DEF ov
    <3>3. Moves(t, x, Parent, {}, {}) /\ Drops(t, x, {ov}) /\ x.loose = t.loose
      BY <1>1, <3>1, <3>2, OverflowFreedIs
    <3>4. TreeBut(x, id)
      BY <1>1, <2>1, <3>3, TreeButDropped DEF ov
    <3>5. SameMain(t, x)
      <4> DEFINE S == {ov}
      <4>1. \A h \in S : t.pages[h].main = FALSE
        BY <3>1
      <4>2. Drops(t, x, S)
        BY <3>3
      <4> HIDE DEF S
      <4> QED
        BY <4>1, <4>2, OthersSameMain
    <3> QED
      BY <1>1, <3>3, <3>4, <3>5 DEF Drops, NoneLoosened
  <2>2. CASE ov = 0
    <3>1. x = t
      BY <2>2 DEF Deletes
    <3> QED
      BY <1>1, <3>1, Stays, TreeButOne, OthersSameMain DEF NoneLoosened
  <2> QED
    BY <2>1, <2>2
<1>3. DOMAIN recs = DOMAIN x.recs \ {id} /\ \A k \in DOMAIN recs : recs[k] = x.recs[k]
  BY DEF Without, Restrict
<1>4. y = [x EXCEPT !.recs = recs]
  BY DEF Deletes
<1> HIDE DEF recs, ov
<1>5. x.recs = t.recs /\ Books(x, Parent, {}) /\ IsRecs(x.recs) /\ IsRecord(x)
  BY <1>2 DEF Moves, Books, IsTxn
<1>6. IsRecs(recs)
  <2>1. IsFiniteSet(DOMAIN recs)
    BY <1>3, <1>5, FS_Subset DEF IsRecs
  <2> QED
    BY <1>3, <1>5, <2>1 DEF IsRecs
<1>7. NoneGained(x, recs)
  <2>1. t.pglast \in Nat /\ id \in Nat /\ 0 < id
    BY <1>1 DEF Books, IsTxn, IsRecs, Numbered
  <2>2. Own(t, id) /\ x.txnid = t.txnid /\ (x.pglast = t.pglast \/ x.pglast > t.pglast)
    BY <1>2, <2>1 DEF Own, Moves, Steady
  <2>3. DOMAIN recs \in {DOMAIN x.recs, DOMAIN x.recs \cup {id}, DOMAIN x.recs \ {id}}
    BY <1>3
  <2> QED
    BY <1>3, <1>5, <2>1, <2>2, <2>3, OwnChanges
<1>8. FreeTree(x.pages, x.root, recs)
  BY <1>2, <1>3 DEF FreeTree, TreeBut
<1>9. Leads(t, y) /\ Steady(t, y) /\ IsRecord(y) /\ NowRecorded(x, y, recs)
  BY <1>2, <1>4, <1>6, <1>7, <1>8, RecordedLeads
<1>10. Books(y, Parent, {}) /\ TreeOf(y) /\ y.root # 0 /\ y.error = FALSE
  BY <1>2, <1>9 DEF Leads, NowRecorded, TreeBut
<1>11. /\ Moves(y, z, Parent, {}, {}) /\ TreeOf(z) /\ z.pglast = y.pglast /\ z.error = y.error
       /\ NoneLoosened(y, z) /\ SameMain(y, z)
  BY <1>10, LeafIsGone DEF Deletes
<1>12. Leads(t, z) /\ Steady(t, z)
  BY <1>1, <1>9, <1>11, LeadsOn, TxnidPositive
<1>13. Advances(t, z)
  BY <1>10, <1>11, <1>12 DEF Advances, Moves, Books, IsTxn
<1>14. RecordGone(t, z, id)
  BY <1>3, <1>5, <1>9, <1>11 DEF RecordGone, NowRecorded, Moves
<1> QED
  BY <1>13, <1>14

\* mdb_freelist_save deletes the first record.
LEMMA FirstDeleted ==
    ASSUME Ready(txn), DOMAIN txn.recs # {}, Least(DOMAIN txn.recs) <= txn.pglast
    PROVE  LET id == Least(DOMAIN txn.recs)
               Emptied(t) == IF t.recs # <<>> THEN t
                             ELSE Freed([t EXCEPT !.pages = Without(@, {t.root}), !.root = 0], t.root)
               Gone(t)    == Emptied([t EXCEPT !.recs = Without(@, {id})])
               Deleted(t) == IF t.error THEN t
                             ELSE Gone(IF txn.recs[id].ov = 0 THEN t
                                       ELSE OverflowFreed(t, txn.recs[id].ov))
               z == Deleted(Touched(txn, txn.root))
           IN /\ id \in DOMAIN txn.recs /\ \A k \in DOMAIN txn.recs : id <= k
              /\ Advances(txn, z) /\ (z.error = FALSE => RecordGone(txn, z, id))
<1> DEFINE id == Least(DOMAIN txn.recs)
           t == Touched(txn, txn.root)
           x == IF txn.recs[id].ov = 0 THEN t ELSE OverflowFreed(t, txn.recs[id].ov)
           y == [x EXCEPT !.recs = Without(x.recs, {id})]
           w == IF y.recs # <<>> THEN y
                ELSE Freed([y EXCEPT !.pages = Without(y.pages, {y.root}), !.root = 0], y.root)
           z == IF t.error THEN t ELSE w
<1>1. id \in DOMAIN txn.recs /\ \A k \in DOMAIN txn.recs : id <= k
  <2>1. DOMAIN txn.recs \in SUBSET Nat
    BY DEF Ready, Books, IsTxn, IsRecs
  <2> QED
    BY <2>1, LeastIs
<1>2. txn.root # 0
  BY DEF Ready, TreeOf, FreeTree
<1>3. t = Touched(txn, txn.root)
  OBVIOUS
<1>4. /\ x = IF txn.recs[id].ov = 0 THEN t ELSE OverflowFreed(t, txn.recs[id].ov)
      /\ y = [x EXCEPT !.recs = Without(x.recs, {id})]
      /\ LeafGone(y, w)
      /\ z = IF t.error THEN t ELSE w
  BY DEF LeafGone
<1> SUFFICES Advances(txn, z) /\ (z.error = FALSE => RecordGone(txn, z, id))
  BY <1>1, Zenon
<1>9. id <= txn.pglast
  OBVIOUS
<1> HIDE DEF id, t, x, y, z, w
<1>5. /\ Advances(txn, t)
      /\ t.error = FALSE => Moves(txn, t, Parent, {}, {}) /\ TreeOf(t) /\ HasRoot(txn, t)
  BY <1>2, <1>3, RootIsTouched
<1>6. t.error = TRUE \/ t.error = FALSE
  BY <1>5 DEF Advances
<1>7. CASE t.error = TRUE
  BY <1>4, <1>5, <1>7
<1>8. CASE t.error = FALSE
  <2>1. Moves(txn, t, Parent, {}, {}) /\ TreeOf(t) /\ t.root # 0
    BY <1>5, <1>8 DEF HasRoot
  <2>2. Ready(t)
    BY <1>8, <2>1, StillReady
  <2>3. t.recs = txn.recs /\ id \in DOMAIN t.recs /\ id <= t.pglast /\ NoneLoosened(txn, t) /\ SameMain(txn, t)
    <3>1. txn.pglast \in Nat /\ t.pglast \in Nat /\ DOMAIN txn.recs \subseteq Nat
          /\ t.recs = txn.recs /\ (t.pglast = txn.pglast \/ t.pglast > txn.pglast)
      BY <2>1 DEF Moves, Ready, Books, IsTxn, IsRecs
    <3> QED
      BY <1>1, <1>5, <1>8, <1>9, <3>1 DEF Advances, Leads
  <2>4. z = w /\ Deletes(t, id, x, y, w)
    BY <1>4, <1>8, <2>3 DEF Deletes
  <2>5. Advances(t, w) /\ RecordGone(t, w, id)
    BY <2>1, <2>2, <2>3, <2>4, DeletedIs
  <2>6. Advances(txn, w)
    BY <2>1, <2>3, <2>5, AdvancesOn
  <2> QED
    BY <2>3, <2>4, <2>5, <2>6 DEF RecordGone
<1> QED
  BY <1>6, <1>7, <1>8

-----------------------------------------------------------------------------
(* Where the parts of the list begin *)

RoomIn(recs, n) == IF n \in DOMAIN recs THEN recs[n].room ELSE 0

\* The room in the records before this one.
RoomUpTo(recs, id) ==
    LET room[n \in 0 .. id] == IF n = 0 THEN 0 ELSE room[n - 1] + RoomIn(recs, n - 1)
    IN room[id]

\* f is what RoomUpTo computes up to id.
Rooms(recs, f, id) ==
    f = [n \in 0 .. id |-> IF n = 0 THEN 0 ELSE f[n - 1] + RoomIn(recs, n - 1)]

\* The room before a record, from that before the last.
LEMMA RoomsAre ==
    ASSUME NEW recs, NEW id \in Nat, NEW f, Rooms(recs, f, id)
    PROVE  f[0] = 0 /\ \A n \in 0 .. id : n # 0 => f[n] = f[n - 1] + RoomIn(recs, n - 1)
<1> DEFINE g == [n \in 0 .. id |-> IF n = 0 THEN 0 ELSE f[n - 1] + RoomIn(recs, n - 1)]
<1>1. f = g
  BY DEF Rooms
<1>2. g[0] = 0 /\ \A n \in 0 .. id : n # 0 => g[n] = f[n - 1] + RoomIn(recs, n - 1)
  OBVIOUS
<1> HIDE DEF g
<1> QED
  BY <1>1, <1>2

\* There is a function that computes it, for every number of records.
LEMMA RoomsExist ==
    ASSUME NEW recs, NEW id \in Nat
    PROVE  \E f : Rooms(recs, f, id)
<1> DEFINE Bad == {k \in Nat : ~ \E f : Rooms(recs, f, k)}
<1> SUFFICES ASSUME Bad # {} PROVE FALSE
  OBVIOUS
<1>1. Bad \in SUBSET Nat
  OBVIOUS
<1> HIDE DEF Bad
<1>2. PICK k \in Bad : \A j \in Bad : k <= j
  BY <1>1, LeastNumber
<1>3. k \in Nat /\ ~ (\E f : Rooms(recs, f, k))
  BY <1>2 DEF Bad
<1>4. CASE k = 0
  <2> DEFINE f == [n \in 0 .. 0 |-> 0]
  <2>1. Rooms(recs, f, 0)
    BY DEF Rooms
  <2> QED
    BY <1>3, <1>4, <2>1
<1>5. CASE k # 0
  <2>1. k - 1 \in Nat /\ k - 1 < k
    BY <1>3, <1>5
  <2>2. k - 1 \notin Bad
    BY <1>2, <1>3, <2>1
  <2>3. PICK g : Rooms(recs, g, k - 1)
    BY <2>1, <2>2 DEF Bad
  <2> DEFINE f == [n \in 0 .. k |-> IF n = 0 THEN 0 ELSE g[n - 1] + RoomIn(recs, n - 1)]
  <2>4. g[0] = 0 /\ \A n \in 0 .. k - 1 : n # 0 => g[n] = g[n - 1] + RoomIn(recs, n - 1)
    BY <2>1, <2>3, RoomsAre
  <2>5. \A n \in 0 .. k - 1 : f[n] = g[n]
    BY <1>3, <2>4
  <2>6. \A n \in 0 .. k : f[n] = IF n = 0 THEN 0 ELSE f[n - 1] + RoomIn(recs, n - 1)
    <3> SUFFICES ASSUME NEW n \in 0 .. k
                 PROVE  f[n] = IF n = 0 THEN 0 ELSE f[n - 1] + RoomIn(recs, n - 1)
      OBVIOUS
    <3>1. CASE n = 0
      BY <1>3, <3>1
    <3>2. CASE n # 0
      <4>1. n - 1 \in 0 .. k - 1
        BY <1>3, <3>2
      <4>2. f[n] = g[n - 1] + RoomIn(recs, n - 1)
        BY <1>3, <3>2
      <4>3. f[n - 1] = g[n - 1]
        BY <2>5, <4>1
      <4> HIDE DEF f
      <4> QED
        BY <3>2, <4>2, <4>3
    <3> QED
      BY <3>1, <3>2
  <2>7. f = [n \in 0 .. k |-> f[n]]
    OBVIOUS
  <2> HIDE DEF f
  <2>8. f = [n \in 0 .. k |-> IF n = 0 THEN 0 ELSE f[n - 1] + RoomIn(recs, n - 1)]
    BY <2>6, <2>7
  <2>9. Rooms(recs, f, k)
    BY <2>8, Zenon DEF Rooms
  <2> QED
    BY <1>3, <2>9
<1> QED
  BY <1>4, <1>5

RoomsAreNumbers(recs) == \A n \in DOMAIN recs : recs[n].room \in Nat

\* What is before one record, and its room, is before the next.
LEMMA RoomsGrow ==
    ASSUME NEW recs, NEW id \in Nat, NEW f, Rooms(recs, f, id), RoomsAreNumbers(recs)
    PROVE  \A n \in 0 .. id : f[n] \in Nat /\ \A m \in 0 .. id : m < n => f[m] + RoomIn(recs, m) <= f[n]
<1> DEFINE Good(n) == f[n] \in Nat /\ \A m \in 0 .. id : m < n => f[m] + RoomIn(recs, m) <= f[n]
           Bad == {n \in 0 .. id : ~ Good(n)}
<1>1. \A n \in 0 .. id : n # 0 => f[n] = f[n - 1] + RoomIn(recs, n - 1)
  BY RoomsAre
<1>2. f[0] = 0
  BY RoomsAre
<1>3. \A m : RoomIn(recs, m) \in Nat
  BY DEF RoomIn, RoomsAreNumbers
<1> SUFFICES ASSUME Bad # {} PROVE FALSE
  OBVIOUS
<1>4. Bad \in SUBSET Nat
  OBVIOUS
<1> HIDE DEF Bad
<1>5. PICK k \in Bad : \A j \in Bad : k <= j
  BY <1>4, LeastNumber
<1>6. k \in 0 .. id /\ ~ Good(k)
  BY <1>5 DEF Bad
<1>7. CASE k = 0
  BY <1>2, <1>6, <1>7
<1>8. CASE k # 0
  <2>1. k - 1 \in 0 .. id /\ k - 1 < k /\ k - 1 \in Nat /\ k \in Nat
    BY <1>6, <1>8
  <2>2. Good(k - 1)
    <3>1. k - 1 \notin Bad
      BY <1>5, <2>1
    <3> QED
      BY <2>1, <3>1 DEF Bad
  <2>3. f[k] = f[k - 1] + RoomIn(recs, k - 1)
    BY <1>1, <1>6, <1>8
  <2>4. f[k - 1] \in Nat /\ RoomIn(recs, k - 1) \in Nat
    BY <1>3, <2>2
  <2>5. f[k] \in Nat
    BY <2>3, <2>4
  <2>6. ASSUME NEW m \in 0 .. id, m < k PROVE f[m] + RoomIn(recs, m) <= f[k]
    <3>1. CASE m = k - 1
      BY <2>3, <2>4, <3>1
    <3>2. CASE m < k - 1
      <4>1. f[m] + RoomIn(recs, m) <= f[k - 1]
        BY <2>2, <3>2
      <4>2. f[m] \in Nat
        <5>1. m \notin Bad
          BY <1>5, <2>1, <2>6
        <5> QED
          BY <5>1 DEF Bad
      <4>3. RoomIn(recs, m) \in Nat
        BY <1>3
      <4> HIDE DEF Good
      <4> QED
        BY <2>3, <2>4, <4>1, <4>2, <4>3
    <3> QED
      BY <2>1, <2>6, <3>1, <3>2
  <2> QED
    BY <1>6, <2>5, <2>6
<1> QED
  BY <1>7, <1>8

\* Two of them agree as far as both go.
LEMMA RoomsAgree ==
    ASSUME NEW recs, NEW id \in Nat, NEW other \in Nat, id <= other,
           NEW f, NEW g, Rooms(recs, f, id), Rooms(recs, g, other)
    PROVE  \A n \in 0 .. id : f[n] = g[n]
<1> DEFINE Bad == {n \in 0 .. id : f[n] # g[n]}
<1>1. f[0] = 0 /\ g[0] = 0
  BY RoomsAre
<1>2. \A n \in 0 .. id : n # 0 => f[n] = f[n - 1] + RoomIn(recs, n - 1)
  BY RoomsAre
<1>3. \A n \in 0 .. other : n # 0 => g[n] = g[n - 1] + RoomIn(recs, n - 1)
  BY RoomsAre
<1> SUFFICES ASSUME Bad # {} PROVE FALSE
  OBVIOUS
<1>4. Bad \in SUBSET Nat
  OBVIOUS
<1> HIDE DEF Bad
<1>5. PICK k \in Bad : \A j \in Bad : k <= j
  BY <1>4, LeastNumber
<1>6. k \in 0 .. id /\ f[k] # g[k] /\ k \in 0 .. other /\ k \in Nat
  BY <1>5 DEF Bad
<1>7. k # 0
  BY <1>1, <1>6
<1>8. k - 1 \in 0 .. id /\ k - 1 \notin Bad
  BY <1>5, <1>6, <1>7
<1>9. f[k - 1] = g[k - 1]
  BY <1>8 DEF Bad
<1>10. f[k] = f[k - 1] + RoomIn(recs, k - 1) /\ g[k] = g[k - 1] + RoomIn(recs, k - 1)
  BY <1>2, <1>3, <1>6, <1>7
<1> QED
  BY <1>6, <1>9, <1>10

\* RoomUpTo is computed by one.
LEMMA RoomUpToIs ==
    ASSUME NEW recs, NEW id \in Nat
    PROVE  \E f : Rooms(recs, f, id) /\ RoomUpTo(recs, id) = f[id]
<1> DEFINE f == CHOOSE g : Rooms(recs, g, id)
<1>1. Rooms(recs, f, id)
  BY RoomsExist
<1>2. RoomUpTo(recs, id) = f[id]
  BY Zenon DEF RoomUpTo, Rooms
<1> QED
  BY <1>1, <1>2

\* RoomBefore is that of the transaction's records.
LEMMA RoomBeforeIs ==
    ASSUME NEW id
    PROVE  RoomBefore(id) = RoomUpTo(txn.recs, id)
BY Zenon DEF RoomBefore, RoomUpTo, RoomIn

\* Up to the next record there is the room of this one as well.
LEMMA RoomUpToNext ==
    ASSUME NEW recs, RoomsAreNumbers(recs), NEW id \in Nat
    PROVE  /\ RoomUpTo(recs, 0) = 0
           /\ RoomUpTo(recs, id) \in Nat /\ RoomIn(recs, id) \in Nat
           /\ RoomUpTo(recs, id + 1) = RoomUpTo(recs, id) + RoomIn(recs, id)
<1> DEFINE k == id + 1
<1>0. k \in Nat /\ k = id + 1 /\ id <= k /\ k \in 0 .. k /\ k # 0 /\ k - 1 = id /\ id \in 0 .. id
  OBVIOUS
<1> HIDE DEF k
<1>1. PICK f : Rooms(recs, f, id) /\ RoomUpTo(recs, id) = f[id]
  BY RoomUpToIs
<1>2. PICK g : Rooms(recs, g, k) /\ RoomUpTo(recs, k) = g[k]
  BY <1>0, RoomUpToIs
<1>3. PICK z : Rooms(recs, z, 0) /\ RoomUpTo(recs, 0) = z[0]
  BY RoomUpToIs
<1>4. f[id] = g[id]
  <2>1. \A n \in 0 .. id : f[n] = g[n]
    BY <1>0, <1>1, <1>2, RoomsAgree
  <2> QED
    BY <1>0, <2>1
<1>5. g[k] = g[k - 1] + RoomIn(recs, k - 1)
  BY <1>0, <1>2, RoomsAre
<1>6. f[id] \in Nat
  <2>1. id \in 0 .. id
    OBVIOUS
  <2> QED
    BY <1>1, <2>1, RoomsGrow
<1>7. RoomIn(recs, id) \in Nat
  BY DEF RoomIn, RoomsAreNumbers
<1>8. z[0] = 0
  BY <1>3, RoomsAre
<1> QED
  BY <1>0, <1>1, <1>2, <1>3, <1>4, <1>5, <1>6, <1>7, <1>8

\* The rooms of two records do not meet.
LEMMA RoomsApart ==
    ASSUME NEW recs, NEW id \in Nat, NEW other \in Nat, id < other, RoomsAreNumbers(recs)
    PROVE  /\ RoomUpTo(recs, id) \in Nat /\ RoomUpTo(recs, other) \in Nat
           /\ RoomUpTo(recs, id) + RoomIn(recs, id) <= RoomUpTo(recs, other)
<1>1. PICK f : Rooms(recs, f, id) /\ RoomUpTo(recs, id) = f[id]
  BY RoomUpToIs
<1>2. PICK g : Rooms(recs, g, other) /\ RoomUpTo(recs, other) = g[other]
  BY RoomUpToIs
<1>3. f[id] = g[id]
  <2>1. id <= other /\ id \in 0 .. id
    OBVIOUS
  <2> QED
    BY <1>1, <1>2, <2>1, RoomsAgree
<1>4. \A n \in 0 .. other :
          g[n] \in Nat /\ \A m \in 0 .. other : m < n => g[m] + RoomIn(recs, m) <= g[n]
  BY <1>2, RoomsGrow
<1>5. id \in 0 .. other /\ other \in 0 .. other
  OBVIOUS
<1> QED
  BY <1>1, <1>2, <1>3, <1>4, <1>5

\* A change of the room of one record is one of the room up to any later record.
LEMMA RoomChanged ==
    ASSUME NEW recs, NEW recs2, RoomsAreNumbers(recs), RoomsAreNumbers(recs2), NEW k \in Nat,
           NEW id \in Nat, k < id,
           \A n \in Nat : n < id /\ n # k => RoomIn(recs2, n) = RoomIn(recs, n)
    PROVE  RoomUpTo(recs2, id) = RoomUpTo(recs, id) - RoomIn(recs, k) + RoomIn(recs2, k)
<1> DEFINE Change(n) == RoomUpTo(recs2, n) - RoomUpTo(recs, n)
           Due(n) == IF n <= k THEN 0 ELSE RoomIn(recs2, k) - RoomIn(recs, k)
           Bad == {n \in 0 .. id : Change(n) # Due(n)}
<1>1. \A n \in Nat : /\ RoomUpTo(recs, n) \in Nat /\ RoomUpTo(recs2, n) \in Nat
                     /\ RoomIn(recs, n) \in Nat /\ RoomIn(recs2, n) \in Nat
                     /\ RoomUpTo(recs, n + 1) = RoomUpTo(recs, n) + RoomIn(recs, n)
                     /\ RoomUpTo(recs2, n + 1) = RoomUpTo(recs2, n) + RoomIn(recs2, n)
  BY RoomUpToNext
<1>2. RoomUpTo(recs, 0) = 0 /\ RoomUpTo(recs2, 0) = 0
  BY RoomUpToNext
<1>3. ASSUME Bad # {} PROVE FALSE
  <2>1. Bad \in SUBSET Nat
    OBVIOUS
  <2> HIDE DEF Bad
  <2>2. PICK m \in Bad : \A j \in Bad : m <= j
    BY <1>3, <2>1, LeastNumber
  <2>3. m \in 0 .. id /\ Change(m) # Due(m) /\ m \in Nat
    BY <2>2 DEF Bad
  <2>4. m # 0
    BY <1>2, <2>3
  <2>5. m - 1 \in 0 .. id /\ m - 1 \in Nat /\ m - 1 < id /\ (m - 1) + 1 = m
    BY <2>3, <2>4
  <2>6. Change(m - 1) = Due(m - 1)
    <3>1. m - 1 \notin Bad
      BY <2>2, <2>3, <2>5
    <3> QED
      BY <2>5, <3>1 DEF Bad
  <2>7. /\ RoomUpTo(recs, m) = RoomUpTo(recs, m - 1) + RoomIn(recs, m - 1)
        /\ RoomUpTo(recs2, m) = RoomUpTo(recs2, m - 1) + RoomIn(recs2, m - 1)
        /\ RoomUpTo(recs, m - 1) \in Nat /\ RoomUpTo(recs2, m - 1) \in Nat
        /\ RoomIn(recs, m - 1) \in Nat /\ RoomIn(recs2, m - 1) \in Nat
    BY <1>1, <2>5
  <2>8. Change(m) = Change(m - 1) + RoomIn(recs2, m - 1) - RoomIn(recs, m - 1)
    BY <2>7
  <2>9. CASE m - 1 = k
    <3>1. Due(m - 1) = 0 /\ Due(m) = RoomIn(recs2, k) - RoomIn(recs, k)
      BY <2>3, <2>9
    <3> HIDE DEF Change, Due
    <3> QED
      BY <2>3, <2>6, <2>7, <2>8, <2>9, <3>1
  <2>10. CASE m - 1 # k
    <3>1. RoomIn(recs2, m - 1) = RoomIn(recs, m - 1)
      BY <2>5, <2>10
    <3>2. m - 1 <= k <=> m <= k
      BY <2>3, <2>10
    <3>3. Due(m) = Due(m - 1)
      BY <3>2
    <3>4. Change(m - 1) \in Int
      BY <2>7
    <3> HIDE DEF Change, Due
    <3> QED
      BY <2>3, <2>6, <2>7, <2>8, <3>1, <3>3, <3>4
  <2> QED
    BY <2>9, <2>10
<1>4. Change(id) = Due(id)
  BY <1>3
<1>5. /\ RoomUpTo(recs, id) \in Nat /\ RoomUpTo(recs2, id) \in Nat
      /\ RoomIn(recs, k) \in Nat /\ RoomIn(recs2, k) \in Nat
  BY <1>1
<1>6. Due(id) = RoomIn(recs2, k) - RoomIn(recs, k)
  OBVIOUS
<1> HIDE DEF Due
<1> QED
  BY <1>4, <1>5, <1>6

\* With the same rooms, the same room up to any record.
LEMMA RoomsSame ==
    ASSUME NEW recs, NEW recs2, RoomsAreNumbers(recs), RoomsAreNumbers(recs2), NEW id \in Nat,
           \A n \in Nat : n < id => RoomIn(recs2, n) = RoomIn(recs, n)
    PROVE  RoomUpTo(recs2, id) = RoomUpTo(recs, id)
<1>1. CASE id = 0
  BY <1>1, RoomUpToNext
<1>2. CASE id # 0
  <2>1. 0 \in Nat /\ 0 < id
    BY <1>2
  <2>2. RoomUpTo(recs2, id) = RoomUpTo(recs, id) - RoomIn(recs, 0) + RoomIn(recs2, 0)
    BY <2>1, RoomChanged
  <2>3. RoomIn(recs2, 0) = RoomIn(recs, 0) /\ RoomIn(recs, 0) \in Nat /\ RoomUpTo(recs, id) \in Nat
    BY <2>1, RoomUpToNext
  <2> QED
    BY <2>2, <2>3
<1> QED
  BY <1>1, <1>2

\* Before the first record there is no room.
LEMMA RoomsNone ==
    ASSUME NEW recs, RoomsAreNumbers(recs), NEW id \in Nat, \A n \in DOMAIN recs : ~ (n < id)
    PROVE  RoomUpTo(recs, id) = 0
<1> DEFINE Bad == {n \in 0 .. id : RoomUpTo(recs, n) # 0}
<1>1. ASSUME Bad # {} PROVE FALSE
  <2>1. Bad \in SUBSET Nat
    OBVIOUS
  <2> HIDE DEF Bad
  <2>2. PICK m \in Bad : \A j \in Bad : m <= j
    BY <1>1, <2>1, LeastNumber
  <2>3. m \in 0 .. id /\ RoomUpTo(recs, m) # 0 /\ m \in Nat
    BY <2>2 DEF Bad
  <2>4. m # 0
    BY <2>3, RoomUpToNext
  <2>5. m - 1 \in 0 .. id /\ m - 1 \in Nat /\ m - 1 < id /\ (m - 1) + 1 = m
    BY <2>3, <2>4
  <2>6. RoomUpTo(recs, m - 1) = 0
    <3>1. m - 1 \notin Bad
      BY <2>2, <2>3, <2>5
    <3> QED
      BY <2>5, <3>1 DEF Bad
  <2>7. RoomIn(recs, m - 1) = 0
    BY <2>5 DEF RoomIn
  <2>8. RoomUpTo(recs, (m - 1) + 1) = RoomUpTo(recs, m - 1) + RoomIn(recs, m - 1)
    BY <2>5, RoomUpToNext
  <2> QED
    BY <2>3, <2>5, <2>6, <2>7, <2>8
<1> QED
  BY <1>1

\* Each position in the room up to a record is in the room of one.
LEMMA RoomsCover ==
    ASSUME NEW recs, RoomsAreNumbers(recs), NEW id \in Nat, NEW i \in Nat,
           0 < i, i <= RoomUpTo(recs, id)
    PROVE  \E n \in DOMAIN recs :
               /\ n \in Nat /\ n < id
               /\ RoomUpTo(recs, n) < i /\ i <= RoomUpTo(recs, n) + recs[n].room
<1> DEFINE Far == {n \in 0 .. id : i <= RoomUpTo(recs, n)}
<1>1. Far # {} /\ Far \in SUBSET Nat
  OBVIOUS
<1> HIDE DEF Far
<1>2. PICK m \in Far : \A j \in Far : m <= j
  BY <1>1, LeastNumber
<1>3. m \in 0 .. id /\ i <= RoomUpTo(recs, m) /\ m \in Nat
  BY <1>2 DEF Far
<1>4. m # 0
  <2>1. RoomUpTo(recs, 0) = 0
    BY RoomUpToNext
  <2> QED
    BY <1>3, <2>1
<1> DEFINE n == m - 1
<1>5. n \in 0 .. id /\ n \in Nat /\ n < id /\ n + 1 = m /\ n < m
  BY <1>3, <1>4
<1> HIDE DEF n
<1>6. /\ RoomUpTo(recs, n) \in Nat /\ RoomIn(recs, n) \in Nat
      /\ RoomUpTo(recs, n + 1) = RoomUpTo(recs, n) + RoomIn(recs, n)
  BY <1>5, RoomUpToNext
<1>7. RoomUpTo(recs, n) < i
  <2>1. n \notin Far
    BY <1>2, <1>3, <1>5
  <2> QED
    BY <1>5, <1>6, <2>1 DEF Far
<1>8. i <= RoomUpTo(recs, n) + RoomIn(recs, n)
  BY <1>3, <1>5, <1>6
<1>9. n \in DOMAIN recs
  BY <1>6, <1>7, <1>8 DEF RoomIn
<1>10. RoomIn(recs, n) = recs[n].room
  BY <1>9 DEF RoomIn
<1> QED
  BY <1>5, <1>7, <1>8, <1>9, <1>10

-----------------------------------------------------------------------------
(* What says that there is something to write: MDB_TXN_DIRTY and            *)
(* MDB_TXN_SPILLS, the list of spilled pages, and the list of dirty ones.   *)

\* The flags are as they were, and no page is spilled.
KeepsMarks(t, t2) == IsRecord(t2) /\ t2.marked = t.marked /\ t2.spills \subseteq t.spills

\* It stays so.
LEMMA MarksOn ==
    ASSUME NEW t, NEW t2, NEW t3, KeepsMarks(t, t2), KeepsMarks(t2, t3)
    PROVE  KeepsMarks(t, t3)
  BY DEF KeepsMarks

\* By what an operation on a single page does.
LEMMA PageMarks ==
    ASSUME NEW t, IsRecord(t)
    PROVE  /\ KeepsMarks(t, Failed(t))
           /\ \A h : KeepsMarks(t, Rewritten(t, h)) /\ Rewritten(t, h).dirty = t.dirty
           /\ \A h : KeepsMarks(t, Freed(t, h)) /\ Freed(t, h).dirty = t.dirty
           /\ \A pages : KeepsMarks(t, [t EXCEPT !.pages = pages]) /\ [t EXCEPT !.pages = pages].dirty = t.dirty
           /\ \A h, n : KeepsMarks(t, Dirtied(t, h, n)) /\ h \in DOMAIN Dirtied(t, h, n).dirty
           /\ \A h, n : LET x == [t EXCEPT !.dirty = With(t.dirty, h, n)] IN
                        KeepsMarks(t, x) /\ h \in DOMAIN x.dirty
           /\ \A S : KeepsMarks(t, [t EXCEPT !.spills = t.spills \ S])
<1>1. KeepsMarks(t, Failed(t))
  <2> DEFINE x == Failed(t)
  <2>1. x = [t EXCEPT !.error = TRUE]
    BY DEF Failed
  <2> HIDE DEF x
  <2>2. KeepsMarks(t, x)
    BY <2>1 DEF KeepsMarks, IsRecord
  <2> QED
    BY <2>2 DEF x
<1>2. ASSUME NEW h PROVE KeepsMarks(t, Rewritten(t, h)) /\ Rewritten(t, h).dirty = t.dirty
  <2> DEFINE pages == [t.pages EXCEPT ![h] = [t.pages[h] EXCEPT !.stamp = Fresh]]
  <2>1. Rewritten(t, h) = [t EXCEPT !.pages = pages]
    BY DEF Rewritten, IsRecord
  <2> HIDE DEF pages
  <2> QED
    BY <2>1 DEF KeepsMarks, IsRecord
<1>3. ASSUME NEW h PROVE KeepsMarks(t, Freed(t, h)) /\ Freed(t, h).dirty = t.dirty
  <2>1. Freed(t, h) = [t EXCEPT !.frees = Append(t.frees, h)]
    BY DEF Freed, IsRecord
  <2> QED
    BY <2>1 DEF KeepsMarks, IsRecord
<1>4. ASSUME NEW pages
      PROVE  KeepsMarks(t, [t EXCEPT !.pages = pages]) /\ [t EXCEPT !.pages = pages].dirty = t.dirty
  BY DEF KeepsMarks, IsRecord
<1>5. ASSUME NEW h, NEW n PROVE h \in DOMAIN With(t.dirty, h, n)
  BY DEF With, Over
<1>6. ASSUME NEW h, NEW n PROVE KeepsMarks(t, Dirtied(t, h, n)) /\ h \in DOMAIN Dirtied(t, h, n).dirty
  <2> DEFINE x == Dirtied(t, h, n)
  <2>1. x = [t EXCEPT !.dirty = With(t.dirty, h, n), !.room = t.room - 1]
    BY DEF Dirtied, IsRecord
  <2> HIDE DEF x
  <2>2. KeepsMarks(t, x) /\ x.dirty = With(t.dirty, h, n)
    BY <2>1 DEF KeepsMarks, IsRecord
  <2> QED
    BY <1>5, <2>2 DEF x
<1>7. ASSUME NEW h, NEW n
      PROVE  LET x == [t EXCEPT !.dirty = With(t.dirty, h, n)] IN KeepsMarks(t, x) /\ h \in DOMAIN x.dirty
  <2> DEFINE x == [t EXCEPT !.dirty = With(t.dirty, h, n)]
  <2>1. KeepsMarks(t, x) /\ x.dirty = With(t.dirty, h, n)
    BY DEF KeepsMarks, IsRecord
  <2> QED
    BY <1>5, <2>1
<1>8. ASSUME NEW S PROVE KeepsMarks(t, [t EXCEPT !.spills = t.spills \ S])
  BY DEF KeepsMarks, IsRecord
<1> QED
  BY <1>1, <1>2, <1>3, <1>4, <1>6, <1>7, <1>8

\* mdb_page_alloc
LEMMA AllocMarks ==
    ASSUME NEW t, NEW num \in Positive, IsRecord(t), t.room \in Nat
    PROVE  KeepsMarks(t, Alloc(t, num).t)
<1> DEFINE a == Alloc(t, num)
           r == Refresh(t, num)
           f == Fetched(r, r.oldest, num)
           starts == RunStarts(f.pghead, num)
           p    == IF starts # {} THEN Least(starts) ELSE f.next
           next == IF starts # {} THEN f.next ELSE f.next + num
           g    == [f EXCEPT !.pghead = @ \ Run(p, num), !.next = next]
<1>1. num \in Nat /\ num > 0 /\ (num = 1 \/ num > 1) /\ (t.room = 0 \/ t.room > 0)
  BY DEF Positive
<1>2. CASE num = 1 /\ t.loose # <<>>
  <2>1. a.t = [t EXCEPT !.loose = Tail(@)]
    BY <1>2 DEF Alloc
  <2> HIDE DEF a
  <2> QED
    BY <2>1 DEF KeepsMarks, IsRecord, a
<1>3. CASE ~ (num = 1 /\ t.loose # <<>>) /\ t.room = 0
  <2>1. a.t = Failed(t)
    BY <1>1, <1>3 DEF Alloc
  <2> QED
    BY <2>1, PageMarks
<1>4. CASE ~ (num = 1 /\ t.loose # <<>>) /\ t.room > 0
  <2>1. a.t = IF next > f.next /\ next >= MaxPg THEN Failed(f) ELSE Dirtied(g, p, num)
    <3>1. (num > 1 \/ t.loose = <<>>) /\ t.room > 0 /\ t.room # 0
      BY <1>1, <1>4
    <3> HIDE DEF r, f
    <3>2. a = IF next > f.next /\ next >= MaxPg THEN [t |-> Failed(f), page |-> 0]
              ELSE [t |-> Dirtied(g, p, num), page |-> p]
      BY <1>4, <3>1, Zenon DEF Alloc, r, f
    <3> HIDE DEF a, g, p, next
    <3> QED
      BY <3>2
  <2>2. KeepsMarks(t, r)
    <3>1. r = t \/ r = [t EXCEPT !.oldest = FindOldest(t)]
      BY DEF Refresh
    <3> HIDE DEF r
    <3> QED
      BY <3>1 DEF KeepsMarks, IsRecord
  <2>3. KeepsMarks(r, f)
    <3> HIDE DEF r
    <3> DEFINE ids == Fetchable(r, r.oldest)
               k   == Taken(r, ids, num)
    <3>1. f = IF k = 0 THEN r
              ELSE [r EXCEPT !.pghead = Merged(r, ids, k), !.listed = TRUE, !.pglast = ids[k]]
      BY DEF Fetched
    <3> HIDE DEF f, ids, k
    <3> QED
      BY <2>2, <3>1 DEF KeepsMarks, IsRecord
  <2> HIDE DEF r, f, starts, p, next
  <2>6. g = [f EXCEPT !.pghead = f.pghead \ Run(p, num), !.next = next]
    BY <2>3 DEF KeepsMarks, IsRecord
  <2> HIDE DEF g
  <2>4. KeepsMarks(f, g)
    BY <2>3, <2>6 DEF KeepsMarks, IsRecord
  <2>5. KeepsMarks(f, Failed(f)) /\ KeepsMarks(g, Dirtied(g, p, num))
    BY <2>3, <2>4, PageMarks DEF KeepsMarks
  <2> QED
    BY <2>1, <2>2, <2>3, <2>4, <2>5, MarksOn
<1> QED
  BY <1>1, <1>2, <1>3, <1>4

\* mdb_page_new
LEMMA NewPageMarks ==
    ASSUME NEW t, NEW num \in Positive, NEW main, IsRecord(t), t.room \in Nat
    PROVE  KeepsMarks(t, NewPage(t, num, main))
<1> DEFINE t2 == NewPage(t, num, main)
           f  == Alloc(t, num).t
           p  == Alloc(t, num).page
           pages == With(f.pages, p, [n |-> num, stamp |-> Fresh, main |-> main])
<1>1. KeepsMarks(t, f)
  BY AllocMarks
<1> HIDE DEF f
<1>2. t2 = IF p = 0 THEN f ELSE [f EXCEPT !.pages = pages]
  BY DEF NewPage, f
<1>3. KeepsMarks(f, t2) \/ t2 = f
  <2> HIDE DEF t2, pages
  <2>1. KeepsMarks(f, [f EXCEPT !.pages = pages])
    BY <1>1, PageMarks DEF KeepsMarks
  <2> QED
    BY <1>2, <2>1
<1> QED
  BY <1>1, <1>3, MarksOn

\* mdb_page_touch
LEMMA TouchedMarks ==
    ASSUME NEW t, NEW h, IsRecord(t), t.room \in Nat, HoldsDirty(h) \in Nat
    PROVE  KeepsMarks(t, Touched(t, h))
<1> DEFINE t2 == Touched(t, h)
           a  == Alloc(t, 1)
           f  == a.t
<1>1. CASE h \in DOMAIN t.dirty
  BY <1>1, PageMarks DEF Touched
<1>2. CASE h \notin DOMAIN t.dirty /\ HoldsDirty(h) > 0
  <2> DEFINE x == [t EXCEPT !.dirty = With(t.dirty, h, 1)]
  <2>1. t2 = Rewritten(x, h)
    BY <1>2 DEF Touched, IsRecord
  <2>2. KeepsMarks(t, x)
    BY PageMarks
  <2> HIDE DEF x
  <2>3. KeepsMarks(x, Rewritten(x, h))
    BY <2>2, PageMarks DEF KeepsMarks
  <2> QED
    BY <2>1, <2>2, <2>3, MarksOn
<1>3. CASE h \notin DOMAIN t.dirty /\ HoldsDirty(h) = 0 /\ Spilled(h)
  <2> DEFINE x == [t EXCEPT !.spills = t.spills \ {h}]
             y == Dirtied(x, h, 1)
  <2>1. t2 = IF t.room = 0 THEN Failed(t) ELSE Rewritten(y, h)
    BY <1>3 DEF Touched, IsRecord
  <2>2. KeepsMarks(t, x) /\ KeepsMarks(t, Failed(t))
    BY PageMarks
  <2> HIDE DEF x
  <2>3. KeepsMarks(x, y)
    BY <2>2, PageMarks DEF KeepsMarks
  <2> HIDE DEF y
  <2>4. KeepsMarks(y, Rewritten(y, h))
    BY <2>3, PageMarks DEF KeepsMarks
  <2> QED
    BY <2>1, <2>2, <2>3, <2>4, MarksOn
<1>4. CASE h \notin DOMAIN t.dirty /\ HoldsDirty(h) = 0 /\ ~ Spilled(h)
  <2>1. KeepsMarks(t, f)
    <3>1. 1 \in Positive
      BY DEF Positive
    <3> QED
      BY <3>1, AllocMarks
  <2> DEFINE pages(g) == With(Without(g.pages, {h}), a.page, [t.pages[h] EXCEPT !.stamp = Fresh])
             root(g) == IF g.root = h THEN a.page ELSE g.root
  <2>2. t2 = IF a.page = 0 THEN f
             ELSE [Freed(f, h) EXCEPT !.pages = With(Without(@, {h}), a.page, [t.pages[h] EXCEPT !.stamp = Fresh]),
                                      !.root = IF @ = h THEN a.page ELSE @]
    BY <1>4 DEF Touched
  <2> HIDE DEF a, t2
  <2>3. KeepsMarks(f, Freed(f, h))
    BY <2>1, PageMarks DEF KeepsMarks
  <2> DEFINE g == Freed(f, h)
  <2>4. KeepsMarks(t, g)
    BY <2>1, <2>3, MarksOn
  <2> HIDE DEF g, f
  <2>5. CASE a.page = 0
    BY <2>1, <2>2, <2>5 DEF t2
  <2>6. CASE a.page # 0
    <3>1. t2 = [g EXCEPT !.pages = pages(g), !.root = root(g)]
      BY <2>2, <2>4, <2>6 DEF g, f, KeepsMarks, IsRecord
    <3> HIDE DEF pages, root
    <3>2. KeepsMarks(g, t2)
      BY <2>4, <3>1 DEF KeepsMarks, IsRecord
    <3>3. KeepsMarks(t, t2)
      BY <2>4, <3>2, MarksOn
    <3> QED
      BY <3>3 DEF t2
  <2> QED
    BY <2>5, <2>6
<1> QED
  BY <1>1, <1>2, <1>3, <1>4

\* mdb_page_loose
LEMMA LoosenedMarks ==
    ASSUME NEW t, NEW h, IsRecord(t)
    PROVE  KeepsMarks(t, Loosened(t, h)) /\ Loosened(t, h).dirty = t.dirty
<1> DEFINE x == [t EXCEPT !.pages = Without(t.pages, {h})]
           t2 == Loosened(t, h)
<1>1. t2 = IF h \in DOMAIN t.dirty THEN [x EXCEPT !.loose = <<h>> \o x.loose] ELSE Freed(x, h)
  BY DEF Loosened, IsRecord
<1>2. KeepsMarks(t, x) /\ x.dirty = t.dirty
  BY PageMarks
<1> HIDE DEF x, t2
<1>3. KeepsMarks(x, Freed(x, h)) /\ Freed(x, h).dirty = x.dirty
  BY <1>2, PageMarks DEF KeepsMarks
<1>4. KeepsMarks(x, t2) /\ t2.dirty = x.dirty
  <2>1. CASE h \in DOMAIN t.dirty
    <3>1. t2 = [x EXCEPT !.loose = <<h>> \o x.loose]
      BY <1>1, <2>1
    <3> QED
      BY <1>2, <3>1 DEF KeepsMarks, IsRecord
  <2> QED
    BY <1>1, <1>3, <2>1
<1>5. KeepsMarks(t, t2) /\ t2.dirty = t.dirty
  BY <1>2, <1>4, MarksOn
<1> QED
  BY <1>5 DEF t2

\* mdb_ovpage_free
LEMMA OverflowFreedMarks ==
    ASSUME NEW t, NEW h, IsRecord(t)
    PROVE  KeepsMarks(t, OverflowFreed(t, h)) /\ DOMAIN t.dirty \ {h} \subseteq DOMAIN OverflowFreed(t, h).dirty
           /\ OverflowFreed(t, h).room \in {t.room, t.room + 1}
<1> DEFINE t2 == OverflowFreed(t, h)
           n  == t.pages[h].n
           list == [i \in 1 .. n |-> h + n - i]
           pages == Without(t.pages, {h})
           dirty == Without(t.dirty, {h})
           room == IF h \in DOMAIN t.dirty THEN t.room + 1 ELSE t.room
<1>1. \/ t2 = [t EXCEPT !.pages = pages, !.pghead = t.pghead \cup Run(h, n), !.spills = t.spills \ {h},
                        !.dirty = dirty, !.room = room]
      \/ t2 = [t EXCEPT !.pages = pages, !.frees = t.frees \o list]
  BY DEF OverflowFreed, IsRecord
<1>2. DOMAIN dirty = DOMAIN t.dirty \ {h}
  BY DEF Without, Restrict
<1>3. room \in {t.room, t.room + 1}
  OBVIOUS
<1> HIDE DEF t2, n, list, pages, dirty, room
<1>4. KeepsMarks(t, t2) /\ t2.dirty \in {t.dirty, dirty} /\ t2.room \in {t.room, room}
  <2>1. CASE t2 = [t EXCEPT !.pages = pages, !.pghead = t.pghead \cup Run(h, n), !.spills = t.spills \ {h},
                            !.dirty = dirty, !.room = room]
    BY <2>1 DEF KeepsMarks, IsRecord
  <2>2. CASE t2 = [t EXCEPT !.pages = pages, !.frees = t.frees \o list]
    BY <2>2 DEF KeepsMarks, IsRecord
  <2> QED
    BY <1>1, <2>1, <2>2
<1>5. KeepsMarks(t, t2) /\ DOMAIN t.dirty \ {h} \subseteq DOMAIN t2.dirty /\ t2.room \in {t.room, t.room + 1}
  BY <1>2, <1>3, <1>4
<1> QED
  BY <1>5 DEF t2

\* mdb_cursor_put over a value on overflow pages
LEMMA OverwrittenMarks ==
    ASSUME NEW t, NEW h, IsRecord(t), t.room \in Nat, HoldsDirty(h) \in Nat, t.pages[h].n \in Positive
    PROVE  KeepsMarks(t, OverflowRewritten(t, h))
<1> DEFINE t2 == OverflowRewritten(t, h)
           n  == t.pages[h].n
<1>1. CASE h \in DOMAIN t.dirty
  BY <1>1, PageMarks DEF OverflowRewritten
<1>2. CASE h \notin DOMAIN t.dirty /\ HoldsDirty(h) > 0
  <2> DEFINE x == [t EXCEPT !.dirty = With(t.dirty, h, n)]
  <2>1. t2 = Rewritten(x, h)
    BY <1>2 DEF OverflowRewritten, IsRecord
  <2>2. KeepsMarks(t, x)
    BY PageMarks
  <2> HIDE DEF x
  <2>3. KeepsMarks(x, Rewritten(x, h))
    BY <2>2, PageMarks DEF KeepsMarks
  <2> QED
    BY <2>1, <2>2, <2>3, MarksOn
<1>3. CASE h \notin DOMAIN t.dirty /\ HoldsDirty(h) = 0 /\ Spilled(h)
  <2> DEFINE x == [t EXCEPT !.spills = t.spills \ {h}]
             y == Dirtied(x, h, n)
  <2>1. t2 = IF t.room = 0 THEN t ELSE Rewritten(y, h)
    BY <1>3 DEF OverflowRewritten, IsRecord
  <2>2. KeepsMarks(t, x) /\ KeepsMarks(t, t)
    BY PageMarks DEF KeepsMarks
  <2> HIDE DEF x
  <2>3. KeepsMarks(x, y)
    BY <2>2, PageMarks DEF KeepsMarks
  <2> HIDE DEF y
  <2>4. KeepsMarks(y, Rewritten(y, h))
    BY <2>3, PageMarks DEF KeepsMarks
  <2> QED
    BY <2>1, <2>2, <2>3, <2>4, MarksOn
<1>4. CASE h \notin DOMAIN t.dirty /\ HoldsDirty(h) = 0 /\ ~ Spilled(h)
  <2> DEFINE x == OverflowFreed(t, h)
             main == t.pages[h].main
  <2>1. t2 = NewPage(x, n, main)
    BY <1>4 DEF OverflowRewritten
  <2>2. KeepsMarks(t, x) /\ x.room \in {t.room, t.room + 1}
    BY OverflowFreedMarks
  <2> HIDE DEF x, main, n
  <2>3. IsRecord(x) /\ x.room \in Nat /\ n \in Positive
    BY <2>2 DEF KeepsMarks, n
  <2>4. KeepsMarks(x, NewPage(x, n, main))
    BY <2>3, NewPageMarks
  <2> QED
    BY <2>1, <2>2, <2>4, MarksOn
<1> QED
  BY <1>1, <1>2, <1>3, <1>4

=============================================================================
