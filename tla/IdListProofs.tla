------------------------------ MODULE IdListProofs -----------------------------
(***************************************************************************)
(* What the lists of page numbers keep true, for any numbers, any room and *)
(* any length: no call writes past its room, a search ends where it        *)
(* should, and the sort sorts, stays inside its list and needs a stack of  *)
(* logarithmic depth only.                                                 *)
(***************************************************************************)
EXTENDS IdList, FiniteSetTheorems, TLAPS

-----------------------------------------------------------------------------
(* The invariants *)

\* Does a number come strictly before the one sought?
Before(s, id) == IF s.over = "idl" THEN id > s.id ELSE id < s.id

\* What lies up to base comes before the number sought and what lies beyond the n
\* candidates does not, and the cursor is at the last comparison: at the end of the one
\* part or right after the other.
NarrowedTo(s, list) ==
    /\ s.base + s.n <= Len(list)
    /\ \A p \in DOMAIN list :
           /\ p <= s.base => Before(s, list[p])
           /\ p > s.base + s.n => ~ Before(s, list[p])
    /\ s.val > 0 => s.cursor = s.base
    /\ s.val < 0 => s.cursor = s.base + s.n + 1
    /\ s.val = 0 => s.cursor = 1 /\ s.base = 0

Narrowed ==
    call = "search" =>
        /\ search.over = "idl" => Descending(ids)
        /\ NarrowedTo(search, Searched)

\* When it has ended, the cursor is in the list or right behind it.
Placed == call = "searched" => search.cursor <= Len(Searched) + 1

SearchInv == ListsSound /\ Narrowed /\ Placed /\ SearchFinds

\* The segments still to be sorted, the one at hand first.
Segments == <<<<sort.l, sort.ir>>>> \o sort.stack

Within(p, segment) == segment[1] <= p /\ p <= segment[2]

Sorting == call \in {"sort", "partition"}

\* The list holds what the sort was given, in another order.
Permuted(list, from) ==
    \E f \in Bijection(DOMAIN list, DOMAIN from) : \A p \in DOMAIN list : list[p] = from[f[p]]

\* The segments lie in the list, and no two of them meet.
Apart(n, segs) ==
    /\ \A k \in DOMAIN segs : segs[k][2] <= n
    /\ \A k, m \in DOMAIN segs, p \in 1 .. n :
           Within(p, segs[k]) /\ Within(p, segs[m]) => k = m

\* Elements that are not in one segment still to be sorted are in order already.
Parted(list, segs) ==
    \A p, q \in DOMAIN list :
        p < q => \/ list[p] >= list[q]
                 \/ \E k \in DOMAIN segs : Within(p, segs[k]) /\ Within(q, segs[k])

\* With each segment above it on the stack one can be only half as long.
Halved(n, segs) ==
    \A k \in DOMAIN segs : PowerOfTwo[Len(segs) - k] * (segs[k][2] - segs[k][1] + 1) <= n

Segmented ==
    Sorting =>
        /\ Apart(Len(ids), Segments)
        /\ Parted(ids, Segments)
        /\ Halved(Len(ids), Segments)

Segment == (Nat \ {0}) \X Nat

SortType == [l : Nat \ {0}, ir : Nat, i : Nat, j : Nat, stack : Seq(Segment)]

\* Between the scans' places and the ends of the segment, elements are on their side of
\* the pivot; and each scan has an element before it at which it will stop.
Sides(list, l, ir, i, j) ==
    LET pivot == list[l + 1] IN
    /\ l + 2 <= ir
    /\ l + 1 <= i /\ i <= ir /\ l + 2 <= j /\ j <= ir
    /\ list[l] >= pivot
    /\ \A p \in l + 2 .. i : list[p] >= pivot
    /\ \A p \in j .. ir : list[p] <= pivot
    /\ i < j \/ (i = j /\ j < ir)

Partitioned == call = "partition" => Sides(ids, sort.l, sort.ir, sort.i, sort.j)

SortInv ==
    /\ sort \in SortType
    /\ Sorting => Permuted(ids, given)
    /\ Segmented
    /\ Partitioned

-----------------------------------------------------------------------------
(* Numbers and sets of them *)

\* Of some natural numbers one is the least.
LEMMA LeastNumber ==
    ASSUME NEW S \in SUBSET Nat, S # {}
    PROVE  \E n \in S : \A k \in S : n <= k
<1> DEFINE Segs == {0 .. n : n \in S}
<1>1. \A n \in S : 0 .. n \in FiniteSubsetsOf(Nat)
  BY FS_Interval DEF FiniteSubsetsOf
<1>2. Segs \subseteq FiniteSubsetsOf(Nat) /\ Segs # {}
  BY <1>1
<1>3. PICK least \in Segs : \A other \in Segs : ~ (<<other, least>> \in StrictSubsetOrdering(Nat))
  <2> HIDE DEF Segs
  <2> QED
    BY <1>2, FS_StrictSubsetOrderingWellFounded, WFMin
<1>4. PICK n \in S : least = 0 .. n
  BY <1>3
<1>5. ASSUME NEW k \in S, k < n
      PROVE  FALSE
  <2>1. 0 .. k \subseteq 0 .. n /\ n \in 0 .. n /\ n \notin 0 .. k
    BY <1>5
  <2>2. <<0 .. k, 0 .. n>> \in StrictSubsetOrdering(Nat)
    BY <2>1 DEF StrictSubsetOrdering
  <2>3. 0 .. k \in Segs
    BY <1>5
  <2> QED
    BY <1>3, <1>4, <2>2, <2>3
<1> QED
  BY <1>5

\* Of some positive numbers with a bound one is the greatest.
LEMMA GreatestNumber ==
    ASSUME NEW bound \in Nat, NEW S \in SUBSET (1 .. bound), S # {}
    PROVE  \E n \in S : \A k \in S : k <= n
<1> DEFINE gaps == {bound - n : n \in S}
<1>1. gaps \in SUBSET Nat /\ gaps # {}
  <2>1. \A n \in S : bound - n \in Nat
    OBVIOUS
  <2> QED
    BY <2>1
<1>2. PICK gap \in gaps : \A other \in gaps : gap <= other
  <2> HIDE DEF gaps
  <2> QED
    BY <1>1, LeastNumber
<1>3. PICK n \in S : gap = bound - n
  BY <1>2
<1>4. ASSUME NEW k \in S PROVE k <= n
  <2>1. bound - n <= bound - k
    BY <1>2, <1>3
  <2> QED
    BY <2>1
<1> QED
  BY <1>4

\* In a finite set of numbers there is one above which just n others lie.
LEMMA RankExists ==
    ASSUME NEW S \in SUBSET Nat, IsFiniteSet(S), NEW n \in Nat, n < Cardinality(S)
    PROVE  \E id \in S : Cardinality({x \in S : x > id}) = n
<1> DEFINE Above(id) == {x \in S : x > id}
<1> DEFINE tops == {Above(id) : id \in {x \in S : Cardinality(Above(x)) >= n}}
<1>1. ASSUME NEW id \in S
      PROVE  IsFiniteSet(Above(id)) /\ Cardinality(Above(id)) \in Nat
  BY FS_Subset, FS_CardinalityType
<1>2. tops \subseteq FiniteSubsetsOf(Nat)
  BY <1>1 DEF FiniteSubsetsOf
<1>3. tops # {}
  <2>1. S # {}
    BY FS_EmptySet
  <2>2. PICK least \in S : \A k \in S : least <= k
    BY <2>1, LeastNumber
  <2>3. \A x \in S : x > least <=> x # least
    BY <2>2
  <2>4. Above(least) = S \ {least}
    BY <2>3
  <2>5. Cardinality(S \ {least}) = Cardinality(S) - 1 /\ Cardinality(S) \in Nat
    BY FS_RemoveElement, FS_CardinalityType
  <2>6. Cardinality(Above(least)) >= n
    BY <2>4, <2>5
  <2> QED
    BY <2>6
<1>4. PICK top \in tops : \A other \in tops : ~ (<<other, top>> \in StrictSubsetOrdering(Nat))
  <2> HIDE DEF tops
  <2> QED
    BY <1>2, <1>3, FS_StrictSubsetOrderingWellFounded, WFMin
<1>5. PICK id \in S : top = Above(id) /\ Cardinality(Above(id)) >= n
  BY <1>4
<1>6. ASSUME Cardinality(Above(id)) # n
      PROVE  FALSE
  <2>1. Cardinality(Above(id)) > n
    BY <1>1, <1>5, <1>6
  <2>2. Above(id) # {}
    BY <2>1, FS_EmptySet
  <2>3. PICK next \in Above(id) : \A k \in Above(id) : next <= k
    <3>1. Above(id) \in SUBSET Nat
      OBVIOUS
    <3> HIDE DEF Above
    <3> QED
      BY <2>2, <3>1, LeastNumber
  <2>4. Above(next) = Above(id) \ {next} /\ next \in S
    <3>1. \A x \in S : x > next <=> x > id /\ x # next
      BY <2>3
    <3> QED
      BY <3>1
  <2>5. Cardinality(Above(next)) = Cardinality(Above(id)) - 1
    <3> HIDE DEF Above
    <3> QED
      BY <1>1, <2>3, <2>4, FS_RemoveElement
  <2>6. Cardinality(Above(next)) >= n
    BY <1>1, <2>1, <2>5
  <2>7. Above(next) \in tops
    BY <2>4, <2>6
  <2>8. <<Above(next), top>> \in StrictSubsetOrdering(Nat)
    <3>1. Above(id) \in SUBSET Nat /\ Above(next) \in SUBSET Nat
      OBVIOUS
    <3> QED
      BY <1>5, <2>3, <2>4, <3>1 DEF StrictSubsetOrdering
  <2> QED
    BY <1>4, <2>7, <2>8
<1> QED
  BY <1>6

-----------------------------------------------------------------------------
(* Appending, merging and shrinking *)

LEMMA ListOf ==
    ASSUME NEW S, NEW n \in Nat, NEW list \in [1 .. n -> S]
    PROVE  list \in Seq(S) /\ Len(list) = n /\ DOMAIN list = 1 .. n
  OBVIOUS

LEMMA Joined ==
    ASSUME NEW S, NEW first \in Seq(S), NEW second \in Seq(S)
    PROVE  first \o second \in Seq(S) /\ Len(first \o second) = Len(first) + Len(second)
  OBVIOUS

\* What mdb_midl_need asks for is enough: rounding down to whole blocks takes less than
\* has been added.
LEMMA NeededSuffices ==
    ASSUME room \in Nat, NEW num \in Nat
    PROVE  Needed(num) \in Nat /\ num <= Needed(num)
  BY DEF Needed

\* A descending list has as many numbers as places.
LEMMA HeldSize ==
    ASSUME NEW list \in Seq(Nat), Descending(list)
    PROVE  IsFiniteSet(Held(list)) /\ Cardinality(Held(list)) = Len(list) /\ Held(list) \subseteq Nat
<1>1. list \in [1 .. Len(list) -> Held(list)] /\ Len(list) \in Nat
  BY DEF Held
<1>2. ASSUME NEW p \in 1 .. Len(list), NEW q \in 1 .. Len(list), list[p] = list[q]
      PROVE  p = q
  <2>1. list[p] \in Nat /\ p \in DOMAIN list /\ q \in DOMAIN list
    OBVIOUS
  <2>2. ~ (p < q) /\ ~ (q < p)
    BY <1>2, <2>1 DEF Descending
  <2> QED
    BY <2>2
<1>3. list \in Bijection(1 .. Len(list), Held(list))
  <2>1. \A id \in Held(list) : \E p \in 1 .. Len(list) : list[p] = id
    BY DEF Held
  <2> QED
    BY <1>1, <1>2, <2>1 DEF Bijection, Injection, Surjection, IsInjective
<1>4. ExistsBijection(1 .. Len(list), Held(list))
  BY <1>3 DEF ExistsBijection
<1> QED
  BY <1>1, <1>4, FS_CountingElements, FS_NatBijection DEF Held

LEMMA MergedType ==
    ASSUME ids \in Seq(Nat), NEW merge \in Seq(Nat), Descending(ids), Descending(merge),
           Held(ids) \cap Held(merge) = {}
    PROVE  Merged(merge) \in Seq(Nat) /\ Len(Merged(merge)) = Len(ids) + Len(merge)
<1> DEFINE all == Held(ids) \cup Held(merge)
           n == Len(ids) + Len(merge)
<1>1. IsFiniteSet(all) /\ Cardinality(all) = n /\ all \in SUBSET Nat /\ n \in Nat
  <2>1. Cardinality(Held(ids) \cap Held(merge)) = 0
    BY FS_EmptySet
  <2>2. Len(ids) \in Nat /\ Len(merge) \in Nat
    OBVIOUS
  <2>3. /\ IsFiniteSet(Held(ids)) /\ Cardinality(Held(ids)) = Len(ids) /\ Held(ids) \subseteq Nat
        /\ IsFiniteSet(Held(merge)) /\ Cardinality(Held(merge)) = Len(merge)
        /\ Held(merge) \subseteq Nat
    BY HeldSize
  <2>4. /\ IsFiniteSet(all)
        /\ Cardinality(all) =
               Cardinality(Held(ids)) + Cardinality(Held(merge)) - Cardinality(Held(ids) \cap Held(merge))
    BY <2>3, FS_Union
  <2> QED
    BY <2>1, <2>2, <2>3, <2>4
<1> HIDE DEF all, n
<1>2. ASSUME NEW p \in 1 .. n
      PROVE  (CHOOSE id \in all : Cardinality({x \in all : x > id}) = p - 1) \in Nat
  <2>1. p - 1 \in Nat /\ p - 1 < Cardinality(all)
    BY <1>1
  <2>2. \E id \in all : Cardinality({x \in all : x > id}) = p - 1
    BY <1>1, <2>1, RankExists
  <2> QED
    BY <1>1, <2>2
<1>3. Merged(merge) = [p \in 1 .. n |->
          CHOOSE id \in all : Cardinality({x \in all : x > id}) = p - 1]
  BY DEF Merged, all, n
<1>4. Merged(merge) \in [1 .. n -> Nat]
  BY <1>2, <1>3
<1>5. Merged(merge) \in Seq(Nat) /\ Len(Merged(merge)) = n
  BY <1>1, <1>4, ListOf
<1> QED
  BY <1>5 DEF n

\* What lists are typed as: no call does more to the one than replace it, or end its use.
LEMMA ReplacedSound ==
    ASSUME ListsSound, NEW list \in Seq(Nat), Replaced(list), room' \in Nat,
           Len(ids) <= room => Len(list) <= room'
    PROVE  ListsSound'
<1>1. UmMax \in Nat \ {0}
  BY IdListAssumption
<1>2. Idle /\ call' = "none" /\ search' = NoSearch /\ ids' = list /\ UNCHANGED <<dl, sort, given>>
  BY DEF Replaced
<1>3. ListTypeOK'
  BY <1>2 DEF ListsSound, ListTypeOK, NoSearch, Calls
<1>4. FitsRoom'
  BY <1>1, <1>2 DEF ListsSound, FitsRoom, Idle
<1>5. DirtyListSorted'
  BY <1>2 DEF ListsSound, DirtyListSorted, Ascending
<1> QED
  BY <1>3, <1>4, <1>5 DEF ListsSound

\* The calls that add numbers make the room they take, whichever of the two ways of
\* counting it they use.
LEMMA GrowingSound ==
    ASSUME ListsSound,
           \/ \E id \in PageNumbers :
                 \/ Append1(id) \/ NeedXappend(id)
                 \/ id + 1 \in PageNumbers /\ AppendRange(id, 2)
           \/ \E list \in Given : AppendList(list) \/ NeedXmerge(list)
    PROVE  ListsSound'
<1>1. UmMax \in Nat \ {0} /\ PageNumbers \subseteq Nat
  BY IdListAssumption
<1>2. ids \in Seq(Nat) /\ Len(ids) \in Nat /\ room \in Nat
  BY DEF ListsSound, ListTypeOK
<1>3. ASSUME NEW id \in PageNumbers, Append1(id) \/ NeedXappend(id)
      PROVE  ListsSound'
  <2>1. Append(ids, id) \in Seq(Nat) /\ Len(Append(ids, id)) = Len(ids) + 1 /\ Replaced(Append(ids, id))
    BY <1>1, <1>2, <1>3 DEF Append1, NeedXappend
  <2>2. room' \in Nat /\ (Len(ids) <= room => Len(ids) + 1 <= room')
    <3>1. CASE Append1(id)
      BY <1>1, <1>2, <3>1 DEF Append1, Grown
    <3>2. CASE NeedXappend(id)
      BY <1>2, <3>2, NeededSuffices DEF NeedXappend
    <3> QED
      BY <1>3, <3>1, <3>2
  <2> QED
    BY <2>1, <2>2, ReplacedSound
<1>4. ASSUME NEW id \in PageNumbers, AppendRange(id, 2)
      PROVE  ListsSound'
  <2> DEFINE range == [k \in 1 .. 2 |-> id + 2 - k]
  <2>1. range \in [1 .. 2 -> Nat]
    <3>1. \A k \in 1 .. 2 : id + 2 - k \in Nat
      BY <1>1
    <3> QED
      BY <3>1
  <2>2. range \in Seq(Nat) /\ Len(range) = 2
    BY <2>1, ListOf
  <2>3. Replaced(ids \o range)
    BY <1>4 DEF AppendRange
  <2>4. PICK by \in {m \in {2, UmMax, 2 + UmMax} : m >= 2 /\ m >= UmMax} :
            room' = Grown(room, Len(ids) + 2, by)
    BY <1>4 DEF AppendRange
  <2> HIDE DEF range
  <2>5. ids \o range \in Seq(Nat) /\ Len(ids \o range) = Len(ids) + 2
    BY <1>2, <2>2, Joined
  <2>6. room' \in Nat /\ (Len(ids) <= room => Len(ids) + 2 <= room')
    BY <1>1, <1>2, <2>4 DEF Grown
  <2> QED
    BY <2>3, <2>5, <2>6, ReplacedSound
<1>5. ASSUME NEW list \in Given, AppendList(list) \/ NeedXmerge(list)
      PROVE  ListsSound'
  <2>1. list \in Seq(Nat) /\ Len(list) \in Nat
    <3>1. CASE list \in {<<id>> : id \in PageNumbers}
      <4>1. PICK id \in PageNumbers : list = <<id>>
        BY <3>1
      <4> QED
        BY <1>1, <4>1
    <3>2. CASE list \in {<<id1, id2>> : id1, id2 \in PageNumbers}
      <4>1. PICK id1 \in PageNumbers, id2 \in PageNumbers : list = <<id1, id2>>
        BY <3>2
      <4> QED
        BY <1>1, <4>1
    <3> QED
      BY <3>1, <3>2 DEF Given
  <2>2. CASE AppendList(list)
    <3>1. /\ Replaced(ids \o list) /\ room' = Grown(room, Len(ids) + Len(list) + 1, Len(list))
          /\ ids \o list \in Seq(Nat) /\ Len(ids \o list) = Len(ids) + Len(list)
      BY <1>2, <2>1, <2>2, Joined DEF AppendList
    <3>2. room' \in Nat /\ (Len(ids) <= room => Len(ids) + Len(list) <= room')
      BY <1>2, <2>1, <3>1 DEF Grown
    <3> QED
      BY <3>1, <3>2, ReplacedSound
  <2>3. CASE NeedXmerge(list)
    <3>1. /\ Replaced(Merged(list)) /\ room' = Needed(Len(ids) + Len(list))
          /\ Merged(list) \in Seq(Nat) /\ Len(Merged(list)) = Len(ids) + Len(list)
      BY <1>2, <2>1, <2>3, MergedType DEF NeedXmerge
    <3>2. Len(ids) + Len(list) \in Nat
      BY <1>2, <2>1
    <3>3. room' \in Nat /\ Len(ids) + Len(list) <= room'
      BY <1>2, <3>1, <3>2, NeededSuffices
    <3> QED
      BY <3>1, <3>3, ReplacedSound
  <2> QED
    BY <1>5, <2>2, <2>3
<1> QED
  BY <1>3, <1>4, <1>5

LEMMA EndingSound ==
    ASSUME ListsSound, Shrink \/ Reset
    PROVE  ListsSound'
<1>1. UmMax \in Nat \ {0}
  BY IdListAssumption
<1>2. CASE Shrink
  BY <1>1, <1>2 DEF Shrink, Idle, ListsSound, ListTypeOK, FitsRoom, DirtyListSorted, Ascending,
        NoSearch, Calls
<1>3. CASE Reset
  <2>1. ids' = <<>> /\ dl' = <<>> /\ call' = "none" /\ UNCHANGED <<room, search, sort, given>>
    BY <1>3 DEF Reset
  <2>2. ListTypeOK'
    BY <2>1 DEF ListsSound, ListTypeOK, Calls
  <2>3. FitsRoom' /\ DirtyListSorted'
    BY <1>1, <2>1 DEF ListsSound, ListTypeOK, FitsRoom, DirtyListSorted, Ascending
  <2> QED
    BY <2>2, <2>3 DEF ListsSound
<1> QED
  BY <1>2, <1>3

-----------------------------------------------------------------------------
(* Searching *)

\* The list that is searched is in order.
LEMMA SearchedOrdered ==
    ASSUME ListsSound, search.over = "idl" => Descending(ids),
           NEW p \in DOMAIN Searched, NEW q \in DOMAIN Searched, p < q
    PROVE  IF search.over = "idl" THEN Searched[p] > Searched[q] ELSE Searched[p] < Searched[q]
<1>1. CASE search.over = "idl"
  <2>1. Searched = ids
    BY <1>1 DEF Searched
  <2> QED
    BY <1>1, <2>1 DEF Descending
<1>2. CASE search.over # "idl"
  <2>1. Searched = dl
    BY <1>2 DEF Searched
  <2> QED
    BY <1>2, <2>1 DEF DirtyListSorted, Ascending, ListsSound
<1> QED
  BY <1>1, <1>2

SearchType == [over : {"idl", "id2l"}, id : Nat, base : Nat, cursor : Nat \ {0}, n : Nat,
               val : {-1, 0, 1}]

\* A step of a search changes nothing else.
LEMMA SearchStepSound ==
    ASSUME ListsSound, call # "ended", UNCHANGED <<ids, room, dl, sort, given>>,
           search' \in SearchType, call' \in {"search", "searched"}
    PROVE  ListsSound'
<1>1. ListTypeOK'
  BY DEF ListsSound, ListTypeOK, SearchType, Calls
<1> QED
  BY <1>1 DEF ListsSound, FitsRoom, DirtyListSorted, Ascending

LEMMA SearchBeginsSound ==
    ASSUME SearchInv, NEW id \in PageNumbers, MidlSearch(id) \/ Mid2lSearch(id)
    PROVE  SearchInv'
<1>1. PICK over \in {"idl", "id2l"} : SearchBegins(over, id) /\ (over = "idl" => Descending(ids))
  BY DEF MidlSearch, Mid2lSearch
<1>2. id \in Nat
  BY IdListAssumption
<1> DEFINE size == IF over = "idl" THEN Len(ids) ELSE Len(dl)
<1>3. /\ search' = [over |-> over, id |-> id, base |-> 0, cursor |-> 1, val |-> 0, n |-> size]
      /\ Idle /\ call' = "search" /\ UNCHANGED <<ids, room, dl, sort, given>>
  BY <1>1 DEF SearchBegins, listVars
<1>4. Searched' = (IF over = "idl" THEN ids ELSE dl) /\ Searched' \in Seq(Nat) /\ size = Len(Searched')
  BY <1>3 DEF Searched, SearchInv, ListsSound, ListTypeOK
<1>5. size \in Nat
  BY <1>4
<1> HIDE DEF size
<1>6. search' \in SearchType
  BY <1>2, <1>3, <1>5 DEF SearchType
<1>7. ListsSound'
  BY <1>3, <1>6, SearchStepSound DEF SearchInv, Idle
<1>8. Narrowed'
  <2>1. /\ search'.base = 0 /\ search'.cursor = 1 /\ search'.val = 0 /\ search'.n = size
        /\ search'.over = over
    BY <1>3
  <2>2. \A p \in DOMAIN Searched' : p \in Nat /\ ~ (p <= 0) /\ ~ (p > 0 + size)
    BY <1>4, <1>5
  <2>3. NarrowedTo(search', Searched')
    BY <1>4, <1>5, <2>1, <2>2 DEF NarrowedTo
  <2>4. (search.over = "idl" => Descending(ids))'
    BY <1>1, <1>3, <2>1 DEF Descending
  <2> QED
    BY <2>3, <2>4 DEF Narrowed
<1> QED
  BY <1>3, <1>7, <1>8 DEF SearchInv, Placed, SearchFinds

\* What a comparison with the middle of the candidates says of all before or behind it.
LEMMA Halving ==
    ASSUME SearchInv, call = "search", NEW at \in DOMAIN Searched
    PROVE  /\ Before(search, Searched[at]) =>
                  \A p \in DOMAIN Searched : p <= at => Before(search, Searched[p])
           /\ ~ Before(search, Searched[at]) =>
                  \A p \in DOMAIN Searched : p >= at => ~ Before(search, Searched[p])
           /\ Searched[at] = search.id =>
                  \A p \in DOMAIN Searched : p < at => Before(search, Searched[p])
<1>1. Searched \in Seq(Nat) /\ search.id \in Nat
  BY DEF Searched, SearchInv, ListsSound, ListTypeOK
<1>2. ASSUME NEW p \in DOMAIN Searched, NEW q \in DOMAIN Searched, p < q
      PROVE  IF search.over = "idl" THEN Searched[p] > Searched[q] ELSE Searched[p] < Searched[q]
  BY <1>2, SearchedOrdered DEF SearchInv, Narrowed
<1>3. ASSUME NEW p \in DOMAIN Searched
      PROVE  p \in Nat /\ Searched[p] \in Nat
  BY <1>1
<1>4. ASSUME NEW p \in DOMAIN Searched, p <= at, Before(search, Searched[at])
      PROVE  Before(search, Searched[p])
  <2>1. p = at \/ p < at
    BY <1>3, <1>4
  <2>2. CASE p < at
    BY <1>1, <1>2, <1>3, <1>4, <2>2 DEF Before
  <2> QED
    BY <1>4, <2>1, <2>2
<1>5. ASSUME NEW p \in DOMAIN Searched, p >= at, ~ Before(search, Searched[at])
      PROVE  ~ Before(search, Searched[p])
  <2>1. p = at \/ at < p
    BY <1>3, <1>5
  <2>2. CASE at < p
    BY <1>1, <1>2, <1>3, <1>5, <2>2 DEF Before
  <2> QED
    BY <1>5, <2>1, <2>2
<1>6. ASSUME NEW p \in DOMAIN Searched, p < at, Searched[at] = search.id
      PROVE  Before(search, Searched[p])
  BY <1>1, <1>2, <1>3, <1>6 DEF Before
<1> QED
  BY <1>4, <1>5, <1>6

\* One turn: the half that is left out lies on its side of the number sought.
LEMMA SearchTurnSound ==
    ASSUME SearchInv, SearchTurn
    PROVE  SearchInv'
<1> DEFINE pivot == search.n \div 2
           at == search.base + pivot + 1
           val == IF search.over = "idl" THEN MidlVal(ids[at], search.id)
                                         ELSE Mid2lVal(dl[at], search.id)
<1>1. /\ search.base \in Nat /\ search.n \in Nat /\ search.n > 0 /\ search.id \in Nat
      /\ search.over \in {"idl", "id2l"} /\ search \in SearchType
      /\ call = "search" /\ UNCHANGED <<ids, room, dl, sort, given>>
  BY DEF SearchInv, SearchTurn, ListsSound, ListTypeOK, SearchType, listVars
<1>2. /\ Searched \in Seq(Nat) /\ Len(Searched) \in Nat /\ DOMAIN Searched = 1 .. Len(Searched)
      /\ NarrowedTo(search, Searched) /\ (search.over = "idl" => Descending(ids))
  BY <1>1 DEF Searched, SearchInv, ListsSound, ListTypeOK, Narrowed
<1>3. /\ pivot \in Nat /\ pivot < search.n /\ at = search.base + pivot + 1
  BY <1>1
<1>4. \/ val < 0 /\ search' = [search EXCEPT !.cursor = at, !.val = val, !.n = pivot] /\ call' = call
      \/ /\ val > 0 /\ call' = call
         /\ search' = [search EXCEPT !.cursor = at, !.val = val, !.base = at,
                                     !.n = RightPart(pivot)]
      \/ val = 0 /\ search' = [search EXCEPT !.cursor = at, !.val = val] /\ call' = "searched"
  BY DEF SearchTurn
<1>5. val = IF search.over = "idl" THEN MidlVal(Searched[at], search.id)
                                   ELSE Mid2lVal(Searched[at], search.id)
  BY DEF Searched
<1> HIDE DEF pivot, at, val
<1>6. at \in Nat \ {0} /\ at \in DOMAIN Searched /\ RightPart(pivot) \in Nat
      /\ at + RightPart(pivot) = search.base + search.n
  <2>1. \A b, n, k \in Nat :
            k < n => /\ b + k + 1 \in Nat \ {0} /\ b + k + 1 <= b + n /\ n - (k + 1) \in Nat
                     /\ (b + k + 1) + (n - (k + 1)) = b + n
    OBVIOUS
  <2>2. /\ at \in Nat \ {0} /\ at <= search.base + search.n /\ RightPart(pivot) \in Nat
        /\ at + RightPart(pivot) = search.base + search.n
    BY <1>1, <1>3, <2>1 DEF RightPart
  <2>3. search.base + search.n <= Len(Searched) /\ search.base + search.n \in Nat
    BY <1>1, <1>2 DEF NarrowedTo
  <2> QED
    BY <1>2, <2>2, <2>3
<1>7. /\ val \in {-1, 0, 1}
      /\ val > 0 => Before(search, Searched[at])
      /\ val < 0 => ~ Before(search, Searched[at])
      /\ val = 0 => Searched[at] = search.id
  <2>1. Searched[at] \in Nat
    BY <1>2, <1>6
  <2> QED
    BY <1>1, <1>5, <2>1 DEF MidlVal, Mid2lVal, Before
<1>8. search' \in SearchType
  BY <1>1, <1>3, <1>4, <1>6, <1>7 DEF SearchType
<1>9. search'.over = search.over /\ search'.id = search.id /\ Searched' = Searched
  BY <1>1, <1>4 DEF Searched, SearchType
<1>10. ListsSound'
  BY <1>1, <1>4, <1>8, SearchStepSound DEF SearchInv
<1>11. \A id : Before(search', id) <=> Before(search, id)
  BY <1>9 DEF Before
<1>12. CASE val < 0
  <2>1. /\ search'.base = search.base /\ search'.n = pivot /\ search'.cursor = at /\ search'.val = val
        /\ call' = "search"
    BY <1>1, <1>4, <1>7, <1>12 DEF SearchType
  <2>2. \A p \in DOMAIN Searched : p > search.base + pivot => p >= at
    BY <1>1, <1>2, <1>3
  <2>3. search.base + pivot <= Len(Searched)
    BY <1>1, <1>2, <1>3, <1>6
  <2>4. \A p \in DOMAIN Searched :
            /\ p <= search.base => Before(search, Searched[p])
            /\ p > search.base + pivot => ~ Before(search, Searched[p])
    BY <1>1, <1>2, <1>6, <1>7, <1>12, <2>2, Halving DEF NarrowedTo
  <2>5. NarrowedTo(search', Searched)
    BY <1>3, <1>7, <1>11, <1>12, <2>1, <2>3, <2>4 DEF NarrowedTo
  <2>6. Narrowed'
    BY <1>1, <1>2, <1>9, <2>5 DEF Narrowed, Descending
  <2> QED
    BY <1>10, <2>1, <2>6 DEF SearchInv, Placed, SearchFinds
<1>13. CASE val > 0
  <2>1. /\ search'.base = at /\ search'.n = RightPart(pivot) /\ search'.cursor = at
        /\ search'.val = val /\ call' = "search"
    BY <1>1, <1>4, <1>7, <1>13 DEF SearchType
  <2>2. \A p \in DOMAIN Searched :
            /\ p <= at => Before(search, Searched[p])
            /\ p > at + RightPart(pivot) => ~ Before(search, Searched[p])
    BY <1>1, <1>2, <1>6, <1>7, <1>13, Halving DEF NarrowedTo
  <2>3. at + RightPart(pivot) <= Len(Searched)
    BY <1>2, <1>6 DEF NarrowedTo
  <2>4. NarrowedTo(search', Searched)
    BY <1>7, <1>11, <1>13, <2>1, <2>2, <2>3 DEF NarrowedTo
  <2>5. Narrowed'
    BY <1>1, <1>2, <1>9, <2>4 DEF Narrowed, Descending
  <2> QED
    BY <1>10, <2>1, <2>5 DEF SearchInv, Placed, SearchFinds
<1>14. CASE val = 0
  <2>1. search'.cursor = at /\ call' = "searched"
    BY <1>1, <1>4, <1>7, <1>14 DEF SearchType
  <2>2. /\ ~ Before(search, Searched[at])
        /\ \A p \in DOMAIN Searched : p < at => Before(search, Searched[p])
    <3>1. Searched[at] \in Nat
      BY <1>2, <1>6
    <3> QED
      BY <1>1, <1>6, <1>7, <1>14, <3>1, Halving DEF Before
  <2>3. \A p \in DOMAIN Searched : p < at <=> Before(search, Searched[p])
    <3>1. \A p \in DOMAIN Searched : p < at \/ p >= at
      BY <1>2, <1>6
    <3> QED
      BY <1>1, <1>6, <2>2, <3>1, Halving
  <2>4. SearchFinds'
    BY <1>9, <2>1, <2>3 DEF SearchFinds, Before
  <2>5. Placed'
    BY <1>2, <1>6, <1>9, <2>1 DEF Placed
  <2> QED
    BY <1>10, <2>1, <2>4, <2>5 DEF SearchInv, Narrowed
<1> QED
  BY <1>7, <1>12, <1>13, <1>14

\* No candidate is left: the cursor goes right behind what comes before.
LEMMA SearchEndsSound ==
    ASSUME SearchInv, SearchEnds
    PROVE  SearchInv'
<1>1. /\ search.base \in Nat /\ search.n = 0 /\ search.val \in {-1, 0, 1} /\ search \in SearchType
      /\ call = "search" /\ call' = "searched" /\ UNCHANGED <<ids, room, dl, sort, given>>
      /\ search' = [search EXCEPT !.cursor = CursorBeyond]
  BY DEF SearchInv, SearchEnds, ListsSound, ListTypeOK, SearchType, listVars
<1>2. NarrowedTo(search, Searched) /\ Searched \in Seq(Nat)
  BY <1>1 DEF Searched, SearchInv, ListsSound, ListTypeOK, Narrowed
<1>3. CursorBeyond = search.base + 1 /\ search.base <= Len(Searched)
  BY <1>1, <1>2 DEF NarrowedTo, CursorBeyond
<1>4. \A p \in DOMAIN Searched : p < CursorBeyond <=> Before(search, Searched[p])
  <2>1. \A p \in DOMAIN Searched :
            (p < search.base + 1 <=> p <= search.base) /\ (p <= search.base \/ p > search.base + search.n)
    BY <1>1, <1>2
  <2> QED
    BY <1>2, <1>3, <2>1 DEF NarrowedTo
<1>5. /\ search'.over = search.over /\ search'.id = search.id /\ search'.cursor = CursorBeyond
      /\ Searched' = Searched /\ search' \in SearchType
  BY <1>1, <1>3 DEF Searched, SearchType
<1>6. ListsSound'
  BY <1>1, <1>5, SearchStepSound DEF SearchInv
<1>7. Placed'
  BY <1>1, <1>2, <1>3, <1>5 DEF Placed
<1>8. SearchFinds'
  BY <1>4, <1>5 DEF SearchFinds, Before
<1> QED
  BY <1>1, <1>6, <1>7, <1>8 DEF SearchInv, Narrowed

\* The number goes where the search has ended, between what is smaller and what is larger.
LEMMA InsertSound ==
    ASSUME SearchInv, Mid2lInsert
    PROVE  SearchInv'
<1> DEFINE c == search.cursor
           id == search.id
           longer == [p \in 1 .. Len(dl) + 1 |->
                         CASE p < c -> dl[p] [] p = c -> id [] p > c -> dl[p - 1]]
<1>1. /\ call = "searched" /\ call' = "none" /\ search' = NoSearch
      /\ UNCHANGED <<ids, room, sort, given>> /\ dl' = longer
      /\ Searched = dl /\ ~ Found /\ Len(dl) < UmMax
  BY DEF Mid2lInsert, Searched
<1>2. dl \in Seq(Nat) /\ Len(dl) \in Nat /\ DOMAIN dl = 1 .. Len(dl) /\ id \in Nat /\ c \in Nat \ {0}
      /\ c <= Len(dl) + 1
  BY <1>1 DEF SearchInv, ListsSound, ListTypeOK, Placed
<1>3. \A p \in DOMAIN dl : p < c <=> dl[p] < id
  BY <1>1 DEF SearchInv, SearchFinds, Mid2lInsert
<1>4. \A p, q \in DOMAIN dl : p < q => dl[p] < dl[q]
  BY DEF SearchInv, ListsSound, DirtyListSorted, Ascending
<1>5. c \in DOMAIN dl => dl[c] # id
  BY <1>1, <1>2 DEF Found
<1> HIDE DEF c, id
<1>6. ASSUME NEW p \in DOMAIN dl, p >= c
      PROVE  id < dl[p]
  <2>1. c \in DOMAIN dl /\ dl[p] \in Nat /\ dl[c] \in Nat
    BY <1>2, <1>6
  <2>2. dl[c] > id
    BY <1>2, <1>3, <1>5, <2>1
  <2>3. p = c \/ dl[c] < dl[p]
    BY <1>2, <1>4, <1>6, <2>1
  <2> QED
    BY <1>2, <2>1, <2>2, <2>3
<1>7. ASSUME NEW p \in 1 .. Len(dl) + 1
      PROVE  /\ p < c => p \in DOMAIN dl /\ longer[p] = dl[p]
             /\ p = c => longer[p] = id
             /\ p > c => p - 1 \in DOMAIN dl /\ p - 1 >= c /\ longer[p] = dl[p - 1]
  BY <1>2
<1>8. \A p \in 1 .. Len(dl) + 1 : longer[p] \in Nat
  BY <1>2, <1>7
<1>9. longer \in [1 .. Len(dl) + 1 -> Nat] /\ Len(dl) + 1 \in Nat
  BY <1>2, <1>8
<1> HIDE DEF longer
<1>10. longer \in Seq(Nat) /\ Len(longer) = Len(dl) + 1 /\ DOMAIN longer = 1 .. Len(dl) + 1
  BY <1>9, ListOf
<1>11. ASSUME NEW p \in DOMAIN longer, NEW q \in DOMAIN longer, p < q
       PROVE  longer[p] < longer[q]
  <2>1. p \in Nat /\ q \in Nat /\ p \in 1 .. Len(dl) + 1 /\ q \in 1 .. Len(dl) + 1
    BY <1>2, <1>10
  <2>2. CASE q < c
    BY <1>2, <1>4, <1>7, <1>11, <2>1, <2>2
  <2>3. CASE q = c
    BY <1>2, <1>3, <1>7, <1>11, <2>1, <2>3
  <2>4. CASE q > c /\ p < c
    <3>1. dl[p] < id /\ id < dl[q - 1] /\ longer[p] = dl[p] /\ longer[q] = dl[q - 1]
      BY <1>3, <1>6, <1>7, <2>1, <2>4
    <3>2. dl[p] \in Nat /\ dl[q - 1] \in Nat
      BY <1>2, <1>7, <2>1, <2>4
    <3> QED
      BY <1>2, <3>1, <3>2
  <2>5. CASE q > c /\ p = c
    BY <1>6, <1>7, <2>1, <2>5
  <2>6. CASE q > c /\ p > c
    <3>1. p - 1 < q - 1
      BY <1>11, <2>1
    <3> QED
      BY <1>4, <1>7, <2>1, <2>6, <3>1
  <2> QED
    BY <1>2, <2>1, <2>2, <2>3, <2>4, <2>5, <2>6
<1>12. DirtyListSorted'
  BY <1>1, <1>11 DEF DirtyListSorted, Ascending
<1>13. ListTypeOK'
  BY <1>1, <1>10 DEF SearchInv, ListsSound, ListTypeOK, NoSearch, Calls
<1>14. FitsRoom'
  BY <1>1, <1>2, <1>10, IdListAssumption DEF SearchInv, ListsSound, FitsRoom
<1> QED
  BY <1>1, <1>12, <1>13, <1>14 DEF SearchInv, ListsSound, Narrowed, Placed, SearchFinds

-----------------------------------------------------------------------------
(* Elements that change places *)

\* The elements within l .. ir have changed places with one another, the others have not.
Rearranged(next, list, l, ir) ==
    /\ next \in Seq(Nat) /\ Len(next) = Len(list)
    /\ \E f \in Bijection(DOMAIN list, DOMAIN list) : \A p \in DOMAIN list :
           /\ next[p] = list[f[p]]
           /\ l <= p /\ p <= ir => l <= f[p] /\ f[p] <= ir
           /\ ~ (l <= p /\ p <= ir) => f[p] = p

LEMMA BijectionFacts ==
    ASSUME NEW S, NEW T, NEW f \in Bijection(S, T)
    PROVE  /\ f \in [S -> T]
           /\ \A p, q \in S : f[p] = f[q] => p = q
           /\ \A t \in T : \E p \in S : f[p] = t
  BY DEF Bijection, Injection, Surjection, IsInjective

LEMMA ABijection ==
    ASSUME NEW S, NEW T, NEW f \in [S -> T],
           \A p, q \in S : f[p] = f[q] => p = q,
           \A t \in T : \E p \in S : f[p] = t
    PROVE  f \in Bijection(S, T)
  BY DEF Bijection, Injection, Surjection, IsInjective

LEMMA Composed ==
    ASSUME NEW S, NEW T, NEW U, NEW f \in Bijection(S, T), NEW g \in Bijection(T, U)
    PROVE  [p \in S |-> g[f[p]]] \in Bijection(S, U)
<1> DEFINE h == [p \in S |-> g[f[p]]]
<1>1. /\ f \in [S -> T] /\ g \in [T -> U]
      /\ \A p, q \in S : f[p] = f[q] => p = q
      /\ \A p, q \in T : g[p] = g[q] => p = q
      /\ \A t \in T : \E p \in S : f[p] = t
      /\ \A u \in U : \E t \in T : g[t] = u
  BY BijectionFacts
<1>2. h \in [S -> U] /\ \A p \in S : h[p] = g[f[p]] /\ f[p] \in T
  BY <1>1
<1> HIDE DEF h
<1>3. \A p, q \in S : h[p] = h[q] => p = q
  BY <1>1, <1>2
<1>4. \A u \in U : \E p \in S : h[p] = u
  <2> SUFFICES ASSUME NEW u \in U PROVE \E p \in S : h[p] = u
    OBVIOUS
  <2>1. PICK t \in T : g[t] = u
    BY <1>1
  <2>2. PICK p \in S : f[p] = t
    BY <1>1
  <2> QED
    BY <1>2, <2>1, <2>2
<1>5. h \in Bijection(S, U)
  BY <1>2, <1>3, <1>4, ABijection
<1> QED
  BY <1>5 DEF h

LEMMA NothingMoved ==
    ASSUME NEW list \in Seq(Nat), NEW l, NEW ir
    PROVE  Rearranged(list, list, l, ir)
<1> DEFINE f == [p \in DOMAIN list |-> p]
<1>1. f \in [DOMAIN list -> DOMAIN list] /\ \A p \in DOMAIN list : f[p] = p
  OBVIOUS
<1> HIDE DEF f
<1>2. f \in Bijection(DOMAIN list, DOMAIN list)
  BY <1>1, ABijection
<1> QED
  BY <1>1, <1>2 DEF Rearranged

LEMMA MovedTwice ==
    ASSUME NEW list \in Seq(Nat), NEW l, NEW ir, NEW mid, NEW next,
           Rearranged(mid, list, l, ir), Rearranged(next, mid, l, ir)
    PROVE  Rearranged(next, list, l, ir)
<1>1. mid \in Seq(Nat) /\ next \in Seq(Nat) /\ Len(mid) = Len(list) /\ Len(next) = Len(list)
      /\ DOMAIN mid = DOMAIN list
  BY DEF Rearranged
<1>2. PICK f \in Bijection(DOMAIN list, DOMAIN list) : \A p \in DOMAIN list :
          /\ mid[p] = list[f[p]]
          /\ l <= p /\ p <= ir => l <= f[p] /\ f[p] <= ir
          /\ ~ (l <= p /\ p <= ir) => f[p] = p
  BY DEF Rearranged
<1>3. PICK g \in Bijection(DOMAIN mid, DOMAIN mid) : \A p \in DOMAIN mid :
          /\ next[p] = mid[g[p]]
          /\ l <= p /\ p <= ir => l <= g[p] /\ g[p] <= ir
          /\ ~ (l <= p /\ p <= ir) => g[p] = p
  BY DEF Rearranged
<1> DEFINE h == [p \in DOMAIN list |-> f[g[p]]]
<1>4. h \in Bijection(DOMAIN list, DOMAIN list)
  BY <1>1, Composed
<1>5. \A p \in DOMAIN list : h[p] = f[g[p]] /\ g[p] \in DOMAIN list
  <2>1. g \in Bijection(DOMAIN list, DOMAIN list)
    BY <1>1
  <2>2. g \in [DOMAIN list -> DOMAIN list]
    BY <2>1, BijectionFacts
  <2> QED
    BY <2>2
<1> HIDE DEF h
<1>6. ASSUME NEW p \in DOMAIN list
      PROVE  /\ next[p] = list[h[p]]
             /\ l <= p /\ p <= ir => l <= h[p] /\ h[p] <= ir
             /\ ~ (l <= p /\ p <= ir) => h[p] = p
  <2> DEFINE q == g[p]
  <2>1. q \in DOMAIN list /\ h[p] = f[q] /\ p \in DOMAIN mid
    BY <1>1, <1>5
  <2>2. /\ next[p] = mid[q]
        /\ l <= p /\ p <= ir => l <= q /\ q <= ir
        /\ ~ (l <= p /\ p <= ir) => q = p
    BY <1>3, <2>1
  <2> HIDE DEF q
  <2>3. /\ mid[q] = list[f[q]]
        /\ l <= q /\ q <= ir => l <= f[q] /\ f[q] <= ir
        /\ ~ (l <= q /\ q <= ir) => f[q] = q
    BY <1>2, <2>1
  <2> QED
    BY <2>1, <2>2, <2>3
<1> QED
  BY <1>1, <1>4, <1>6 DEF Rearranged

LEMMA SwapMoves ==
    ASSUME NEW list \in Seq(Nat), NEW l \in Nat, NEW ir \in Nat,
           NEW p \in DOMAIN list, NEW q \in DOMAIN list,
           l <= p, p <= ir, l <= q, q <= ir
    PROVE  /\ Rearranged(Swap(list, p, q), list, l, ir)
           /\ Swap(list, p, q)[p] = list[q] /\ Swap(list, p, q)[q] = list[p]
           /\ \A r \in DOMAIN list : r # p /\ r # q => Swap(list, p, q)[r] = list[r]
<1> DEFINE f == [r \in DOMAIN list |-> IF r = p THEN q ELSE IF r = q THEN p ELSE r]
           next == Swap(list, p, q)
<1>1. f \in [DOMAIN list -> DOMAIN list]
      /\ \A r \in DOMAIN list : f[r] = IF r = p THEN q ELSE IF r = q THEN p ELSE r
  OBVIOUS
<1>2. /\ next \in Seq(Nat) /\ Len(next) = Len(list)
      /\ next[p] = list[q] /\ next[q] = list[p]
      /\ \A r \in DOMAIN list : r # p /\ r # q => next[r] = list[r]
  BY DEF Swap
<1> HIDE DEF f, next
<1>3. \A r \in DOMAIN list : f[f[r]] = r
  BY <1>1
<1>4. f \in Bijection(DOMAIN list, DOMAIN list)
  BY <1>1, <1>3, ABijection
<1>5. \A r \in DOMAIN list :
          /\ next[r] = list[f[r]]
          /\ l <= r /\ r <= ir => l <= f[r] /\ f[r] <= ir
          /\ ~ (l <= r /\ r <= ir) => f[r] = r
  BY <1>1, <1>2
<1> QED
  BY <1>2, <1>4, <1>5 DEF Rearranged, next

-----------------------------------------------------------------------------
(* Insertion sort *)

\* Those that element q passes on its way down, and where it ends.
Passes(list, q) == {p \in 1 .. q - 1 : \A r \in p .. q - 1 : list[r] < list[q]}

Place(list, q) == q - Cardinality(Passes(list, q))

LEMMA Inserted ==
    ASSUME NEW list, NEW q
    PROVE  InsertElement(list, q) =
               [p \in DOMAIN list |-> CASE p < Place(list, q) \/ p > q -> list[p]
                                        [] p = Place(list, q) -> list[q]
                                        [] OTHER -> list[p - 1]]
BY Zenon DEF InsertElement, Place, Passes

LEMMA IntervalSize ==
    ASSUME NEW t \in Nat, NEW q \in Nat, t <= q - 1
    PROVE  Cardinality(t .. q - 1) = q - t
<1>1. q - 1 \in Int /\ t \in Int /\ q - 1 - t + 1 = q - t
  OBVIOUS
<1>2. Cardinality(t .. q - 1) = q - 1 - t + 1
  BY <1>1, FS_Interval
<1> QED
  BY <1>1, <1>2

\* Those that an element passes are the last ones before it.
LEMMA Passed ==
    ASSUME NEW list \in Seq(Nat), NEW q \in Nat, q \in DOMAIN list
    PROVE  /\ Place(list, q) \in Nat /\ 1 <= Place(list, q) /\ Place(list, q) <= q
           /\ \A r \in Place(list, q) .. q - 1 : list[r] < list[q]
           /\ Place(list, q) > 1 => list[Place(list, q) - 1] >= list[q]
<1> DEFINE smaller == Passes(list, q)
           s == Place(list, q)
<1>1. q \in Nat /\ q >= 1 /\ \A r \in 1 .. q : r \in DOMAIN list /\ list[r] \in Nat
  OBVIOUS
<1>2. /\ \A p : p \in smaller <=> p \in 1 .. q - 1 /\ \A r \in p .. q - 1 : list[r] < list[q]
      /\ s = q - Cardinality(smaller)
  BY DEF Passes, Place
<1> HIDE DEF smaller, s
<1>3. \A p \in smaller : p \in Nat /\ 1 <= p /\ p <= q - 1
  BY <1>1, <1>2
<1>4. CASE smaller = {}
  <2>1. s = q
    <3>1. Cardinality(smaller) = 0
      BY <1>4, FS_EmptySet
    <3> QED
      BY <1>1, <1>2, <3>1
  <2>2. q > 1 => list[q - 1] >= list[q]
    <3> SUFFICES ASSUME q > 1, list[q - 1] < list[q] PROVE FALSE
      BY <1>1
    <3>1. q - 1 \in 1 .. q - 1 /\ \A r \in q - 1 .. q - 1 : r = q - 1
      BY <1>1
    <3>2. q - 1 \in smaller
      BY <1>2, <3>1
    <3> QED
      BY <1>4, <3>2
  <2>3. \A r \in q .. q - 1 : FALSE
    BY <1>1
  <2>4. s \in Nat /\ 1 <= s /\ s <= q /\ (\A r \in s .. q - 1 : list[r] < list[q])
        /\ (s > 1 => list[s - 1] >= list[q])
    BY <1>1, <2>1, <2>2, <2>3
  <2> QED
    BY <2>4 DEF s
<1>5. CASE smaller # {}
  <2>1. PICK t \in Nat : t \in smaller /\ \A k \in smaller : t <= k
    <3>1. smaller \subseteq Nat
      BY <1>3
    <3> QED
      BY <1>5, <3>1, LeastNumber
  <2>2. 1 <= t /\ t <= q - 1 /\ \A r \in t .. q - 1 : list[r] < list[q]
    BY <1>2, <1>3, <2>1
  <2>3. smaller = t .. q - 1
    <3>1. ASSUME NEW k \in t .. q - 1 PROVE k \in smaller
      <4>1. k \in 1 .. q - 1 /\ \A r \in k .. q - 1 : r \in t .. q - 1
        BY <1>1, <2>2, <3>1
      <4> QED
        BY <1>2, <2>2, <4>1
    <3>2. ASSUME NEW k \in smaller PROVE k \in t .. q - 1
      BY <1>1, <1>3, <2>1, <2>2, <3>2
    <3> QED
      BY <3>1, <3>2
  <2>4. Cardinality(smaller) = q - t
    BY <1>1, <2>2, <2>3, IntervalSize
  <2>5. s = t
    BY <1>1, <1>2, <2>2, <2>4
  <2>6. t > 1 => list[t - 1] >= list[q]
    <3> SUFFICES ASSUME t > 1, list[t - 1] < list[q] PROVE FALSE
      BY <1>1, <2>2
    <3>1. t - 1 \in 1 .. q - 1 /\ \A r \in t - 1 .. q - 1 : r = t - 1 \/ r \in t .. q - 1
      BY <1>1, <2>2
    <3>2. \A r \in t - 1 .. q - 1 : list[r] < list[q]
      BY <2>2, <3>1
    <3>3. t - 1 \in smaller
      BY <1>2, <3>1, <3>2
    <3> QED
      BY <2>1, <2>2, <3>3
  <2>7. s \in Nat /\ 1 <= s /\ s <= q /\ (\A r \in s .. q - 1 : list[r] < list[q])
        /\ (s > 1 => list[s - 1] >= list[q])
    BY <1>1, <2>2, <2>5, <2>6
  <2> QED
    BY <2>7 DEF s
<1> QED
  BY <1>4, <1>5

\* The elements of l .. ir descend, not strictly.
Falling(list, l, ir) ==
    \A p, q \in DOMAIN list : l <= p /\ p < q /\ q <= ir => list[p] >= list[q]

\* Where each element of a list comes from when element q is taken to place s.
From(s, q, p) == IF p = s THEN q ELSE IF s < p /\ p <= q THEN p - 1 ELSE p

LEMMA TakenFrom ==
    ASSUME NEW n \in Nat, NEW s \in Nat, NEW q \in Nat, 1 <= s, s <= q, q <= n
    PROVE  \E f \in Bijection(1 .. n, 1 .. n) : \A p \in 1 .. n : f[p] = From(s, q, p)
<1> DEFINE f == [p \in 1 .. n |-> From(s, q, p)]
<1>1. \A p \in 1 .. n : From(s, q, p) \in 1 .. n
  BY DEF From
<1>2. f \in [1 .. n -> 1 .. n] /\ \A p \in 1 .. n : f[p] = From(s, q, p)
  BY <1>1
<1> HIDE DEF f
<1>3. \A p, r \in 1 .. n : From(s, q, p) = From(s, q, r) => p = r
  BY DEF From
<1>4. ASSUME NEW t \in 1 .. n PROVE \E p \in 1 .. n : From(s, q, p) = t
  <2>1. CASE t = q
    <3>1. s \in 1 .. n /\ From(s, q, s) = t
      BY <2>1 DEF From
    <3> QED
      BY <3>1
  <2>2. CASE s <= t /\ t < q
    <3>1. t + 1 \in 1 .. n /\ From(s, q, t + 1) = t
      BY <2>2 DEF From
    <3> QED
      BY <3>1
  <2>3. CASE t < s \/ t > q
    <3>1. From(s, q, t) = t
      BY <2>3 DEF From
    <3> QED
      BY <3>1
  <2> QED
    BY <2>1, <2>2, <2>3
<1>5. f \in Bijection(1 .. n, 1 .. n)
  <2>1. \A p, r \in 1 .. n : f[p] = f[r] => p = r
    BY <1>2, <1>3
  <2>2. \A t \in 1 .. n : \E p \in 1 .. n : f[p] = t
    BY <1>2, <1>4
  <2> QED
    BY <1>2, <2>1, <2>2, ABijection
<1> QED
  BY <1>2, <1>5

\* It stands behind those that are not smaller, and before the smaller ones.
LEMMA TakenInOrder ==
    ASSUME NEW n \in Nat, NEW list \in [1 .. n -> Nat], NEW s \in Nat, NEW q \in Nat, NEW l \in Nat,
           1 <= l, l <= s, s <= q, q <= n,
           \A p, r \in 1 .. n : l <= p /\ p < r /\ r <= q - 1 => list[p] >= list[r],
           \A r \in s .. q - 1 : list[r] < list[q],
           s > 1 => list[s - 1] >= list[q],
           NEW p \in 1 .. n, NEW r \in 1 .. n, l <= p, p < r, r <= q
    PROVE  list[From(s, q, p)] >= list[From(s, q, r)]
<1>1. \A a, b \in 1 .. n : l <= a /\ a <= b /\ b <= q - 1 => list[a] >= list[b]
  OBVIOUS
<1>2. ASSUME p < s PROVE list[p] >= list[q]
  <2>1. s - 1 \in 1 .. n /\ p <= s - 1 /\ s - 1 <= q - 1 /\ s > 1
    BY <1>2
  <2>2. list[p] >= list[s - 1] /\ list[s - 1] >= list[q]
    BY <1>1, <2>1
  <2>3. list[p] \in Nat /\ list[s - 1] \in Nat /\ list[q] \in Nat
    BY <2>1
  <2> QED
    BY <2>2, <2>3
<1>3. CASE r < s
  BY <1>1, <1>3 DEF From
<1>4. CASE r = s
  BY <1>2, <1>4 DEF From
<1>5. CASE r > s /\ p < s
  <2>1. From(s, q, p) = p /\ From(s, q, r) = r - 1 /\ r - 1 \in 1 .. n /\ p <= r - 1 /\ r - 1 <= q - 1
    BY <1>5 DEF From
  <2> QED
    BY <1>1, <2>1
<1>6. CASE r > s /\ p = s
  <2>1. From(s, q, p) = q /\ From(s, q, r) = r - 1 /\ r - 1 \in s .. q - 1 /\ r - 1 \in 1 .. n
    BY <1>6 DEF From
  <2>2. list[r - 1] < list[q] /\ list[r - 1] \in Nat /\ list[q] \in Nat
    BY <2>1
  <2> QED
    BY <2>1, <2>2
<1>7. CASE p > s
  <2>1. /\ From(s, q, p) = p - 1 /\ From(s, q, r) = r - 1
        /\ p - 1 \in 1 .. n /\ r - 1 \in 1 .. n
        /\ l <= p - 1 /\ p - 1 <= r - 1 /\ r - 1 <= q - 1
    BY <1>7 DEF From
  <2> QED
    BY <1>1, <2>1
<1> QED
  BY <1>3, <1>4, <1>5, <1>6, <1>7

\* One element is taken to its place among those before it, and stays in its segment, as
\* what lies before the segment is not smaller.
LEMMA InsertElementSorts ==
    ASSUME NEW list \in Seq(Nat), NEW l \in Nat, NEW ir \in Nat, NEW q \in Nat, q \in DOMAIN list,
           1 <= l, l <= q, q <= ir, Falling(list, l, q - 1),
           \A p \in DOMAIN list : p < l => list[p] >= list[q]
    PROVE  /\ Rearranged(InsertElement(list, q), list, l, ir)
           /\ Falling(InsertElement(list, q), l, q)
<1> DEFINE next == InsertElement(list, q)
<1>1. PICK n \in Nat : n = Len(list)
  OBVIOUS
<1>2. DOMAIN list = 1 .. n /\ list \in [1 .. n -> Nat] /\ q \in 1 .. n /\ q <= n
  BY <1>1
<1>3. PICK s \in Nat :
          /\ 1 <= s /\ s <= q
          /\ s = Place(list, q)
          /\ \A r \in s .. q - 1 : list[r] < list[q]
          /\ s > 1 => list[s - 1] >= list[q]
  BY Passed
<1>4. /\ next = [p \in DOMAIN list |-> CASE p < Place(list, q) \/ p > q -> list[p]
                                          [] p = Place(list, q) -> list[q]
                                          [] OTHER -> list[p - 1]]
  BY Inserted, Zenon
<1> HIDE DEF next
<1>5. DOMAIN next = 1 .. n /\ \A p \in 1 .. n : next[p] = list[From(s, q, p)]
  <2>1. DOMAIN next = 1 .. n
    BY <1>2, <1>4
  <2>2. ASSUME NEW p \in 1 .. n PROVE next[p] = list[From(s, q, p)]
    <3>1. next[p] = CASE p < s \/ p > q -> list[p]
                      [] p = s -> list[q]
                      [] OTHER -> list[p - 1]
      BY <1>2, <1>3, <1>4, Zenon
    <3>2. CASE p < s
      <4>1. next[p] = list[p]
        BY <1>3, <3>1, <3>2
      <4>2. From(s, q, p) = p
        BY <1>3, <3>2 DEF From
      <4> QED
        BY <4>1, <4>2
    <3>3. CASE p = s
      BY <1>3, <3>1, <3>3 DEF From
    <3>4. CASE p > s /\ p <= q
      <4>1. next[p] = list[p - 1]
        <5>1. ~ (p < s \/ p > q) /\ p # s
          BY <1>3, <3>4
        <5> QED
          BY <3>1, <5>1, Zenon
      <4>2. From(s, q, p) = p - 1
        BY <1>3, <3>4 DEF From
      <4> QED
        BY <4>1, <4>2
    <3>5. CASE p > q
      BY <1>3, <3>1, <3>5 DEF From
    <3> QED
      BY <3>2, <3>3, <3>4, <3>5
  <2> QED
    BY <2>1, <2>2
<1>6. l <= s
  <2> SUFFICES ASSUME s < l PROVE FALSE
    BY <1>2, <1>3
  <2>1. l - 1 \in s .. q - 1 /\ l - 1 \in 1 .. n /\ l - 1 < l
    BY <1>2, <1>3
  <2>2. list[l - 1] < list[q] /\ list[l - 1] >= list[q] /\ list[l - 1] \in Nat /\ list[q] \in Nat
    BY <1>2, <1>3, <2>1
  <2> QED
    BY <2>2
<1>8. PICK f \in Bijection(1 .. n, 1 .. n) : \A p \in 1 .. n : f[p] = From(s, q, p)
  BY <1>2, <1>3, TakenFrom
<1>9. /\ f \in [1 .. n -> 1 .. n]
      /\ \A p \in 1 .. n :
             /\ l <= p /\ p <= ir => l <= f[p] /\ f[p] <= ir
             /\ ~ (l <= p /\ p <= ir) => f[p] = p
  <2>1. \A p \in 1 .. n :
             /\ l <= p /\ p <= ir => l <= From(s, q, p) /\ From(s, q, p) <= ir
             /\ ~ (l <= p /\ p <= ir) => From(s, q, p) = p
    BY <1>2, <1>3, <1>6 DEF From
  <2>2. f \in [1 .. n -> 1 .. n]
    BY BijectionFacts
  <2> QED
    BY <1>8, <2>1, <2>2
<1>10. next \in Seq(Nat) /\ Len(next) = n
  <2>1. next \in [1 .. n -> Nat]
    <3>1. \A p \in 1 .. n : next[p] \in Nat
      BY <1>2, <1>5, <1>8, <1>9
    <3> QED
      BY <1>2, <1>4, <3>1
  <2> QED
    BY <1>1, <2>1, ListOf
<1>11. Rearranged(next, list, l, ir)
  <2>1. \A p \in 1 .. n :
            /\ next[p] = list[f[p]]
            /\ l <= p /\ p <= ir => l <= f[p] /\ f[p] <= ir
            /\ ~ (l <= p /\ p <= ir) => f[p] = p
    BY <1>5, <1>8, <1>9
  <2>2. DOMAIN list = 1 .. n /\ n = Len(list)
    BY <1>1, <1>2
  <2> QED
    BY <1>10, <2>1, <2>2 DEF Rearranged
<1>12. ASSUME NEW p \in 1 .. n, NEW r \in 1 .. n, l <= p, p < r, r <= q
       PROVE  next[p] >= next[r]
  <2>1. \A a, b \in 1 .. n : l <= a /\ a < b /\ b <= q - 1 => list[a] >= list[b]
    BY <1>2 DEF Falling
  <2>2. list[From(s, q, p)] >= list[From(s, q, r)]
    BY <1>2, <1>3, <1>6, <1>12, <2>1, TakenInOrder
  <2> QED
    BY <1>5, <2>2
<1>13. Falling(next, l, q)
  BY <1>5, <1>12 DEF Falling
<1> QED
  BY <1>11, <1>13 DEF next
\* The lists that InsertionSort goes through, up to element k.
Sorts(g, list, l, k) == g = [q \in l .. k |-> IF q = l THEN list ELSE InsertElement(g[q - 1], q)]

LEMMA SortsExists ==
    ASSUME NEW list, NEW l \in Nat, NEW ir \in Nat
    PROVE  \E g : Sorts(g, list, l, ir)
<1> DEFINE Never == {k \in Nat : ~ \E g : Sorts(g, list, l, k)}
<1>1. SUFFICES ASSUME Never # {} PROVE FALSE
  BY <1>1
<1>2. PICK k \in Nat : (~ \E g : Sorts(g, list, l, k)) /\ \A m \in Never : k <= m
  <2>1. Never \in SUBSET Nat
    OBVIOUS
  <2>2. \E n \in Never : \A m \in Never : n <= m
    <3> HIDE DEF Never
    <3> QED
      BY <1>1, <2>1, LeastNumber
  <2> QED
    BY <2>2
<1>3. CASE k <= l
  <2> DEFINE g == [q \in l .. k |-> list]
  <2>1. \A q \in l .. k : q = l
    BY <1>3
  <2>2. g = [q \in l .. k |-> IF q = l THEN list ELSE InsertElement(g[q - 1], q)]
    BY <2>1
  <2> HIDE DEF g
  <2> QED
    BY <1>2, <2>2 DEF Sorts
<1>4. CASE l < k
  <2>1. k - 1 \in Nat /\ k - 1 \notin Never
    BY <1>2, <1>4
  <2>2. PICK h : Sorts(h, list, l, k - 1)
    BY <2>1
  <2> DEFINE g == [q \in l .. k |-> IF q = k THEN InsertElement(h[k - 1], k) ELSE h[q]]
  <2>3. \A q \in l .. k : g[q] = IF q = k THEN InsertElement(h[k - 1], k) ELSE h[q]
    OBVIOUS
  <2>4. g = [q \in l .. k |-> g[q]]
    OBVIOUS
  <2> HIDE DEF g, Never
  <2>5. \A q \in l .. k - 1 : h[q] = IF q = l THEN list ELSE InsertElement(h[q - 1], q)
    BY <2>2 DEF Sorts
  <2>6. ASSUME NEW q \in l .. k
        PROVE  g[q] = IF q = l THEN list ELSE InsertElement(g[q - 1], q)
    <3>1. CASE q = l
      BY <1>4, <2>3, <2>5, <3>1
    <3>2. CASE q # l
      <4>1. q - 1 \in l .. k /\ q - 1 # k /\ g[q - 1] = h[q - 1]
        BY <2>3, <3>2
      <4>2. q = k \/ q \in l .. k - 1
        OBVIOUS
      <4>3. CASE q = k
        BY <2>3, <3>2, <4>1, <4>3
      <4>4. CASE q # k
        BY <2>3, <2>5, <3>2, <4>1, <4>2, <4>4
      <4> QED
        BY <4>3, <4>4
    <3> QED
      BY <3>1, <3>2
  <2>7. Sorts(g, list, l, k)
    BY <2>4, <2>6 DEF Sorts
  <2> QED
    BY <1>2, <2>7
<1> QED
  BY <1>2, <1>3, <1>4

\* Insertion sort puts its segment in order and touches nothing else.
LEMMA InsertionSorts ==
    ASSUME NEW list \in Seq(Nat), NEW l \in Nat, NEW ir \in Nat, 1 <= l, ir <= Len(list),
           \A p, q \in DOMAIN list : p < l /\ l <= q /\ q <= ir => list[p] >= list[q]
    PROVE  /\ Rearranged(InsertionSort(list, l, ir), list, l, ir)
           /\ Falling(InsertionSort(list, l, ir), l, ir)
<1>1. CASE ir <= l
  <2>1. InsertionSort(list, l, ir) = list
    BY <1>1 DEF InsertionSort
  <2>2. Rearranged(list, list, l, ir)
    BY NothingMoved
  <2>3. Falling(list, l, ir)
    BY <1>1 DEF Falling
  <2> QED
    BY <2>1, <2>2, <2>3
<1>2. CASE l < ir
  <2> DEFINE g == CHOOSE h : h = [q \in l .. ir |->
                                     IF q = l THEN list ELSE InsertElement(h[q - 1], q)]
             Wrong == {k \in Nat : /\ l <= k /\ k <= ir
                                   /\ ~ (Rearranged(g[k], list, l, ir) /\ Falling(g[k], l, k))}
  <2>1. g = [q \in l .. ir |-> IF q = l THEN list ELSE InsertElement(g[q - 1], q)]
    <3>1. \E h : h = [q \in l .. ir |-> IF q = l THEN list ELSE InsertElement(h[q - 1], q)]
      <4>1. PICK h : Sorts(h, list, l, ir)
        BY SortsExists
      <4> QED
        BY <4>1 DEF Sorts
    <3> QED
      BY <3>1
  <2>2. InsertionSort(list, l, ir) = g[ir]
    BY <1>2 DEF InsertionSort
  <2> HIDE DEF g
  <2>3. g[l] = list /\ \A q \in l + 1 .. ir : g[q] = InsertElement(g[q - 1], q)
    BY <1>2, <2>1
  <2>4. ASSUME NEW k \in Nat, k \in Wrong, \A m \in Wrong : k <= m
        PROVE  FALSE
    <3>1. l <= k /\ k <= ir /\ ~ (Rearranged(g[k], list, l, ir) /\ Falling(g[k], l, k))
      BY <2>4
    <3>2. CASE k = l
      <4>1. Rearranged(list, list, l, ir)
        BY NothingMoved
      <4>2. Falling(list, l, l)
        BY DEF Falling
      <4> QED
        BY <2>3, <3>1, <3>2, <4>1, <4>2
    <3>3. CASE k > l
      <4>1. k - 1 \in Nat /\ l <= k - 1 /\ k - 1 <= ir /\ k - 1 \notin Wrong /\ k \in l + 1 .. ir
        BY <2>4, <3>1, <3>3
      <4>2. PICK mid : mid = g[k - 1]
        OBVIOUS
      <4>3. Rearranged(mid, list, l, ir) /\ Falling(mid, l, k - 1) /\ g[k] = InsertElement(mid, k)
        BY <2>3, <4>1, <4>2
      <4> HIDE DEF Wrong
      <4>4. mid \in Seq(Nat) /\ Len(mid) = Len(list) /\ DOMAIN mid = DOMAIN list
        BY <4>3 DEF Rearranged
      <4>5. k \in DOMAIN list
        BY <3>1
      <4>6. \A p \in DOMAIN mid : p < l => mid[p] >= mid[k]
        <5>1. PICK f \in Bijection(DOMAIN list, DOMAIN list) : \A p \in DOMAIN list :
                 /\ mid[p] = list[f[p]]
                 /\ l <= p /\ p <= ir => l <= f[p] /\ f[p] <= ir
                 /\ ~ (l <= p /\ p <= ir) => f[p] = p
          BY <4>3 DEF Rearranged
        <5>2. f[k] \in DOMAIN list /\ l <= f[k] /\ f[k] <= ir /\ mid[k] = list[f[k]]
          <6>1. f \in [DOMAIN list -> DOMAIN list]
            BY BijectionFacts
          <6> QED
            BY <3>1, <4>5, <5>1, <6>1
        <5>3. \A p \in DOMAIN list : p < l => mid[p] = list[p]
          BY <5>1
        <5> QED
          BY <4>4, <5>2, <5>3
      <4>7. Rearranged(InsertElement(mid, k), mid, l, ir) /\ Falling(InsertElement(mid, k), l, k)
        BY <3>1, <4>3, <4>4, <4>5, <4>6, InsertElementSorts
      <4>8. Rearranged(InsertElement(mid, k), list, l, ir)
        BY <4>3, <4>7, MovedTwice
      <4> QED
        BY <3>1, <4>3, <4>7, <4>8
    <3> QED
      BY <3>1, <3>2, <3>3
  <2>5. Wrong = {}
    <3>1. Wrong \in SUBSET Nat
      OBVIOUS
    <3> HIDE DEF Wrong
    <3> QED
      BY <2>4, <3>1, LeastNumber
  <2>6. Rearranged(g[ir], list, l, ir) /\ Falling(g[ir], l, ir)
    BY <1>2, <2>5
  <2> QED
    BY <2>2, <2>6
<1> QED
  BY <1>1, <1>2

-----------------------------------------------------------------------------
(* The segments of a quicksort *)

LEMMA Pushed ==
    ASSUME NEW S, NEW e \in S, NEW stack \in Seq(S)
    PROVE  /\ <<e>> \o stack \in Seq(S) /\ Len(<<e>> \o stack) = Len(stack) + 1
           /\ (<<e>> \o stack)[1] = e
           /\ \A k \in DOMAIN stack : (<<e>> \o stack)[k + 1] = stack[k]
  OBVIOUS

\* The segment at hand, with those that wait below it.
LEMMA OnStack ==
    ASSUME NEW l \in Nat, l # 0, NEW ir \in Nat, NEW stack \in Seq(Segment)
    PROVE  LET segs == <<<<l, ir>>>> \o stack IN
           /\ segs \in Seq(Segment) /\ Len(segs) = Len(stack) + 1 /\ DOMAIN segs = 1 .. Len(stack) + 1
           /\ segs[1] = <<l, ir>>
           /\ \A k \in DOMAIN stack : k + 1 \in DOMAIN segs /\ segs[k + 1] = stack[k]
           /\ \A k \in DOMAIN segs : k = 1 \/ (k - 1 \in DOMAIN stack /\ segs[k] = stack[k - 1])
           /\ \A p \in Nat : Within(p, segs[1]) <=> l <= p /\ p <= ir
<1> DEFINE segs == <<<<l, ir>>>> \o stack
<1>1. <<l, ir>> \in Segment
  BY DEF Segment
<1>2. PICK e \in Segment : e = <<l, ir>>
  BY <1>1
<1>3. segs \in Seq(Segment) /\ Len(segs) = Len(stack) + 1
  BY <1>2, Pushed
<1>4. segs[1] = <<l, ir>>
  BY <1>2, Pushed
<1>5. ASSUME NEW k \in DOMAIN stack PROVE segs[k + 1] = stack[k]
  BY <1>2, Pushed
<1> HIDE DEF segs
<1>6. DOMAIN segs = 1 .. Len(stack) + 1 /\ Len(stack) \in Nat /\ DOMAIN stack = 1 .. Len(stack)
  BY <1>3
<1>7. \A k \in DOMAIN stack : k + 1 \in DOMAIN segs /\ segs[k + 1] = stack[k]
  BY <1>5, <1>6
<1>8. ASSUME NEW k \in DOMAIN segs, k # 1
      PROVE  k - 1 \in DOMAIN stack /\ segs[k] = stack[k - 1]
  <2>1. k - 1 \in DOMAIN stack /\ (k - 1) + 1 = k
    BY <1>6, <1>8
  <2> QED
    BY <1>7, <2>1
<1>9. \A p \in Nat : Within(p, segs[1]) <=> l <= p /\ p <= ir
  BY <1>4 DEF Within
<1> QED
  BY <1>3, <1>4, <1>6, <1>7, <1>8, <1>9 DEF segs

Stacked(segs, l, ir, stack) ==
    /\ segs \in Seq(Segment) /\ Len(segs) = Len(stack) + 1 /\ DOMAIN segs = 1 .. Len(stack) + 1
    /\ 1 \in DOMAIN segs /\ segs[1] = <<l, ir>>
    /\ \A k \in DOMAIN stack : k + 1 \in DOMAIN segs /\ segs[k + 1] = stack[k]
    /\ \A k \in DOMAIN segs : k = 1 \/ (k - 1 \in DOMAIN stack /\ segs[k] = stack[k - 1])
    /\ \A p \in Nat : Within(p, segs[1]) <=> l <= p /\ p <= ir

LEMMA OneOnTop ==
    ASSUME NEW l \in Nat, l # 0, NEW ir \in Nat, NEW stack \in Seq(Segment)
    PROVE  Stacked(<<<<l, ir>>>> \o stack, l, ir, stack)
<1> DEFINE segs == <<<<l, ir>>>> \o stack
<1>1. /\ segs \in Seq(Segment) /\ Len(segs) = Len(stack) + 1 /\ DOMAIN segs = 1 .. Len(stack) + 1
      /\ segs[1] = <<l, ir>>
      /\ \A k \in DOMAIN stack : k + 1 \in DOMAIN segs /\ segs[k + 1] = stack[k]
      /\ \A k \in DOMAIN segs : k = 1 \/ (k - 1 \in DOMAIN stack /\ segs[k] = stack[k - 1])
      /\ \A p \in Nat : Within(p, segs[1]) <=> l <= p /\ p <= ir
  BY OnStack
<1> HIDE DEF segs
<1>2. 1 \in DOMAIN segs
  BY <1>1
<1>3. Stacked(segs, l, ir, stack)
  BY <1>1, <1>2 DEF Stacked
<1> QED
  BY <1>3 DEF segs

\* What comes before the segment at hand is not smaller than what is in it.
LEMMA BeforeSegment ==
    ASSUME NEW list \in Seq(Nat), NEW l \in Nat, l # 0, NEW ir \in Nat, NEW stack \in Seq(Segment),
           Apart(Len(list), <<<<l, ir>>>> \o stack), Parted(list, <<<<l, ir>>>> \o stack)
    PROVE  /\ ir <= Len(list)
           /\ \A p, q \in DOMAIN list :
                  /\ p < l /\ l <= q /\ q <= ir => list[p] >= list[q]
                  /\ l <= p /\ p <= ir /\ ir < q => list[p] >= list[q]
<1> DEFINE segs == <<<<l, ir>>>> \o stack
<1>1. /\ 1 \in DOMAIN segs /\ segs[1] = <<l, ir>>
      /\ \A p \in Nat : Within(p, segs[1]) <=> l <= p /\ p <= ir
  BY OnStack
<1> HIDE DEF segs
<1>2. Apart(Len(list), segs) /\ Parted(list, segs)
  BY DEF segs
<1>3. ir <= Len(list)
  BY <1>1, <1>2 DEF Apart
<1>4. DOMAIN list = 1 .. Len(list) /\ \A p \in DOMAIN list : p \in Nat /\ list[p] \in Nat
  OBVIOUS
<1>5. \A p, q \in DOMAIN list, k \in DOMAIN segs :
          Within(p, segs[k]) /\ Within(q, segs[k]) => (Within(p, segs[1]) <=> Within(q, segs[1]))
  BY <1>1, <1>2, <1>4 DEF Apart
<1>6. ASSUME NEW p \in DOMAIN list, NEW q \in DOMAIN list, p < q,
             ~ (Within(p, segs[1]) <=> Within(q, segs[1]))
      PROVE  list[p] >= list[q]
  BY <1>2, <1>5, <1>6 DEF Parted
<1>7. ASSUME NEW p \in Nat, NEW q \in Nat, p \in DOMAIN list, q \in DOMAIN list,
             p < l, l <= q, q <= ir
      PROVE  list[p] >= list[q]
  <2>1. p < q /\ ~ Within(p, segs[1]) /\ Within(q, segs[1])
    <3>1. p < q /\ ~ (l <= p /\ p <= ir) /\ (l <= q /\ q <= ir)
      BY <1>7
    <3> QED
      BY <1>1, <3>1
  <2> QED
    BY <1>6, <1>7, <2>1
<1>8. ASSUME NEW p \in Nat, NEW q \in Nat, p \in DOMAIN list, q \in DOMAIN list,
             l <= p, p <= ir, ir < q
      PROVE  list[p] >= list[q]
  <2>1. p < q /\ Within(p, segs[1]) /\ ~ Within(q, segs[1])
    <3>1. p < q /\ (l <= p /\ p <= ir) /\ ~ (l <= q /\ q <= ir)
      BY <1>8
    <3> QED
      BY <1>1, <3>1
  <2> QED
    BY <1>6, <1>8, <2>1
<1> QED
  BY <1>3, <1>4, <1>7, <1>8

\* Whatever is moved within the segment at hand, the segments stay apart from the rest.
LEMMA MovedInside ==
    ASSUME NEW list \in Seq(Nat), NEW next, NEW l \in Nat, l # 0, NEW ir \in Nat,
           NEW stack \in Seq(Segment),
           Apart(Len(list), <<<<l, ir>>>> \o stack), Parted(list, <<<<l, ir>>>> \o stack),
           Rearranged(next, list, l, ir)
    PROVE  Parted(next, <<<<l, ir>>>> \o stack)
<1> DEFINE segs == <<<<l, ir>>>> \o stack
<1>1. 1 \in DOMAIN segs /\ \A p \in Nat : Within(p, segs[1]) <=> l <= p /\ p <= ir
  BY OnStack
<1>2. \A p, q \in DOMAIN list :
          /\ p < l /\ l <= q /\ q <= ir => list[p] >= list[q]
          /\ l <= p /\ p <= ir /\ ir < q => list[p] >= list[q]
  BY BeforeSegment
<1> HIDE DEF segs
<1>3. Parted(list, segs)
  BY DEF segs
<1>4. /\ DOMAIN list = 1 .. Len(list) /\ DOMAIN next = DOMAIN list
      /\ \A p \in DOMAIN list : p \in Nat /\ list[p] \in Nat
  BY DEF Rearranged
<1>5. PICK f \in Bijection(DOMAIN list, DOMAIN list) : \A p \in DOMAIN list :
          /\ next[p] = list[f[p]]
          /\ l <= p /\ p <= ir => l <= f[p] /\ f[p] <= ir
          /\ ~ (l <= p /\ p <= ir) => f[p] = p
  BY DEF Rearranged
<1>6. f \in [DOMAIN list -> DOMAIN list]
  BY BijectionFacts
<1>7. ASSUME NEW p \in DOMAIN list, NEW q \in DOMAIN list, p < q
      PROVE  \/ next[p] >= next[q]
             \/ \E k \in DOMAIN segs : Within(p, segs[k]) /\ Within(q, segs[k])
  <2>1. p \in Nat /\ q \in Nat /\ f[p] \in DOMAIN list /\ f[q] \in DOMAIN list
    BY <1>4, <1>6
  <2>2. CASE l <= p /\ p <= ir /\ l <= q /\ q <= ir
    BY <1>1, <2>2
  <2>3. CASE l <= p /\ p <= ir /\ ~ (l <= q /\ q <= ir)
    <3>1. ir < q /\ f[q] = q /\ l <= f[p] /\ f[p] <= ir
      BY <1>5, <1>7, <2>1, <2>3
    <3> QED
      BY <1>2, <1>5, <2>1, <3>1
  <2>4. CASE ~ (l <= p /\ p <= ir) /\ l <= q /\ q <= ir
    <3>1. p < l /\ f[p] = p /\ l <= f[q] /\ f[q] <= ir
      BY <1>5, <1>7, <2>1, <2>4
    <3> QED
      BY <1>2, <1>5, <2>1, <3>1
  <2>5. CASE ~ (l <= p /\ p <= ir) /\ ~ (l <= q /\ q <= ir)
    <3>1. next[p] = list[p] /\ next[q] = list[q]
      BY <1>5, <2>5
    <3> QED
      BY <1>3, <1>7, <3>1 DEF Parted
  <2> QED
    BY <2>2, <2>3, <2>4, <2>5
<1>8. Parted(next, segs)
  BY <1>4, <1>7 DEF Parted
<1> QED
  BY <1>8 DEF segs

\* Once its elements descend, a segment is done with.
LEMMA SegmentDone ==
    ASSUME NEW list \in Seq(Nat), NEW l \in Nat, l # 0, NEW ir \in Nat, NEW stack \in Seq(Segment),
           Parted(list, <<<<l, ir>>>> \o stack), Falling(list, l, ir)
    PROVE  Parted(list, stack)
<1> DEFINE segs == <<<<l, ir>>>> \o stack
<1>1. /\ 1 \in DOMAIN segs /\ \A p \in Nat : Within(p, segs[1]) <=> l <= p /\ p <= ir
      /\ \A k \in DOMAIN segs : k = 1 \/ (k - 1 \in DOMAIN stack /\ segs[k] = stack[k - 1])
  BY OnStack
<1> HIDE DEF segs
<1>2. Parted(list, segs)
  BY DEF segs
<1>3. ASSUME NEW p \in DOMAIN list, NEW q \in DOMAIN list, p < q, ~ (list[p] >= list[q])
      PROVE  \E k \in DOMAIN stack : Within(p, stack[k]) /\ Within(q, stack[k])
  <2>1. PICK k \in DOMAIN segs : Within(p, segs[k]) /\ Within(q, segs[k])
    BY <1>2, <1>3 DEF Parted
  <2>2. k # 1
    <3>1. p \in Nat /\ q \in Nat
      OBVIOUS
    <3> QED
      BY <1>1, <1>3, <2>1, <3>1 DEF Falling
  <2> QED
    BY <1>1, <2>1, <2>2
<1> QED
  BY <1>3 DEF Parted

LEMMA ApartBelow ==
    ASSUME NEW n \in Nat, NEW l \in Nat, l # 0, NEW ir \in Nat, NEW stack \in Seq(Segment),
           Apart(n, <<<<l, ir>>>> \o stack)
    PROVE  Apart(n, stack)
<1> DEFINE segs == <<<<l, ir>>>> \o stack
<1>1. \A k \in DOMAIN stack : k + 1 \in DOMAIN segs /\ segs[k + 1] = stack[k] /\ k \in Nat
  BY OnStack
<1> HIDE DEF segs
<1>2. Apart(n, segs)
  BY DEF segs
<1>3. ASSUME NEW k \in DOMAIN stack, NEW m \in DOMAIN stack, NEW p \in 1 .. n,
             Within(p, stack[k]), Within(p, stack[m])
      PROVE  k = m
  <2>1. k + 1 = m + 1
    BY <1>1, <1>2, <1>3 DEF Apart
  <2> QED
    BY <1>1, <2>1
<1> QED
  BY <1>1, <1>2, <1>3 DEF Apart

-----------------------------------------------------------------------------
(* The depth of the stack *)

\* The powers of two up to that of n.
Doubles(h, n) == h = [k \in 0 .. n |-> IF k = 0 THEN 1 ELSE 2 * h[k - 1]]

LEMMA DoublesExists ==
    ASSUME NEW n \in Nat
    PROVE  \E h : Doubles(h, n)
<1> DEFINE Never == {k \in Nat : ~ \E h : Doubles(h, k)}
<1>1. SUFFICES ASSUME Never # {} PROVE FALSE
  BY <1>1
<1>2. PICK k \in Nat : k \in Never /\ \A m \in Never : k <= m
  <2>1. Never \in SUBSET Nat
    OBVIOUS
  <2> HIDE DEF Never
  <2> QED
    BY <1>1, <2>1, LeastNumber
<1>3. CASE k = 0
  <2> DEFINE h == [m \in 0 .. k |-> 1]
  <2>1. h = [m \in 0 .. k |-> IF m = 0 THEN 1 ELSE 2 * h[m - 1]]
    BY <1>3
  <2> HIDE DEF h
  <2> QED
    BY <1>2, <2>1 DEF Doubles
<1>4. CASE k > 0
  <2>1. k - 1 \in Nat /\ k - 1 \notin Never
    BY <1>2, <1>4
  <2>2. PICK g : Doubles(g, k - 1)
    BY <2>1
  <2> DEFINE h == [m \in 0 .. k |-> IF m = k THEN 2 * g[k - 1] ELSE g[m]]
  <2>3. /\ \A m \in 0 .. k : h[m] = IF m = k THEN 2 * g[k - 1] ELSE g[m]
        /\ h = [m \in 0 .. k |-> h[m]]
    OBVIOUS
  <2> HIDE DEF h
  <2>4. \A m \in 0 .. k - 1 : g[m] = IF m = 0 THEN 1 ELSE 2 * g[m - 1]
    BY <2>2 DEF Doubles
  <2>5. ASSUME NEW m \in 0 .. k
        PROVE  h[m] = IF m = 0 THEN 1 ELSE 2 * h[m - 1]
    <3>1. CASE m = 0
      BY <1>4, <2>3, <2>4, <3>1
    <3>2. CASE m > 0
      <4>1. m - 1 \in 0 .. k /\ m - 1 # k /\ h[m - 1] = g[m - 1]
        BY <2>3, <3>2
      <4>2. CASE m = k
        BY <2>3, <3>2, <4>1, <4>2
      <4>3. CASE m # k
        BY <2>3, <2>4, <3>2, <4>1, <4>3
      <4> QED
        BY <4>2, <4>3
    <3> QED
      BY <3>1, <3>2
  <2>6. Doubles(h, k)
    BY <2>3, <2>5 DEF Doubles
  <2> QED
    BY <1>2, <2>6
<1> QED
  BY <1>3, <1>4

LEMMA DoublesAgree ==
    ASSUME NEW n \in Nat, NEW m \in Nat, NEW g, NEW h, Doubles(g, n), Doubles(h, m)
    PROVE  \A k \in Nat : k <= n /\ k <= m => g[k] = h[k]
<1> DEFINE Differ == {k \in Nat : k <= n /\ k <= m /\ g[k] # h[k]}
<1>1. SUFFICES ASSUME Differ # {} PROVE FALSE
  BY <1>1
<1>2. PICK k \in Nat : k \in Differ /\ \A other \in Differ : k <= other
  <2>1. Differ \in SUBSET Nat
    OBVIOUS
  <2> HIDE DEF Differ
  <2> QED
    BY <1>1, <2>1, LeastNumber
<1>3. /\ \A p \in 0 .. n : g[p] = IF p = 0 THEN 1 ELSE 2 * g[p - 1]
      /\ \A p \in 0 .. m : h[p] = IF p = 0 THEN 1 ELSE 2 * h[p - 1]
  BY DEF Doubles
<1>4. k \in 0 .. n /\ k \in 0 .. m /\ g[k] # h[k]
  BY <1>2
<1>5. CASE k = 0
  BY <1>3, <1>4, <1>5
<1>6. CASE k > 0
  <2>1. k - 1 \in Nat /\ k - 1 \notin Differ
    BY <1>2, <1>6
  <2>2. g[k - 1] = h[k - 1]
    BY <1>4, <2>1
  <2> QED
    BY <1>3, <1>4, <1>6, <2>2
<1> QED
  BY <1>5, <1>6

LEMMA PowersOfTwo ==
    /\ PowerOfTwo[0] = 1
    /\ \A n \in Nat : PowerOfTwo[n] \in Nat /\ PowerOfTwo[n + 1] = 2 * PowerOfTwo[n]
<1> DEFINE d(n) == CHOOSE h : Doubles(h, n)
           g == [n \in Nat |-> d(n)[n]]
<1>1. \A n \in Nat : Doubles(d(n), n)
  BY DoublesExists
<1>2. \A n \in Nat : g[n] = d(n)[n]
  OBVIOUS
<1>3. g = [n \in Nat |-> g[n]]
  OBVIOUS
<1> HIDE DEF d, g
<1>4. ASSUME NEW n \in Nat
      PROVE  g[n] = IF n = 0 THEN 1 ELSE 2 * g[n - 1]
  <2>1. d(n)[n] = IF n = 0 THEN 1 ELSE 2 * d(n)[n - 1]
    BY <1>1 DEF Doubles
  <2>2. CASE n = 0
    BY <1>2, <2>1, <2>2
  <2>3. CASE n > 0
    <3>1. n - 1 \in Nat /\ n - 1 <= n
      BY <2>3
    <3>2. d(n)[n - 1] = d(n - 1)[n - 1]
      BY <1>1, <3>1, DoublesAgree
    <3> QED
      BY <1>2, <2>1, <2>3, <3>1, <3>2
  <2> QED
    BY <2>2, <2>3
<1>5. g = [n \in Nat |-> IF n = 0 THEN 1 ELSE 2 * g[n - 1]]
  BY <1>3, <1>4
<1>6. PowerOfTwo = [n \in Nat |-> IF n = 0 THEN 1 ELSE 2 * PowerOfTwo[n - 1]]
  BY <1>5 DEF PowerOfTwo
<1>7. PowerOfTwo[0] = 1 /\ \A n \in Nat : PowerOfTwo[n + 1] = 2 * PowerOfTwo[n]
  <2>1. \A n \in Nat : PowerOfTwo[n] = IF n = 0 THEN 1 ELSE 2 * PowerOfTwo[n - 1]
    BY <1>6
  <2>2. \A n \in Nat : n + 1 \in Nat /\ n + 1 # 0 /\ n + 1 - 1 = n
    OBVIOUS
  <2> QED
    BY <2>1, <2>2
<1> DEFINE Wrong == {n \in Nat : PowerOfTwo[n] \notin Nat}
<1>8. ASSUME NEW n \in Nat, n \in Wrong, \A m \in Wrong : n <= m
      PROVE  FALSE
  <2>1. n # 0
    BY <1>7, <1>8
  <2>2. n - 1 \in Nat /\ n - 1 \notin Wrong /\ n = (n - 1) + 1
    BY <1>8, <2>1
  <2>3. PowerOfTwo[n - 1] \in Nat /\ PowerOfTwo[n] = 2 * PowerOfTwo[n - 1]
    BY <1>7, <2>2
  <2> QED
    BY <1>8, <2>3
<1>9. Wrong = {}
  <2>1. Wrong \in SUBSET Nat
    OBVIOUS
  <2> HIDE DEF Wrong
  <2> QED
    BY <1>8, <2>1, LeastNumber
<1> QED
  BY <1>7, <1>9

LEMMA TimesMore ==
    ASSUME NEW a \in Nat, NEW x \in Int, NEW y \in Int, x <= y
    PROVE  a * x <= a * y
  OBVIOUS

LEMMA TwiceHalf ==
    ASSUME NEW a \in Nat, NEW x \in Int, NEW y \in Int, 2 * x <= y
    PROVE  (2 * a) * x <= a * y
  OBVIOUS

LEMMA HalvedBelow ==
    ASSUME NEW n \in Nat, NEW l \in Nat, l # 0, NEW ir \in Nat, NEW stack \in Seq(Segment),
           Halved(n, <<<<l, ir>>>> \o stack)
    PROVE  Halved(n, stack)
<1> DEFINE segs == <<<<l, ir>>>> \o stack
<1>1. /\ Len(segs) = Len(stack) + 1
      /\ \A k \in DOMAIN stack : k + 1 \in DOMAIN segs /\ segs[k + 1] = stack[k]
  BY OnStack
<1> HIDE DEF segs
<1>2. Halved(n, segs)
  BY DEF segs
<1>3. \A k \in DOMAIN stack : Len(segs) - (k + 1) = Len(stack) - k
  BY <1>1
<1> QED
  BY <1>1, <1>2, <1>3 DEF Halved

\* A segment of half the size at hand, the other part below it: what the stack says of
\* the sizes stays true.
LEMMA HalvedSplit ==
    ASSUME NEW n \in Nat, NEW l \in Nat, l # 0, NEW ir \in Nat, NEW stack \in Seq(Segment),
           Halved(n, <<<<l, ir>>>> \o stack),
           NEW a \in Nat, a # 0, NEW b \in Nat, NEW c \in Nat, c # 0, NEW d \in Nat,
           2 * (b - a + 1) <= ir - l + 1, d - c + 1 <= ir - l + 1
    PROVE  Halved(n, <<<<a, b>>>> \o (<<<<c, d>>>> \o stack))
<1> DEFINE old  == <<<<l, ir>>>> \o stack
           mid  == <<<<c, d>>>> \o stack
           next == <<<<a, b>>>> \o mid
<1>1. PICK depth \in Nat : depth = Len(stack)
  OBVIOUS
<1>2. /\ Len(old) = depth + 1 /\ DOMAIN old = 1 .. depth + 1 /\ old[1] = <<l, ir>>
      /\ \A k \in DOMAIN stack : k + 1 \in DOMAIN old /\ old[k + 1] = stack[k]
  BY <1>1, OnStack
<1>3. /\ mid \in Seq(Segment) /\ Len(mid) = depth + 1 /\ mid[1] = <<c, d>>
      /\ \A k \in DOMAIN mid : k = 1 \/ (k - 1 \in DOMAIN stack /\ mid[k] = stack[k - 1])
  BY <1>1, OnStack
<1>4. /\ Len(next) = Len(mid) + 1 /\ DOMAIN next = 1 .. Len(mid) + 1 /\ next[1] = <<a, b>>
      /\ \A k \in DOMAIN next : k = 1 \/ (k - 1 \in DOMAIN mid /\ next[k] = mid[k - 1])
  <2>1. mid \in Seq(Segment)
    BY <1>3
  <2> HIDE DEF mid
  <2>2. Stacked(next, a, b, mid)
    BY <2>1, OneOnTop
  <2> HIDE DEF next
  <2> QED
    BY <2>2 DEF Stacked
<1> HIDE DEF old, mid, next
<1>5. \A k \in DOMAIN old : PowerOfTwo[Len(old) - k] * (old[k][2] - old[k][1] + 1) <= n
  BY DEF Halved, old
<1> DEFINE size == ir - l + 1
<1>6. PICK power \in Nat : power = PowerOfTwo[depth] /\ PowerOfTwo[depth + 1] = 2 * power
  BY PowersOfTwo
<1>7. power * size <= n
  <2>1. 1 \in DOMAIN old /\ Len(old) - 1 = depth /\ old[1][1] = l /\ old[1][2] = ir
    BY <1>2
  <2> QED
    BY <1>5, <1>6, <2>1
<1>8. ASSUME NEW k \in Nat, k \in DOMAIN next
      PROVE  PowerOfTwo[Len(next) - k] * (next[k][2] - next[k][1] + 1) <= n
  <2>1. CASE k = 1
    <3>1. Len(next) - k = depth + 1 /\ next[k][1] = a /\ next[k][2] = b
      BY <1>3, <1>4, <2>1
    <3>2. (2 * power) * (b - a + 1) <= power * size
      <4>1. b - a + 1 \in Int /\ size \in Int
        OBVIOUS
      <4> QED
        BY <4>1, TwiceHalf
    <3>3. (2 * power) * (b - a + 1) \in Int /\ power * size \in Int
      OBVIOUS
    <3>4. (2 * power) * (b - a + 1) <= n
      BY <1>7, <3>2, <3>3
    <3> QED
      BY <1>6, <3>1, <3>4
  <2>2. CASE k = 2
    <3>1. Len(next) - k = depth /\ k # 1 /\ k - 1 = 1
      BY <1>3, <1>4, <2>2
    <3>2. next[k] = mid[1]
      BY <1>4, <1>8, <3>1
    <3>3. next[k][1] = c /\ next[k][2] = d
      BY <1>3, <3>2
    <3>4. power * (d - c + 1) <= power * size
      <4>1. d - c + 1 \in Int /\ size \in Int
        OBVIOUS
      <4> QED
        BY <4>1, TimesMore
    <3>5. power * (d - c + 1) \in Int /\ power * size \in Int
      OBVIOUS
    <3>6. power * (d - c + 1) <= n
      BY <1>7, <3>4, <3>5
    <3> QED
      BY <1>6, <3>1, <3>3, <3>6
  <2>3. CASE k > 2
    <3>1. k - 1 \in DOMAIN mid /\ k - 1 # 1 /\ next[k] = mid[k - 1]
      BY <1>4, <1>8, <2>3
    <3>2. (k - 1) - 1 = k - 2 /\ (k - 2) + 1 = k - 1
      OBVIOUS
    <3>3. k - 2 \in DOMAIN stack /\ mid[k - 1] = stack[k - 2]
      BY <1>3, <3>1, <3>2
    <3>4. k - 1 \in DOMAIN old /\ old[k - 1] = next[k]
      BY <1>2, <3>1, <3>2, <3>3
    <3>5. Len(old) - (k - 1) = Len(next) - k
      BY <1>2, <1>3, <1>4
    <3> QED
      BY <1>5, <3>4, <3>5
  <2> QED
    BY <1>4, <1>8, <2>1, <2>2, <2>3
<1>9. \A k \in DOMAIN next : k \in Nat
  BY <1>3, <1>4
<1>10. Halved(n, next)
  BY <1>8, <1>9 DEF Halved
<1> QED
  BY <1>10 DEF next, mid

\* The two parts lie in the segment they are parts of, apart from one another.
LEMMA ApartSplit ==
    ASSUME NEW n \in Nat, NEW l \in Nat, l # 0, NEW ir \in Nat, NEW stack \in Seq(Segment),
           Apart(n, <<<<l, ir>>>> \o stack),
           NEW a \in Nat, a # 0, NEW b \in Nat, NEW c \in Nat, c # 0, NEW d \in Nat,
           l <= a, b <= ir, l <= c, d <= ir, b < c \/ d < a
    PROVE  Apart(n, <<<<a, b>>>> \o (<<<<c, d>>>> \o stack))
<1> DEFINE old  == <<<<l, ir>>>> \o stack
           mid  == <<<<c, d>>>> \o stack
           next == <<<<a, b>>>> \o mid
<1>1. /\ 1 \in DOMAIN old /\ old[1] = <<l, ir>>
      /\ \A k \in DOMAIN stack : k + 1 \in DOMAIN old /\ old[k + 1] = stack[k]
      /\ \A p \in Nat : Within(p, old[1]) <=> l <= p /\ p <= ir
  BY OnStack
<1>2. /\ mid \in Seq(Segment) /\ mid[1] = <<c, d>>
      /\ \A k \in DOMAIN mid : k = 1 \/ (k - 1 \in DOMAIN stack /\ mid[k] = stack[k - 1])
      /\ \A p \in Nat : Within(p, mid[1]) <=> c <= p /\ p <= d
  BY OnStack
<1>3. /\ DOMAIN next = 1 .. Len(mid) + 1 /\ Len(mid) \in Nat /\ next[1] = <<a, b>>
      /\ \A k \in DOMAIN next : k = 1 \/ (k - 1 \in DOMAIN mid /\ next[k] = mid[k - 1])
      /\ \A p \in Nat : Within(p, next[1]) <=> a <= p /\ p <= b
  <2>1. mid \in Seq(Segment)
    BY <1>2
  <2> HIDE DEF mid
  <2>2. Stacked(next, a, b, mid)
    BY <2>1, OneOnTop
  <2>3. Len(mid) \in Nat
    BY <2>1
  <2> HIDE DEF next
  <2> QED
    BY <2>2, <2>3 DEF Stacked
<1> HIDE DEF old, mid, next
<1>4. Apart(n, old)
  BY DEF old
<1>5. ASSUME NEW k \in Nat, k \in DOMAIN next
      PROVE  \/ k = 1 /\ next[k] = <<a, b>>
             \/ k = 2 /\ next[k] = <<c, d>>
             \/ k > 2 /\ k - 1 \in DOMAIN old /\ next[k] = old[k - 1]
  <2>1. CASE k = 1
    BY <1>3, <2>1
  <2>2. CASE k = 2
    BY <1>2, <1>3, <1>5, <2>2
  <2>3. CASE k > 2
    <3>1. k - 1 \in DOMAIN mid /\ k - 1 # 1 /\ next[k] = mid[k - 1]
      BY <1>3, <1>5, <2>3
    <3>2. (k - 1) - 1 = k - 2 /\ (k - 2) + 1 = k - 1
      OBVIOUS
    <3>3. k - 2 \in DOMAIN stack /\ mid[k - 1] = stack[k - 2]
      BY <1>2, <3>1, <3>2
    <3> QED
      BY <1>1, <2>3, <3>1, <3>2, <3>3
  <2> QED
    BY <1>3, <1>5, <2>1, <2>2, <2>3
<1>6. \A k \in DOMAIN next : k \in Nat
  BY <1>3
<1>7. ir <= n /\ \A k \in DOMAIN old : old[k][2] <= n
  BY <1>1, <1>4 DEF Apart
<1>8. ASSUME NEW k \in DOMAIN next PROVE next[k][2] <= n
  <2>1. CASE next[k] = <<a, b>>
    BY <1>7, <2>1
  <2>2. CASE next[k] = <<c, d>>
    BY <1>7, <2>2
  <2>3. CASE k - 1 \in DOMAIN old /\ next[k] = old[k - 1]
    BY <1>7, <2>3
  <2> QED
    BY <1>5, <1>6, <2>1, <2>2, <2>3
<1>9. ASSUME NEW p \in Nat, p \in 1 .. n, NEW k \in Nat, k \in DOMAIN next, Within(p, next[k])
      PROVE  \/ k = 1 /\ a <= p /\ p <= b
             \/ k = 2 /\ c <= p /\ p <= d
             \/ k > 2 /\ ~ (l <= p /\ p <= ir) /\ k - 1 \in DOMAIN old /\ Within(p, old[k - 1])
  <2>1. CASE k = 1
    BY <1>3, <1>9, <2>1
  <2>2. CASE k = 2
    <3>1. next[k] = mid[1]
      BY <1>2, <1>5, <1>9, <2>2
    <3> QED
      BY <1>2, <1>9, <2>2, <3>1
  <2>3. CASE k > 2
    <3>1. k - 1 \in DOMAIN old /\ Within(p, old[k - 1]) /\ k - 1 # 1
      BY <1>5, <1>9, <2>3
    <3>2. ~ Within(p, old[1])
      BY <1>1, <1>4, <1>9, <3>1 DEF Apart
    <3> QED
      BY <1>1, <2>3, <3>1, <3>2
  <2> QED
    BY <1>3, <1>9, <2>1, <2>2, <2>3
<1>10. ASSUME NEW p \in Nat, p \in 1 .. n, NEW k \in Nat, k \in DOMAIN next,
              NEW m \in Nat, m \in DOMAIN next, Within(p, next[k]), Within(p, next[m])
       PROVE  k = m
  <2>1. /\ \/ k = 1 /\ a <= p /\ p <= b
           \/ k = 2 /\ c <= p /\ p <= d
           \/ k > 2 /\ ~ (l <= p /\ p <= ir) /\ k - 1 \in DOMAIN old /\ Within(p, old[k - 1])
        /\ \/ m = 1 /\ a <= p /\ p <= b
           \/ m = 2 /\ c <= p /\ p <= d
           \/ m > 2 /\ ~ (l <= p /\ p <= ir) /\ m - 1 \in DOMAIN old /\ Within(p, old[m - 1])
    BY <1>9, <1>10
  <2>2. CASE k <= 2 \/ m <= 2
    BY <2>1, <2>2
  <2>3. CASE k > 2 /\ m > 2
    <3>1. k - 1 = m - 1
      BY <1>4, <1>10, <2>1, <2>3 DEF Apart
    <3> QED
      BY <3>1
  <2> QED
    BY <2>2, <2>3
<1>11. \A p \in 1 .. n : p \in Nat
  OBVIOUS
<1>12. Apart(n, next)
  BY <1>6, <1>8, <1>10, <1>11 DEF Apart
<1> QED
  BY <1>12 DEF next, mid

\* Elements of different parts are in order.
LEMMA PartedSplit ==
    ASSUME NEW list \in Seq(Nat), NEW l \in Nat, l # 0, NEW ir \in Nat, NEW stack \in Seq(Segment),
           Parted(list, <<<<l, ir>>>> \o stack),
           NEW a \in Nat, a # 0, NEW b \in Nat, NEW c \in Nat, c # 0, NEW d \in Nat,
           \A p, q \in DOMAIN list : l <= p /\ p < q /\ q <= ir =>
               list[p] >= list[q] \/ (a <= p /\ q <= b) \/ (c <= p /\ q <= d)
    PROVE  Parted(list, <<<<a, b>>>> \o (<<<<c, d>>>> \o stack))
<1> DEFINE old  == <<<<l, ir>>>> \o stack
           mid  == <<<<c, d>>>> \o stack
           next == <<<<a, b>>>> \o mid
<1>1. /\ \A k \in DOMAIN old : k = 1 \/ (k - 1 \in DOMAIN stack /\ old[k] = stack[k - 1])
      /\ \A p \in Nat : Within(p, old[1]) <=> l <= p /\ p <= ir
  BY OnStack
<1>2. /\ mid \in Seq(Segment) /\ DOMAIN mid = 1 .. Len(stack) + 1
      /\ \A k \in DOMAIN stack : k + 1 \in DOMAIN mid /\ mid[k + 1] = stack[k]
      /\ \A p \in Nat : Within(p, mid[1]) <=> c <= p /\ p <= d
  <2>1. Stacked(mid, c, d, stack)
    BY OneOnTop
  <2> HIDE DEF mid
  <2> QED
    BY <2>1 DEF Stacked
<1>3. /\ 1 \in DOMAIN next
      /\ \A k \in DOMAIN mid : k + 1 \in DOMAIN next /\ next[k + 1] = mid[k]
      /\ \A p \in Nat : Within(p, next[1]) <=> a <= p /\ p <= b
  <2>1. mid \in Seq(Segment)
    BY <1>2
  <2> HIDE DEF mid
  <2>2. Stacked(next, a, b, mid)
    BY <2>1, OneOnTop
  <2> HIDE DEF next
  <2> QED
    BY <2>1, <2>2 DEF Stacked
<1> HIDE DEF old, mid, next
<1>4. Parted(list, old)
  BY DEF old
<1>5. 1 \in DOMAIN mid
  BY <1>2
<1>6. ASSUME NEW p \in Nat, NEW q \in Nat, p \in DOMAIN list, q \in DOMAIN list, p < q,
             ~ (list[p] >= list[q])
      PROVE  \E k \in DOMAIN next : Within(p, next[k]) /\ Within(q, next[k])
  <2>1. PICK k \in DOMAIN old : Within(p, old[k]) /\ Within(q, old[k])
    BY <1>4, <1>6 DEF Parted
  <2>2. CASE k = 1
    <3>1. l <= p /\ q <= ir
      BY <1>1, <2>1, <2>2
    <3>2. (a <= p /\ q <= b) \/ (c <= p /\ q <= d)
      BY <1>6, <3>1
    <3>3. CASE a <= p /\ q <= b
      BY <1>3, <1>6, <3>3
    <3>4. CASE c <= p /\ q <= d
      <4>1. Within(p, mid[1]) /\ Within(q, mid[1])
        BY <1>2, <1>6, <3>4
      <4> QED
        BY <1>3, <1>5, <4>1
    <3> QED
      BY <3>2, <3>3, <3>4
  <2>3. CASE k # 1
    <3>1. PICK m \in DOMAIN stack : old[k] = stack[m]
      BY <1>1, <2>3
    <3>2. m + 1 \in DOMAIN mid /\ mid[m + 1] = old[k]
      BY <1>2, <3>1
    <3> QED
      BY <1>3, <2>1, <3>2
  <2> QED
    BY <2>2, <2>3
<1>7. \A p \in DOMAIN list : p \in Nat
  OBVIOUS
<1>8. Parted(list, next)
  BY <1>6, <1>7 DEF Parted
<1> QED
  BY <1>8 DEF next, mid

-----------------------------------------------------------------------------
(* The scans of a partition *)

\* Where a scan to the right stops, and one to the left.
RightStop(list, l, i, r) ==
    /\ i + 1 <= r /\ r <= Len(list) /\ list[r] <= list[l + 1]
    /\ \A p \in i + 1 .. r - 1 : list[p] > list[l + 1]

LeftStop(list, l, j, k) ==
    /\ 1 <= k /\ k <= j - 1 /\ list[k] >= list[l + 1]
    /\ \A p \in k + 1 .. j - 1 : list[p] < list[l + 1]

\* While the scans have not crossed, the two elements they stop at change sides.
LEMMA SidesTurn ==
    ASSUME NEW list \in Seq(Nat), NEW l \in Nat, l # 0, NEW ir \in Nat, ir <= Len(list),
           NEW i \in Nat, NEW j \in Nat, Sides(list, l, ir, i, j),
           NEW r \in Nat, NEW k \in Nat, RightStop(list, l, i, r), LeftStop(list, l, j, k), r <= k
    PROVE  /\ Rearranged(Swap(list, r, k), list, l, ir)
           /\ Sides(Swap(list, r, k), l, ir, r, k)
<1> DEFINE next == Swap(list, r, k)
<1>1. PICK n \in Nat : n = Len(list)
  OBVIOUS
<1>2. DOMAIN list = 1 .. n /\ \A p \in 1 .. n : list[p] \in Nat
  BY <1>1
<1>3. /\ l + 2 <= ir /\ l + 1 <= i /\ i <= ir /\ l + 2 <= j /\ j <= ir
      /\ i < j \/ (i = j /\ j < ir)
      /\ i + 1 <= r /\ k <= j - 1 /\ r <= k /\ 1 <= l /\ ir <= n
  BY <1>1 DEF Sides, RightStop, LeftStop
<1>4. l + 2 <= r /\ r <= ir /\ k <= ir /\ k < ir /\ r \in 1 .. n /\ k \in 1 .. n /\ l \in 1 .. n
      /\ l + 1 \in 1 .. n /\ l # r /\ l # k /\ l + 1 # r /\ l + 1 # k
  BY <1>3
<1>5. /\ Rearranged(next, list, l, ir)
      /\ next[r] = list[k] /\ next[k] = list[r]
      /\ \A p \in 1 .. n : p # r /\ p # k => next[p] = list[p]
  <2>1. r \in DOMAIN list /\ k \in DOMAIN list /\ l <= r /\ r <= ir /\ l <= k /\ k <= ir
    BY <1>2, <1>3, <1>4
  <2>2. Rearranged(Swap(list, r, k), list, l, ir)
    BY <2>1, SwapMoves
  <2>3. /\ Swap(list, r, k)[r] = list[k] /\ Swap(list, r, k)[k] = list[r]
        /\ \A p \in DOMAIN list : p # r /\ p # k => Swap(list, r, k)[p] = list[p]
    BY <2>1 DEF Swap
  <2> QED
    BY <1>2, <2>2, <2>3
<1> HIDE DEF next
<1>6. next[l] = list[l] /\ next[l + 1] = list[l + 1]
  BY <1>4, <1>5
<1>7. ASSUME NEW p \in l + 2 .. r PROVE next[p] >= list[l + 1]
  <2>1. p \in 1 .. n
    BY <1>3, <1>4
  <2>2. CASE p = r
    BY <1>5, <2>2 DEF LeftStop
  <2>3. CASE p # r /\ p <= i
    BY <1>3, <1>5, <2>1, <2>3 DEF Sides
  <2>4. CASE p # r /\ i < p
    <3>1. p \in i + 1 .. r - 1 /\ p # k
      BY <1>3, <2>4
    <3>2. list[p] > list[l + 1] /\ next[p] = list[p] /\ list[p] \in Nat /\ list[l + 1] \in Nat
      BY <1>2, <1>4, <1>5, <2>1, <2>4, <3>1 DEF RightStop
    <3> QED
      BY <3>2
  <2> QED
    BY <2>2, <2>3, <2>4
<1>8. ASSUME NEW p \in k .. ir PROVE next[p] <= list[l + 1]
  <2>1. p \in 1 .. n
    BY <1>3, <1>4
  <2>2. CASE p = k
    BY <1>5, <2>2 DEF RightStop
  <2>3. CASE p # k /\ p >= j
    BY <1>3, <1>5, <2>1, <2>3 DEF Sides
  <2>4. CASE p # k /\ p < j
    <3>1. p \in k + 1 .. j - 1 /\ p # r
      BY <1>3, <2>4
    <3>2. list[p] < list[l + 1] /\ next[p] = list[p] /\ list[p] \in Nat /\ list[l + 1] \in Nat
      BY <1>2, <1>4, <1>5, <2>1, <2>4, <3>1 DEF LeftStop
    <3> QED
      BY <3>2
  <2> QED
    BY <2>2, <2>3, <2>4
<1>9. list[l] >= list[l + 1]
  BY DEF Sides
<1>10. Sides(next, l, ir, r, k)
  BY <1>3, <1>4, <1>6, <1>7, <1>8, <1>9 DEF Sides
<1> QED
  BY <1>5, <1>10 DEF next

\* When they have crossed, the pivot goes between the two sides.
LEMMA SidesEnd ==
    ASSUME NEW list \in Seq(Nat), NEW l \in Nat, l # 0, NEW ir \in Nat, ir <= Len(list),
           NEW i \in Nat, NEW j \in Nat, Sides(list, l, ir, i, j),
           NEW r \in Nat, NEW k \in Nat, RightStop(list, l, i, r), LeftStop(list, l, j, k),
           r <= ir, l + 1 <= k, k < r
    PROVE  /\ Rearranged(Swap(list, l + 1, k), list, l, ir)
           /\ \A p, q \in DOMAIN list : l <= p /\ p < q /\ q <= ir =>
                  \/ Swap(list, l + 1, k)[p] >= Swap(list, l + 1, k)[q]
                  \/ l <= p /\ q <= k - 1
                  \/ r <= p /\ q <= ir
<1> DEFINE next == Swap(list, l + 1, k)
<1>1. PICK n \in Nat : n = Len(list)
  OBVIOUS
<1>2. DOMAIN list = 1 .. n /\ \A p \in 1 .. n : list[p] \in Nat
  BY <1>1
<1>3. /\ l + 2 <= ir /\ l + 1 <= i /\ i <= ir /\ l + 2 <= j /\ j <= ir
      /\ i + 1 <= r /\ k <= j - 1 /\ 1 <= l /\ ir <= n
  BY <1>1 DEF Sides, RightStop, LeftStop
<1>4. l + 1 \in 1 .. n /\ k \in 1 .. n /\ l <= l + 1 /\ l + 1 <= ir /\ l <= k /\ k <= ir /\ l + 1 \in Nat
  BY <1>3
<1>5. /\ Rearranged(next, list, l, ir)
      /\ next[l + 1] = list[k] /\ next[k] = list[l + 1]
      /\ \A p \in 1 .. n : p # l + 1 /\ p # k => next[p] = list[p]
  <2>1. /\ l + 1 \in DOMAIN list /\ k \in DOMAIN list
        /\ l <= l + 1 /\ l + 1 <= ir /\ l <= k /\ k <= ir
    BY <1>2, <1>3, <1>4
  <2>2. /\ Rearranged(Swap(list, l + 1, k), list, l, ir)
        /\ Swap(list, l + 1, k)[l + 1] = list[k] /\ Swap(list, l + 1, k)[k] = list[l + 1]
        /\ \A p \in DOMAIN list : p # l + 1 /\ p # k => Swap(list, l + 1, k)[p] = list[p]
    BY <2>1, SwapMoves
  <2> QED
    BY <1>2, <2>2
<1> HIDE DEF next
<1>6. PICK pivot \in Nat : pivot = list[l + 1]
  BY <1>2, <1>4
<1>7. ASSUME NEW p \in Nat, l <= p, p < r PROVE next[p] \in Nat /\ next[p] >= pivot
  <2>1. p \in 1 .. n
    BY <1>3, <1>7
  <2>2. CASE p = k
    BY <1>5, <1>6, <2>2
  <2>3. CASE p = l + 1
    BY <1>2, <1>4, <1>5, <1>6, <2>3 DEF LeftStop
  <2>4. CASE p # l + 1 /\ p # k /\ p = l
    BY <1>2, <1>5, <1>6, <2>1, <2>4 DEF Sides
  <2>5. CASE p # l + 1 /\ p # k /\ p # l /\ p <= i
    <3>1. p \in l + 2 .. i
      BY <1>7, <2>5
    <3> QED
      BY <1>2, <1>5, <1>6, <2>1, <2>5, <3>1 DEF Sides
  <2>6. CASE p # l + 1 /\ p # k /\ p # l /\ i < p
    <3>1. p \in i + 1 .. r - 1
      BY <1>7, <2>6
    <3>2. list[p] > pivot /\ next[p] = list[p] /\ list[p] \in Nat
      BY <1>2, <1>5, <1>6, <2>1, <2>6, <3>1 DEF RightStop
    <3> QED
      BY <3>2
  <2> QED
    BY <2>2, <2>3, <2>4, <2>5, <2>6
<1>8. ASSUME NEW p \in Nat, k <= p, p <= ir PROVE next[p] \in Nat /\ next[p] <= pivot
  <2>1. p \in 1 .. n
    BY <1>3, <1>8
  <2>2. CASE p = k
    BY <1>5, <1>6, <2>2
  <2>3. CASE p # k /\ p < j
    <3>1. p \in k + 1 .. j - 1 /\ p # l + 1
      BY <1>8, <2>3
    <3>2. list[p] < pivot /\ next[p] = list[p] /\ list[p] \in Nat
      BY <1>2, <1>5, <1>6, <2>1, <2>3, <3>1 DEF LeftStop
    <3> QED
      BY <3>2
  <2>4. CASE p # k /\ p >= j
    <3>1. p \in j .. ir /\ p # l + 1
      BY <1>3, <1>8, <2>4
    <3> QED
      BY <1>2, <1>5, <1>6, <2>1, <2>4, <3>1 DEF Sides
  <2> QED
    BY <2>2, <2>3, <2>4
<1>9. ASSUME NEW p \in Nat, NEW q \in Nat, l <= p, p < q, q <= ir,
             ~ (l <= p /\ q <= k - 1), ~ (r <= p /\ q <= ir)
      PROVE  next[p] >= next[q]
  <2>1. p < r /\ k <= q /\ p <= ir /\ l <= q
    BY <1>9
  <2>2. next[p] \in Nat /\ next[p] >= pivot /\ next[q] \in Nat /\ next[q] <= pivot
    BY <1>7, <1>8, <1>9, <2>1
  <2> QED
    BY <2>2
<1>10. \A p \in DOMAIN list : p \in Nat
  BY <1>2
<1> QED
  BY <1>5, <1>9, <1>10 DEF next

LEMMA SwapIfLessMoves ==
    ASSUME NEW list \in Seq(Nat), NEW l \in Nat, NEW ir \in Nat, l # 0, ir <= Len(list),
           NEW p \in l .. ir, NEW q \in l .. ir, p # q
    PROVE  /\ Rearranged(SwapIfLess(list, p, q), list, l, ir)
           /\ SwapIfLess(list, p, q)[p] >= SwapIfLess(list, p, q)[q]
           /\ \/ /\ SwapIfLess(list, p, q)[p] = list[p] /\ SwapIfLess(list, p, q)[q] = list[q]
              \/ /\ SwapIfLess(list, p, q)[p] = list[q] /\ SwapIfLess(list, p, q)[q] = list[p]
                 /\ list[p] < list[q]
           /\ \A m \in l .. ir : m # p /\ m # q => SwapIfLess(list, p, q)[m] = list[m]
<1>1. /\ p \in DOMAIN list /\ q \in DOMAIN list /\ l <= p /\ p <= ir /\ l <= q /\ q <= ir
      /\ list[p] \in Nat /\ list[q] \in Nat
      /\ \A m \in l .. ir : m \in DOMAIN list
  OBVIOUS
<1>2. CASE list[p] < list[q]
  <2>1. SwapIfLess(list, p, q) = Swap(list, p, q)
    BY <1>2 DEF SwapIfLess
  <2>2. Rearranged(Swap(list, p, q), list, l, ir)
    BY <1>1, SwapMoves
  <2>3. /\ Swap(list, p, q)[p] = list[q] /\ Swap(list, p, q)[q] = list[p]
        /\ \A m \in DOMAIN list : m # p /\ m # q => Swap(list, p, q)[m] = list[m]
    BY <1>1 DEF Swap
  <2> QED
    BY <1>1, <1>2, <2>1, <2>2, <2>3
<1>3. CASE ~ (list[p] < list[q])
  <2>1. SwapIfLess(list, p, q) = list
    BY <1>3 DEF SwapIfLess
  <2>2. Rearranged(list, list, l, ir)
    BY NothingMoved
  <2> QED
    BY <1>1, <1>3, <2>1, <2>2
<1> QED
  BY <1>2, <1>3

\* The list as a partition begins with it.
Median(list, l, ir) ==
    LET s1 == Swap(list, (l + ir) \div 2, l + 1)
        s2 == SwapIfLess(s1, l, ir)
        s3 == SwapIfLess(s2, l + 1, ir)
    IN SwapIfLess(s3, l, l + 1)

\* The median of three is the pivot, between the ends of the segment.
LEMMA MedianOfThree ==
    ASSUME NEW list \in Seq(Nat), NEW l \in Nat, NEW ir \in Nat, l # 0, ir <= Len(list), l + 2 <= ir
    PROVE  /\ Rearranged(Median(list, l, ir), list, l, ir)
           /\ Median(list, l, ir)[l] >= Median(list, l, ir)[l + 1]
           /\ Median(list, l, ir)[l + 1] >= Median(list, l, ir)[ir]
<1> DEFINE s1 == Swap(list, (l + ir) \div 2, l + 1)
           s2 == SwapIfLess(s1, l, ir)
           s3 == SwapIfLess(s2, l + 1, ir)
           s4 == SwapIfLess(s3, l, l + 1)
<1>1. /\ l \in l .. ir /\ l + 1 \in l .. ir /\ ir \in l .. ir
      /\ l # ir /\ l + 1 # ir /\ l # l + 1
  OBVIOUS
<1>2. PICK m \in Nat : m = (l + ir) \div 2 /\ l <= m /\ m <= ir
  OBVIOUS
<1>3. Rearranged(s1, list, l, ir)
  <2>1. /\ m \in DOMAIN list /\ l + 1 \in DOMAIN list /\ l <= l + 1 /\ l + 1 <= ir
    BY <1>2
  <2>2. Rearranged(Swap(list, m, l + 1), list, l, ir)
    BY <1>2, <2>1, SwapMoves
  <2> QED
    BY <1>2, <2>2
<1> HIDE DEF s1
<1>4. s1 \in Seq(Nat) /\ ir <= Len(s1)
  BY <1>3 DEF Rearranged
<1>5. /\ Rearranged(s2, s1, l, ir) /\ s2[l] >= s2[ir]
  BY <1>1, <1>4, SwapIfLessMoves
<1> HIDE DEF s2
<1>6. s2 \in Seq(Nat) /\ ir <= Len(s2)
  BY <1>4, <1>5 DEF Rearranged
<1>7. /\ Rearranged(s3, s2, l, ir) /\ s3[l + 1] >= s3[ir]
      /\ \/ s3[l + 1] = s2[l + 1] /\ s3[ir] = s2[ir]
         \/ s3[l + 1] = s2[ir] /\ s3[ir] = s2[l + 1] /\ s2[l + 1] < s2[ir]
      /\ s3[l] = s2[l]
  BY <1>1, <1>6, SwapIfLessMoves
<1> HIDE DEF s3
<1>8. s3 \in Seq(Nat) /\ ir <= Len(s3)
  BY <1>6, <1>7 DEF Rearranged
<1>9. /\ Rearranged(s4, s3, l, ir) /\ s4[l] >= s4[l + 1]
      /\ \/ s4[l] = s3[l] /\ s4[l + 1] = s3[l + 1]
         \/ s4[l] = s3[l + 1] /\ s4[l + 1] = s3[l] /\ s3[l] < s3[l + 1]
      /\ s4[ir] = s3[ir]
  BY <1>1, <1>8, SwapIfLessMoves
<1> HIDE DEF s4
<1>10. Rearranged(s2, list, l, ir)
  BY <1>3, <1>5, MovedTwice
<1>11. Rearranged(s3, list, l, ir)
  BY <1>7, <1>10, MovedTwice
<1>12. Rearranged(s4, list, l, ir)
  BY <1>9, <1>11, MovedTwice
<1>13. s4[l + 1] >= s4[ir]
  <2>1. /\ s2[l] \in Nat /\ s2[l + 1] \in Nat /\ s2[ir] \in Nat
        /\ s3[l] \in Nat /\ s3[l + 1] \in Nat /\ s3[ir] \in Nat
    <3>1. \A p \in 1 .. ir : s2[p] \in Nat
      BY <1>6
    <3>2. \A p \in 1 .. ir : s3[p] \in Nat
      BY <1>8
    <3>3. l \in 1 .. ir /\ l + 1 \in 1 .. ir /\ ir \in 1 .. ir
      OBVIOUS
    <3> QED
      BY <3>1, <3>2, <3>3
  <2> QED
    BY <1>5, <1>7, <1>9, <2>1
<1> QED
  BY <1>9, <1>12, <1>13 DEF Median, s4, s3, s2, s1

-----------------------------------------------------------------------------
(* What a sort holds *)

LEMMA PermutedSelf ==
    ASSUME NEW list \in Seq(Nat)
    PROVE  Permuted(list, list)
<1>1. Rearranged(list, list, 0, 0)
  BY NothingMoved
<1> QED
  BY <1>1 DEF Rearranged, Permuted

LEMMA PermutedOn ==
    ASSUME NEW list \in Seq(Nat), NEW from \in Seq(Nat), NEW next, NEW l, NEW ir,
           Permuted(list, from), Rearranged(next, list, l, ir)
    PROVE  Permuted(next, from)
<1>1. PICK f \in Bijection(DOMAIN list, DOMAIN from) : \A p \in DOMAIN list : list[p] = from[f[p]]
  BY DEF Permuted
<1>2. PICK g \in Bijection(DOMAIN list, DOMAIN list) : \A p \in DOMAIN list : next[p] = list[g[p]]
  BY DEF Rearranged
<1>3. DOMAIN next = DOMAIN list
  BY DEF Rearranged
<1> DEFINE h == [p \in DOMAIN list |-> f[g[p]]]
<1>4. h \in Bijection(DOMAIN list, DOMAIN from)
  BY Composed
<1>5. \A p \in DOMAIN list : h[p] = f[g[p]] /\ g[p] \in DOMAIN list
  <2>1. g \in [DOMAIN list -> DOMAIN list]
    BY BijectionFacts
  <2> QED
    BY <2>1
<1> HIDE DEF h
<1>6. \A p \in DOMAIN list : next[p] = from[h[p]]
  BY <1>1, <1>2, <1>5
<1> QED
  BY <1>3, <1>4, <1>6 DEF Permuted

\* It holds each number as often.
LEMMA CountsAgree ==
    ASSUME NEW list \in Seq(Nat), NEW from \in Seq(Nat), Permuted(list, from), NEW id
    PROVE  Count(list, id) = Count(from, id)
<1>1. PICK f \in Bijection(DOMAIN list, DOMAIN from) : \A p \in DOMAIN list : list[p] = from[f[p]]
  BY DEF Permuted
<1> DEFINE S == {p \in DOMAIN list : list[p] = id}
           T == {p \in DOMAIN from : from[p] = id}
           g == [p \in S |-> f[p]]
<1>2. /\ f \in [DOMAIN list -> DOMAIN from]
      /\ \A p, q \in DOMAIN list : f[p] = f[q] => p = q
      /\ \A t \in DOMAIN from : \E p \in DOMAIN list : f[p] = t
  BY BijectionFacts
<1>3. g \in [S -> T] /\ \A p \in S : g[p] = f[p]
  BY <1>1, <1>2
<1>4. \A p, q \in S : g[p] = g[q] => p = q
  BY <1>2, <1>3
<1>5. ASSUME NEW t \in T PROVE \E p \in S : g[p] = t
  <2>1. PICK p \in DOMAIN list : f[p] = t
    BY <1>2
  <2>2. p \in S
    BY <1>1, <2>1
  <2> QED
    BY <1>3, <2>1, <2>2
<1>6. IsFiniteSet(S)
  <2>1. IsFiniteSet(DOMAIN list)
    <3>1. DOMAIN list = 1 .. Len(list) /\ 1 \in Int /\ Len(list) \in Int
      OBVIOUS
    <3> QED
      BY <3>1, FS_Interval
  <2> QED
    BY <2>1, FS_Subset
<1> HIDE DEF S, T, g
<1>7. g \in Bijection(S, T)
  BY <1>3, <1>4, <1>5, ABijection
<1>8. Cardinality(S) = Cardinality(T)
  BY <1>6, <1>7, FS_Bijection DEF ExistsBijection
<1> QED
  BY <1>8 DEF Count, S, T

-----------------------------------------------------------------------------
(* The steps of a sort *)

ListsInv == SearchInv /\ SortInv

\* What is known while a sort goes on.
LEMMA AtHand ==
    ASSUME ListsInv, Sorting
    PROVE  /\ sort.l \in Nat /\ sort.l # 0 /\ sort.ir \in Nat /\ sort.i \in Nat /\ sort.j \in Nat
           /\ sort.stack \in Seq(Segment) /\ ids \in Seq(Nat) /\ given \in Seq(Nat)
           /\ Apart(Len(ids), <<<<sort.l, sort.ir>>>> \o sort.stack)
           /\ Parted(ids, <<<<sort.l, sort.ir>>>> \o sort.stack)
           /\ Halved(Len(ids), <<<<sort.l, sort.ir>>>> \o sort.stack)
           /\ Permuted(ids, given)
           /\ sort.ir <= Len(ids)
<1>1. /\ sort.l \in Nat /\ sort.l # 0 /\ sort.ir \in Nat /\ sort.i \in Nat /\ sort.j \in Nat
      /\ sort.stack \in Seq(Segment) /\ ids \in Seq(Nat) /\ given \in Seq(Nat)
  BY DEF ListsInv, SortInv, SortType, SearchInv, ListsSound, ListTypeOK
<1>2. /\ Apart(Len(ids), <<<<sort.l, sort.ir>>>> \o sort.stack)
      /\ Parted(ids, <<<<sort.l, sort.ir>>>> \o sort.stack)
      /\ Halved(Len(ids), <<<<sort.l, sort.ir>>>> \o sort.stack)
      /\ Permuted(ids, given)
  BY DEF ListsInv, SortInv, Segmented, Segments
<1>3. sort.ir <= Len(ids)
  BY <1>1, <1>2, BeforeSegment
<1> QED
  BY <1>1, <1>2, <1>3

\* A step of a sort leaves the lists what they are taken for.
LEMMA SortStepSound ==
    ASSUME ListsInv, Sorting, NEW l, NEW ir, Rearranged(ids', ids, l, ir), UNCHANGED <<room, dl, search>>,
           call' \in {"none", "sort", "partition"}, given' \in Seq(Nat), sort' \in SortType
    PROVE  SearchInv'
<1>1. ids' \in Seq(Nat) /\ Len(ids') = Len(ids)
  BY DEF Rearranged
<1>2. ListTypeOK'
  BY <1>1 DEF ListsInv, SearchInv, ListsSound, ListTypeOK, SortType, Calls
<1>3. FitsRoom'
  BY <1>1 DEF ListsInv, SearchInv, ListsSound, FitsRoom, Sorting
<1>4. DirtyListSorted'
  BY DEF ListsInv, SearchInv, ListsSound, DirtyListSorted, Ascending
<1> QED
  BY <1>2, <1>3, <1>4 DEF SearchInv, ListsSound, Narrowed, Placed, SearchFinds

\* A segment is sorted by insertion, and what it was part of is in order but for the
\* segments that wait.
LEMMA SmallSorted ==
    ASSUME ListsInv, Sorting
    PROVE  /\ Rearranged(InsertionSort(ids, sort.l, sort.ir), ids, sort.l, sort.ir)
           /\ Parted(InsertionSort(ids, sort.l, sort.ir), sort.stack)
<1>1. PICK l \in Nat, ir \in Nat : l = sort.l /\ ir = sort.ir
  BY AtHand
<1>2. PICK stack \in Seq(Segment) : stack = sort.stack
  BY AtHand
<1>3. /\ l # 0 /\ ids \in Seq(Nat) /\ ir <= Len(ids)
      /\ Apart(Len(ids), <<<<l, ir>>>> \o stack) /\ Parted(ids, <<<<l, ir>>>> \o stack)
  BY <1>1, <1>2, AtHand
<1> DEFINE next == InsertionSort(ids, l, ir)
<1>4. Rearranged(next, ids, l, ir) /\ Falling(next, l, ir)
  <2>1. \A p, q \in DOMAIN ids : p < l /\ l <= q /\ q <= ir => ids[p] >= ids[q]
    BY <1>3, BeforeSegment
  <2>2. 1 <= l
    BY <1>3
  <2> QED
    BY <1>3, <2>1, <2>2, InsertionSorts
<1> HIDE DEF next
<1>5. next \in Seq(Nat)
  BY <1>4 DEF Rearranged
<1>6. Parted(next, <<<<l, ir>>>> \o stack)
  BY <1>3, <1>4, MovedInside
<1>7. Parted(next, stack)
  BY <1>3, <1>4, <1>5, <1>6, SegmentDone
<1> QED
  BY <1>1, <1>2, <1>4, <1>7 DEF next

LEMMA TopAndRest ==
    ASSUME NEW stack \in Seq(Segment), stack # <<>>
    PROVE  /\ Head(stack)[1] \in Nat \ {0} /\ Head(stack)[2] \in Nat /\ Tail(stack) \in Seq(Segment)
           /\ <<<<Head(stack)[1], Head(stack)[2]>>>> \o Tail(stack) = stack
<1>1. Head(stack) \in Segment /\ Tail(stack) \in Seq(Segment)
  OBVIOUS
<1>2. Head(stack)[1] \in Nat \ {0} /\ Head(stack)[2] \in Nat
      /\ <<Head(stack)[1], Head(stack)[2]>> = Head(stack)
  BY <1>1 DEF Segment
<1>3. <<Head(stack)>> \o Tail(stack) = stack
  OBVIOUS
<1> QED
  BY <1>1, <1>2, <1>3

LEMMA SortBeginsKeeps ==
    ASSUME ListsInv, SortBegins
    PROVE  ListsInv'
<1>1. /\ call' = "sort" /\ given' = ids /\ ids' = ids /\ room' = room /\ dl' = dl
      /\ search' = NoSearch /\ Idle
      /\ sort' = [NoSort EXCEPT !.ir = Len(ids)]
  BY DEF SortBegins, listVars
<1>2. ids \in Seq(Nat) /\ Len(ids) \in Nat
  BY DEF ListsInv, SearchInv, ListsSound, ListTypeOK
<1>3. /\ sort'.l = 1 /\ sort'.ir = Len(ids) /\ sort'.i = 0 /\ sort'.j = 0 /\ sort'.stack = <<>>
      /\ sort' \in SortType
  <2>1. sort' = [l |-> 1, ir |-> Len(ids), i |-> 0, j |-> 0, stack |-> <<>>]
    BY <1>1 DEF NoSort
  <2>2. <<>> \in Seq(Segment)
    OBVIOUS
  <2> QED
    BY <1>2, <2>1, <2>2 DEF SortType
<1>4. SearchInv'
  <2>1. ListTypeOK'
    BY <1>1, <1>2, <1>3 DEF ListsInv, SearchInv, ListsSound, ListTypeOK, NoSearch, Calls
  <2>2. FitsRoom' /\ DirtyListSorted'
    BY <1>1 DEF ListsInv, SearchInv, ListsSound, FitsRoom, DirtyListSorted, Ascending, Idle
  <2> QED
    BY <1>1, <2>1, <2>2 DEF SearchInv, ListsSound, Narrowed, Placed, SearchFinds
<1>5. Permuted(ids', given')
  BY <1>1, <1>2, PermutedSelf
<1> DEFINE n == Len(ids)
           segs == <<<<1, n>>>> \o <<>>
<1>6. Segments' = segs
  BY <1>3 DEF Segments
<1>7. Stacked(segs, 1, n, <<>>)
  <2>1. PICK stack \in Seq(Segment) : stack = <<>>
    <3>1. <<>> \in Seq(Segment)
      OBVIOUS
    <3> QED
      BY <3>1
  <2>2. PICK l \in Nat : l = 1 /\ l # 0
    OBVIOUS
  <2>3. PICK ir \in Nat : ir = n
    BY <1>2
  <2>4. Stacked(<<<<l, ir>>>> \o stack, l, ir, stack)
    BY <2>2, OneOnTop
  <2> QED
    BY <2>1, <2>2, <2>3, <2>4
<1> HIDE DEF segs
<1>8. /\ DOMAIN segs = {1} /\ Len(segs) = 1 /\ segs[1][1] = 1 /\ segs[1][2] = n
      /\ \A p \in Nat : Within(p, segs[1]) <=> 1 <= p /\ p <= n
  BY <1>7 DEF Stacked
<1>9. Apart(n, segs)
  BY <1>2, <1>8 DEF Apart
<1>10. Parted(ids, segs)
  <2>1. \A p \in DOMAIN ids : p \in Nat /\ 1 <= p /\ p <= n
    BY <1>2
  <2> QED
    BY <1>8, <2>1 DEF Parted
<1>11. Halved(n, segs)
  <2>1. PowerOfTwo[Len(segs) - 1] = 1
    BY <1>8, PowersOfTwo
  <2>2. 1 * (n - 1 + 1) <= n
    BY <1>2
  <2> QED
    BY <1>8, <2>1, <2>2 DEF Halved
<1>12. Segmented'
  BY <1>1, <1>6, <1>9, <1>10, <1>11 DEF Segmented
<1> QED
  BY <1>1, <1>3, <1>4, <1>5, <1>12 DEF ListsInv, SortInv, Partitioned

\* A small segment is sorted, and the next one comes off the stack.
LEMMA SortSmallKeeps ==
    ASSUME ListsInv, SortSmall
    PROVE  ListsInv'
<1>1. /\ call = "sort" /\ Sorting /\ UNCHANGED <<room, dl, search>>
      /\ ids' = InsertionSort(ids, sort.l, sort.ir)
  BY DEF SortSmall, Sorting
<1>2. /\ Rearranged(ids', ids, sort.l, sort.ir) /\ Parted(ids', sort.stack)
      /\ ids' \in Seq(Nat) /\ Len(ids') = Len(ids)
  BY <1>1, SmallSorted DEF Rearranged
<1>3. Permuted(ids', given)
  BY <1>1, <1>2, AtHand, PermutedOn
<1>4. CASE sort.stack = <<>>
  <2>1. call' = "none" /\ sort' = NoSort /\ given' = <<>>
    BY <1>4 DEF SortSmall
  <2>2. <<>> \in Seq(Segment) /\ <<>> \in Seq(Nat)
    OBVIOUS
  <2>3. sort' \in SortType
    BY <2>1, <2>2 DEF NoSort, SortType
  <2>4. SearchInv'
    BY <1>1, <1>2, <2>1, <2>2, <2>3, SortStepSound
  <2> QED
    BY <2>1, <2>3, <2>4 DEF ListsInv, SortInv, Segmented, Partitioned, Sorting
<1>5. CASE sort.stack # <<>>
  <2>1. /\ call' = "sort" /\ given' = given /\ given \in Seq(Nat) /\ sort \in SortType
        /\ sort' = [sort EXCEPT !.l = Head(sort.stack)[1], !.ir = Head(sort.stack)[2],
                                !.stack = Tail(@)]
    BY <1>1, <1>5 DEF SortSmall, ListsInv, SortInv, SearchInv, ListsSound, ListTypeOK
  <2>2. PICK stack \in Seq(Segment) : stack = sort.stack /\ stack # <<>>
    BY <1>1, <1>5, AtHand
  <2>3. /\ Head(stack)[1] \in Nat \ {0} /\ Head(stack)[2] \in Nat /\ Tail(stack) \in Seq(Segment)
        /\ <<<<Head(stack)[1], Head(stack)[2]>>>> \o Tail(stack) = stack
    BY <2>2, TopAndRest
  <2>4. /\ sort'.l = Head(stack)[1] /\ sort'.ir = Head(stack)[2] /\ sort'.stack = Tail(stack)
        /\ sort' \in SortType
    BY <2>1, <2>2, <2>3 DEF SortType
  <2>5. Segments' = stack
    BY <2>3, <2>4 DEF Segments
  <2>6. PICK l \in Nat, ir \in Nat, n \in Nat :
            l = sort.l /\ l # 0 /\ ir = sort.ir /\ n = Len(ids)
    BY <1>1, AtHand
  <2>7. Apart(n, <<<<l, ir>>>> \o stack) /\ Halved(n, <<<<l, ir>>>> \o stack)
    BY <1>1, <2>2, <2>6, AtHand
  <2>8. Apart(n, stack) /\ Halved(n, stack)
    BY <2>6, <2>7, ApartBelow, HalvedBelow
  <2>9. Segmented'
    BY <1>2, <2>2, <2>5, <2>6, <2>8 DEF Segmented
  <2>10. SearchInv'
    BY <1>1, <1>2, <2>1, <2>4, SortStepSound
  <2> QED
    BY <1>3, <2>1, <2>4, <2>9, <2>10 DEF ListsInv, SortInv, Partitioned
<1> QED
  BY <1>4, <1>5

\* Nothing but the elements of the segment at hand has moved: what is known of the
\* segments stays.
LEMMA SegmentedStays ==
    ASSUME ListsInv, Sorting, Rearranged(ids', ids, sort.l, sort.ir),
           sort'.l = sort.l, sort'.ir = sort.ir, sort'.stack = sort.stack
    PROVE  Segmented'
<1>1. PICK l \in Nat, ir \in Nat : l = sort.l /\ l # 0 /\ ir = sort.ir
  BY AtHand
<1>2. PICK stack \in Seq(Segment) : stack = sort.stack
  BY AtHand
<1>3. /\ ids \in Seq(Nat) /\ Len(ids') = Len(ids)
      /\ Apart(Len(ids), <<<<l, ir>>>> \o stack) /\ Parted(ids, <<<<l, ir>>>> \o stack)
      /\ Halved(Len(ids), <<<<l, ir>>>> \o stack)
  BY <1>1, <1>2, AtHand DEF Rearranged
<1>4. Parted(ids', <<<<l, ir>>>> \o stack)
  BY <1>1, <1>3, MovedInside
<1>5. Segments' = <<<<l, ir>>>> \o stack
  BY <1>1, <1>2 DEF Segments
<1> QED
  BY <1>3, <1>4, <1>5 DEF Segmented

LEMMA PartitionBeginsKeeps ==
    ASSUME ListsInv, PartitionBegins
    PROVE  ListsInv'
<1>1. /\ call = "sort" /\ call' = "partition" /\ Sorting /\ UNCHANGED <<room, dl, search, given>>
      /\ ids' = Median(ids, sort.l, sort.ir) /\ sort.ir - sort.l >= Small
      /\ sort' = [sort EXCEPT !.i = sort.l + 1, !.j = sort.ir] /\ sort \in SortType
  BY DEF PartitionBegins, Sorting, Median, ListsInv, SortInv
<1>2. PICK l \in Nat, ir \in Nat : l = sort.l /\ l # 0 /\ ir = sort.ir
  BY <1>1, AtHand
<1>3. l + 2 <= ir /\ ir <= Len(ids) /\ ids \in Seq(Nat)
  <2>1. Small \in Nat /\ Small >= 2 /\ ir - l >= Small
    BY <1>1, <1>2, IdListAssumption
  <2>2. l + 2 <= ir
    BY <2>1
  <2> QED
    BY <1>1, <1>2, <2>2, AtHand
<1>4. Rearranged(ids', ids, l, ir) /\ ids'[l] >= ids'[l + 1] /\ ids'[l + 1] >= ids'[ir]
  BY <1>1, <1>2, <1>3, MedianOfThree
<1>5. /\ sort'.l = l /\ sort'.ir = ir /\ sort'.i = l + 1 /\ sort'.j = ir /\ sort'.stack = sort.stack
      /\ sort' \in SortType
  <2>1. l + 1 \in Nat
    OBVIOUS
  <2>2. PICK i \in Nat : i = l + 1
    BY <2>1
  <2>3. sort' = [sort EXCEPT !.i = i, !.j = ir] /\ sort \in SortType
    BY <1>1, <1>2, <2>2
  <2>4. /\ sort'.l = sort.l /\ sort'.ir = sort.ir /\ sort'.i = i /\ sort'.j = ir
        /\ sort'.stack = sort.stack /\ sort' \in SortType
    BY <2>3 DEF SortType
  <2> QED
    BY <1>2, <2>2, <2>4
<1>6. ids' \in Seq(Nat) /\ Len(ids') = Len(ids)
  BY <1>4 DEF Rearranged
<1>7. Sides(ids', l, ir, l + 1, ir)
  <2>1. \A p \in l + 2 .. l + 1 : FALSE
    OBVIOUS
  <2>2. \A p \in ir .. ir : p = ir
    OBVIOUS
  <2>3. ids'[ir] \in Nat /\ ids'[l + 1] \in Nat
    <3>1. \A p \in 1 .. ir : ids'[p] \in Nat
      BY <1>3, <1>6
    <3>2. l + 1 \in 1 .. ir /\ ir \in 1 .. ir
      BY <1>3
    <3> QED
      BY <3>1, <3>2
  <2>4. ids'[ir] <= ids'[l + 1]
    BY <1>4, <2>3
  <2> QED
    BY <1>3, <1>4, <2>1, <2>2, <2>4 DEF Sides
<1>8. Permuted(ids', given')
  BY <1>1, <1>4, AtHand, PermutedOn
<1>9. Segmented'
  BY <1>1, <1>2, <1>4, <1>5, SegmentedStays
<1>10. SearchInv'
  <2>1. given' \in Seq(Nat)
    BY <1>1, AtHand
  <2> QED
    BY <1>1, <1>4, <1>5, <2>1, SortStepSound
<1>11. Partitioned'
  BY <1>5, <1>7 DEF Partitioned
<1> QED
  BY <1>5, <1>8, <1>9, <1>10, <1>11 DEF ListsInv, SortInv

\* The scans stop within the segment: in front of each there is an element that stops it.
LEMMA ScansStop ==
    ASSUME ListsInv, call = "partition"
    PROVE  /\ ScanRight \in Nat /\ RightStop(ids, sort.l, sort.i, ScanRight) /\ ScanRight <= sort.ir
           /\ ScanLeft \in Nat /\ LeftStop(ids, sort.l, sort.j, ScanLeft) /\ sort.l + 1 <= ScanLeft
<1>1. Sorting
  BY DEF Sorting
<1>2. PICK l \in Nat, ir \in Nat, i \in Nat, j \in Nat, n \in Nat :
          l = sort.l /\ l # 0 /\ ir = sort.ir /\ i = sort.i /\ j = sort.j /\ n = Len(ids) /\ ir <= n
  <2>1. ids \in Seq(Nat) /\ sort.l # 0 /\ sort.ir <= Len(ids)
        /\ sort.l \in Nat /\ sort.ir \in Nat /\ sort.i \in Nat /\ sort.j \in Nat
    BY <1>1, AtHand
  <2>2. Len(ids) \in Nat
    BY <2>1
  <2> QED
    BY <2>1, <2>2
<1>3. ids \in Seq(Nat) /\ Sides(ids, l, ir, i, j)
  BY <1>1, <1>2, AtHand DEF ListsInv, SortInv, Partitioned
<1>4. /\ l + 2 <= ir /\ l + 1 <= i /\ i <= ir /\ l + 2 <= j /\ j <= ir
      /\ i < j \/ (i = j /\ j < ir)
      /\ \A p \in j .. ir : ids[p] <= ids[l + 1]
  BY <1>3 DEF Sides
<1>5. \A p \in 1 .. n : p \in DOMAIN ids /\ ids[p] \in Nat
  BY <1>2, <1>3
<1>6. PICK pivot \in Nat : pivot = ids[l + 1] /\ pivot = Pivot
  <2>1. l + 1 \in 1 .. n
    BY <1>2, <1>4
  <2> QED
    BY <1>2, <1>5, <2>1 DEF Pivot
<1>7. StopsRight = {p \in i + 1 .. n : ids[p] <= pivot} /\ StopsLeft = {p \in 1 .. j - 1 : ids[p] >= pivot}
  BY <1>2, <1>6 DEF StopsRight, StopsLeft
<1>8. ScanRight \in Nat /\ RightStop(ids, l, i, ScanRight) /\ ScanRight <= ir
  <2>1. PICK stop \in Nat : stop \in StopsRight /\ stop <= ir
    <3>1. CASE i < j
      <4>1. j \in i + 1 .. n /\ j \in j .. ir
        BY <1>2, <1>4, <3>1
      <4>2. ids[j] <= pivot
        BY <1>4, <1>6, <4>1
      <4> QED
        BY <1>4, <1>7, <4>1, <4>2
    <3>2. CASE i = j /\ j < ir
      <4>1. j + 1 \in i + 1 .. n /\ j + 1 \in j .. ir
        BY <1>2, <1>4, <3>2
      <4>2. ids[j + 1] <= pivot
        BY <1>4, <1>6, <4>1
      <4> QED
        BY <1>7, <3>2, <4>1, <4>2
    <3> QED
      BY <1>4, <3>1, <3>2
  <2>2. PICK r \in Nat : r \in StopsRight /\ \A q \in StopsRight : r <= q
    <3>1. StopsRight \in SUBSET Nat
      BY <1>7
    <3> QED
      BY <2>1, <3>1, LeastNumber
  <2>3. PICK right \in Nat : right = ScanRight /\ right \in StopsRight /\ \A q \in StopsRight : right <= q
    <3>1. ScanRight \in StopsRight /\ \A q \in StopsRight : ScanRight <= q
      BY <2>2 DEF ScanRight
    <3>2. \A q \in StopsRight : q \in Nat
      BY <1>7
    <3> QED
      BY <3>1, <3>2
  <2>4. i + 1 <= right /\ right <= n /\ ids[right] <= pivot /\ right <= ir
    BY <1>7, <2>1, <2>3
  <2>5. ASSUME NEW p \in i + 1 .. right - 1 PROVE ids[p] > pivot
    <3>1. p \in 1 .. n /\ p \in i + 1 .. n /\ p < right
      BY <2>4
    <3>2. p \notin StopsRight
      BY <2>3, <3>1
    <3>3. ids[p] \in Nat /\ ~ (ids[p] <= pivot)
      BY <1>5, <1>7, <3>1, <3>2
    <3> QED
      BY <3>3
  <2> QED
    BY <1>2, <1>6, <2>3, <2>4, <2>5 DEF RightStop
<1>9. ScanLeft \in Nat /\ LeftStop(ids, l, j, ScanLeft) /\ l + 1 <= ScanLeft
  <2>1. l + 1 \in StopsLeft
    <3>1. l + 1 \in 1 .. j - 1
      BY <1>4
    <3>2. ids[l + 1] >= pivot
      BY <1>6
    <3> QED
      BY <1>7, <3>1, <3>2
  <2>2. PICK k \in Nat : k \in StopsLeft /\ \A q \in StopsLeft : q <= k
    <3>1. j - 1 \in Nat /\ StopsLeft \in SUBSET (1 .. (j - 1)) /\ StopsLeft # {}
      BY <1>4, <1>7, <2>1
    <3>2. \E m \in StopsLeft : \A q \in StopsLeft : q <= m
      BY <3>1, GreatestNumber
    <3>3. \A q \in StopsLeft : q \in Nat
      BY <1>7
    <3> QED
      BY <3>2, <3>3
  <2>3. PICK left \in Nat : left = ScanLeft /\ left \in StopsLeft /\ \A q \in StopsLeft : q <= left
    <3>1. ScanLeft \in StopsLeft /\ \A q \in StopsLeft : q <= ScanLeft
      BY <2>2 DEF ScanLeft
    <3>2. \A q \in StopsLeft : q \in Nat
      BY <1>7
    <3> QED
      BY <3>1, <3>2
  <2>4. 1 <= left /\ left <= j - 1 /\ ids[left] >= pivot /\ l + 1 <= left
    BY <1>7, <2>1, <2>3
  <2>5. ASSUME NEW p \in left + 1 .. j - 1 PROVE ids[p] < pivot
    <3>1. p \in 1 .. n /\ p \in 1 .. j - 1 /\ left < p
      BY <1>2, <1>4, <2>4
    <3>2. p \notin StopsLeft
      BY <2>3, <3>1
    <3>3. ids[p] \in Nat /\ ~ (ids[p] >= pivot)
      BY <1>5, <1>7, <3>1, <3>2
    <3> QED
      BY <3>3
  <2> QED
    BY <1>6, <2>3, <2>4, <2>5 DEF LeftStop
<1> QED
  BY <1>2, <1>8, <1>9

LEMMA PartitionTurnKeeps ==
    ASSUME ListsInv, PartitionTurn
    PROVE  ListsInv'
<1>1. /\ call = "partition" /\ call' = "partition" /\ Sorting /\ UNCHANGED <<room, dl, search, given>>
      /\ ids' = Swap(ids, ScanRight, ScanLeft) /\ ScanRight <= ScanLeft
      /\ sort' = [sort EXCEPT !.i = ScanRight, !.j = ScanLeft] /\ sort \in SortType
  BY DEF PartitionTurn, Sorting, ListsInv, SortInv
<1>2. PICK l \in Nat, ir \in Nat, i \in Nat, j \in Nat :
          l = sort.l /\ l # 0 /\ ir = sort.ir /\ i = sort.i /\ j = sort.j
  BY <1>1, AtHand
<1>3. PICK r \in Nat, k \in Nat : r = ScanRight /\ k = ScanLeft
  BY <1>1, ScansStop
<1>4. /\ ids \in Seq(Nat) /\ ir <= Len(ids) /\ r <= k
      /\ RightStop(ids, l, i, r) /\ LeftStop(ids, l, j, k) /\ Sides(ids, l, ir, i, j)
  BY <1>1, <1>2, <1>3, AtHand, ScansStop DEF ListsInv, SortInv, Partitioned
<1>5. Rearranged(ids', ids, l, ir) /\ Sides(ids', l, ir, r, k)
  <2>1. /\ Rearranged(Swap(ids, r, k), ids, l, ir)
        /\ Sides(Swap(ids, r, k), l, ir, r, k)
    BY <1>2, <1>4, SidesTurn
  <2> QED
    BY <1>1, <1>3, <2>1
<1>6. /\ sort'.l = l /\ sort'.ir = ir /\ sort'.i = r /\ sort'.j = k /\ sort'.stack = sort.stack
      /\ sort' \in SortType
  BY <1>1, <1>2, <1>3 DEF SortType
<1>7. Permuted(ids', given')
  BY <1>1, <1>5, AtHand, PermutedOn
<1>8. Segmented'
  BY <1>1, <1>2, <1>5, <1>6, SegmentedStays
<1>9. SearchInv'
  <2>1. given' \in Seq(Nat)
    BY <1>1, AtHand
  <2> QED
    BY <1>1, <1>5, <1>6, <2>1, SortStepSound
<1>10. Partitioned'
  BY <1>5, <1>6 DEF Partitioned
<1> QED
  BY <1>6, <1>7, <1>8, <1>9, <1>10 DEF ListsInv, SortInv

\* The pivot is in its place.  The larger part waits, so the other is at most half.
LEMMA PartitionEndsKeeps ==
    ASSUME ListsInv, PartitionEnds
    PROVE  ListsInv'
<1>1. /\ call = "partition" /\ call' = "sort" /\ Sorting /\ UNCHANGED <<room, dl, search, given>>
      /\ ids' = Swap(ids, sort.l + 1, ScanLeft) /\ ScanLeft < ScanRight
      /\ sort' = IF LeftWaits(ScanRight, ScanLeft)
                 THEN [sort EXCEPT !.stack = <<<<sort.l, ScanLeft - 1>>>> \o @, !.l = ScanRight]
                 ELSE [sort EXCEPT !.stack = <<<<ScanRight, sort.ir>>>> \o @, !.ir = ScanLeft - 1]
      /\ sort \in SortType
  BY DEF PartitionEnds, Sorting, ListsInv, SortInv
<1>2. PICK l \in Nat, ir \in Nat, i \in Nat, j \in Nat :
          l = sort.l /\ l # 0 /\ ir = sort.ir /\ i = sort.i /\ j = sort.j
  BY <1>1, AtHand
<1>3. PICK stack \in Seq(Segment) : stack = sort.stack
  BY <1>1, AtHand
<1>4. PICK r \in Nat, k \in Nat : r = ScanRight /\ k = ScanLeft
  BY <1>1, ScansStop
<1>5. PICK n \in Nat : n = Len(ids) /\ ir <= n
  <2>1. ids \in Seq(Nat) /\ sort.ir <= Len(ids)
    BY <1>1, AtHand
  <2>2. Len(ids) \in Nat
    BY <2>1
  <2> QED
    BY <1>2, <2>1, <2>2
<1>6. /\ ids \in Seq(Nat) /\ ir <= Len(ids) /\ k < r /\ r <= ir /\ l + 1 <= k
      /\ RightStop(ids, l, i, r) /\ LeftStop(ids, l, j, k) /\ Sides(ids, l, ir, i, j)
      /\ Apart(n, <<<<l, ir>>>> \o stack) /\ Parted(ids, <<<<l, ir>>>> \o stack)
      /\ Halved(n, <<<<l, ir>>>> \o stack)
  BY <1>1, <1>2, <1>3, <1>4, <1>5, AtHand, ScansStop DEF ListsInv, SortInv, Partitioned
<1>7. /\ Rearranged(ids', ids, l, ir)
      /\ \A p, q \in DOMAIN ids : l <= p /\ p < q /\ q <= ir =>
             ids'[p] >= ids'[q] \/ (l <= p /\ q <= k - 1) \/ (r <= p /\ q <= ir)
  <2>1. ids' = Swap(ids, l + 1, k)
    BY <1>1, <1>2, <1>4
  <2>2. /\ ids \in Seq(Nat) /\ l # 0 /\ ir <= Len(ids) /\ Sides(ids, l, ir, i, j)
        /\ RightStop(ids, l, i, r) /\ LeftStop(ids, l, j, k) /\ r <= ir /\ l + 1 <= k /\ k < r
    BY <1>2, <1>6
  <2>3. /\ Rearranged(Swap(ids, l + 1, k), ids, l, ir)
        /\ \A p, q \in DOMAIN ids : l <= p /\ p < q /\ q <= ir =>
               \/ Swap(ids, l + 1, k)[p] >= Swap(ids, l + 1, k)[q]
               \/ l <= p /\ q <= k - 1
               \/ r <= p /\ q <= ir
    BY <2>2, SidesEnd
  <2> QED
    BY <2>1, <2>3
<1>8. ids' \in Seq(Nat) /\ Len(ids') = n /\ DOMAIN ids' = DOMAIN ids
  BY <1>5, <1>6, <1>7 DEF Rearranged
<1>9. Parted(ids', <<<<l, ir>>>> \o stack)
  <2>1. /\ ids \in Seq(Nat) /\ l # 0 /\ Apart(Len(ids), <<<<l, ir>>>> \o stack)
        /\ Parted(ids, <<<<l, ir>>>> \o stack) /\ Rearranged(ids', ids, l, ir)
    BY <1>2, <1>5, <1>6, <1>7
  <2> QED
    BY <2>1, MovedInside
<1>10. PICK b \in Nat : b = k - 1
  BY <1>6
<1>11. r # 0 /\ b < r /\ l <= r /\ b <= ir /\ l <= l /\ ir <= ir /\ l # 0
  <2>1. k < r /\ r <= ir /\ l + 1 <= k /\ b = k - 1 /\ l # 0
    BY <1>2, <1>6, <1>10
  <2> QED
    BY <2>1
<1>12. \A p, q \in DOMAIN ids' : l <= p /\ p < q /\ q <= ir =>
           ids'[p] >= ids'[q] \/ (l <= p /\ q <= b) \/ (r <= p /\ q <= ir)
  BY <1>7, <1>8, <1>10
<1>13. ASSUME LeftWaits(ScanRight, ScanLeft)
       PROVE  sort' \in SortType /\ Segmented'
  <2>1. ir - r + 1 < k - l
    BY <1>2, <1>4, <1>13 DEF LeftWaits
  <2>2. sort' = [sort EXCEPT !.stack = <<<<l, b>>>> \o stack, !.l = r]
    BY <1>1, <1>2, <1>3, <1>4, <1>10, <1>13
  <2>3. <<<<l, b>>>> \o stack \in Seq(Segment)
    BY <1>2, OneOnTop DEF Stacked
  <2>4. PICK waiting \in Seq(Segment) : waiting = <<<<l, b>>>> \o stack
    BY <2>3
  <2>5. sort' = [sort EXCEPT !.stack = waiting, !.l = r]
    BY <2>2, <2>4
  <2>6. sort'.l = r /\ sort'.ir = ir /\ sort'.stack = waiting /\ sort' \in SortType
    BY <1>1, <1>2, <1>11, <2>5 DEF SortType
  <2>7. Segments' = <<<<r, ir>>>> \o (<<<<l, b>>>> \o stack)
    BY <2>4, <2>6 DEF Segments
  <2>8. Apart(n, <<<<r, ir>>>> \o (<<<<l, b>>>> \o stack))
    <3>1. /\ Apart(n, <<<<l, ir>>>> \o stack)
          /\ l # 0 /\ r # 0 /\ l <= r /\ ir <= ir /\ l <= l /\ b <= ir /\ (ir < l \/ b < r)
      BY <1>6, <1>11
    <3> QED
      BY <3>1, ApartSplit
  <2>9. Parted(ids', <<<<r, ir>>>> \o (<<<<l, b>>>> \o stack))
    BY <1>2, <1>8, <1>9, <1>11, <1>12, PartedSplit
  <2>10. Halved(n, <<<<r, ir>>>> \o (<<<<l, b>>>> \o stack))
    <3>1. 2 * (ir - r + 1) <= ir - l + 1 /\ b - l + 1 <= ir - l + 1
      BY <1>6, <1>10, <2>1
    <3> QED
      BY <1>2, <1>6, <1>11, <3>1, HalvedSplit
  <2>11. Segmented'
    BY <1>8, <2>7, <2>8, <2>9, <2>10 DEF Segmented
  <2> QED
    BY <2>6, <2>11
<1>14. ASSUME ~ LeftWaits(ScanRight, ScanLeft)
       PROVE  sort' \in SortType /\ Segmented'
  <2>1. k - l <= ir - r + 1
    BY <1>2, <1>4, <1>14 DEF LeftWaits
  <2>2. sort' = [sort EXCEPT !.stack = <<<<r, ir>>>> \o stack, !.ir = b]
    BY <1>1, <1>2, <1>3, <1>4, <1>10, <1>14
  <2>3. <<<<r, ir>>>> \o stack \in Seq(Segment)
    BY <1>11, OneOnTop DEF Stacked
  <2>4. PICK waiting \in Seq(Segment) : waiting = <<<<r, ir>>>> \o stack
    BY <2>3
  <2>5. sort' = [sort EXCEPT !.stack = waiting, !.ir = b]
    BY <2>2, <2>4
  <2>6. sort'.l = l /\ sort'.ir = b /\ sort'.stack = waiting /\ sort' \in SortType
    BY <1>1, <1>2, <2>5 DEF SortType
  <2>7. Segments' = <<<<l, b>>>> \o (<<<<r, ir>>>> \o stack)
    BY <2>4, <2>6 DEF Segments
  <2>8. Apart(n, <<<<l, b>>>> \o (<<<<r, ir>>>> \o stack))
    <3>1. /\ Apart(n, <<<<l, ir>>>> \o stack)
          /\ l # 0 /\ r # 0 /\ l <= l /\ b <= ir /\ l <= r /\ ir <= ir /\ (b < r \/ ir < l)
      BY <1>6, <1>11
    <3> QED
      BY <3>1, ApartSplit
  <2>9. Parted(ids', <<<<l, b>>>> \o (<<<<r, ir>>>> \o stack))
    BY <1>2, <1>8, <1>9, <1>11, <1>12, PartedSplit
  <2>10. Halved(n, <<<<l, b>>>> \o (<<<<r, ir>>>> \o stack))
    <3>1. 2 * (b - l + 1) <= ir - l + 1 /\ ir - r + 1 <= ir - l + 1
      BY <1>6, <1>10, <2>1
    <3> QED
      BY <1>2, <1>6, <1>11, <3>1, HalvedSplit
  <2>11. Segmented'
    BY <1>8, <2>7, <2>8, <2>9, <2>10 DEF Segmented
  <2> QED
    BY <2>6, <2>11
<1>15. sort' \in SortType /\ Segmented'
  BY <1>13, <1>14
<1>16. Permuted(ids', given')
  BY <1>1, <1>7, AtHand, PermutedOn
<1>17. SearchInv'
  <2>1. given' \in Seq(Nat)
    BY <1>1, AtHand
  <2> QED
    BY <1>1, <1>7, <1>15, <2>1, SortStepSound
<1> QED
  BY <1>1, <1>15, <1>16, <1>17 DEF ListsInv, SortInv, Partitioned

-----------------------------------------------------------------------------
(* All steps *)

LEMMA ListInitInv ==
    ASSUME ListInit
    PROVE  ListsInv
<1>1. UmMax \in Nat \ {0}
  BY IdListAssumption
<1>2. /\ ids = <<>> /\ room = UmMax /\ dl = <<>> /\ call = "none" /\ search = NoSearch
      /\ sort = NoSort /\ given = <<>>
  BY DEF ListInit
<1>3. <<>> \in Seq(Nat) /\ <<>> \in Seq(Segment)
  OBVIOUS
<1>4. sort \in SortType
  BY <1>2, <1>3 DEF NoSort, SortType
<1>5. ListTypeOK
  BY <1>1, <1>2, <1>3, <1>4 DEF ListTypeOK, NoSearch, Calls, SortType
<1>6. FitsRoom /\ DirtyListSorted
  BY <1>1, <1>2 DEF FitsRoom, DirtyListSorted, Ascending
<1> QED
  BY <1>2, <1>4, <1>5, <1>6 DEF ListsInv, SearchInv, ListsSound, Narrowed, Placed, SearchFinds,
     SortInv, Sorting, Segmented, Partitioned

\* What is not a step of a sort leaves its registers alone.
LEMMA NotSorting ==
    ASSUME SortInv, UNCHANGED sort, call' \in {"none", "search", "searched", "ended"}
    PROVE  SortInv'
  BY DEF SortInv, Sorting, Segmented, Partitioned

LEMMA CallsOutsideSort ==
    \/ \E id \in PageNumbers :
         \/ Append1(id) \/ NeedXappend(id)
         \/ id + 1 \in PageNumbers /\ AppendRange(id, 2)
         \/ MidlSearch(id) \/ Mid2lSearch(id)
    \/ \E list \in Given : AppendList(list) \/ NeedXmerge(list)
    \/ Shrink \/ Reset \/ SearchStep \/ Mid2lInsert
    => UNCHANGED sort /\ call' \in {"none", "search", "searched", "ended"}
<1>1. ASSUME NEW id \in PageNumbers, Append1(id) \/ NeedXappend(id) \/ AppendRange(id, 2)
      PROVE  UNCHANGED sort /\ call' = "none"
  BY <1>1 DEF Append1, NeedXappend, AppendRange, Replaced
<1>2. ASSUME NEW id \in PageNumbers, MidlSearch(id) \/ Mid2lSearch(id)
      PROVE  UNCHANGED sort /\ call' = "search"
  BY <1>2 DEF MidlSearch, Mid2lSearch, SearchBegins
<1>3. ASSUME NEW list \in Given, AppendList(list) \/ NeedXmerge(list)
      PROVE  UNCHANGED sort /\ call' = "none"
  BY <1>3 DEF AppendList, NeedXmerge, Replaced
<1>4. ASSUME Shrink \/ Reset \/ Mid2lInsert
      PROVE  UNCHANGED sort /\ call' \in {"none", "ended"}
  BY <1>4 DEF Shrink, Reset, Mid2lInsert
<1>5. ASSUME SearchStep
      PROVE  UNCHANGED sort /\ call' \in {"search", "searched"}
  BY <1>5 DEF SearchStep, SearchTurn, SearchEnds
<1> QED
  BY <1>1, <1>2, <1>3, <1>4, <1>5

\* A call that answers no search leaves nothing to say of one.
LEMMA NoSearchUnderWay ==
    ASSUME ListsSound', call' \in {"none", "ended"}
    PROVE  SearchInv'
  BY DEF SearchInv, Narrowed, Placed, SearchFinds

LEMMA ListNextInv ==
    ASSUME ListsInv, [ListNext]_vars
    PROVE  ListsInv'
<1>1. SearchInv /\ ListsSound /\ SortInv
  BY DEF ListsInv, SearchInv
<1>2. ASSUME \/ \E id \in PageNumbers :
                  \/ Append1(id) \/ NeedXappend(id)
                  \/ id + 1 \in PageNumbers /\ AppendRange(id, 2)
             \/ \E list \in Given : AppendList(list) \/ NeedXmerge(list)
      PROVE  ListsInv'
  <2>1. ListsSound'
    BY <1>1, <1>2, GrowingSound
  <2>2. call' = "none"
    BY <1>2 DEF Append1, NeedXappend, AppendRange, AppendList, NeedXmerge, Replaced
  <2>3. UNCHANGED sort
    BY <1>2 DEF Append1, NeedXappend, AppendRange, AppendList, NeedXmerge, Replaced
  <2>4. SearchInv'
    BY <2>1, <2>2, NoSearchUnderWay
  <2>5. SortInv'
    BY <1>1, <2>2, <2>3, NotSorting
  <2> QED
    BY <2>4, <2>5 DEF ListsInv
<1>3. ASSUME NEW id \in PageNumbers, MidlSearch(id) \/ Mid2lSearch(id)
      PROVE  ListsInv'
  <2>1. SearchInv'
    BY <1>1, <1>3, SearchBeginsSound
  <2>2. UNCHANGED sort /\ call' \in {"none", "search", "searched", "ended"}
    BY <1>3, CallsOutsideSort
  <2>3. SortInv'
    BY <1>1, <2>2, NotSorting
  <2> QED
    BY <2>1, <2>3 DEF ListsInv
<1>4. ASSUME Shrink \/ Reset
      PROVE  ListsInv'
  <2>1. ListsSound'
    BY <1>1, <1>4, EndingSound
  <2>2. UNCHANGED sort /\ call' \in {"none", "ended"}
    BY <1>4 DEF Shrink, Reset
  <2>3. SearchInv' /\ SortInv'
    BY <1>1, <2>1, <2>2, NoSearchUnderWay, NotSorting
  <2> QED
    BY <2>3 DEF ListsInv
<1>5. ASSUME SearchStep
      PROVE  ListsInv'
  <2>1. SearchInv'
    BY <1>1, <1>5, SearchTurnSound, SearchEndsSound DEF SearchStep
  <2>2. UNCHANGED sort /\ call' \in {"none", "search", "searched", "ended"}
    BY <1>5, CallsOutsideSort
  <2>3. SortInv'
    BY <1>1, <2>2, NotSorting
  <2> QED
    BY <2>1, <2>3 DEF ListsInv
<1>6. ASSUME Mid2lInsert
      PROVE  ListsInv'
  <2>1. SearchInv'
    BY <1>1, <1>6, InsertSound
  <2>2. UNCHANGED sort /\ call' \in {"none", "search", "searched", "ended"}
    BY <1>6, CallsOutsideSort
  <2>3. SortInv'
    BY <1>1, <2>2, NotSorting
  <2> QED
    BY <2>1, <2>3 DEF ListsInv
<1>7. ASSUME SortBegins \/ SortStep
      PROVE  ListsInv'
  BY <1>7, SortBeginsKeeps, SortSmallKeeps, PartitionBeginsKeeps, PartitionTurnKeeps,
     PartitionEndsKeeps DEF SortStep
<1>8. ASSUME UNCHANGED vars
      PROVE  ListsInv'
  <2>1. UNCHANGED <<ids, room, dl, call, search, sort, given>>
    BY <1>8 DEF vars, listVars
  <2>2. Searched' = Searched /\ Segments' = Segments /\ Sorting' = Sorting
    BY <2>1 DEF Searched, Segments, Sorting
  <2>3. SearchInv'
    BY <1>1, <2>1, <2>2 DEF SearchInv, ListsSound, ListTypeOK, FitsRoom, DirtyListSorted, Ascending,
       Narrowed, Descending, Placed, SearchFinds
  <2>4. SortInv'
    BY <1>1, <2>1, <2>2 DEF SortInv, Segmented, Partitioned
  <2> QED
    BY <2>3, <2>4 DEF ListsInv
<1> QED
  BY <1>2, <1>3, <1>4, <1>5, <1>6, <1>7, <1>8 DEF ListNext

-----------------------------------------------------------------------------
(* What the invariant says of a sort *)

LEMMA SortsSorted ==
    ASSUME ListsInv
    PROVE  SortSorts
<1>1. ASSUME Sorting, NEW id
      PROVE  Count(ids, id) = Count(given, id)
  <2>1. ids \in Seq(Nat) /\ given \in Seq(Nat) /\ Permuted(ids, given)
    BY <1>1, AtHand
  <2> QED
    BY <2>1, CountsAgree
<1>2. ASSUME call = "sort", sort.stack = <<>>
      PROVE  LET sorted == InsertionSort(ids, sort.l, sort.ir) IN
             \A p, q \in DOMAIN sorted : p < q => sorted[p] >= sorted[q]
  <2>1. Parted(InsertionSort(ids, sort.l, sort.ir), <<>>)
    BY <1>2, SmallSorted DEF Sorting
  <2>2. DOMAIN <<>> = {}
    OBVIOUS
  <2> QED
    BY <2>1, <2>2 DEF Parted
<1> QED
  BY <1>1, <1>2 DEF SortSorts, Sorting

LEMMA ScansInside ==
    ASSUME ListsInv
    PROVE  ScansStayInside
<1>1. SUFFICES ASSUME call = "partition"
               PROVE  (\E p \in StopsRight : p <= sort.ir) /\ (\E p \in StopsLeft : p >= sort.l)
  BY DEF ScansStayInside
<1>2. Sorting
  BY <1>1 DEF Sorting
<1>3. PICK l \in Nat, ir \in Nat, i \in Nat, j \in Nat :
          l = sort.l /\ ir = sort.ir /\ i = sort.i /\ j = sort.j
  BY <1>2, AtHand
<1>4. PICK r \in Nat, k \in Nat : r = ScanRight /\ k = ScanLeft
  BY <1>1, ScansStop
<1>5. RightStop(ids, l, i, r) /\ r <= ir /\ LeftStop(ids, l, j, k) /\ l + 1 <= k
  BY <1>1, <1>3, <1>4, ScansStop
<1>6. r \in StopsRight
  <2>1. r \in i + 1 .. Len(ids) /\ ids[r] <= ids[l + 1]
    <3>1. ids \in Seq(Nat)
      BY <1>2, AtHand
    <3> QED
      BY <1>5, <3>1 DEF RightStop
  <2> QED
    BY <1>3, <2>1 DEF StopsRight, Pivot
<1>7. k \in StopsLeft /\ k >= l
  <2>1. k \in 1 .. j - 1 /\ ids[k] >= ids[l + 1] /\ k >= l
    BY <1>5 DEF LeftStop
  <2> QED
    BY <1>3, <2>1 DEF StopsLeft, Pivot
<1> QED
  BY <1>3, <1>5, <1>6, <1>7

LEMMA StackIsShallow ==
    ASSUME ListsInv
    PROVE  StackIsLogarithmic
<1>1. SUFFICES ASSUME call = "sort"
               PROVE  PowerOfTwo[Len(sort.stack)] * (sort.ir - sort.l + 1) <= Len(ids)
  BY DEF StackIsLogarithmic
<1>2. Sorting
  BY <1>1 DEF Sorting
<1>3. PICK l \in Nat, ir \in Nat : l = sort.l /\ l # 0 /\ ir = sort.ir
  BY <1>2, AtHand
<1>4. PICK stack \in Seq(Segment) : stack = sort.stack
  BY <1>2, AtHand
<1> DEFINE segs == <<<<l, ir>>>> \o stack
<1>5. Halved(Len(ids), segs)
  BY <1>2, <1>3, <1>4, AtHand
<1>6. Stacked(segs, l, ir, stack)
  BY <1>3, OneOnTop
<1> HIDE DEF segs
<1>7. 1 \in DOMAIN segs /\ segs[1][1] = l /\ segs[1][2] = ir /\ Len(segs) - 1 = Len(stack)
  BY <1>6 DEF Stacked
<1>8. PowerOfTwo[Len(segs) - 1] * (segs[1][2] - segs[1][1] + 1) <= Len(ids)
  BY <1>5, <1>7 DEF Halved
<1> QED
  BY <1>3, <1>4, <1>7, <1>8

LEMMA InvariantsKept == ListSpec => []ListsInv
<1>1. ListInit => ListsInv
  BY ListInitInv
<1>2. ListsInv /\ [ListNext]_vars => ListsInv'
  BY ListNextInv
<1> QED
  BY <1>1, <1>2, PTL DEF ListSpec

-----------------------------------------------------------------------------
(* The theorems *)

\* Whatever mix of appending, merging, growing, cutting back, searching and sorting the
\* calls of lmdb/midl.c come in, no list is written past the room it has, and the list
\* of dirty pages stays ascending and free of duplicates.
THEOREM RoomSuffices == ListSpec => []ListsSound
<1>1. ListsInv => ListsSound
  BY DEF ListsInv, SearchInv
<1> QED
  BY <1>1, InvariantsKept, PTL

\* mdb_midl_search and mdb_mid2l_search end with the cursor at the first number that does
\* not come before the one sought, be that in the list, right behind it or nowhere.
THEOREM CursorIsRight == ListSpec => []SearchFinds
<1>1. ListsInv => SearchFinds
  BY DEF ListsInv, SearchInv
<1> QED
  BY <1>1, InvariantsKept, PTL

\* mdb_midl_sort loses and invents no number and leaves the list descending; its scans,
\* which test no bounds, stop inside the segment; and with each segment on the stack, of
\* fixed size in the code, the one being sorted is half as long, so that the next is only
\* put there while the length of the list has a bit left for it.
THEOREM SortIsRight == ListSpec => []SortIsSafe
<1>1. ListsInv => SortIsSafe
  BY SortsSorted, ScansInside, StackIsShallow DEF SortIsSafe
<1> QED
  BY <1>1, InvariantsKept, PTL

=============================================================================
