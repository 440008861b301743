------------------------------- MODULE IdList --------------------------------
(***************************************************************************)
(* LMDB's lists of page numbers (lmdb/midl.c): an IDL, kept in descending  *)
(* order and grown on demand, and an ID2L, ascending and of fixed room,    *)
(* here without the pointers that travel with its numbers.  The calls are  *)
(* those mdb.c makes: `need` always comes right before the `xappend` or    *)
(* `xmerge` it makes room for, and a list is searched only while sorted.   *)
(* The search and the quicksort run one turn of their loop at a time.      *)
(***************************************************************************)
EXTENDS Integers, Sequences, FiniteSets

CONSTANTS
    PageNumbers,  \* what the lists may hold
    UmMax,        \* MDB_IDL_UM_MAX: room of a fresh list, and of an ID2L
    Small,        \* SMALL: segments of this many elements and fewer are inserted
    MaxLength     \* bound on the length of the IDL

ASSUME IdListAssumption ==
    /\ PageNumbers \subseteq Nat
    /\ UmMax \in Nat \ {0}
    /\ Small \in Nat /\ Small >= 2
    /\ MaxLength \in Nat

VARIABLES
    ids, room,  \* the IDL and the room it has (ids[0] and up; ids[-1])
    dl,         \* the ID2L
    call,       \* the call under way, or the outcome of the last search
    search,     \* registers of a search: list, id, base, cursor, n, val
    sort,       \* registers of a sort: l, ir, i, j and the stack of segments
    given       \* history: the IDL as the sort was given it

listVars == <<ids, room, dl>>
vars     == <<listVars, call, search, sort, given>>

Calls == {"none", "search", "searched", "sort", "partition", "ended"}

NoSearch == [over |-> "idl", id |-> 0, base |-> 0, cursor |-> 1, n |-> 0, val |-> 0]

NoSort == [l |-> 1, ir |-> 0, i |-> 0, j |-> 0, stack |-> <<>>]

ListInit ==
    /\ ids = <<>> /\ room = UmMax
    /\ dl = <<>>
    /\ call = "none"
    /\ search = NoSearch
    /\ sort = NoSort
    /\ given = <<>>

Idle == call \in {"none", "searched"}

Descending(list) == \A p, q \in DOMAIN list : p < q => list[p] > list[q]

Ascending(list) == \A p, q \in DOMAIN list : p < q => list[p] < list[q]

Held(list) == {list[p] : p \in DOMAIN list}

-----------------------------------------------------------------------------
(* Appending and merging.  Each call grows the room first where it must.     *)

\* Mutant of Grown: what there is is given, be it enough or not.
GrownNever(have, need, by) == have

\* mdb_midl_grow, called when the list would be full.
Grown(have, need, by) == IF need > have THEN have + by ELSE have

\* mdb_midl_need: a quarter more, in whole blocks of 256 words, two of them headers.
Needed(num) ==
    LET words == num + num \div 4 + 258 IN
    IF num > room THEN words - (words % 256) - 2 ELSE room

\* The list is replaced; the last search no longer says anything.
Replaced(list) ==
    /\ Idle
    /\ Len(list) <= MaxLength
    /\ ids' = list
    /\ call' = "none"
    /\ search' = NoSearch
    /\ UNCHANGED <<dl, sort, given>>

\* One number: the list grows when it is full.
Append1(id) ==
    /\ Replaced(Append(ids, id))
    /\ room' = Grown(room, Len(ids) + 1, UmMax)

\* A whole list: it grows already when it would be exactly full.
AppendList(app) ==
    /\ Replaced(ids \o app)
    /\ room' = Grown(room, Len(ids) + Len(app) + 1, Len(app))

\* n numbers from id on, the largest first.  (n | UmMax is at least both.)
AppendRange(id, n) ==
    /\ Replaced(ids \o [k \in 1 .. n |-> id + n - k])
    /\ \E by \in {m \in {n, UmMax, n + UmMax} : m >= n /\ m >= UmMax} :
           room' = Grown(room, Len(ids) + n, by)

NeedXappend(id) ==
    /\ Replaced(Append(ids, id))
    /\ room' = Needed(Len(ids) + 1)

\* mdb_midl_xmerge of two sorted lists that have no number in common.
Merged(merge) ==
    LET all == Held(ids) \cup Held(merge) IN
    [p \in 1 .. Len(ids) + Len(merge) |->
        CHOOSE id \in all : Cardinality({x \in all : x > id}) = p - 1]

NeedXmerge(merge) ==
    /\ Descending(ids) /\ Descending(merge)
    /\ Held(ids) \cap Held(merge) = {}
    /\ Replaced(Merged(merge))
    /\ room' = Needed(Len(ids) + Len(merge))

\* mdb_txn_end: a list that has grown is cut back, its numbers are done with; the
\* next transaction sets its length to 0.
Shrink ==
    /\ Idle
    /\ room' = IF room > UmMax THEN UmMax ELSE room
    /\ call' = "ended"
    /\ search' = NoSearch
    /\ UNCHANGED <<ids, dl, sort, given>>

Reset ==
    /\ call = "ended"
    /\ ids' = <<>> /\ dl' = <<>>
    /\ call' = "none"
    /\ UNCHANGED <<room, search, sort, given>>

-----------------------------------------------------------------------------
(* mdb_midl_search and mdb_mid2l_search *)

Searched == IF search.over = "idl" THEN ids ELSE dl

\* CMP, with its arguments as each of the two lists has them.
MidlVal(at, id)  == IF at < id THEN -1 ELSE IF at > id THEN 1 ELSE 0
Mid2lVal(at, id) == IF id < at THEN -1 ELSE IF id > at THEN 1 ELSE 0

SearchBegins(over, id) ==
    /\ Idle
    /\ search' = [over |-> over, id |-> id, base |-> 0, cursor |-> 1, val |-> 0,
                  n |-> IF over = "idl" THEN Len(ids) ELSE Len(dl)]
    /\ call' = "search"
    /\ UNCHANGED <<listVars, sort, given>>

MidlSearch(id) == Descending(ids) /\ SearchBegins("idl", id)

Mid2lSearch(id) == SearchBegins("id2l", id)

RightPart(pivot) == search.n - (pivot + 1)

\* One turn: compare with the middle of the n candidates after base.
SearchTurn ==
    /\ call = "search"
    /\ search.n > 0
    /\ LET pivot == search.n \div 2
           at    == search.base + pivot + 1
           val   == IF search.over = "idl" THEN MidlVal(ids[at], search.id)
                                           ELSE Mid2lVal(dl[at], search.id)
       IN
       \/ /\ val < 0
          /\ search' = [search EXCEPT !.cursor = at, !.val = val, !.n = pivot]
          /\ UNCHANGED call
       \/ /\ val > 0
          /\ search' = [search EXCEPT !.cursor = at, !.val = val, !.base = at,
                                      !.n = RightPart(pivot)]
          /\ UNCHANGED call
       \/ /\ val = 0
          /\ search' = [search EXCEPT !.cursor = at, !.val = val]
          /\ call' = "searched"
    /\ UNCHANGED <<listVars, sort, given>>

\* Mutant of CursorBeyond: the cursor stays where the last comparison was.
CursorThere == search.cursor

CursorBeyond == IF search.val > 0 THEN search.cursor + 1 ELSE search.cursor

\* Not there: the cursor goes to the first number beyond.
SearchEnds ==
    /\ call = "search"
    /\ search.n = 0
    /\ search' = [search EXCEPT !.cursor = CursorBeyond]
    /\ call' = "searched"
    /\ UNCHANGED <<listVars, sort, given>>

Found ==
    /\ search.cursor <= Len(Searched)
    /\ Searched[search.cursor] = search.id

\* mdb_mid2l_insert, once its search has ended: neither twice nor past the room.
Mid2lInsert ==
    /\ call = "searched" /\ search.over = "id2l"
    /\ ~Found
    /\ Len(dl) < UmMax
    /\ dl' = [p \in 1 .. Len(dl) + 1 |->
                CASE p < search.cursor -> dl[p]
                  [] p = search.cursor -> search.id
                  [] p > search.cursor -> dl[p - 1]]
    /\ call' = "none"
    /\ search' = NoSearch
    /\ UNCHANGED <<ids, room, sort, given>>

-----------------------------------------------------------------------------
(* mdb_midl_sort *)

Swap(list, p, q) == [list EXCEPT ![p] = list[q], ![q] = list[p]]

SwapIfLess(list, p, q) == IF list[p] < list[q] THEN Swap(list, p, q) ELSE list

\* Take element q to its place among the q - 1 before it, which are sorted.
InsertElement(list, q) ==
    LET smaller == {p \in 1 .. q - 1 : \A r \in p .. q - 1 : list[r] < list[q]}
        place   == q - Cardinality(smaller)
    IN [p \in DOMAIN list |->
           CASE p < place \/ p > q -> list[p]
             [] p = place          -> list[q]
             [] OTHER              -> list[p - 1]]

\* Mutant of InsertionSort: the last one is not inserted.
InsertionSortShort(list, l, ir) ==
    LET sorted[q \in l .. ir] == IF q = l THEN list ELSE InsertElement(sorted[q - 1], q)
    IN IF ir <= l THEN list ELSE sorted[ir - 1]

InsertionSort(list, l, ir) ==
    LET sorted[q \in l .. ir] == IF q = l THEN list ELSE InsertElement(sorted[q - 1], q)
    IN IF ir <= l THEN list ELSE sorted[ir]

SortBegins ==
    /\ Idle
    /\ call' = "sort"
    /\ given' = ids
    /\ sort' = [NoSort EXCEPT !.ir = Len(ids)]
    /\ search' = NoSearch
    /\ UNCHANGED listVars

\* A small segment, and the next one off the stack.
SortSmall ==
    /\ call = "sort"
    /\ sort.ir - sort.l < Small
    /\ ids' = InsertionSort(ids, sort.l, sort.ir)
    /\ \/ /\ sort.stack = <<>>
          /\ call' = "none" /\ sort' = NoSort /\ given' = <<>>
       \/ /\ sort.stack # <<>>
          /\ sort' = [sort EXCEPT !.l = Head(sort.stack)[1], !.ir = Head(sort.stack)[2],
                                  !.stack = Tail(@)]
          /\ UNCHANGED <<call, given>>
    /\ UNCHANGED <<room, dl, search>>

\* The median of three goes to l + 1, and the ends of the segment stop the scans.
PartitionBegins ==
    /\ call = "sort"
    /\ sort.ir - sort.l >= Small
    /\ LET l == sort.l  ir == sort.ir
           s1 == Swap(ids, (l + ir) \div 2, l + 1)
           s2 == SwapIfLess(s1, l, ir)
           s3 == SwapIfLess(s2, l + 1, ir)
       IN ids' = SwapIfLess(s3, l, l + 1)
    /\ sort' = [sort EXCEPT !.i = sort.l + 1, !.j = sort.ir]
    /\ call' = "partition"
    /\ UNCHANGED <<room, dl, search, given>>

Pivot == ids[sort.l + 1]

\* Where the two scans of a turn may stop.
StopsRight == {p \in sort.i + 1 .. Len(ids) : ids[p] <= Pivot}
StopsLeft  == {p \in 1 .. sort.j - 1 : ids[p] >= Pivot}

ScanRight == CHOOSE p \in StopsRight : \A q \in StopsRight : p <= q
ScanLeft  == CHOOSE p \in StopsLeft : \A q \in StopsLeft : q <= p

PartitionTurn ==
    /\ call = "partition"
    /\ ScanRight <= ScanLeft
    /\ ids' = Swap(ids, ScanRight, ScanLeft)
    /\ sort' = [sort EXCEPT !.i = ScanRight, !.j = ScanLeft]
    /\ UNCHANGED <<room, dl, call, search, given>>

\* Is the part left of the pivot the larger, to wait on the stack?
LeftWaits(i, j) == sort.ir - i + 1 < j - sort.l

PartitionEnds ==
    /\ call = "partition"
    /\ ScanLeft < ScanRight
    /\ LET i == ScanRight  j == ScanLeft IN
       /\ ids' = Swap(ids, sort.l + 1, j)
       /\ sort' =
            IF LeftWaits(i, j)
            THEN [sort EXCEPT !.stack = <<<<sort.l, j - 1>>>> \o @, !.l = i]
            ELSE [sort EXCEPT !.stack = <<<<i, sort.ir>>>> \o @, !.ir = j - 1]
    /\ call' = "sort"
    /\ UNCHANGED <<room, dl, search, given>>

-----------------------------------------------------------------------------
SearchStep == SearchTurn \/ SearchEnds

SortStep == SortSmall \/ PartitionBegins \/ PartitionTurn \/ PartitionEnds

\* The lists a caller may append or merge.
Given == {<<id>> : id \in PageNumbers} \cup {<<id1, id2>> : id1, id2 \in PageNumbers}

ListNext ==
    \/ \E id \in PageNumbers :
         \/ Append1(id) \/ NeedXappend(id)
         \/ id + 1 \in PageNumbers /\ AppendRange(id, 2)
         \/ MidlSearch(id) \/ Mid2lSearch(id)
    \/ \E list \in Given : AppendList(list) \/ NeedXmerge(list)
    \/ Shrink \/ Reset
    \/ SearchStep \/ Mid2lInsert
    \/ SortBegins \/ SortStep

ListSpec == ListInit /\ [][ListNext]_vars

-----------------------------------------------------------------------------
(* What the lists promise *)

ListTypeOK ==
    /\ ids \in Seq(Nat) /\ room \in Nat
    /\ dl \in Seq(Nat)
    /\ call \in Calls
    /\ search \in [over : {"idl", "id2l"}, id : Nat, base : Nat, cursor : Nat \ {0}, n : Nat,
                   val : {-1, 0, 1}]
    /\ sort.l \in Nat /\ sort.ir \in Nat /\ sort.i \in Nat /\ sort.j \in Nat
    /\ given \in Seq(Nat)

\* No call writes past the room of its list: whatever mix of calls has grown it,
\* each makes the room it needs, also where need and grow count differently.
\* (Between a shrink and the reset the numbers are done with.)
FitsRoom ==
    /\ call # "ended" => Len(ids) <= room
    /\ Len(dl) <= UmMax

\* The ID2L stays sorted and free of duplicates, which the searches rely on.
DirtyListSorted == Ascending(dl)

\* The lists are what their users take them for, after each step of each call.
ListsSound == ListTypeOK /\ FitsRoom /\ DirtyListSorted

\* A search ends where it should, found or not: what comes before the cursor is
\* strictly before the number sought, and nothing from the cursor on is.
SearchFinds ==
    call = "searched" =>
        \A p \in DOMAIN Searched :
            p < search.cursor <=>
                IF search.over = "idl" THEN Searched[p] > search.id ELSE Searched[p] < search.id

\* A sort loses and invents nothing at any of its steps, and in the end the list
\* descends.
Count(list, id) == Cardinality({p \in DOMAIN list : list[p] = id})

SortSorts ==
    /\ call \in {"sort", "partition"} =>
           \A id \in Held(given) \cup Held(ids) : Count(ids, id) = Count(given, id)
    /\ call = "sort" /\ sort.stack = <<>> /\ sort.ir - sort.l < Small =>
           LET sorted == InsertionSort(ids, sort.l, sort.ir) IN
           \A p, q \in DOMAIN sorted : p < q => sorted[p] >= sorted[q]

\* The scans of the quicksort, which test no bounds, stop inside the segment.
ScansStayInside ==
    call = "partition" =>
        /\ \E p \in StopsRight : p <= sort.ir
        /\ \E p \in StopsLeft : p >= sort.l

PowerOfTwo[n \in Nat] == IF n = 0 THEN 1 ELSE 2 * PowerOfTwo[n - 1]

\* The larger part always waits, so each segment put on the stack halves the one being
\* sorted: the fixed stack, of two entries per bit of an int, is enough.
StackIsLogarithmic ==
    call = "sort" => PowerOfTwo[Len(sort.stack)] * (sort.ir - sort.l + 1) <= Len(ids)

\* mdb_midl_sort sorts, reads nothing beyond its list and overruns no stack.
SortIsSafe == SortSorts /\ ScansStayInside /\ StackIsLogarithmic
=============================================================================
