-------------------------------- MODULE Json --------------------------------
(***************************************************************************)
(* A program that uses the cJSON library: it builds items by any sequence   *)
(* of calls, each of which may run out of memory at any allocation, and     *)
(* parses and prints them.  What the header asks of the caller is a guard:  *)
(* an item is put into one list only, not into itself, and what a reference *)
(* stands for is neither moved nor freed.                                   *)
(***************************************************************************)
EXTENDS JsonText

CONSTANTS Kinds,       \* "null", "array" ...: what is created without a value
          Numbers,     \* numbers created
          Documents,   \* pairs of texts, parsed before the first call
          Enough,      \* more allocations than any call makes
          MaxCalls     \* bound: calls

ASSUME BoundsAssumption ==
    /\ {Enough, MaxCalls, NestingLimit, DefaultBuffer, IntMax} \subseteq Nat
    /\ Len(Texts) > 0

VARIABLES heap,   \* the items and the strings
          held,   \* the items the program holds a pointer to, in no list
          leaked, \* the references that found no room for their name
          calls   \* the calls made

jsonVars == <<heap, held, leaked, calls>>
Names == DOMAIN Texts
Containers == {x \in Live(heap) : Item(heap, x).kind \in {"array", "object"} /\ ~Item(heap, x).ref}
Objects == {x \in Containers : Item(heap, x).kind = "object"}

(* Everything seen from x and from the items that follow it.               *)
RECURSIVE Seen(_, _)
Seen(h, x) == IF x = NULL THEN {}
              ELSE {x} \cup Seen(h, Item(h, x).child) \cup Seen(h, Item(h, x).next)
From(h, x) == {x} \cup Seen(h, Item(h, x).child)

(* What Delete(x) frees; and the blocks that references point to.          *)
RECURSIVE Owned(_, _)
Owned(h, x) == IF x = NULL THEN {}
               ELSE {x} \cup Owned(h, Item(h, x).next)
                    \cup (IF Item(h, x).ref THEN {} ELSE Owned(h, Item(h, x).child))
OwnedBy(h, x) == {x} \cup (IF Item(h, x).ref THEN {} ELSE Owned(h, Item(h, x).child))
Refs == {r \in Live(heap) \ leaked : Item(heap, r).ref}
Pinned(but) == {Item(heap, r).child : r \in Refs \ but} \ {NULL}
PinnedText(but) == {Item(heap, r).text : r \in Refs \ but} \ {NULL}
Loose(x) ==
    LET gone == OwnedBy(heap, x)
    IN /\ gone \cap Pinned(gone) = {}
       /\ {Item(heap, y).text : y \in gone} \cap PinnedText(gone) = {}

(* No cycle arises when x is put into the list of array.                   *)
Separate(array, x) == array \notin From(heap, x)
                      /\ Range(Kids(heap, array)) \cap From(heap, x) = {}

(* How many allocations succeed.  A call is given up to as many as it makes.  *)
Left == 0..Enough
Longest == Max({Len(d[2]) : d \in Documents})
With(left) == [heap EXCEPT !.left = left]

(* The heap after a call, which keeps, adds or removes what is held.       *)
Becomes(h, now) ==
    /\ heap' = [h EXCEPT !.left = 0, !.at = NULL]
    /\ held' = now \ {NULL}
    /\ UNCHANGED leaked

Init ==
    \E d \in Documents :
    \E one \in {Parse(EmptyHeap(100), d[1]).h} : \E two \in {Parse(one, d[2]).h} :
        /\ heap = [two EXCEPT !.left = 0, !.at = NULL]
        /\ held = {one.at, two.at} \ {NULL}
        /\ leaked = {} /\ calls = 0

(* What a call made is held.                                               *)
Made(h) == Becomes(h, held \cup {h.at})

Create ==
    \E left \in 0..5 :
      \/ \E k \in Kinds : left <= 1 /\ Made(NewItem(With(left), k))
      \/ \E d \in Numbers : left <= 1 /\ Made(CreateNumber(With(left), d))
      \/ \E s \in Names : left <= 2 /\ Made(CreateString(With(left), Texts[s]))
      \/ \E s \in Names : left <= 1 /\ Made(CreateStringReference(With(left), s))
      \/ \E s \in Names : left <= 5 /\ Made(CreateStringArray(With(left), <<Texts[s], Texts[1]>>))

(* A document, or only its beginning.                                      *)
ParseDocument ==
    LET Read(p) == Made([p.h EXCEPT !.bad = @ \/ p.wild]) IN
    \E left \in Left, d \in Documents, k \in 0..Longest :
        /\ k <= Len(d[2]) /\ (k = Len(d[2]) \/ left = Enough)
        /\ Read(Parse(With(left), SubSeq(d[2], 1, k)))

Add(array, x) ==
    /\ Separate(array, x)
    /\ \/ Becomes(AddItemToArray(heap, array, x), held \ {x})
       \/ \E left \in {0, 1}, s \in Names, const \in BOOLEAN :
            LET h == AddItemToObject(With(left), array, s, x, const)
            IN /\ array \in Objects
               /\ Becomes(h, IF h.at = NULL THEN held ELSE held \ {x})

(* cJSON_AddStringToObject and its kin delete the item that found no room. *)
AddString(object, s) ==
    \E left \in 0..3 :
        LET n == CreateString(With(left), Texts[s])
            h == AddItemToObject(n, object, s, n.at, FALSE)
        IN Becomes(IF n.at = NULL THEN n ELSE IF h.at = NULL THEN Delete(h, n.at) ELSE h, held)

AddReference(array, x) ==
    /\ Separate(array, x)
    /\ \E left \in 0..2, s \in Names :
         LET r == CreateReference(With(left), x)
             h == IF array \in Objects THEN AddItemToObject(r, array, s, r.at, FALSE)
                  ELSE AddItemToArray(r, array, r.at)
         IN IF r.at = NULL \/ h.at # NULL
            THEN Becomes(IF r.at = NULL THEN r ELSE h, held)
            ELSE /\ leaked = {}
                 /\ heap' = [h EXCEPT !.left = 0, !.at = NULL]
                 /\ leaked' = {r.at}
                 /\ UNCHANGED held

Detach(parent, x) ==
    /\ x \in Range(Kids(heap, parent)) /\ x \notin Pinned({})
    /\ \/ Becomes(DetachItemViaPointer(heap, parent, x), held \cup {x})
       \/ /\ Loose(x)
          /\ Becomes(Delete(DetachItemViaPointer(heap, parent, x), x), held)

Insert(array, which, x) ==
    /\ Separate(array, x)
    /\ Becomes(InsertItemInArray(heap, array, which, x), held \ {x})

Replace(parent, x, new) ==
    /\ x \in Range(Kids(heap, parent)) /\ Loose(x) /\ Separate(parent, new)
    /\ Becomes(ReplaceItemViaPointer(heap, parent, x, new), held \ {new})

ReplaceNamed(object, new) ==
    /\ Separate(object, new)
    /\ \E left \in {0, 1}, s \in Names, cased \in BOOLEAN :
         LET x == GetObjectItem(heap, object, Texts[s], cased)
             h == ReplaceItemInObject(With(left), object, s, new, cased)
         IN /\ x # NULL => Loose(x)
            /\ Becomes(h, IF x = NULL THEN held ELSE held \ {new})

Free(x) == Loose(x) /\ Becomes(Delete(heap, x), held \ {x})

Copy(x) == \E left \in Left, recurse \in BOOLEAN : Made(Duplicate(With(left), x, recurse))

SetText(x, s) ==
    /\ Item(heap, x).text # NULL
    /\ Item(heap, x).text \notin PinnedText({})
    /\ \E left \in {0, 1} : Becomes(SetValuestring(With(left), x, Texts[s]), held)

Next ==
    /\ calls < MaxCalls /\ calls' = calls + 1
    /\ \/ Create
       \/ ParseDocument
       \/ \E array \in Containers, x \in held :
            \/ Add(array, x)
            \/ AddReference(array, x)
            \/ \E which \in 0..2 : Insert(array, which, x)
            \/ \E old \in Live(heap) : Replace(array, old, x)
       \/ \E object \in Objects, x \in held : ReplaceNamed(object, x)
       \/ \E object \in Objects, s \in Names : AddString(object, s)
       \/ \E parent \in Containers, x \in Live(heap) : Detach(parent, x)
       \/ \E x \in held : Free(x)
       \/ \E x \in Live(heap) \ leaked : Copy(x)
       \/ \E x \in Live(heap) \ leaked, s \in Names : SetText(x, s)

Spec == Init /\ [][Next]_jsonVars
-----------------------------------------------------------------------------
(* Pointers lead to live items and strings, whatever was freed.            *)
JsonTypeOK ==
    /\ ~heap.bad /\ held \subseteq Live(heap)
    /\ \A x \in Live(heap) \ leaked :
         LET it == Item(heap, x)
         IN /\ {it.next, it.prev, it.child} \subseteq Live(heap) \cup {NULL}
            /\ {it.name, it.text} \subseteq DOMAIN heap.strs \cup {NULL} \cup {-i : i \in Names}

(* Every list is doubly linked, and its first item knows the last one,      *)
(* whatever was inserted, detached, replaced or copied: else the next item  *)
(* added is lost, or printed twice.                                        *)
ListsSound ==
    /\ JsonTypeOK
    /\ \A x \in held : Item(heap, x).next = NULL
    /\ \A x \in Containers :
         LET kids == Kids(heap, x)
         IN /\ \A i \in 2..Len(kids) : Item(heap, kids[i]).prev = kids[i - 1]
            /\ kids # <<>> => Item(heap, kids[1]).prev = kids[Len(kids)]
            /\ Cardinality(Range(kids)) = Len(kids)

(* Every item and string belongs to one item the program holds, also after  *)
(* a call that ran out of memory half-way: nothing will be freed twice, and *)
(* nothing leaks but the reference whose name cJSON_AddItemReferenceToObject *)
(* could not copy.                                                         *)
NothingLost ==
    LET strs(x) == LET it == Item(heap, x)
                   IN (IF it.ref \/ it.text <= 0 THEN {} ELSE {it.text})
                      \cup (IF it.const \/ it.name <= 0 THEN {} ELSE {it.name})
    IN /\ Live(heap) = leaked \cup UNION {OwnedBy(heap, x) : x \in held}
       /\ \A x, y \in held : x # y => OwnedBy(heap, x) \cap OwnedBy(heap, y) = {}
       /\ UNION {strs(x) : x \in Live(heap)} = DOMAIN heap.strs
       /\ MapThenSumSet(LAMBDA x : Cardinality(strs(x)), Live(heap)) = Cardinality(DOMAIN heap.strs)

(* The value an item stands for, and when two values are the same.         *)
RECURSIVE Val(_, _)
Val(h, x) ==
    LET it == Item(h, x)
    IN [kind |-> it.kind, d |-> it.d,
        text |-> IF it.text = NULL THEN <<>> ELSE StrAt(h, it.text),
        kids |-> [i \in DOMAIN Kids(h, x) |->
                    LET k == Kids(h, x)[i]
                    IN [name |-> IF it.kind = "array" \/ Item(h, k).name = NULL THEN <<>>
                                 ELSE StrAt(h, Item(h, k).name),
                        val |-> Val(h, k)]]]

RECURSIVE Proper(_), SameValue(_, _)
(* Members have names of their own.                                        *)
Proper(v) ==
    /\ v.kind # "invalid"
    /\ \A i \in DOMAIN v.kids : Proper(v.kids[i].val)
    /\ v.kind = "object" => \A i, j \in DOMAIN v.kids : 
        /\ v.kids[i].name # <<>>
        /\ i # j => v.kids[i].name # v.kids[j].name

SameValue(v, w) ==
    /\ v.kind = w.kind /\ v.d = w.d /\ v.text = w.text
    /\ Len(v.kids) = Len(w.kids)
    /\ IF v.kind = "object"
       THEN \A i \in DOMAIN v.kids : \E j \in DOMAIN w.kids :
              v.kids[i].name = w.kids[j].name /\ SameValue(v.kids[i].val, w.kids[j].val)
       ELSE \A i \in DOMAIN v.kids : SameValue(v.kids[i].val, w.kids[i].val)

(* cJSON_Compare with case says whether two items stand for the same value. *)
CompareIsSame ==
    \A x, y \in held :
        LET v == Val(heap, x)
            w == Val(heap, y)
        IN Proper(v) /\ Proper(w) => (Compare(heap, x, y, TRUE) <=> SameValue(v, w))

RECURSIVE Deep(_)
Deep(v) == IF v.kind \notin {"array", "object"} THEN 0
           ELSE 1 + Max({0} \cup {Deep(v.kids[i].val) : i \in DOMAIN v.kids})

(* What is printed, formatted or not, is parsed to the same value, down to  *)
(* the nesting limit and unless memory runs out.                          *)
PrintsWhatParses ==
    \A x \in held, format \in BOOLEAN :
        LET Parsed(h, v) ==
                /\ Deep(v) <= NestingLimit => h.at # NULL /\ Val(h, h.at) = v
                /\ Deep(v) > NestingLimit => h.at = NULL /\ Live(h) = {}
            Printed(p) == p.ok /\ Parsed(Parse(EmptyHeap(100), p.out).h, Val(heap, x))
        IN Printed(PrintItem(heap, x, format, Enough))

(* What comes back is the same value, and cJSON_Compare says of two values  *)
(* whether they are (bound: what the last call made is neither printed nor  *)
(* compared).                                                              *)
RoundTrip == calls < MaxCalls => PrintsWhatParses /\ CompareIsSame

(* The printer never writes past the end of its buffer, and five bytes more *)
(* than needed are enough ("cJSON is not always 100% accurate in estimating *)
(* how much memory it will use, so to be safe allocate 5 bytes more than    *)
(* you actually need", cJSON.h).                                           *)
PrintFits ==
    calls < MaxCalls => \A x \in held, format \in BOOLEAN :
        LET Fits(need) ==
                /\ \A size \in {1, need - 1, need} :
                     ~PrintPreallocated(heap, x, size, format).wild
                /\ LET p == PrintPreallocated(heap, x, need + 5, format) IN p.ok /\ ~p.wild
                /\ \A left \in {0, 1, Enough} : ~PrintBuffered(heap, x, 1, format, left).wild
        IN Fits(PrintItem(heap, x, format, Enough).off + 1)
=============================================================================
