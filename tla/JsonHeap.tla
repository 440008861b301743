------------------------------ MODULE JsonHeap ------------------------------
(***************************************************************************)
(* The items of the cJSON library and the lists they form: creating and     *)
(* deleting, adding, detaching, inserting and replacing, references,        *)
(* duplicating and comparing, with allocations that may fail.               *)
(*                                                                         *)
(* A heap h holds the allocated items and strings, the number of            *)
(* allocations that still succeed, whether something was freed twice or     *)
(* read after it was freed (bad), and what the last call gave back (at):    *)
(* an item, a string, or 0 for NULL.  A string is a sequence of symbols     *)
(* (JsonText); the address of the constant string Texts[i] is -i.           *)
(***************************************************************************)
EXTENDS Integers, SequencesExt, FiniteSetsExt, TLC

CONSTANTS Texts,    \* the strings of the program, in a sequence
          Lower(_), \* a string as the case-insensitive lookup compares it
          IntMax    \* INT_MAX; INT_MIN is its negative less one

NULL == 0

(* cJSON_New_Item clears the item.                                         *)
Blank(kind) ==
    [kind |-> kind, ref |-> FALSE, const |-> FALSE, next |-> NULL, prev |-> NULL,
     child |-> NULL, name |-> NULL, text |-> NULL, d |-> 0, i |-> 0]

EmptyHeap(left) == [items |-> <<>>, strs |-> <<>>, left |-> left, bad |-> FALSE, at |-> NULL]

Item(h, x) == h.items[x]
Live(h) == DOMAIN h.items
Gives(h, x) == [h EXCEPT !.at = x]
Without(f, x) == <<>> @@ [y \in DOMAIN f \ {x} |-> f[y]]
Unused(S) == CHOOSE x \in 1..(Cardinality(S) + 1) : x \notin S
-----------------------------------------------------------------------------
(* Memory.                                                                 *)
NewItem(h, kind) ==
    IF h.left = 0 THEN Gives(h, NULL)
    ELSE LET x == Unused(Live(h))
         IN [h EXCEPT !.items = (x :> Blank(kind)) @@ h.items, !.left = @ - 1, !.at = x]

Strdup(h, s) ==
    IF h.left = 0 THEN Gives(h, NULL)
    ELSE LET x == Unused(DOMAIN h.strs)
         IN [h EXCEPT !.strs = (x :> s) @@ h.strs, !.left = @ - 1, !.at = x]

StrAt(h, x) == IF x < 0 THEN Texts[-x] ELSE h.strs[x]

FreeStr(h, x) ==
    CASE x = NULL -> h
      [] x \in DOMAIN h.strs -> [h EXCEPT !.strs = Without(h.strs, x)]
      [] OTHER -> [h EXCEPT !.bad = TRUE]

(* The item, what it owns and the items that follow it.                    *)
RECURSIVE Delete(_, _)
Delete(h, x) ==
    IF x = NULL THEN h
    ELSE IF x \notin Live(h) THEN [h EXCEPT !.bad = TRUE]
    ELSE LET it == Item(h, x)
             h1 == IF it.ref THEN h ELSE FreeStr(Delete(h, it.child), it.text)
             h2 == IF it.const THEN h1 ELSE FreeStr(h1, it.name)
         IN Delete([h2 EXCEPT !.items = Without(h2.items, x)], it.next)

(* Wrong: what was made is forgotten.                                      *)
FailsKeeping(h, x) == Gives(h, NULL)

(* A call that failed half-way: what it made is deleted, NULL returned.    *)
Fails(h, x) == Gives(Delete(h, x), NULL)
-----------------------------------------------------------------------------
(* Lists.                                                                  *)
RECURSIVE Chain(_, _, _)
Chain(h, x, n) == IF x = NULL \/ n = 0 \/ x \notin Live(h) THEN <<>>
                  ELSE <<x>> \o Chain(h, Item(h, x).next, n - 1)
Kids(h, x) == Chain(h, Item(h, x).child, Cardinality(Live(h)) + 1)

GetArrayItem(h, x, index) ==
    IF index < Len(Kids(h, x)) THEN Kids(h, x)[index + 1] ELSE NULL

(* With case the search stops at a member without a name.                  *)
GetObjectItem(h, x, name, cased) ==
    LET kids == Kids(h, x)
        Named(i) == Item(h, kids[i]).name # NULL
        Is(i) == IF cased THEN ~Named(i) \/ StrAt(h, Item(h, kids[i]).name) = name
                 ELSE Named(i) /\ Lower(StrAt(h, Item(h, kids[i]).name)) = Lower(name)
        hits == {i \in DOMAIN kids : Is(i)}
    IN IF hits = {} \/ ~Named(Min(hits)) THEN NULL ELSE kids[Min(hits)]

AddItemToArray(h, array, x) ==
    LET child == Item(h, array).child
        last  == Item(h, child).prev
    IN CASE x = NULL \/ array = x -> Gives(h, NULL)
         [] x # NULL /\ array # x /\ child = NULL ->
              [h EXCEPT !.items[array].child = x, !.items[x].prev = x,
                        !.items[x].next = NULL, !.at = x]
         [] OTHER ->
              IF last = NULL THEN Gives(h, x)
              ELSE [h EXCEPT !.items[last].next = x, !.items[x].prev = last,
                             !.items[child].prev = x, !.at = x]

(* The key is copied unless it is constant; the item keeps its old name if  *)
(* the copy fails.                                                         *)
AddItemToObject(h, object, s, x, const) ==
    LET k  == IF const THEN Gives(h, -s) ELSE Strdup(h, Texts[s])
        h1 == IF Item(h, x).const THEN k ELSE FreeStr(k, Item(h, x).name)
    IN IF x = NULL \/ object = x \/ k.at = NULL THEN Gives(h, NULL)
       ELSE AddItemToArray([h1 EXCEPT !.items[x].name = k.at, !.items[x].const = const],
                           object, x)

CreateReference(h, x) ==
    LET n == NewItem(h, "invalid")
    IN IF x = NULL \/ n.at = NULL THEN Gives(h, NULL)
       ELSE [n EXCEPT !.items[n.at] = [Item(h, x) EXCEPT !.name = NULL, !.ref = TRUE,
                                                        !.next = NULL, !.prev = NULL]]

(* Wrong: the last item is not told to the first one.                      *)
DetachForgetful(h, parent, x) ==
    LET it == Item(h, x)
        h1 == IF x # Item(h, parent).child THEN [h EXCEPT !.items[it.prev].next = it.next]
              ELSE [h EXCEPT !.items[parent].child = it.next]
        h2 == IF it.next # NULL THEN [h1 EXCEPT !.items[it.next].prev = it.prev] ELSE h1
    IN [h2 EXCEPT !.items[x].prev = NULL, !.items[x].next = NULL, !.at = x]

DetachItemViaPointer(h, parent, x) ==
    LET it    == Item(h, x)
        first == x = Item(h, parent).child
        h1 == IF first THEN h ELSE [h EXCEPT !.items[it.prev].next = it.next]
        h2 == IF it.next = NULL THEN h1 ELSE [h1 EXCEPT !.items[it.next].prev = it.prev]
        h3 == IF first THEN [h2 EXCEPT !.items[parent].child = it.next]
              ELSE IF it.next = NULL
                   THEN [h2 EXCEPT !.items[Item(h, parent).child].prev = it.prev]
              ELSE h2
    IN [h3 EXCEPT !.items[x].prev = NULL, !.items[x].next = NULL, !.at = x]

InsertItemInArray(h, array, which, x) ==
    LET after == GetArrayItem(h, array, which)
        prev  == Item(h, after).prev
        h1 == [h EXCEPT !.items[x].next = after, !.items[x].prev = prev,
                        !.items[after].prev = x, !.at = x]
    IN IF after = NULL THEN AddItemToArray(h, array, x)
       ELSE IF after = Item(h, array).child THEN [h1 EXCEPT !.items[array].child = x]
       ELSE [h1 EXCEPT !.items[prev].next = x]

ReplaceItemViaPointer(h, parent, x, new) ==
    LET it   == Item(h, x)
        head == Item(h, parent).child
        h1 == [h EXCEPT !.items[new].next = it.next, !.items[new].prev = it.prev]
        h2 == IF it.next = NULL THEN h1 ELSE [h1 EXCEPT !.items[it.next].prev = new]
        h3 == IF head = x
              THEN [h2 EXCEPT !.items[parent].child = new,
                              !.items[new].prev = IF Item(h2, x).prev = x THEN new ELSE @]
              ELSE [h2 EXCEPT !.items[it.prev].next = new,
                              !.items[head].prev = IF it.next = NULL THEN new ELSE @]
        h4 == [h3 EXCEPT !.items[x].next = NULL, !.items[x].prev = NULL]
    IN CASE x = NULL -> Gives(h, NULL)
         [] x = new  -> Gives(h, new)
         [] OTHER    -> Gives(Delete(h4, x), new)

(* The new item is renamed whether or not there is one to replace.         *)
ReplaceItemInObject(h, object, s, new, cased) ==
    LET h1 == IF Item(h, new).const THEN h ELSE FreeStr(h, Item(h, new).name)
        k  == Strdup(h1, Texts[s])
        h2 == [k EXCEPT !.items[new].name = k.at, !.items[new].const = FALSE]
    IN ReplaceItemViaPointer(h2, object, GetObjectItem(h2, object, Texts[s], cased), new)
-----------------------------------------------------------------------------
(* Creating.  A number is saturated to an int.                             *)
Saturated(d) == IF d >= IntMax THEN IntMax
                ELSE IF d <= -IntMax - 1 THEN -IntMax - 1 ELSE d

CreateNumber(h, d) ==
    LET n == NewItem(h, "number")
    IN IF n.at = NULL THEN n
       ELSE [n EXCEPT !.items[n.at].d = d, !.items[n.at].i = Saturated(d)]

CreateString(h, s) ==
    LET n == NewItem(h, "string")
        k == Strdup(n, s)
    IN IF n.at = NULL THEN n
       ELSE IF k.at = NULL THEN Fails(k, n.at)
       ELSE [k EXCEPT !.items[n.at].text = k.at, !.at = n.at]

CreateStringReference(h, s) ==
    LET n == NewItem(h, "string")
    IN IF n.at = NULL THEN n ELSE [n EXCEPT !.items[n.at].text = -s, !.items[n.at].ref = TRUE]

(* cJSON_CreateStringArray and its kin: the head learns the tail at the end. *)
RECURSIVE Strung(_, _, _, _)
Strung(h, a, last, ss) ==
    LET n == CreateString(h, Head(ss))
        h1 == IF last = NULL THEN [n EXCEPT !.items[a].child = n.at]
              ELSE [n EXCEPT !.items[last].next = n.at, !.items[n.at].prev = last]
    IN IF ss = <<>>
       THEN Gives(IF last = NULL THEN h
                  ELSE [h EXCEPT !.items[Item(h, a).child].prev = last], a)
       ELSE IF n.at = NULL THEN Fails(n, a)
       ELSE Strung(h1, a, n.at, Tail(ss))

CreateStringArray(h, ss) ==
    LET a == NewItem(h, "array")
    IN IF a.at = NULL THEN a ELSE Strung(a, a.at, NULL, ss)

(* The program writes in place what is no longer than what it replaces.    *)
SetValuestring(h, x, s) ==
    LET k == Strdup(h, s)
    IN CASE Item(h, x).kind # "string" \/ Item(h, x).ref -> Gives(h, NULL)
         [] Item(h, x).kind = "string" /\ ~Item(h, x).ref
            /\ Len(s) <= Len(StrAt(h, Item(h, x).text)) ->
              [h EXCEPT !.strs[Item(h, x).text] = s, !.at = x]
         [] OTHER ->
              IF k.at = NULL THEN k
              ELSE [FreeStr(k, Item(h, x).text) EXCEPT !.items[x].text = k.at, !.at = x]
-----------------------------------------------------------------------------
(* A deep copy: references become items of their own, constant names stay. *)
RECURSIVE Duplicate(_, _, _), Copied(_, _, _, _)
Copied(h, new, last, child) ==
    LET n == Duplicate(h, child, TRUE)
        h1 == IF last = NULL THEN [n EXCEPT !.items[new].child = n.at]
              ELSE [n EXCEPT !.items[last].next = n.at, !.items[n.at].prev = last]
    IN IF child = NULL
       THEN Gives(IF last = NULL THEN h
                  ELSE [h EXCEPT !.items[Item(h, new).child].prev = last], new)
       ELSE IF n.at = NULL THEN Fails(n, new)
       ELSE Copied(h1, new, n.at, Item(h, child).next)

Duplicate(h, x, recurse) ==
    LET it == Item(h, x)
        Rest(h3, new) == IF recurse THEN Copied(h3, new, NULL, it.child) ELSE Gives(h3, new)
        Name(k, new)  == IF it.name # NULL /\ k.at = NULL THEN Fails(k, new)
                         ELSE Rest([k EXCEPT !.items[new].name = k.at], new)
        Named(h2, new) ==
            Name(IF it.name = NULL \/ it.const THEN Gives(h2, it.name)
                 ELSE Strdup(h2, StrAt(h, it.name)), new)
        Text(k, new) == IF k.at = NULL THEN Fails(k, new)
                        ELSE Named([k EXCEPT !.items[new].text = k.at], new)
        Texted(h1, new) == IF it.text = NULL THEN Named(h1, new)
                           ELSE Text(Strdup(h1, StrAt(h, it.text)), new)
        Filled(n) ==
            IF n.at = NULL THEN n
            ELSE Texted([n EXCEPT !.items[n.at].d = it.d, !.items[n.at].i = it.i,
                                  !.items[n.at].const = it.const], n.at)
    IN Filled(NewItem(h, it.kind))

RECURSIVE Compare(_, _, _, _)
Compare(h, a, b, cased) ==
    LET x  == Item(h, a)
        y  == Item(h, b)
        as == Kids(h, a)
        bs == Kids(h, b)
        Within(us, w) == \A i \in DOMAIN us :
            LET v == GetObjectItem(h, w, StrAt(h, Item(h, us[i]).name), cased)
            IN Item(h, us[i]).name # NULL /\ v # NULL /\ Compare(h, us[i], v, cased)
    IN /\ a # NULL /\ b # NULL
       /\ x.kind = y.kind
       /\ \/ a = b
          \/ x.kind \in {"null", "true", "false"}
          \/ x.kind = "number" /\ x.d = y.d
          \/ /\ x.kind = "string" /\ x.text # NULL /\ y.text # NULL
             /\ StrAt(h, x.text) = StrAt(h, y.text)
          \/ /\ x.kind = "array" /\ Len(as) = Len(bs)
             /\ \A i \in DOMAIN as : Compare(h, as[i], bs[i], cased)
          \/ x.kind = "object" /\ Within(as, b) /\ Within(bs, a)
=============================================================================
