------------------------------ MODULE LmdbTree ------------------------------
(***************************************************************************)
(* The B+tree of the LMDB library, which holds the messages of one          *)
(* storage, and the free list of the environment: searching, the cursors,   *)
(* mdb_cursor_put with page splits, mdb_cursor_del with moves and merges of *)
(* pages, and the fixing of every other cursor of the write transaction     *)
(* that each of them does.  One write transaction is modelled; a page keeps *)
(* its number in it (LmdbPages models touching, spilling and committing).   *)
(* DUPSORT, LEAF2 pages and named databases, which the program never asks   *)
(* for, are left out.                                                       *)
(*                                                                         *)
(* A key is a positive number, 0 the empty key of the first node of a       *)
(* branch page; a value is a number, told apart by its size.  Pages are     *)
(* numbered from 1 and P_INVALID is 0.  Levels of a cursor's stack count    *)
(* from 1 (mc_top is snum - 1), nodes of a page from 0 as mc_ki does.       *)
(***************************************************************************)
EXTENDS Integers, SequencesExt, FiniteSetsExt, TLC

CONSTANTS Keys, Values,     \* what is stored
          KeySize(_), DataSize(_), DataPages(_),
          NCursors,         \* how many cursors mdb_cursor_open made
          NodeHead, Slot, Ref,  \* NODESIZE, sizeof(indx_t), sizeof(pgno_t)
          Room,             \* me_psize - PAGEHDRSZ
          Threshold,        \* FILL_THRESHOLD
          Many, Share,      \* the 32 and the 16 of mdb_page_split
          Loads,            \* what the tree is filled with before the calls
          MaxCalls          \* bound: calls after that

ASSUME SizesFit ==
    /\ Keys \subseteq Nat \ {0}
    /\ {NCursors, NodeHead, Slot, Ref, Room, Threshold, Many, Share, MaxCalls} \subseteq Nat
    /\ \A k \in Keys : 4 * (NodeHead + KeySize(k) + Slot) <= Room + KeySize(k)

VARIABLES db,        \* the tree and the cursors of its transaction
          content,   \* key |-> value, as the calls made it
          place,     \* where each opened cursor was left by the calls
          calls      \* calls made

Cursors == 1..NCursors
treeVars == <<db, content, place, calls>>
-----------------------------------------------------------------------------
(* Sizes.                                                                  *)
Even(n) == 2 * ((n + 1) \div 2)
SizeOfKey(k) == IF k = 0 THEN 0 ELSE KeySize(k)
NodeMax == 2 * (Room \div 4) - Slot

(* Data too long for a node goes to pages of its own.                      *)
BigData(k, v) == NodeHead + SizeOfKey(k) + DataSize(v) > NodeMax
LeafNode(k, v) ==
    [k |-> k, p |-> v, ov |-> IF BigData(k, v) THEN DataPages(v) ELSE 0]
BranchNode(k, page) == [k |-> k, p |-> page, ov |-> 0]

BranchSize(k) == Even(NodeHead + SizeOfKey(k) + Slot)
NodeSize(leaf, nd) ==
    IF ~leaf THEN BranchSize(nd.k)
    ELSE Even(NodeHead + SizeOfKey(nd.k) + Slot
              + IF nd.ov > 0 THEN Ref ELSE DataSize(nd.p))

RECURSIVE Taken(_, _)
Taken(leaf, n) == IF n = <<>> THEN 0 ELSE NodeSize(leaf, Head(n)) + Taken(leaf, Tail(n))
Used(page) == Taken(page.leaf, page.n)
SizeLeft(page) == Room - Used(page)
PageFill(page) == (1000 * Used(page)) \div Room
-----------------------------------------------------------------------------
(* A sequence whose i-th element is New(i) (a tuple at once: TLC's SubSeq    *)
(* and \o lose the EXCEPTs of a function they have not evaluated).          *)
Each(s, New(_)) == <<>> \o [i \in DOMAIN s |-> New(i)]

(* The stack of a cursor.                                                  *)
NoCursor == [on |-> FALSE, eof |-> FALSE, del |-> FALSE, snum |-> 0, stk |-> <<>>]

Top(t, m) == t.cur[m].snum
PgAt(t, m, l) == t.cur[m].stk[l].pg
KiAt(t, m, l) == t.cur[m].stk[l].ki
PageAt(t, m, l) == t.pages[PgAt(t, m, l)]
TopPage(t, m) == PageAt(t, m, Top(t, m))
TopKi(t, m) == KiAt(t, m, Top(t, m))
NumKeys(page) == Len(page.n)

SetKi(t, m, l, i) == [t EXCEPT !.cur[m].stk[l].ki = i]
SetTopKi(t, m, i) == SetKi(t, m, Top(t, m), i)
Done(t, rc) == [t EXCEPT !.rc = rc]

CursorPop(t, m) == [t EXCEPT !.cur[m].snum = @ - 1]

CursorPush(t, m, page) ==
    LET l == Top(t, m) + 1
        s == t.cur[m].stk
        e == [pg |-> page, ki |-> 0]
    IN [t EXCEPT !.cur[m].snum = l,
                 !.cur[m].stk = IF l > Len(s) THEN Append(s, e) ELSE [s EXCEPT ![l] = e]]

(* A cursor on the C stack, linked into mt_cursors or not: the last one.    *)
FreshId(t) == Len(t.cur) + 1
WithCursor(t, c, tracked) ==
    [t EXCEPT !.cur = Append(t.cur, c),
              !.trk = IF tracked THEN @ \cup {FreshId(t)} ELSE @]
WithoutCursor(t, id) ==
    [t EXCEPT !.cur = SubSeq(t.cur, 1, id - 1), !.trk = @ \ {id}]
CursorCopy(c) == [c EXCEPT !.stk = SubSeq(c.stk, 1, c.snum)]

(* What a step does to every other cursor of the transaction.              *)
FixOthers(t, but, Fix(_)) ==
    [t EXCEPT !.cur = Each(t.cur, LAMBDA c : IF c \in t.trk /\ c # but
                                             THEN Fix(t.cur[c]) ELSE t.cur[c])]
-----------------------------------------------------------------------------
(* Searching.                                                              *)
RECURSIVE Bisect(_, _, _, _, _, _)
Bisect(n, k, low, high, i, rc) ==
    IF low > high \/ (rc = 0 /\ i >= 0) THEN [i |-> IF i < 0 THEN 0 ELSE i, rc |-> rc]
    ELSE LET mid == (low + high) \div 2
             cmp == k - n[mid + 1].k
         IN IF cmp > 0 THEN Bisect(n, k, mid + 1, high, mid, cmp)
            ELSE Bisect(n, k, low, mid - 1, mid, cmp)

NodeSearch(t, m, k) ==
    LET page == TopPage(t, m)
        At(i, exact) == [t |-> SetTopKi(t, m, i), i |-> i, exact |-> exact,
                         past |-> i >= NumKeys(page)]
        Found(f) == At(IF f.rc > 0 THEN f.i + 1 ELSE f.i, f.rc = 0 /\ page.n # <<>>)
    IN Found(Bisect(page.n, k, IF page.leaf THEN 0 ELSE 1, NumKeys(page) - 1, -1, 0))

RECURSIVE PageSearchRoot(_, _, _, _)
PageSearchRoot(t, m, k, how) ==
    LET page == TopPage(t, m)
        last == NumKeys(page) - 1
        Child(s) == IF s.past THEN last ELSE IF s.exact THEN s.i ELSE s.i - 1
        Down(i)  == CursorPush(SetTopKi([t EXCEPT !.bad = @ \/ last < 1], m, i),
                               m, page.n[i + 1].p)
    IN CASE page.leaf -> [t EXCEPT !.cur[m].on = TRUE, !.cur[m].eof = FALSE, !.rc = "ok"]
         [] ~page.leaf /\ how = "last" /\ t.cur[m].on /\ TopKi(t, m) = last ->
                PageSearchRoot([t EXCEPT !.cur[m].snum = @ + 1], m, k, how)
         [] OTHER ->
                PageSearchRoot(Down(CASE how = "first" -> 0
                                      [] how = "last"  -> last
                                      [] OTHER         -> Child(NodeSearch(t, m, k))), m, k, how)

PageSearch(t, m, k, how) ==
    IF t.root = 0 THEN Done(t, "notfound")
    ELSE PageSearchRoot(
           [t EXCEPT !.cur[m].snum = 1,
                     !.cur[m].stk = IF @ = <<>> THEN <<[pg |-> t.root, ki |-> 0]>>
                                    ELSE [@ EXCEPT ![1].pg = t.root]], m, k, how)

(* Wrong: takes the empty key of a branch page for its lowest.             *)
LowestKeyHere(t, page) == t.pages[page].n[1].k

RECURSIVE LowestKey(_, _)
LowestKey(t, page) ==
    LET first == t.pages[page].n[1]
    IN IF t.pages[page].leaf THEN first.k ELSE LowestKey(t, first.p)

RECURSIVE CursorSibling(_, _, _)
CursorSibling(t, m, right) ==
    LET up   == CursorPop(t, m)
        i    == TopKi(up, m)
        edge == IF right THEN i + 1 >= NumKeys(TopPage(up, m)) ELSE i = 0
        Down(u) == CursorPush(u, m, TopPage(u, m).n[TopKi(u, m) + 1].p)
        AtLast(u) == SetTopKi(u, m, NumKeys(TopPage(u, m)) - 1)
        Moved(u) == IF u.rc = "notfound"
                    THEN [u EXCEPT !.cur[m].snum = Top(t, m)]   \* undo cursor_pop
                    ELSE IF right THEN Down(u) ELSE AtLast(Down(u))
    IN IF Top(t, m) < 2 THEN Done(t, "notfound")
       ELSE Moved(IF edge THEN CursorSibling(up, m, right)
                  ELSE Done(SetTopKi(up, m, IF right THEN i + 1 ELSE i - 1), "ok"))

(* To the next page, if there is one.                                      *)
ToSibling(t, c) ==
    LET Moved(s) == IF s.rc = "notfound" THEN [s EXCEPT !.cur[c].eof = TRUE] ELSE s
    IN Moved(CursorSibling(t, c, TRUE))

CursorFirst(t, m) ==
    LET At(s) == IF s.rc # "ok" THEN s
                 ELSE [SetTopKi(s, m, 0)
                          EXCEPT !.cur[m].on = TRUE, !.cur[m].eof = FALSE]
    IN At(IF ~t.cur[m].on \/ Top(t, m) > 1 THEN PageSearch(t, m, 0, "first")
          ELSE Done(t, "ok"))

CursorLast(t, m) ==
    LET At(s) == IF s.rc # "ok" THEN s
                 ELSE [SetTopKi(s, m, NumKeys(TopPage(s, m)) - 1)
                          EXCEPT !.cur[m].on = TRUE, !.cur[m].eof = TRUE]
    IN At(IF ~t.cur[m].on \/ Top(t, m) > 1 THEN PageSearch(t, m, 0, "last")
          ELSE Done(t, "ok"))

CursorNext(t, m) ==
    LET c   == t.cur[m]
        n   == NumKeys(TopPage(t, m))
        end == c.eof /\ TopKi(t, m) >= n - 1
        u   == [t EXCEPT !.cur[m].eof = FALSE, !.rc = "ok"]
    IN CASE ~c.on -> CursorFirst(t, m)
         [] c.on /\ end -> Done(t, "notfound")
         [] c.on /\ ~end /\ c.del ->
                [u EXCEPT !.cur[m].del = FALSE, !.bad = @ \/ TopKi(t, m) >= n]
         [] OTHER -> IF TopKi(t, m) + 1 < n THEN SetTopKi(u, m, TopKi(t, m) + 1)
                     ELSE ToSibling(u, m)

CursorPrev(t, m) ==
    LET Beyond(u) == IF u.rc # "ok" THEN u ELSE SetTopKi(u, m, TopKi(u, m) + 1)
        Back(u) == IF TopKi(u, m) = 0 THEN CursorSibling(u, m, FALSE)
                   ELSE SetTopKi(u, m, TopKi(u, m) - 1)
        From(u) == IF u.rc # "ok" THEN u
                   ELSE Back([u EXCEPT !.cur[m].eof = FALSE, !.cur[m].del = FALSE])
    IN From(IF t.cur[m].on THEN Done(t, "ok") ELSE Beyond(CursorLast(t, m)))

(* mdb_cursor_set: MDB_SET when exactly, MDB_SET_RANGE otherwise.           *)
CursorSet(t, m, k, exactly) ==
    LET c    == t.cur[m]
        n    == TopPage(t, m).n
        end  == Len(n)
        Found(u)  == [u EXCEPT !.cur[m].on = TRUE, !.cur[m].eof = FALSE, !.rc = "ok"]
        Beside(u) == IF u.rc = "notfound" THEN u ELSE Found(u)
        Landed(s) == IF exactly /\ ~s.exact THEN Done(s.t, "notfound")
                     ELSE IF ~s.past THEN Found(s.t)
                     ELSE Beside(ToSibling(s.t, m))
        Narrow(u) == Landed(NodeSearch(u, m, k))
        OnLeaf(u) == IF u.rc # "ok" THEN u ELSE Narrow(u)
        Searched(u) == OnLeaf(PageSearch(u, m, k, "key"))
        rightSibs == \E l \in 1..(Top(t, m) - 1) :
                        KiAt(t, m, l) < NumKeys(PageAt(t, m, l)) - 1
    IN CASE ~c.on -> Searched([t EXCEPT !.cur[m].stk = <<>>])
         [] c.on /\ n = <<>> -> Done(SetTopKi(t, m, 0), "notfound")
         [] c.on /\ k = n[1].k -> Found(SetTopKi(t, m, 0))
         [] c.on /\ k > n[1].k /\ end > 1 /\ k = n[end].k ->
                Found(SetTopKi(t, m, end - 1))
         [] c.on /\ k > n[1].k /\ end > 1 /\ k < n[end].k ->
                IF TopKi(t, m) < end /\ n[TopKi(t, m) + 1].k = k THEN Found(t)
                ELSE Narrow([t EXCEPT !.cur[m].eof = FALSE])
         [] c.on /\ k > n[1].k /\ (end = 1 \/ k > n[end].k) /\ ~rightSibs ->
                Done(SetTopKi(t, m, end), "notfound")
         [] c.on /\ k < n[1].k /\ Top(t, m) = 1 ->
                IF exactly THEN Done(SetTopKi(t, m, 0), "notfound")
                ELSE Found(SetTopKi(t, m, 0))
         [] OTHER -> Searched(t)
-----------------------------------------------------------------------------
(* Pages.                                                                  *)
Unused(t) == CHOOSE p \in 1..(Cardinality(DOMAIN t.pages) + 1) : p \notin DOMAIN t.pages

PageNew(t, leaf) ==
    [t EXCEPT !.pages = (Unused(t) :> [leaf |-> leaf, n |-> <<>>]) @@ @,
              !.leafs = IF leaf THEN @ + 1 ELSE @,
              !.branches = IF leaf THEN @ ELSE @ + 1]

PageGone(t, page) ==
    [t EXCEPT !.pages = <<>> @@ [p \in DOMAIN t.pages \ {page} |-> t.pages[p]]]

(* MDB_PAGE_FULL: the transaction can only be aborted.                     *)
NodeAdd(t, page, i, nd) ==
    LET mp == t.pages[page]
    IN IF NodeSize(mp.leaf, nd) > SizeLeft(mp) THEN [t EXCEPT !.bad = TRUE]
       ELSE [t EXCEPT !.pages[page].n = InsertAt(mp.n, i + 1, nd)]

NodeDel(t, page, i) ==
    [t EXCEPT !.pages[page].n = RemoveAt(t.pages[page].n, i + 1)]

(* The index at which mdb_page_split cuts the nodes of a page in two.      *)
RECURSIVE SplitWalk(_, _, _, _, _, _, _)
SplitWalk(all, leaf, i, j, k, psize, split) ==
    LET size == psize + NodeSize(leaf, all[i + 1])
    IN IF i = k THEN split
       ELSE IF size > Room \/ i = k - j THEN (IF j < 0 THEN i + 1 ELSE i)
       ELSE SplitWalk(all, leaf, i + j, j, k, size, split)

SplitPoint(old, new, nd) ==
    LET nkeys == NumKeys(old)
        half  == (nkeys + 1) \div 2
        Cut(all) ==
            IF new >= nkeys THEN SplitWalk(all, old.leaf, 0, 1, nkeys, 0, half)
            ELSE IF new <= half
                 THEN SplitWalk(all, old.leaf, 0, 1,
                                half + 1 + (IF old.leaf THEN 1 ELSE 0), 0, half)
                 ELSE SplitWalk(all, old.leaf, nkeys, -1, half - 1, 0, half)
    IN IF nkeys < Many \/ NodeSize(old.leaf, nd) > Room \div Share \/ new >= nkeys
       THEN Cut(InsertAt(old.n, new + 1, nd))
       ELSE half

(* The first node of a branch page has no key.                             *)
Nulled(leaf, n) == IF leaf \/ n = <<>> THEN n ELSE [n EXCEPT ![1].k = 0]

(* A new root above mp: a level is put under every stack that starts there. *)
Rooted(t, m, pp, mp) ==
    [PageNew(t, FALSE) EXCEPT
        !.pages[pp].n = <<BranchNode(0, mp)>>, !.root = pp, !.depth = @ + 1,
        !.cur[m].stk = <<[pg |-> pp, ki |-> 0]>> \o SubSeq(t.cur[m].stk, 1, Top(t, m)),
        !.cur[m].snum = @ + 1]

(* m after the parent was split under it: follow the left page if it moved. *)
Reparented(t, m, mn) ==
    LET c == t.cur[m]
        d == t.cur[mn]
        l == c.snum
        follow == [t EXCEPT !.cur[m].stk =
                      Each(c.stk, LAMBDA i :
                         CASE i < l - 1 -> d.stk[i]
                           [] i = l - 1 -> [pg |-> d.stk[i].pg,
                                            ki |-> IF d.stk[i].ki > 0 THEN d.stk[i].ki - 1 ELSE 0]
                           [] OTHER -> c.stk[i])]
        Found(u) == [u EXCEPT !.bad = @ \/ u.rc # "ok"]
    IN IF d.stk[l - 1].pg = c.stk[l - 1].pg
          \/ c.stk[l - 1].ki < NumKeys(PageAt(t, m, l - 1)) THEN t
       ELSE IF d.stk[l - 1].ki > 0 THEN follow
       ELSE Found(CursorSibling(follow, m, FALSE))

(* Another cursor after page mp of level l was split at newindx: nkeys nodes *)
(* stayed, the others went to rp, whose place is in the stack of mn.        *)
FixSplit(x, c) ==
    LET Under == [c EXCEPT !.stk = <<[pg |-> x.m.stk[1].pg,
                                      ki |-> IF c.stk[1].ki >= x.nkeys THEN 1 ELSE 0]>> \o @,
                           !.snum = @ + 1]
        On(r, l, page) == r.snum >= l /\ r.stk[l].pg = page
        Shared(r, k) ==
            IF k < x.nkeys THEN [r EXCEPT !.stk[x.l].ki = k]
            ELSE [r EXCEPT !.stk = Each(r.stk, LAMBDA i :
                     CASE i < x.l -> x.mn.stk[i]
                       [] i = x.l -> [pg |-> x.rp, ki |-> k - x.nkeys]
                       [] OTHER -> r.stk[i])]
        Fixed(r) ==
            IF On(r, x.l, x.mp)
            THEN Shared(r, r.stk[x.l].ki
                           + IF r.stk[x.l].ki >= x.newindx /\ ~x.replace THEN 1 ELSE 0)
            ELSE IF ~x.didSplit /\ On(r, x.l - 1, x.m.stk[x.l - 1].pg)
                    /\ r.stk[x.l - 1].ki >= x.m.stk[x.l - 1].ki
                 THEN [r EXCEPT !.stk[x.l - 1].ki = @ + 1]
                 ELSE r
    IN IF ~c.on \/ (x.rooted /\ c.stk[1].pg # x.mp) THEN c
       ELSE Fixed(IF x.rooted THEN Under ELSE c)

RECURSIVE PageSplit(_, _, _, _, _)

(* The nodes of a page, the new one among them, are cut in two at split.   *)
SplitAt(t0, m, all, split, replace, append) ==
    LET old     == TopPage(t0, m)
        mp      == PgAt(t0, m, Top(t0, m))
        newindx == TopKi(t0, m)
        rp      == Unused(t0)
        rooted  == Top(t0, m) = 1
        mn      == FreshId(t0)
        sep     == BranchNode(all[split + 1].k, rp)
        left    == IF append THEN old.n ELSE Nulled(old.leaf, SubSeq(all, 1, split))
        right   == Nulled(old.leaf, SubSeq(all, split + 1, Len(all)))
        fits(n) == Used([leaf |-> old.leaf, n |-> n]) <= Room
        Grown(t) == IF rooted THEN Rooted(t, m, Unused(t), mp) ELSE t
        \* a cursor for the right sibling
        Aside(t) ==
            LET l == Top(t, m)
            IN WithCursor(t, [CursorCopy(t.cur[m]) EXCEPT
                                 !.stk[l] = [pg |-> rp, ki |-> IF append THEN 0 ELSE @.ki],
                                 !.stk[l - 1].ki = @ + 1], FALSE)
        \* the separator goes to the parent, which may be split for it
        Tight(t) == SizeLeft(PageAt(t, mn, Top(t, mn) - 1)) < BranchSize(sep.k)
        Parted(t) ==
            LET l == Top(t, mn) - 1
            IN IF ~Tight(t) THEN NodeAdd(t, PgAt(t, mn, l), KiAt(t, mn, l), sep)
               ELSE Reparented([PageSplit([t EXCEPT !.cur[mn].snum = @ - 1, !.trk = @ \cup {mn}],
                                          mn, sep, FALSE, FALSE)
                                   EXCEPT !.trk = @ \ {mn}], m, mn)
        \* the nodes are shared out
        Shared(t) == [t EXCEPT !.pages[mp].n = left, !.pages[rp].n = right,
                               !.bad = @ \/ ~fits(left) \/ ~fits(right)]
        Placed(t) ==
            LET l == Top(t, m)
            IN IF newindx < split
               THEN [t EXCEPT !.cur[m].stk[l] = [pg |-> mp, ki |-> newindx]]
               ELSE [t EXCEPT !.cur[m].stk[l] = [pg |-> rp, ki |-> newindx - split],
                              !.cur[m].stk[l - 1].ki = @ + 1]
        \* make sure mc_ki is still valid
        Valid(t) ==
            LET l    == Top(t, m)
                mine == t.cur[m].stk
                mns  == t.cur[mn].stk
            IN IF append
               THEN [t EXCEPT !.cur[m].stk = Each(mine, LAMBDA i :
                       IF i < l THEN [mine[i] EXCEPT !.ki = mns[i].ki] ELSE mine[i])]
               ELSE IF newindx >= split /\ mns[l - 1].pg # mine[l - 1].pg
                       /\ mine[l - 1].ki >= NumKeys(PageAt(t, m, l - 1))
               THEN [t EXCEPT !.cur[m].stk = Each(mine, LAMBDA i :
                       IF i < l THEN mns[i] ELSE mine[i])]
               ELSE t
        Fixed(t, didSplit) ==
            LET x == [rooted |-> rooted, mp |-> mp, rp |-> rp, l |-> Top(t, m),
                      newindx |-> newindx, replace |-> replace, nkeys |-> Len(left),
                      didSplit |-> didSplit, m |-> t.cur[m], mn |-> t.cur[mn]]
            IN WithoutCursor(FixOthers(t, m, LAMBDA c : FixSplit(x, c)), mn)
        Split(t) == Fixed(Valid(Placed(Shared(Parted(t)))), Tight(t))
    IN Split(Aside(Grown(PageNew(t0, old.leaf))))

PageSplit(t, m, nd, replace, append) ==
    LET old == TopPage(t, m)
        new == TopKi(t, m)
    IN SplitAt(t, m, InsertAt(old.n, new + 1, nd),
               IF append THEN new ELSE SplitPoint(old, new, nd), replace, append)
-----------------------------------------------------------------------------
(* Keeping the tree in shape after a deletion.                             *)
UpdateKey(t, m, k) ==
    LET page  == PgAt(t, m, Top(t, m))
        i     == TopKi(t, m)
        node  == t.pages[page].n[i + 1]
        delta == Even(SizeOfKey(k)) - Even(SizeOfKey(node.k))
    IN IF delta > 0 /\ SizeLeft(t.pages[page]) < delta
       THEN PageSplit(NodeDel(t, page, i), m, BranchNode(k, node.p), TRUE, FALSE)
       ELSE [t EXCEPT !.pages[page].n[i + 1].k = k]

(* ... of node i of level l of cursor c, through a copy of c.              *)
UpdateKeyAt(t, c, l, i, k, tracked) ==
    LET mn   == FreshId(t)
        copy == [t.cur[c] EXCEPT !.stk = [SubSeq(t.cur[c].stk, 1, l) EXCEPT ![l].ki = i],
                                 !.snum = l]
    IN WithoutCursor(UpdateKey(WithCursor(t, copy, tracked), mn, k), mn)

(* Wrong: the parent keeps the separator it had.                           *)
UpdateSeparatorNot(t, c) == t

(* After the first node of its page changed: the separator of the page in   *)
(* the parent, and the empty first key of a branch page.                    *)
UpdateSeparator(t, c) ==
    LET l    == Top(t, c)
        page == TopPage(t, c)
        Emptied(u) == IF page.leaf THEN u ELSE UpdateKeyAt(u, c, Top(u, c), 0, 0, FALSE)
    IN IF TopKi(t, c) # 0 THEN t
       ELSE Emptied(IF KiAt(t, c, l - 1) = 0 THEN t
                    ELSE UpdateKeyAt(t, c, l - 1, KiAt(t, c, l - 1), page.n[1].k, TRUE))

(* Wrong: cursors on the moved node stay behind.                           *)
FixMoveNot(x, c) == c

(* Another cursor after node is of page ps went to index id of page pd.    *)
FixMove(x, c) ==
    LET at(page) == c.on /\ c.snum >= x.l /\ c.stk[x.l].pg = page
        k == c.stk[x.l].ki
        goes(step) == [c EXCEPT !.stk[x.l] = [pg |-> x.pd, ki |-> x.id],
                                !.stk[x.l - 1].ki = @ + step]
    IN CASE x.fromleft /\ at(x.pd) /\ k >= x.id -> [c EXCEPT !.stk[x.l].ki = k + 1]
         [] x.fromleft /\ at(x.ps) /\ k = x.is -> goes(1)
         [] ~x.fromleft /\ at(x.ps) -> IF k = 0 THEN goes(-1)
                                        ELSE [c EXCEPT !.stk[x.l].ki = k - 1]
         [] OTHER -> c

NodeMove(t, src, dst, fromleft) ==
    LET l    == Top(t, src)
        ps   == PgAt(t, src, l)
        pd   == PgAt(t, dst, l)
        is   == TopKi(t, src)
        id   == TopKi(t, dst)
        leaf == t.pages[ps].leaf
        node == IF ~leaf /\ is = 0
                THEN [t.pages[ps].n[1] EXCEPT !.k = LowestKey(t, ps)]
                ELSE t.pages[ps].n[is + 1]
        t1   == IF ~leaf /\ id = 0
                THEN UpdateKeyAt(t, dst, l, 0, LowestKey(t, pd), FALSE) ELSE t
        t2   == NodeDel(NodeAdd(t1, pd, id, node), ps, is)
        x    == [l |-> l, ps |-> ps, pd |-> pd, is |-> is, id |-> id, fromleft |-> fromleft]
        t3   == FixOthers(t2, IF fromleft THEN dst ELSE src,
                          LAMBDA c : FixMove(x, c))
    IN UpdateSeparator(UpdateSeparator(t3, src), dst)

(* Another cursor after page ps was appended to page pd, which had nkeys.  *)
FixMerge(x, c) ==
    CASE c.snum >= x.l /\ c.stk[x.l].pg = x.ps ->
           [c EXCEPT !.stk[x.l] = [pg |-> x.pd, ki |-> @.ki + x.nkeys],
                     !.stk[x.l - 1].ki = x.up]
      [] c.snum >= x.l /\ c.stk[x.l].pg # x.ps /\ c.stk[x.l - 1].pg = x.parent
            /\ c.stk[x.l - 1].ki > x.gone ->
           [c EXCEPT !.stk[x.l - 1].ki = @ - 1]
      [] OTHER -> c

RECURSIVE Rebalance(_, _)
PageMerge(t, src, dst) ==
    LET l      == Top(t, src)
        ps     == PgAt(t, src, l)
        pd     == PgAt(t, dst, l)
        parent == PgAt(t, src, l - 1)
        gone   == KiAt(t, src, l - 1)
        leaf   == t.pages[ps].leaf
        moved  == IF leaf THEN t.pages[ps].n
                  ELSE [t.pages[ps].n EXCEPT ![1].k = LowestKey(t, ps)]
        all    == t.pages[pd].n \o moved
        t1     == [t EXCEPT !.pages[pd].n = all,
                            !.bad = @ \/ Used([leaf |-> leaf, n |-> all]) > Room]
        t2     == NodeDel(t1, parent, gone)
        t3     == IF gone = 0 THEN UpdateKeyAt(t2, src, l - 1, 0, 0, FALSE) ELSE t2
        t4     == [PageGone(t3, ps) EXCEPT
                     !.leafs = IF leaf THEN @ - 1 ELSE @,
                     !.branches = IF leaf THEN @ ELSE @ - 1]
        x      == [l |-> l, ps |-> ps, pd |-> pd, parent |-> parent, gone |-> gone,
                   nkeys |-> NumKeys(t.pages[pd]), up |-> KiAt(t, dst, l - 1)]
        Deeper(u, v) == [v EXCEPT !.cur[dst].snum = Top(u, dst) + v.depth - u.depth]
        Balanced(u) == Deeper(u, Rebalance(CursorPop(u, dst), dst))
    IN Balanced(FixOthers(t4, src, LAMBDA c : FixMerge(x, c)))

(* Wrong: md_leaf_pages is not reset.                                      *)
EmptyTreeCounted(t, m, mp) ==
    [PageGone(t, mp) EXCEPT !.root = 0, !.depth = 0,
           !.cur = Each(t.cur, LAMBDA c : [t.cur[c] EXCEPT !.snum = 0, !.on = FALSE])]

(* The root lost its last node, or all its children but one.               *)
EmptyTree(t, m, mp) ==
    [PageGone(t, mp) EXCEPT !.root = 0, !.depth = 0, !.leafs = 0,
           !.cur = Each(t.cur, LAMBDA c :
                      IF c = m \/ (c \in t.trk /\ t.cur[c].on /\ t.cur[c].stk[1].pg = mp)
                      THEN [t.cur[c] EXCEPT !.snum = 0, !.on = FALSE] ELSE t.cur[c])]

CollapseRoot(t, m, mp) ==
    LET child == t.pages[mp].n[1].p
        Shift(c) == [Tail(t.cur[c].stk) EXCEPT ![1].pg = child]
    IN [PageGone(t, mp) EXCEPT !.root = child, !.depth = @ - 1, !.branches = @ - 1,
           !.cur = Each(t.cur, LAMBDA c :
                      IF c = m THEN [t.cur[c] EXCEPT !.stk = Shift(c)]
                      ELSE IF c \in t.trk /\ t.cur[c].on /\ t.cur[c].stk[1].pg = mp
                           THEN [t.cur[c] EXCEPT !.stk = Shift(c), !.snum = @ - 1]
                      ELSE t.cur[c])]

Rebalance(t, m) ==
    LET l        == Top(t, m)
        mp       == PgAt(t, m, l)
        page     == t.pages[mp]
        minkeys  == IF page.leaf THEN 1 ELSE 2
        thresh   == IF page.leaf THEN Threshold ELSE 1
        oldki    == KiAt(t, m, l)
        \* the neighbour
        fromleft == KiAt(t, m, l - 1) # 0
        ki       == KiAt(t, m, l - 1) + IF fromleft THEN -1 ELSE 1
        pn       == PageAt(t, m, l - 1).n[ki + 1].p
        near     == t.pages[pn]
        mn       == FreshId(t)
        copy     == [CursorCopy(t.cur[m]) EXCEPT
                        !.stk[l - 1].ki = ki,
                        !.stk[l] = [pg |-> pn,
                                    ki |-> IF fromleft THEN NumKeys(near) - 1 ELSE 0]]
        t1       == SetKi([t EXCEPT !.bad = @ \/ NumKeys(PageAt(t, m, l - 1)) < 2],
                          m, l, IF fromleft THEN 0 ELSE NumKeys(page))
        moved    == NodeMove(WithCursor(t1, copy, FALSE), mn, m, fromleft)
        \* mdb_cursor_copy(&mn, mc)
        Copied(u) ==
            LET d == u.cur[mn]
                s == u.cur[m].stk
            IN [u EXCEPT !.cur[m] = [d EXCEPT !.stk = SubSeq(d.stk, 1, d.snum)
                                                       \o SubSeq(s, d.snum + 1, Len(s))]]
        merged   ==
            [IF fromleft
             THEN Copied(PageMerge(WithCursor(t1, [copy EXCEPT !.stk[l].ki = @ + 1], TRUE), m, mn))
             ELSE PageMerge(WithCursor(t1, copy, FALSE), mn, m)
                EXCEPT !.cur[m].eof = FALSE]
        Settled(u, i) == SetTopKi(WithoutCursor(u, mn), m, i)
    IN CASE PageFill(page) >= thresh /\ NumKeys(page) >= minkeys -> t
         [] ~(PageFill(page) >= thresh /\ NumKeys(page) >= minkeys) /\ l < 2 ->
              IF page.n = <<>> THEN EmptyTree(t, m, mp)
              ELSE IF ~page.leaf /\ NumKeys(page) = 1 THEN CollapseRoot(t, m, mp)
              ELSE t
         [] OTHER ->
              IF PageFill(near) >= thresh /\ NumKeys(near) > minkeys
              THEN Settled(moved, IF fromleft THEN oldki + 1 ELSE oldki)
              ELSE Settled(merged, IF fromleft THEN oldki + NumKeys(near) ELSE oldki)

(* Another cursor after node ki of page mp of level l was deleted; and       *)
(* after the rebalancing, when it may point past the end of its page.       *)
FixDel(c, l, mp, ki) ==
    IF ~(c.on /\ c.snum >= l /\ c.stk[l].pg = mp) \/ c.stk[l].ki < ki THEN c
    ELSE IF c.stk[l].ki = ki THEN [c EXCEPT !.del = TRUE]
    ELSE [c EXCEPT !.stk[l].ki = @ - 1]

PastEnd(t, m, c) ==
    LET d == t.cur[c]
        l == Top(t, m)
    IN /\ d.on /\ d.snum >= l /\ d.stk[l].pg = PgAt(t, m, l)
       /\ d.stk[l].ki >= TopKi(t, m)
       /\ d.stk[l].ki >= NumKeys(TopPage(t, m))

CursorDel0(t, m) ==
    LET l  == Top(t, m)
        mp == PgAt(t, m, l)
        ki == TopKi(t, m)
        t1 == [NodeDel(t, mp, ki) EXCEPT !.entries = @ - 1,
                                         !.ovs = @ - t.pages[mp].n[ki + 1].ov]
        Balanced(u) ==
            IF Top(u, m) = 0 THEN [u EXCEPT !.cur[m].eof = TRUE, !.rc = "ok"]
            ELSE [FoldSet(LAMBDA c, v : ToSibling(v, c), u,
                          {c \in u.trk : PastEnd(u, m, c)})
                     EXCEPT !.cur[m].del = TRUE, !.rc = "ok"]
    IN Balanced(Rebalance(FixOthers(t1, m, LAMBDA c : FixDel(c, l, mp, ki)), m))

CursorDel(t, m) ==
    CASE ~t.cur[m].on -> Done(t, "invalid")
      [] t.cur[m].on /\ TopKi(t, m) >= NumKeys(TopPage(t, m)) -> Done(t, "notfound")
      [] OTHER -> CursorDel0(t, m)
-----------------------------------------------------------------------------
(* Storing.                                                                *)
NewRoot(t, m) ==
    LET page == Unused(t)
        u    == CursorPush(PageNew(t, TRUE), m, page)
    IN [u EXCEPT !.root = page, !.depth = @ + 1, !.cur[m].on = TRUE]

(* Another cursor after a node was put at index ki of page mp of level l.   *)
FixPut(c, l, mp, ki) ==
    IF c.snum >= l /\ c.stk[l].pg = mp /\ c.stk[l].ki >= ki
    THEN [c EXCEPT !.stk[l].ki = @ + 1] ELSE c

(* Where the key goes: rc is ok when it is there already.                  *)
PutPosition(t, m, k, flags) ==
    LET After(u) == IF k > TopPage(u, m).n[TopKi(u, m) + 1].k
                    THEN Done(SetTopKi(u, m, TopKi(u, m) + 1), "notfound")
                    ELSE Done(u, "keyexist")
    IN IF "current" \in flags THEN Done(t, IF t.cur[m].on THEN "ok" ELSE "invalid")
       ELSE IF t.root = 0
            THEN [t EXCEPT !.cur[m].snum = 0, !.cur[m].on = FALSE, !.rc = "noroot"]
       ELSE IF "append" \notin flags THEN CursorSet(t, m, k, TRUE)
       ELSE After(CursorLast(t, m))

(* A new node at the cursor, in a page that may have to be split for it.   *)
PutNode(t, m, node, insert, append) ==
    LET l    == Top(t, m)
        page == PgAt(t, m, l)
        ki   == TopKi(t, m)
        Added(u) == IF insert THEN FixOthers(u, m, LAMBDA c : FixPut(c, l, page, ki)) ELSE u
    IN IF SizeLeft(t.pages[page]) < NodeSize(TRUE, node)
       THEN PageSplit(t, m, node, ~insert, append)
       ELSE Added(NodeAdd(t, page, ki, node))

(* A new key at the place found for it.                                    *)
PutNew(t, m, node, append) ==
    [PutNode(IF t.rc = "noroot" THEN NewRoot(t, m) ELSE t, m, node, TRUE, append)
        EXCEPT !.entries = @ + 1, !.ovs = @ + node.ov, !.cur[m].on = TRUE, !.rc = "ok"]

(* Other data for the key the cursor is on.  writable: the overflow pages   *)
(* of the old data are dirty in this transaction.                          *)
PutOver(t, m, node, append, writable) ==
    LET page == PgAt(t, m, Top(t, m))
        ki   == TopKi(t, m)
        old  == t.pages[page].n[ki + 1]
    IN IF (old.ov > 0 /\ old.ov >= DataPages(node.p) /\ writable)
          \/ (old.ov = 0 /\ DataSize(old.p) = DataSize(node.p))
       THEN Done([t EXCEPT !.pages[page].n[ki + 1].p = node.p], "ok")
       ELSE [PutNode(NodeDel(t, page, ki), m, node, FALSE, append)
                EXCEPT !.ovs = @ + node.ov - old.ov, !.rc = "ok"]

CursorPut(t, m, k, v, flags, writable) ==
    LET node   == LeafNode(k, v)
        append == "append" \in flags
        Undel(u) == [u EXCEPT !.cur[m].del = FALSE]
        At(u) == IF u.rc \in {"invalid", "keyexist"} THEN u
                 ELSE IF u.rc # "ok" THEN PutNew(Undel(u), m, node, append)
                 ELSE IF "nooverwrite" \in flags THEN Done(u, "keyexist")
                 ELSE PutOver(Undel(u), m, node, append, writable)
    IN At(PutPosition(t, m, k, flags))
-----------------------------------------------------------------------------
(* The calls.                                                              *)
EmptyDb == [pages |-> <<>>, root |-> 0, depth |-> 0, entries |-> 0, leafs |-> 0,
            branches |-> 0, ovs |-> 0, bad |-> FALSE, rc |-> "ok",
            cur |-> Each([c \in Cursors |-> c], LAMBDA c : NoCursor), trk |-> Cursors]

(* What is left of a cursor's stack under snum is never read again.        *)
Tidy(t) == [t EXCEPT !.rc = "ok", !.cur = Each(t.cur, LAMBDA c : CursorCopy(t.cur[c]))]

(* mdb_put and mdb_del: through a cursor of their own, tracked.            *)
MdbPut(t, k, v, flags, writable) ==
    LET m == FreshId(t)
    IN WithoutCursor(CursorPut(WithCursor(t, NoCursor, TRUE), m, k, v, flags, writable), m)

MdbDel(t, k) ==
    LET m == FreshId(t)
        At(s) == IF s.rc # "ok" THEN s ELSE CursorDel([s EXCEPT !.trk = @ \cup {m}], m)
    IN WithoutCursor(At(CursorSet(WithCursor(t, NoCursor, FALSE), m, k, TRUE)), m)

(* mdb_get: the value, or 0.                                               *)
MdbGet(t, k) ==
    LET m == FreshId(t)
        At(s) == IF s.rc = "ok" THEN TopPage(s, m).n[TopKi(s, m) + 1].p ELSE 0
    IN At(CursorSet(WithCursor(t, NoCursor, FALSE), m, k, TRUE))

(* mdb_cursor_get: the movement, then the flag of a deletion is dropped.   *)
CursorGet(t, c, op, k) ==
    LET s == CASE op = "first" -> CursorFirst(t, c)
               [] op = "last"  -> CursorLast(t, c)
               [] op = "next"  -> CursorNext(t, c)
               [] op = "prev"  -> CursorPrev(t, c)
               [] op = "set"   -> CursorSet(t, c, k, TRUE)
               [] op = "range" -> CursorSet(t, c, k, FALSE)
    IN [s EXCEPT !.cur[c].del = FALSE]

(* The key the call gave back, or 0.                                       *)
Given(t, c) == IF t.rc = "ok" /\ TopKi(t, c) < NumKeys(TopPage(t, c))
               THEN TopPage(t, c).n[TopKi(t, c) + 1].k ELSE 0
-----------------------------------------------------------------------------
(* What the caller knows: the contents, and the key each cursor was left   *)
(* on; "gone" when that key was deleted since; "lost" when the library     *)
(* makes no promise (a failed search, a new key next to a deleted one, or a *)
(* put that found its key and left the C_DEL of an earlier deletion set).   *)
Lost == [k |-> 0, how |-> "lost"]
Held == DOMAIN content

Stored(k, v, flags) ==
    IF ("nooverwrite" \in flags /\ k \in Held)
       \/ ("append" \in flags /\ \E x \in Held : x >= k)
    THEN content ELSE (k :> v) @@ content

BesideGone(at, k) ==
    /\ at.how = "gone" /\ k \notin Held
    /\ \A x \in Held : ~(at.k < x /\ x < k) /\ ~(k < x /\ x < at.k)

AfterPut(k, v, flags) ==
    [c \in Cursors |-> IF Stored(k, v, flags) # content /\ BesideGone(place[c], k)
                       THEN Lost ELSE place[c]]
AfterDel(k) ==
    [c \in Cursors |-> IF place[c] = [k |-> k, how |-> "on"]
                       THEN [place[c] EXCEPT !.how = "gone"] ELSE place[c]]

(* It matters only to data on pages of their own whether they are dirty.    *)
Writable(k) == {TRUE, ~(k \in Held /\ BigData(k, content[k]))}

Counted == calls < MaxCalls /\ calls' = calls + 1 /\ ~db.bad

Init ==
    /\ \E load \in Loads :
         /\ content = FoldLeft(LAMBDA f, e : (e.k :> e.v) @@ f, <<>>, load)
         /\ db = Tidy(FoldLeft(LAMBDA t, e : MdbPut(t, e.k, e.v, {}, TRUE), EmptyDb, load))
    /\ place = [c \in Cursors |-> Lost]
    /\ calls = 0

Put(k, v) ==
    /\ Counted
    /\ \E flags \in {{}, {"append"}}, writable \in Writable(k) :
         /\ db' = Tidy(MdbPut(db, k, v, flags, writable))
         /\ content' = Stored(k, v, flags)
         /\ place' = AfterPut(k, v, flags)

Del(k) ==
    /\ Counted
    /\ db' = Tidy(MdbDel(db, k))
    /\ content' = [x \in Held \ {k} |-> content[x]]
    /\ place' = AfterDel(k)

Move(c, op, k) ==
    /\ Counted
    /\ \E t \in {CursorGet(db, c, op, k)} :
          /\ db' = Tidy(t)
          /\ place' = [place EXCEPT ![c] =
                          IF t.rc = "ok" THEN [k |-> Given(t, c), how |-> "on"]
                          ELSE IF op \in {"next", "prev"} /\ @.how = "on" THEN @ ELSE Lost]
    /\ UNCHANGED content

(* With MDB_CURRENT the key must be the one the cursor is on.              *)
PutAt(c, k, v) ==
    /\ Counted
    /\ \E flags \in {{}, {"nooverwrite"}}
                     \cup (IF place[c] = [k |-> k, how |-> "on"] THEN {{"current"}} ELSE {}),
          writable \in Writable(k) :
         /\ db' = Tidy(CursorPut(db, c, k, v, flags, writable))
         /\ content' = Stored(k, v, flags)
         /\ place' = [AfterPut(k, v, flags) EXCEPT ![c] =
                         IF db'.cur[c].del THEN Lost ELSE [k |-> k, how |-> "on"]]

DelAt(c) ==
    /\ Counted
    /\ place[c].how = "on"
    /\ db' = Tidy(CursorDel(db, c))
    /\ content' = [x \in Held \ {place[c].k} |-> content[x]]
    /\ place' = AfterDel(place[c].k)

Next ==
    \/ \E k \in Keys, v \in Values : Put(k, v)
    \/ \E k \in Keys : Del(k)
    \/ \E c \in Cursors, op \in {"first", "last", "next", "prev"} : Move(c, op, 0)
    \/ \E c \in Cursors, op \in {"set", "range"}, k \in Keys : Move(c, op, k)
    \/ \E c \in Cursors, k \in Keys, v \in Values : PutAt(c, k, v)
    \/ \E c \in Cursors : DelAt(c)

Spec == Init /\ [][Next]_treeVars
-----------------------------------------------------------------------------
(* The state is made of numbers, flags and stacks of the right shape.      *)
TreeTypeOK ==
    /\ db.root \in {0} \cup DOMAIN db.pages
    /\ DOMAIN db.cur = Cursors /\ db.trk = Cursors
    /\ \A c \in Cursors : /\ db.cur[c].on => Top(db, c) = db.depth
                           /\ place[c].how \in {"on", "gone", "lost"}
    /\ Held \subseteq Keys /\ Range(content) \subseteq Values

RECURSIVE InOrder(_), SoundUnder(_, _, _, _)
InOrder(page) ==
    LET p == db.pages[page]
    IN IF p.leaf THEN p.n ELSE FoldLeft(LAMBDA s, nd : s \o InOrder(nd.p), <<>>, p.n)

(* Every key of the page is at least low and less than high (0: no bound). *)
SoundUnder(page, low, high, height) ==
    LET p == db.pages[page]
        n == p.n
        first == IF p.leaf THEN 1 ELSE 2
    IN /\ p.leaf <=> height = 1
       /\ Used(p) <= Room
       /\ Len(n) >= first
       /\ \A i \in first..Len(n) : n[i].k >= low /\ (high = 0 \/ n[i].k < high)
       /\ \A i \in first..(Len(n) - 1) : n[i].k < n[i + 1].k
       /\ ~p.leaf => /\ n[1].k = 0
                     /\ \A i \in 1..Len(n) :
                          SoundUnder(n[i].p, IF i = 1 THEN low ELSE n[i].k,
                                     IF i = Len(n) THEN high ELSE n[i + 1].k, height - 1)

(* The tree is a search tree: all leaves at one depth, every key between    *)
(* the separators above it, no page overfull, no branch page with a single  *)
(* child and no empty leaf, whatever order of puts, deletes and updates     *)
(* split, moved and merged its pages.                                       *)
TreeIsSound == db.root # 0 => SoundUnder(db.root, 0, 0, db.depth)

RECURSIVE OverflowPages(_)
OverflowPages(n) == IF n = <<>> THEN 0 ELSE Head(n).ov + OverflowPages(Tail(n))

(* The pages hold what was put and not deleted since, each key once, and    *)
(* md_entries, md_leaf_pages, md_branch_pages, md_overflow_pages count it.  *)
HoldsContent ==
    LET nodes == IF db.root = 0 THEN <<>> ELSE InOrder(db.root)
        pages == DOMAIN db.pages
    IN /\ Len(nodes) = Cardinality(Held) /\ db.entries = Len(nodes)
       /\ \A i \in DOMAIN nodes : nodes[i].k \in Held /\ nodes[i].p = content[nodes[i].k]
       /\ db.leafs = Cardinality({p \in pages : db.pages[p].leaf})
       /\ db.branches = Cardinality({p \in pages : ~db.pages[p].leaf})
       /\ db.ovs = OverflowPages(nodes)

(* No call ends in MDB_PAGE_FULL or in a failed assertion ("This error      *)
(* should never happen since all callers already calculate the page's free  *)
(* space", mdb_node_add).                                                   *)
NeverFull == ~db.bad

(* Both, and that the cursors of the transaction follow the depth of the    *)
(* tree.                                                                   *)
TreeSound == NeverFull /\ TreeTypeOK /\ TreeIsSound

Least(S) == IF S = {} THEN 0 ELSE Min(S)
Greatest(S) == IF S = {} THEN 0 ELSE Max(S)

(* However the pages were split, moved and merged under a cursor by other   *)
(* calls, the next key it gives is the first one after the key it was left  *)
(* on, and the previous key is the last one before it: a scan that deletes  *)
(* or inserts as it goes sees each key once.                                *)
ScanGoesOn ==
    \A c \in Cursors : ~db.bad /\ place[c].how # "lost" =>
        /\ Given(CursorGet(db, c, "next", 0), c)
              \in {Least({x \in Held : x > place[c].k})} \cup (IF db.cur[c].eof THEN {0} ELSE {})
        /\ Given(CursorGet(db, c, "prev", 0), c) = Greatest({x \in Held : x < place[c].k})

(* "Position at next data item" (MDB_NEXT, lmdb.h): the key after the one   *)
(* the cursor is on, if there is one.  Refuted: the mark that the cursor is *)
(* on the last key survives a split that puts a later key on another page.  *)
NextIsNext ==
    \A c \in Cursors : ~db.bad /\ place[c].how = "on" =>
        Given(CursorGet(db, c, "next", 0), c) = Least({x \in Held : x > place[c].k})

(* A search finds what is stored from wherever the cursor stands, although  *)
(* it skips the descent when the key seems to be on the cursor's page.      *)
SeekFinds ==
    \A k \in Keys : ~db.bad =>
        /\ MdbGet(db, k) = IF k \in Held THEN content[k] ELSE 0
        /\ \A c \in Cursors :
             /\ Given(CursorGet(db, c, "range", k), c) = Least({x \in Held : x >= k})
             /\ CursorGet(db, c, "set", k).rc = IF k \in Held THEN "ok" ELSE "notfound"
=============================================================================
