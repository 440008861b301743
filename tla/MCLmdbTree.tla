----------------------------- MODULE MCLmdbTree -----------------------------
(* Small pages: a leaf holds two to four nodes, a branch page four or more. *)
EXTENDS LmdbTree

MCKeySize(k) == IF k % 3 = 0 THEN 6 ELSE 2
MCDataSize(v) == IF v = 1 THEN 2 ELSE 8
MCDataPages(v) == v

Asc(low, high, Val(_)) == [i \in 1..(high + 1 - low) |-> [k |-> low + i - 1, v |-> Val(i)]]
Odd(n, v) == [i \in 1..n |-> [k |-> 2 * i, v |-> v]]
MCLoads == {<<>>, Odd(5, 2), Asc(1, 10, LAMBDA i : 1 + (i % 2)),
            Asc(2, 9, LAMBDA i : 2)}

\* A page of two small nodes and two large ones, and a node to put between them.
MCShort(k) == 2
MCDataSmall(v) == CASE v = 1 -> 0 [] v = 2 -> 2 [] v = 3 -> 8
MCHalves == {<<[k |-> 1, v |-> 1], [k |-> 2, v |-> 1], [k |-> 3, v |-> 2], [k |-> 5, v |-> 2]>>}
=============================================================================
