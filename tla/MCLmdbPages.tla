---------------------------- MODULE MCLmdbPages -----------------------------
(* Budgets for the instance of LmdbPages: each looks at one kind of thing. *)
EXTENDS LmdbPages, TLC

Budget(b) == b @@ [kind \in Kinds |-> 0]

MCBudgets == {
    \* the free list: records of overflow pages, reserved in several parts
    Budget("txn" :> 5 @@ "new" :> 2 @@ "new2" :> 4 @@ "drop" :> 1),
    \* loose pages, and pages used again
    Budget("txn" :> 4 @@ "new" :> 3 @@ "touch" :> 1 @@ "loosen" :> 2 @@ "free" :> 1),
    \* nested transactions and spilled pages
    Budget("txn" :> 2 @@ "new" :> 2 @@ "touch" :> 2 @@ "child" :> 2 @@ "spill" :> 2),
    Budget("txn" :> 3 @@ "new" :> 1 @@ "new2" :> 1 @@ "touch" :> 1 @@ "free2" :> 1
           @@ "overwrite" :> 1 @@ "child" :> 1 @@ "spill" :> 1),
    Budget("txn" :> 3 @@ "new" :> 1 @@ "drop" :> 1 @@ "child" :> 2 @@ "spill" :> 1),
    \* readers
    Budget("txn" :> 4 @@ "new" :> 2 @@ "touch" :> 2 @@ "read" :> 2),
    Budget("txn" :> 2 @@ "new" :> 1 @@ "touch" :> 2 @@ "read" :> 1 @@ "crash" :> 1 @@ "kill" :> 1),
    \* crashes, and writes that fail
    Budget("txn" :> 3 @@ "new" :> 2 @@ "touch" :> 2 @@ "abort" :> 1
           @@ "crash" :> 1 @@ "kill" :> 1 @@ "flush" :> 1),
    Budget("txn" :> 4 @@ "new" :> 1 @@ "touch" :> 2 @@ "crash" :> 1 @@ "meta" :> 1),
    \* a reader that is slow to copy the meta page, and a write of that page that fails
    Budget("txn" :> 3 @@ "new" :> 1 @@ "touch" :> 2 @@ "read" :> 1 @@ "meta" :> 1)
}
=============================================================================
