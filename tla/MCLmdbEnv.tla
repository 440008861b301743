----------------------------- MODULE MCLmdbEnv ------------------------------
EXTENDS LmdbEnv, TLC

CONSTANTS a, b, c

Budget(x) == x @@ [kind \in EnvKinds |-> 0]

\* Each environment is another process.
OneEach == a :> 1 @@ b :> 2 @@ c :> 3

\* One process has the database open twice.
OpenedTwice == a :> 1 @@ b :> 1 @@ c :> 2

MCBudgets == {
    Budget("open" :> 3 @@ "write" :> 2 @@ "read" :> 1 @@ "kill" :> 1),
    Budget("open" :> 3 @@ "write" :> 2 @@ "leak" :> 1 @@ "abort" :> 1),
    Budget("open" :> 3 @@ "read" :> 3),
    Budget("open" :> 2 @@ "read" :> 3 @@ "exit" :> 1),
    Budget("open" :> 3 @@ "read" :> 2 @@ "check" :> 1 @@ "kill" :> 1)
}
=============================================================================
