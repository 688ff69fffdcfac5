----------------------------- MODULE MCMigration -----------------------------
(* Two instances and two bindings, one of each without an ID, and a null.   *)
EXTENDS Migration, TLC

CONSTANTS i, j, b, c, n

MCInstanceOf == (b :> i) @@ (c :> i)

MCEntry == (i :> i) @@ (j :> NoId) @@ (b :> b) @@ (c :> NoId) @@ (n :> Nil)
==============================================================================
