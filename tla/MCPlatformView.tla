---------------------------- MODULE MCPlatformView ----------------------------
(* Four definitions of one offering, and six values of one parameter.     *)
EXTENDS PlatformView, TLC

CONSTANTS small, large

\* "1", "3" and "word".
MCQuantity == "1" :> 1 @@ "3" :> 3 @@ "word" :> Unreadable

MCNumber == MCQuantity

Plan(max, oneOf, updateable, version) ==
    [allowed |-> Keys,
     limits |-> [k \in Keys |-> [max |-> max, min |-> None, oneOf |-> oneOf]],
     updateable |-> updateable, version |-> version]

Closed == [allowed |-> {}, limits |-> [k \in Keys |-> NoLimit],
           updateable |-> "unset", version |-> None]

\* The small plan may be left, the large one may not.
Directed ==
    [plans |-> small :> Plan("1", {}, "yes", "v1") @@ large :> Plan("3", {}, "no", "v1"),
     updateable |-> "yes", timeout |-> 1]

\* A new version of the small plan, which takes words now; the default timeout.
Renewed ==
    [plans |-> small :> Plan(None, {"word", "1"}, "unset", "v2") @@ large :> Plan("3", {}, "yes", "v1"),
     updateable |-> "yes", timeout |-> 0]

\* The large plan is gone, the small one takes nothing; no limit on time.
Reduced == [plans |-> small :> Closed, updateable |-> "unset", timeout |-> -1]

\* Does not load: a bound that cannot be read.
Broken == [plans |-> small :> Plan("word", {}, "yes", "v1"), updateable |-> "no", timeout |-> 1]

Asked == {None, Compound} \union
    {[form |-> "number", text |-> "1"], [form |-> "number", text |-> "3"],
     [form |-> "string", text |-> "1"], [form |-> "string", text |-> "word"]}

MCInputs == [Keys -> Asked]

MCDefinitions == {Directed, Renewed, Reduced, Broken}
==============================================================================
