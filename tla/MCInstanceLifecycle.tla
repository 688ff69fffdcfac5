------------------------- MODULE MCInstanceLifecycle -------------------------
(* Small instances of InstanceLifecycle for TLC. *)
EXTENDS InstanceLifecycle, TLC

CONSTANTS small, big, foreign, offering, other

\* Two plans of one offering and, if there is a third, that of another.
MCServiceOf == [p \in Plans |-> IF p = foreign THEN other ELSE offering]

\* A template whose documents depend on the plan, one that has two whatever it
\* is rendered for, and one with the CR alone.
MCDocsByPlan == [c \in Contents |-> IF c.plan = big THEN <<"main", "aux">> ELSE <<"main">>]
MCDocsBoth   == [c \in Contents |-> <<"main", "aux">>]
MCDocsMain   == [c \in Contents |-> <<"main">>]

\* No document names a namespace, or the one beside the CR does.
MCNoOwn  == [d \in DocNames |-> NoNamespace]
MCAuxOwn == [d \in DocNames |-> IF d = "aux" THEN "space" ELSE NoNamespace]

\* allowedParameters: every key for every plan, or none for the big one.
MCAllowedAll   == [p \in Plans |-> Keys]
MCAllowedSmall == [p \in Plans |-> IF p = big THEN {} ELSE Keys]

Identical == Permutations(Requests)
==============================================================================
