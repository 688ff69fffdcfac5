-------------------------- MODULE ServiceDefinition --------------------------
(***************************************************************************)
(* What a service definition decides: which parameters a plan takes and    *)
(* within which limits, which plan may be left, on which maintenance       *)
(* version a plan stands, how long an operator may take, and what of all   *)
(* this the catalog tells a platform.  Pure operators; a definition is     *)
(*   [plans      |-> [plan ids -> plans],                                  *)
(*    updateable |-> "yes", "no" or "unset",     planUpdateable            *)
(*    timeout    |-> Int]                        readiness.timeoutSeconds  *)
(* and a plan                                                              *)
(*   [allowed |-> SUBSET Keys, limits |-> [Keys -> Limits],                *)
(*    updateable |-> as above,  version |-> Versions, None or Malformed].  *)
(***************************************************************************)
EXTENDS Integers

CONSTANTS
    Keys,               \* parameter keys
    Texts,              \* what a scalar value or a bound reads like
    Quantity,           \* [Texts -> Int or Unreadable]: resource.ParseQuantity
    Number,             \* [Texts -> Int or Unreadable]: strconv.ParseFloat
    Versions,           \* semantic versions of maintenance_info
    DefaultReadinessTimeout,
    None, Unreadable, Malformed

ASSUME TextAssumption ==
    /\ Quantity \in [Texts -> Int \union {Unreadable}]
    /\ Number \in [Texts -> Int \union {Unreadable}]
    /\ Unreadable \notin Int
    /\ None \notin Texts \union Versions \union Int

\* Of the texts a definition or a JSON number can hold.
ASSUME PlainNumberAssumption ==
    \A t \in Texts : Number[t] # Unreadable => Quantity[t] = Number[t]

ASSUME TimeoutAssumption == DefaultReadinessTimeout \in Nat \ {0}

Limits == [max : Texts \union {None}, min : Texts \union {None}, oneOf : SUBSET Texts]

NoLimit == [max |-> None, min |-> None, oneOf |-> {}]

\* A JSON value: strings, numbers and truth values have a text, the rest none.
Scalars == {v \in [form : {"string", "number", "bool"}, text : Texts] :
               v.form = "number" => Number[v.text] # Unreadable}

Compound == [form |-> "compound", text |-> None]

Params == [Keys -> Scalars \union {Compound, None}]

Given(params) == {k \in Keys : params[k] # None}

-----------------------------------------------------------------------------
(* Limits.                                                                 *)

HasBounds(l) == l.max # None \/ l.min # None \/ l.oneOf # {}

InBounds(l, q) ==
    /\ q # Unreadable
    /\ l.max # None => q <= Quantity[l.max]
    /\ l.min # None => q >= Quantity[l.min]

LimitAllows(l, v) ==
    /\ v # Compound
    /\ IF l.oneOf # {} THEN v.text \in l.oneOf ELSE InBounds(l, Quantity[v.text])

CheckLimits(plan, params) ==
    \A k \in Given(params) : HasBounds(plan.limits[k]) => LimitAllows(plan.limits[k], params[k])

\* Mutant of ValidatePlanParams: the limits are not looked at.
ValidateKeysOnly(plan, params) == Given(params) \subseteq plan.allowed

ValidatePlanParams(plan, params) ==
    Given(params) \subseteq plan.allowed /\ CheckLimits(plan, params)

\* A bound that could never apply, cannot be read or is one too many.
ValidateLimits(plan) ==
    \A k \in Keys : HasBounds(plan.limits[k]) =>
        /\ k \in plan.allowed
        /\ \A b \in {plan.limits[k].max, plan.limits[k].min} \ {None} :
              Quantity[b] # Unreadable
        /\ plan.limits[k].oneOf # {} =>
              plan.limits[k].max = None /\ plan.limits[k].min = None

\* Checked when the broker starts; it does not start with an invalid one.
Validate(d) ==
    /\ DOMAIN d.plans # {}
    /\ \A p \in DOMAIN d.plans :
          ValidateLimits(d.plans[p]) /\ d.plans[p].version # Malformed

\* overlay: keys of the patch replace those of the base.
Merged(base, patch) == [k \in Keys |-> IF patch[k] = None THEN base[k] ELSE patch[k]]

-----------------------------------------------------------------------------
(* Plan changes, maintenance, readiness.                                   *)

\* The plan decides, the offering is the fallback; a plan that is gone and one
\* nothing is said of may not be left.
PlanChangeAllowed(d, p) ==
    /\ p \in DOMAIN d.plans
    /\ \/ d.plans[p].updateable = "yes"
       \/ d.plans[p].updateable = "unset" /\ d.updateable = "yes"

MaintenanceVersion(d, p) == IF p \in DOMAIN d.plans THEN d.plans[p].version ELSE None

\* Mutant of ReadinessTimeout: a definition that says nothing waits forever.
TimeoutAsGiven(d) == IF d.timeout < 0 THEN 0 ELSE d.timeout

\* Nothing said is the default; a negative number is no limit at all.
ReadinessTimeout(d) ==
    IF d.timeout < 0 THEN 0
    ELSE IF d.timeout = 0 THEN DefaultReadinessTimeout
    ELSE d.timeout

DeadlineExceeded(d, age) == ReadinessTimeout(d) > 0 /\ age > ReadinessTimeout(d)

-----------------------------------------------------------------------------
(* The catalog.                                                            *)

\* A bound that is a plain number is a maximum or minimum, any other is text.
Bound(t) == IF t = None \/ Number[t] = Unreadable THEN None ELSE Number[t]

PropertySchema(plan, k) ==
    LET l == plan.limits[k] IN
    [enum    |-> l.oneOf,
     maximum |-> IF l.oneOf # {} THEN None ELSE Bound(l.max),
     minimum |-> IF l.oneOf # {} THEN None ELSE Bound(l.min)]

\* One schema for create and update; additionalProperties is false.
ParameterSchema(plan) == [k \in plan.allowed |-> PropertySchema(plan, k)]

\* Mutant of OfferingPromise: the offering's own word.
OfferingsWord(d) == d.updateable = "yes"

\* The offering promises only what every plan keeps.
OfferingPromise(d) == \A p \in DOMAIN d.plans : PlanChangeAllowed(d, p)

\* maximum_polling_duration 0 is left out of the JSON.
Catalog(d) ==
    [updateable |-> OfferingPromise(d),
     plans |-> [p \in DOMAIN d.plans |->
                  [updateable |-> PlanChangeAllowed(d, p),
                   version    |-> d.plans[p].version,
                   polling    |-> ReadinessTimeout(d),
                   schema     |-> ParameterSchema(d.plans[p])]]]

\* A JSON Schema validator: the bounds concern numbers, and an enum of strings
\* admits no number.
Admits(s, v) ==
    /\ s.enum # {} => v.form = "string" /\ v.text \in s.enum
    /\ v.form = "number" =>
          /\ s.maximum # None => Number[v.text] <= s.maximum
          /\ s.minimum # None => Number[v.text] >= s.minimum

SchemaAdmits(schema, params) ==
    \A k \in Given(params) : k \in DOMAIN schema /\ Admits(schema[k], params[k])

\* A value of the form its limit is written in, with bounds a schema can hold.
Plain(l, v) ==
    /\ l.oneOf # {} => v.form = "string"
    /\ l.max # None \/ l.min # None =>
          /\ v.form = "number"
          /\ \A b \in {l.max, l.min} \ {None} : Number[b] # Unreadable

PlainParams(plan, params) ==
    \A k \in Given(params) : Plain(plan.limits[k], params[k])
=============================================================================
