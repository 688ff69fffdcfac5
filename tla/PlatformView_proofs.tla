------------------------- MODULE PlatformView_proofs -------------------------
(***************************************************************************)
(* For any definitions, parameters and limits: what is stored conforms to  *)
(* the definition that accepted it, and an up-to-date catalog promises of  *)
(* plan changes, versions, polling and plain parameters what the handlers  *)
(* do.  The second needs that a loaded definition is valid, and that a     *)
(* schema and the limits it is derived from agree on plain parameters      *)
(* (SchemaIsExact).                                                        *)
(***************************************************************************)
EXTENDS PlatformView, TLAPS

-----------------------------------------------------------------------------
(* Schemas and limits.                                                     *)

\* One value: the schema admits it if and only if the limit allows it.
LEMMA PropertyIsExact ==
    ASSUME NEW plan, plan.limits \in [Keys -> Limits], ValidateLimits(plan),
           NEW k \in Keys, k \in plan.allowed,
           NEW v \in Scalars \union {Compound}, Plain(plan.limits[k], v)
    PROVE  Admits(PropertySchema(plan, k), v)
           <=> (HasBounds(plan.limits[k]) => LimitAllows(plan.limits[k], v))
<1> DEFINE l == plan.limits[k]
           s == PropertySchema(plan, k)
<1>1. l \in Limits OBVIOUS
<1>2. /\ s.enum = l.oneOf
      /\ l.oneOf # {} => s.maximum = None /\ s.minimum = None
      /\ l.oneOf = {} => s.maximum = Bound(l.max) /\ s.minimum = Bound(l.min)
  BY DEF PropertySchema
<1>3. CASE l.oneOf # {}
  <2>1. v.form = "string" /\ HasBounds(l) BY <1>3 DEF Plain, HasBounds
  <2>2. v # Compound BY <2>1 DEF Compound
  <2>3. Admits(s, v) <=> v.text \in l.oneOf BY <1>2, <1>3, <2>1 DEF Admits
  <2> QED BY <1>3, <2>1, <2>2, <2>3 DEF LimitAllows
<1>4. CASE l.oneOf = {} /\ l.max = None /\ l.min = None
  <2>1. ~HasBounds(l) BY <1>4 DEF HasBounds
  <2>2. Admits(s, v) BY <1>2, <1>4 DEF Admits, Bound
  <2> QED BY <2>1, <2>2
<1>5. CASE l.oneOf = {} /\ (l.max # None \/ l.min # None)
  <2>1. v.form = "number" /\ HasBounds(l) BY <1>5 DEF Plain, HasBounds
  <2>2. v \in Scalars /\ v # Compound BY <2>1 DEF Compound
  <2>3. v.text \in Texts /\ Number[v.text] # Unreadable BY <2>1, <2>2 DEF Scalars
  <2>4. Quantity[v.text] = Number[v.text] /\ Number[v.text] \in Int
    BY <2>3, PlainNumberAssumption, TextAssumption
  <2>5. \A b \in {l.max, l.min} \ {None} :
           b \in Texts /\ Number[b] # Unreadable /\ Number[b] \in Int /\ Quantity[b] = Number[b]
    BY <1>1, <1>5, PlainNumberAssumption, TextAssumption DEF Plain, Limits
  <2>6. Quantity[v.text] # Unreadable BY <2>3, <2>4
  <2>7. \A b \in {l.max, l.min} : b # None => Bound(b) = Number[b] /\ Bound(b) # None
    BY <2>5, TextAssumption DEF Bound
  <2>8. \A b \in {l.max, l.min} : b = None => Bound(b) = None BY DEF Bound
  <2>9. Admits(s, v) <=> /\ l.max # None => Number[v.text] <= Number[l.max]
                         /\ l.min # None => Number[v.text] >= Number[l.min]
    BY <1>2, <1>5, <2>1, <2>7, <2>8 DEF Admits
  <2>10. LimitAllows(l, v) <=> /\ l.max # None => Number[v.text] <= Number[l.max]
                               /\ l.min # None => Number[v.text] >= Number[l.min]
    BY <1>5, <2>2, <2>4, <2>5, <2>6 DEF LimitAllows, InBounds
  <2> QED BY <2>1, <2>9, <2>10
<1> QED BY <1>3, <1>4, <1>5

\* All parameters: additionalProperties is the whitelist.
LEMMA SchemaIsExact ==
    ASSUME NEW plan, plan.limits \in [Keys -> Limits], plan.allowed \subseteq Keys,
           ValidateLimits(plan), NEW params \in Params, PlainParams(plan, params)
    PROVE  SchemaAdmits(ParameterSchema(plan), params) <=> ValidatePlanParams(plan, params)
<1> DEFINE schema == ParameterSchema(plan)
<1>1. DOMAIN schema = plan.allowed BY DEF ParameterSchema
<1>2. \A k \in plan.allowed : schema[k] = PropertySchema(plan, k) BY DEF ParameterSchema
<1>3. \A k \in Given(params) :
         k \in Keys /\ params[k] \in Scalars \union {Compound} /\ Plain(plan.limits[k], params[k])
  BY DEF Given, Params, PlainParams
<1>4. ASSUME NEW k \in Given(params)
      PROVE  (k \in DOMAIN schema /\ Admits(schema[k], params[k]))
             <=> /\ k \in plan.allowed
                 /\ HasBounds(plan.limits[k]) => LimitAllows(plan.limits[k], params[k])
  BY <1>1, <1>2, <1>3, PropertyIsExact
<1> QED BY <1>4 DEF SchemaAdmits, ValidatePlanParams, CheckLimits

-----------------------------------------------------------------------------
(* The record.                                                             *)

\* What is accepted conforms to the definition that is loaded.
LEMMA AcceptedConforms ==
    ASSUME NEW p, NEW params, PlanKnown(p),
           ValidatePlanParams(definition.plans[p], params),
           record' = NewRecord(p, params), basis' = definition
    PROVE  RecordConforms'
<1>1. /\ record'.plan = p /\ record'.params = params
      /\ record'.version = MaintenanceVersion(definition, p)
  BY DEF NewRecord
<1> QED BY <1>1 DEF RecordConforms, PlanKnown

LEMMA NextConforms == RecordConforms /\ [Next]_vars => RecordConforms'
<1> SUFFICES ASSUME RecordConforms, [Next]_vars PROVE RecordConforms' OBVIOUS
<1>1. ASSUME NEW p \in Plans, NEW params \in Inputs, NEW v \in Versioned,
             Provision(p, params, v)
      PROVE  RecordConforms'
  <2>1. ProvisionAnswer(p, params, v, TRUE) = "accepted" BY <1>1 DEF Provision
  <2>2. PlanKnown(p) /\ ValidatePlanParams(definition.plans[p], params)
    BY <2>1 DEF ProvisionAnswer
  <2> QED BY <1>1, <2>2, AcceptedConforms DEF Provision
<1>2. ASSUME NEW p \in Plans, NEW patch \in Inputs, NEW v \in Versioned,
             Update(p, patch, v)
      PROVE  RecordConforms'
  <2>1. UpdateAnswer(p, patch, v) = "ok" BY <1>2 DEF Update
  <2>2. PlanKnown(p) /\ Acceptable(p, patch) BY <2>1 DEF UpdateAnswer
  <2> QED BY <1>2, <2>2, AcceptedConforms DEF Update, UpdatedRecord, Acceptable
<1>3. CASE Deprovision BY <1>3 DEF Deprovision, RecordConforms
<1>4. CASE UNCHANGED <<record, basis>> BY <1>4 DEF RecordConforms
<1> QED
  BY <1>1, <1>2, <1>3, <1>4
  DEF Next, Requested, GetLastOperation, UnreadableResource, FetchCatalog, Redeploy,
      OperatorReports, Removed, Tick, vars

\* Over any number of requests, definitions and changes of plan, what is stored
\* is within the limits of the definition that accepted it, and its version that
\* definition's.
THEOREM StoredConforms == Spec => []RecordConforms
<1>1. Init => RecordConforms BY DEF Init, RecordConforms
<1> QED BY <1>1, NextConforms, PTL DEF Spec

-----------------------------------------------------------------------------
(* The catalog.                                                            *)

Loaded == definition \in Definitions /\ Validate(definition)

LEMMA NextLoaded == Loaded /\ [Next]_vars => Loaded'
<1> SUFFICES ASSUME Loaded, [Next]_vars PROVE Loaded' OBVIOUS
<1>1. CASE Redeploy BY <1>1 DEF Redeploy, Loaded
<1>2. CASE UNCHANGED definition BY <1>2 DEF Loaded
<1> QED
  BY <1>1, <1>2
  DEF Next, Requested, Provision, Update, Deprovision, GetLastOperation,
      UnreadableResource, FetchCatalog, OperatorReports, Removed, Tick, vars

\* The entries of an up-to-date catalog.
LEMMA FreshEntries ==
    ASSUME Fresh
    PROVE  /\ catalog.updateable <=> OfferingPromise(definition)
           /\ DOMAIN catalog.plans = DOMAIN definition.plans
           /\ \A p \in DOMAIN definition.plans :
                 /\ catalog.plans[p].updateable = PlanChangeAllowed(definition, p)
                 /\ catalog.plans[p].version = definition.plans[p].version
                 /\ catalog.plans[p].polling = ReadinessTimeout(definition)
                 /\ catalog.plans[p].schema = ParameterSchema(definition.plans[p])
BY DEF Fresh, Catalog

LEMMA FreshKeeps == Loaded /\ Fresh => CatalogPromisesKept
<1> SUFFICES ASSUME Loaded, Fresh
             PROVE  ChangePromise /\ VersionPromise /\ SchemaPromise /\ PollingPromise
  BY DEF CatalogPromisesKept
<1>1. ChangePromise
  <2> SUFFICES ASSUME NEW p \in Plans, NEW v \in Versioned, record # NoRecord,
                      record.plan \in DOMAIN catalog.plans, p # record.plan
               PROVE  LET refused == UpdateAnswer(p, [k \in Keys |-> None], v) = "leave" IN
                      /\ catalog.plans[record.plan].updateable <=> ~refused
                      /\ catalog.updateable => ~refused
    BY DEF ChangePromise
  <2>1. UpdateAnswer(p, [k \in Keys |-> None], v) = "leave"
        <=> ~PlanChangeAllowed(definition, record.plan)
    BY DEF UpdateAnswer
  <2> QED BY <2>1, FreshEntries DEF OfferingPromise
<1>2. VersionPromise
  <2> SUFFICES ASSUME NEW p \in DOMAIN catalog.plans, NEW params \in Inputs
               PROVE  /\ ProvisionAnswer(p, params, catalog.plans[p].version, TRUE) # "maintenance"
                      /\ UpdateAnswer(p, params, catalog.plans[p].version) # "maintenance"
    BY DEF VersionPromise
  <2>1. MaintenanceInfoMatches(p, catalog.plans[p].version)
    BY FreshEntries DEF MaintenanceInfoMatches, MaintenanceVersion
  <2> QED BY <2>1 DEF ProvisionAnswer, UpdateAnswer
<1>3. SchemaPromise
  <2> SUFFICES ASSUME NEW p \in DOMAIN catalog.plans, NEW params \in Inputs,
                      record = NoRecord, PlainParams(definition.plans[p], params)
               PROVE  SchemaAdmits(catalog.plans[p].schema, params)
                      <=> ProvisionAnswer(p, params, None, TRUE) = "accepted"
    BY DEF SchemaPromise
  <2>1. p \in DOMAIN definition.plans /\ params \in Params
    BY FreshEntries, PlatformAssumption
  <2>2. /\ definition.plans[p].allowed \subseteq Keys
        /\ definition.plans[p].limits \in [Keys -> Limits]
        /\ ValidateLimits(definition.plans[p])
    BY <2>1, DefinitionAssumption DEF Loaded, Validate
  <2>3. ProvisionAnswer(p, params, None, TRUE) = "accepted"
        <=> ValidatePlanParams(definition.plans[p], params)
    BY <2>1 DEF ProvisionAnswer, PlanKnown, MaintenanceInfoMatches
  <2> QED BY <2>1, <2>2, <2>3, FreshEntries, SchemaIsExact
<1>4. PollingPromise
  BY FreshEntries DEF PollingPromise, LastOperation, DeadlineExceeded
<1> QED BY <1>1, <1>2, <1>3, <1>4

\* Whatever is deployed and ordered, what an up-to-date catalog says of plan
\* changes, versions and polling is what the handlers do, and its schemas admit
\* of plain parameters just those a first provision takes.
THEOREM PromisesKept == Spec => []CatalogPromisesKept
<1>1. Init => Loaded BY DEF Init, Loaded
<1>2. Loaded => CatalogPromisesKept BY FreshKeeps DEF CatalogPromisesKept
<1> QED BY <1>1, <1>2, NextLoaded, PTL DEF Spec
=============================================================================
