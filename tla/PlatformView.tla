----------------------------- MODULE PlatformView -----------------------------
(***************************************************************************)
(* One instance as a platform lives with it: it keeps a copy of the        *)
(* catalog, orders and changes the instance by that copy, and polls        *)
(* last_operation.  Meanwhile the broker is restarted with other           *)
(* definitions, the operator works on the instance's resource and time     *)
(* passes.  Requests are atomic here; InstanceLifecycle takes them apart.  *)
(***************************************************************************)
EXTENDS ServiceDefinition

CONSTANTS
    Definitions,        \* definitions a broker is deployed with, one at a time
    NoCR, NoRecord,
    Inputs,             \* bound: the parameters a user asks for, of Params
    MaxAge,             \* bound: a resource older than this is as old as this
    Adverse             \* subset of {"readFails", "removed"}

VARIABLES
    definition,     \* what the broker has loaded
    catalog,        \* the platform's copy
    record,         \* what the store says of the instance, or NoRecord
    basis,          \* history: the definition of the last accepted request
    cr,             \* [status, age] of the custom resource, or NoCR
    op              \* the provision as the platform sees it

vars == <<definition, catalog, record, basis, cr, op>>

Plans == UNION {DOMAIN d.plans : d \in Definitions}

\* Not met: no status yet, a path that finds nothing, or another value.
Statuses == {"unmet", "met"}

ASSUME DefinitionAssumption ==
    \A d \in Definitions :
        /\ d.timeout \in Int
        /\ \A p \in DOMAIN d.plans :
              d.plans[p].allowed \subseteq Keys /\ d.plans[p].limits \in [Keys -> Limits]

ASSUME PlatformAssumption ==
    /\ None \notin Scalars \union {Compound}
    /\ NoCR \notin [status : Statuses, age : 0..MaxAge]
    /\ Inputs \subseteq Params
    /\ MaxAge \in Nat
    /\ Adverse \subseteq {"readFails", "removed"}
    /\ \A d \in Definitions : ReadinessTimeout(d) < MaxAge

Init ==
    /\ definition \in {d \in Definitions : Validate(d)}
    /\ catalog = Catalog(definition)
    /\ basis = definition
    /\ record = NoRecord
    /\ cr = NoCR
    /\ op = "none"

NewCR == [status |-> "unmet", age |-> 0]

Versioned == Versions \union {None}

-----------------------------------------------------------------------------
(* What the handlers answer, in the order of their early returns.          *)

PlanKnown(p) == p \in DOMAIN definition.plans

\* A request need not carry a version; one it carries is the plan's.
MaintenanceInfoMatches(p, v) == v = None \/ v = MaintenanceVersion(definition, p)

ProvisionAnswer(p, params, v, async) ==
    IF ~PlanKnown(p) THEN "unknownPlan"
    ELSE IF ~MaintenanceInfoMatches(p, v) THEN "maintenance"
    ELSE IF record # NoRecord
         THEN IF record.plan = p /\ record.params = params THEN "ok" ELSE "conflict"
    ELSE IF ~async THEN "asyncRequired"
    ELSE IF ~ValidatePlanParams(definition.plans[p], params) THEN "params"
    ELSE "accepted"

\* Mutant of Acceptable: what is stored is not checked again.
AcceptablePatch(p, patch) == ValidatePlanParams(definition.plans[p], patch)

\* Both what is sent and what it makes together with what is stored.
Acceptable(p, patch) ==
    /\ ValidatePlanParams(definition.plans[p], patch)
    /\ ValidatePlanParams(definition.plans[p], Merged(record.params, patch))

\* p is the stored plan if the request names none.
UpdateAnswer(p, patch, v) ==
    IF record = NoRecord THEN "notFound"
    ELSE IF p # record.plan /\ ~PlanChangeAllowed(definition, record.plan) THEN "leave"
    ELSE IF ~MaintenanceInfoMatches(p, v) THEN "maintenance"
    ELSE IF ~PlanKnown(p) THEN "unknownPlan"
    ELSE IF ~Acceptable(p, patch) THEN "params"
    ELSE "ok"

-----------------------------------------------------------------------------
(* What an accepted request leaves behind.                                 *)

NewRecord(p, params) ==
    [plan |-> p, params |-> params, version |-> MaintenanceVersion(definition, p)]

Provision(p, params, v) ==
    /\ op # "polling"
    /\ ProvisionAnswer(p, params, v, TRUE) = "accepted"
    /\ record' = NewRecord(p, params)
    /\ basis' = definition
    /\ cr' = NewCR
    /\ op' = "polling"
    /\ UNCHANGED <<definition, catalog>>

\* Mutant of UpdatedRecord: the version stays the one of the provision.
UpdatedPlanOnly(p, params) == [plan |-> p, params |-> params, version |-> record.version]

\* The record follows, also when the manifest is as it was.
UpdatedRecord(p, params) == NewRecord(p, params)

\* A resource that is missing is created again.
Update(p, patch, v) ==
    /\ op # "polling"
    /\ UpdateAnswer(p, patch, v) = "ok"
    /\ record' = UpdatedRecord(p, Merged(record.params, patch))
    /\ basis' = definition
    /\ cr' = IF cr = NoCR THEN NewCR ELSE cr
    /\ UNCHANGED <<definition, catalog, op>>

Deprovision ==
    /\ op # "polling"
    /\ record # NoRecord
    /\ record' = NoRecord /\ cr' = NoCR /\ op' = "none"
    /\ UNCHANGED <<definition, catalog, basis>>

\* The condition is met, or there is a reason why not.
EvaluateReadiness(c) == c.status = "met"

\* What GET last_operation says of a resource.
LastOperation(c) ==
    IF c = NoCR THEN "failed"
    ELSE IF EvaluateReadiness(c) THEN "succeeded"
    ELSE IF DeadlineExceeded(definition, c.age) THEN "failed"
    ELSE "in progress"

\* A poll that is answered "in progress" changes nothing.
GetLastOperation ==
    /\ op = "polling" /\ LastOperation(cr) # "in progress"
    /\ op' = LastOperation(cr)
    /\ UNCHANGED <<definition, catalog, record, basis, cr>>

\* Any error of the read is taken for a resource that is gone.
UnreadableResource ==
    /\ "readFails" \in Adverse
    /\ op = "polling" /\ op' = "failed"
    /\ UNCHANGED <<definition, catalog, record, basis, cr>>

-----------------------------------------------------------------------------
(* Around the broker.                                                      *)

FetchCatalog ==
    /\ catalog' = Catalog(definition)
    /\ UNCHANGED <<definition, record, basis, cr, op>>

\* A pod with another definition takes over; it does not start with an invalid
\* one, and the old pod stays.
Redeploy ==
    /\ \E d \in Definitions : Validate(d) /\ definition' = d
    /\ UNCHANGED <<catalog, record, basis, cr, op>>

\* Status and age are of no consequence but to a poll.
OperatorReports ==
    /\ op = "polling" /\ cr # NoCR
    /\ \E s \in Statuses : cr' = [cr EXCEPT !.status = s]
    /\ UNCHANGED <<definition, catalog, record, basis, op>>

\* Somebody removes the resource behind the broker's back.
Removed ==
    /\ "removed" \in Adverse
    /\ cr # NoCR
    /\ cr' = NoCR
    /\ UNCHANGED <<definition, catalog, record, basis, op>>

Tick ==
    /\ op = "polling" /\ cr # NoCR /\ cr.age < MaxAge
    /\ cr' = [cr EXCEPT !.age = @ + 1]
    /\ UNCHANGED <<definition, catalog, record, basis, op>>

Requested ==
    \/ \E p \in Plans, params \in Inputs, v \in Versioned : Provision(p, params, v)
    \/ \E p \in Plans, patch \in Inputs, v \in Versioned : Update(p, patch, v)
    \/ Deprovision

Next ==
    \/ Requested \/ GetLastOperation \/ UnreadableResource \/ FetchCatalog
    \/ Redeploy \/ OperatorReports \/ Removed \/ Tick

Spec == Init /\ [][Next]_vars

\* A platform goes on polling as long as the answer is "in progress".
FairSpec == Spec /\ WF_vars(GetLastOperation) /\ WF_vars(Tick)

-----------------------------------------------------------------------------
(* Properties.                                                             *)

\* The variables have the types their comments give.
TypeOK ==
    /\ definition \in Definitions /\ basis \in Definitions
    /\ record = NoRecord \/ record \in [plan : Plans, params : Params,
                                        version : Versions \union {None, Malformed}]
    /\ cr = NoCR \/ cr \in [status : Statuses, age : 0..MaxAge]
    /\ op \in {"none", "polling", "succeeded", "failed"}

\* What is stored is what the definition of the last accepted request makes of
\* it: the parameters, merged over any number of requests, are within that
\* plan's limits, and the recorded version is the one that was rendered,
\* whatever was deployed and ordered before.
RecordConforms ==
    record # NoRecord =>
        /\ record.plan \in DOMAIN basis.plans
        /\ ValidatePlanParams(basis.plans[record.plan], record.params)
        /\ record.version = MaintenanceVersion(basis, record.plan)

Fresh == catalog = Catalog(definition)

\* The promise of a plan's entry is the handler's answer to leaving the plan, and
\* that of the offering, which some platforms read alone, never says too much.
ChangePromise ==
    \A p \in Plans, v \in Versioned :
        record # NoRecord /\ record.plan \in DOMAIN catalog.plans /\ p # record.plan =>
            LET refused == UpdateAnswer(p, [k \in Keys |-> None], v) = "leave" IN
            /\ catalog.plans[record.plan].updateable <=> ~refused
            /\ catalog.updateable => ~refused

\* A request with the entry's version is not refused for it.
VersionPromise ==
    \A p \in DOMAIN catalog.plans, params \in Inputs :
        LET v == catalog.plans[p].version IN
        /\ ProvisionAnswer(p, params, v, TRUE) # "maintenance"
        /\ UpdateAnswer(p, params, v) # "maintenance"

\* Of parameters in the plain form, a schema admits just what the first
\* provision takes.  Of others it does not: a limit reads the string "3" as a
\* number, and the list ["2"] as its text.
SchemaPromise ==
    \A p \in DOMAIN catalog.plans, params \in Inputs :
        record = NoRecord /\ PlainParams(definition.plans[p], params) =>
            (SchemaAdmits(catalog.plans[p].schema, params)
                <=> ProvisionAnswer(p, params, None, TRUE) = "accepted")

\* A poll after the announced duration has a verdict.
PollingPromise ==
    \A p \in DOMAIN catalog.plans :
        op = "polling" /\ cr # NoCR /\ catalog.plans[p].polling > 0
        /\ cr.age > catalog.plans[p].polling
        => LastOperation(cr) # "in progress"

\* "Zwei Quellen fuer dieselbe Aussage liefen auseinander": what an up-to-date
\* catalog says of plan changes, versions and polling is what the handlers do,
\* and of parameters so far as SchemaPromise goes: plain ones, at the first
\* provision.
CatalogPromisesKept ==
    Fresh => ChangePromise /\ VersionPromise /\ SchemaPromise /\ PollingPromise

\* As long as no definition is loaded that asks for no limit, a platform that
\* polls comes to an end, whatever the operator reports or fails to report:
\* "kein Wert darf nicht unbegrenzt heissen".
PollingEnds ==
    (op = "polling" /\ [](definition.timeout >= 0)) ~> op # "polling"
=============================================================================
