--------------------------- MODULE ConformanceGate ---------------------------
(***************************************************************************)
(* cmd/osb-gate: one run of the conformance gate against a broker.  The    *)
(* run is a sequence of steps; a step sends one request, or none, and      *)
(* judges the answer under the name of its check.  The broker answers as   *)
(* OSB and its catalog promise, up to one defect; answers may be lost, and *)
(* its operator takes its time or fails.  Only a provision is carried out  *)
(* asynchronously: no other request is sent with accepts_incomplete.       *)
(***************************************************************************)
EXTENDS Integers, FiniteSets, SequencesExt

CONSTANTS
    Offers,         \* what brokers are like: services (a sequence of records
                    \*   id, demo, bindable, instances, bindings, updateable,
                    \*   plans), display, typed, sync, keys (parameters are
                    \*   accepted), shows (GET shows them: "always", "nonempty",
                    \*   "never"); a plan has an id, says, version
                    \* instances: GET is "promised", only "answered", or "none";
                    \*   bindings: that of a binding is promised
    Wanted,         \* --service-id and --plan-id: records of service and plan
    Defects,        \* records of step, status and body: what a step gets wrong
    None,           \* not given, not there
    MaxPolls,       \* bound: polls before the deadline of the operation
    MaxLost         \* bound: answers that are lost

\* OSB: the ids of a service's plans are unique; whether there are any plans is
\* for the gate to find out.
ASSUME OffersAssumption ==
    \A o \in Offers :
        /\ o.services \in Seq(Range(o.services))
        /\ \A s \in Range(o.services) :
            /\ s # None /\ s.plans \in Seq(Range(s.plans))
            /\ \A i, j \in DOMAIN s.plans :
                /\ s.plans[i] # None /\ s.plans[i].id # None
                /\ s.plans[i].id = s.plans[j].id => i = j

\* Of a body or a header: it has what the check looks for, it has not, or the
\* part of it that is looked at is not there.
Bodies == {"right", "wrong", "bare"}

\* The steps whose checks look at more than the status.
Reading == {"auth", "catalog", "errorbody", "bind", "rebind", "getbinding", "get", "operation",
            "report", "maintenance"}

ASSUME DefectsAssumption ==
    \A d \in Defects : d.body \in Bodies /\ (d.step \notin Reading => d.body = "right")

Order ==
    <<"auth", "healthz", "unversioned", "foreign", "version", "catalog", "display",
      "unknown", "absent", "errorbody", "pick", "provision", "await", "reprovision",
      "noservice", "noplan", "bind", "spec", "rebind", "bindnoservice", "bindnoplan",
      "bindghost", "getbinding", "unbind", "conflict", "get", "operation", "ghost",
      "ghostbinding", "update", "updateghost", "parameters", "report", "probe",
      "change", "back", "maintenance", "stale", "cleanup", "delete", "redelete", "end">>

Steps == Range(Order)

\* The step after s.
After(s) == Order[1 + CHOOSE i \in DOMAIN Order : Order[i] = s]

\* The name a step reports under.
CheckOf(s) ==
    CASE s \in {"auth", "healthz"} -> "auth-enforcement"
      [] s \in {"unversioned", "foreign", "version"} -> "version-negotiation"
      [] s \in {"unknown", "absent"} -> "error-mapping"
      [] s \in {"parameters", "report", "probe"} -> "update-parameters"
      [] s \in {"change", "back"} -> "catalog-promises"
      [] s \in {"maintenance", "stale"} -> "maintenance-info"
      [] OTHER -> s

VARIABLES
    offer, wanted, defect,      \* of Offers, Wanted and Defects \union {None}
    at,                         \* the step to be taken
    services,                   \* the catalog as the gate has it
    service, plan,              \* what it audits, None before "pick"
    bindOK,                     \* bind answered 201 with credentials
    polls,                      \* of last_operation, so far
    inst, bound, recorded,      \* the broker: the instance's plan, its binding
                                \*   and whether it has the gate's parameter
    operator,                   \* "working", "ready" or "broken"
    passed, failed, skipped,    \* Report
    owed, blind, lost           \* history: checks that got a wrong answer or
                                \*   none; nothing told whether a parameter was
                                \*   taken; number of answers lost

vars == <<offer, wanted, defect, at, services, service, plan, bindOK, polls, inst,
          bound, recorded, operator, passed, failed, skipped, owed, blind, lost>>

Init ==
    /\ offer \in Offers /\ wanted \in Wanted /\ defect \in Defects \union {None}
    /\ at = "auth"
    /\ services = << >> /\ service = None /\ plan = None
    /\ bindOK = FALSE /\ polls = 0
    /\ inst = None /\ bound = FALSE /\ recorded = FALSE
    /\ operator = "working"
    /\ passed = {} /\ failed = {} /\ skipped = {}
    /\ owed = {} /\ blind = FALSE /\ lost = 0

-----------------------------------------------------------------------------
(* The catalog as the gate reads it.                                       *)

FirstOf(seq, Test(_)) ==
    LET hits == {i \in DOMAIN seq : Test(seq[i])}
    IN  IF hits = {} THEN None ELSE seq[Min(hits)]

\* The plan asked for, or the service's first one.
ResolvePlan(s, id) == LET p == FirstOf(s.plans, LAMBDA q : id \in {None, q.id})
                      IN  IF p = None THEN None ELSE p

\* What is asked for and nothing else; or the first service that is no demo;
\* or a demo.
PickService ==
    IF wanted.service # None THEN FirstOf(services, LAMBDA s : s.id = wanted.service)
    ELSE LET real == FirstOf(services, LAMBDA s : ~s.demo /\ s.plans # << >>)
         IN  IF real # None THEN real ELSE FirstOf(services, LAMBDA s : s.plans # << >>)

OtherPlan == FirstOf(service.plans, LAMBDA p : p.id # plan.id)

\* Mutant of PlanChangePromised: the offering's word.
OfferingPromises(p) == service.updateable

\* The word of the plan that is left, or else the offering's.
PlanChangePromised(p) == IF p.says = "unset" THEN service.updateable ELSE p.says = "yes"

-----------------------------------------------------------------------------
(* The broker.  Its answers: a status, and one of Bodies.                  *)

PlanNamed(id) == FirstOf(service.plans, LAMBDA p : p.id = id)

\* May the instance go from its plan to the one with this id?
Changes(id) ==
    LET p == PlanNamed(inst)
    IN  inst = id \/ p.says = "yes" \/ (p.says = "unset" /\ service.updateable)

\* The plan that a PATCH, or the PUT of "conflict", asks for.
Asked(s) == IF s \in {"conflict", "change"} THEN OtherPlan.id ELSE plan.id

\* The status a conforming broker answers step s with.
Conforming(s) ==
    CASE s = "auth" -> 401
      [] s \in {"unversioned", "foreign"} -> 412
      [] s \in {"unknown", "errorbody", "noservice", "noplan", "bindnoservice", "bindnoplan"} -> 400
      [] s = "absent" -> 410
      [] s \in {"bindghost", "ghost", "ghostbinding", "updateghost"} -> 404
      [] s \in {"provision", "reprovision", "conflict"} /\ inst = None ->
            IF offer.sync THEN 201 ELSE 202
      [] s \in {"provision", "reprovision"} /\ inst = plan.id -> 200
      [] s = "conflict" /\ inst \notin {None, OtherPlan.id} -> 409
      [] s \in {"bind", "rebind"} ->
            IF ~service.bindable THEN 400 ELSE IF bound THEN 200 ELSE 201
      [] s \in {"get", "report", "maintenance"} /\ service.instances = "none" -> 404
      [] s = "getbinding" /\ ~bound -> 404
      [] s \in {"unbind", "cleanup"} /\ ~bound -> 410
      [] s \in {"parameters", "probe"} /\ ~offer.keys -> 400
      [] s = "probe" /\ offer.keys /\ ~Changes(Asked(s)) -> 422
      [] s \in {"update", "change", "back"} /\ ~Changes(Asked(s)) -> 422
      [] s = "stale" -> 422
      [] s \in {"delete", "redelete"} /\ inst = None -> 410
      [] OTHER -> 200

\* What carrying out step s does to the broker.
Effect(s) ==
    /\ inst' = CASE s \in {"provision", "reprovision"} /\ inst = None -> plan.id
                 [] s \in {"update", "probe", "change", "back"} /\ Conforming(s) = 200 -> Asked(s)
                 [] s \in {"delete", "redelete"} -> None
                 [] OTHER -> inst
    /\ bound' = /\ bound \/ (s \in {"bind", "rebind"} /\ service.bindable)
                /\ s \notin {"unbind", "cleanup", "delete"}
    /\ recorded' = (recorded \/ (s \in {"parameters", "probe"} /\ Conforming(s) = 200))

NoEffect == UNCHANGED <<inst, bound, recorded>>

\* A change of the plan that the right answer refuses is carried out.
Overreach(s, r) ==
    /\ s \in {"conflict", "update", "probe", "change", "back"} /\ r.status \in {200, 201, 202}
    /\ inst' = Asked(s)
    /\ UNCHANGED <<bound, recorded>>

\* There are services, and every one has a plan.
Complete(list) == list # << >> /\ \A s \in Range(list) : s.plans # << >>

\* The parameters in the answer to GET: a broker need not show any, and may
\* leave the whole object out while there are none.
Shown ==
    IF recorded THEN IF offer.shows = "never" THEN "bare" ELSE "right"
    ELSE IF offer.shows = "always" THEN "wrong" ELSE "bare"

\* The plan an instance is on, and the version it names; a catalog may have no
\* services or services without plans.
Right(s) ==
    [status |-> Conforming(s),
     body |-> IF s = "report" THEN Shown
              ELSE IF \/ s = "get" /\ inst # plan.id
                      \/ s = "maintenance" /\ ~PlanNamed(inst).version
                      \/ s = "catalog" /\ ~Complete(offer.services)
              THEN "wrong" ELSE "right"]

Spoilt(s) == defect # None /\ defect.step = s

\* The answer of the broker that is audited, which may have a defect.
Answer(s) == IF Spoilt(s) THEN [status |-> defect.status, body |-> defect.body] ELSE Right(s)

NoAnswer == [status |-> -1, body |-> "bare"]

\* What a broker does that answers r.  The defect may be in that alone: a
\* parameter is accepted as it should be, and dropped.
Carries(s, r) ==
    IF r = Right(s) /\ ~(Spoilt(s) /\ s = "parameters") THEN Effect(s)
    ELSE Effect(s) \/ NoEffect \/ Overreach(s, r)

\* The operator finishes, or gives up.
OperatorDone ==
    /\ inst # None /\ operator = "working"
    /\ operator' \in {"ready", "broken"}
    /\ UNCHANGED <<offer, wanted, defect, at, services, service, plan, bindOK, polls, inst,
                   bound, recorded, passed, failed, skipped, owed, blind, lost>>

-----------------------------------------------------------------------------
(* The gate.                                                               *)

\* The statuses that pass a step.
Expected(s) ==
    CASE s = "auth" -> {401}
      [] s \in {"unversioned", "foreign"} -> {412}
      [] s \in {"unknown", "noservice", "noplan", "bindnoservice", "bindnoplan"} -> {400}
      [] s \in {"absent", "redelete"} -> {410}
      [] s = "provision" -> {201, 202}
      [] s = "bind" -> {201}
      [] s \in {"bindghost", "ghost", "ghostbinding", "updateghost"} -> {404}
      [] s = "conflict" -> {409}
      [] s = "parameters" -> {200, 202}
      [] s = "stale" -> {422}
      [] s = "cleanup" -> {200, 404, 410}
      [] OTHER -> {200}

\* The answers that pass a step, besides those it quietly takes: of an error
\* only the body counts, and a change goes by the catalog's word.
Good(s, r) ==
    /\ r.body = "right"
    /\ CASE s = "errorbody" -> TRUE
         [] s = "change" -> r.status \in IF PlanChangePromised(plan) THEN {200, 202} ELSE {422}
         [] OTHER -> r.status \in Expected(s)

\* Mutant of Judge: whatever is not carried out counts as a refusal.
NotCarriedOut(s, r) ==
    CASE s = "back" -> "quiet"
      [] s = "conflict" -> IF r.status \in {200, 201, 202} THEN "fail" ELSE "pass"
      [] s = "parameters" /\ r.status \in {400, 422} -> "quiet"
      [] s = "report" /\ (r.status # 200 \/ r.body = "bare") -> "skip"
      [] s = "probe" -> IF r.status \in {200, 202} THEN "fail" ELSE "skip"
      [] s = "maintenance" /\ Good(s, r) -> "quiet"
      [] OTHER -> IF Good(s, r) THEN "pass" ELSE "fail"

\* What a step makes of an answer; "quiet" leaves the report as it is.
Judge(s, r) ==
    CASE s = "back" -> "quiet"
      [] s = "parameters" /\ r.status \in {400, 422} -> "quiet"
      [] s = "report" /\ (r.status # 200 \/ r.body = "bare") -> "skip"
      [] s = "probe" -> IF r.status \in {200, 202} THEN "fail" ELSE "skip"
      [] s = "maintenance" /\ Good(s, r) -> "quiet"
      [] OTHER -> IF Good(s, r) THEN "pass" ELSE "fail"

\* The early returns, and the branches.
GoOn(s, verdict) ==
    CASE s = "auth" /\ verdict = "fail" -> "unversioned"
      [] s \in {"provision", "await", "delete"} /\ verdict = "fail" -> "end"
      [] s = "get" /\ verdict = "fail" -> "update"
      [] s = "update" /\ verdict = "fail" -> "change"
      [] s = "parameters" /\ verdict = "pass" -> "report"
      [] s = "parameters" /\ verdict = "quiet" -> "probe"
      [] s = "parameters" /\ verdict = "fail" -> "change"
      [] s = "report" -> "change"
      [] s = "change" /\ (verdict = "fail" \/ ~PlanChangePromised(plan)) -> "maintenance"
      [] s = "maintenance" /\ verdict = "fail" -> "cleanup"
      [] OTHER -> After(s)

Enter(s, verdict) ==
    /\ passed' = IF verdict = "pass" THEN passed \union {CheckOf(s)} ELSE passed
    /\ failed' = IF verdict = "fail" THEN failed \union {CheckOf(s)} ELSE failed
    /\ skipped' = IF verdict = "skip" THEN skipped \union {CheckOf(s)} ELSE skipped
    /\ at' = GoOn(s, verdict)

\* Steps that send nothing, in this run: nothing to ask, or not promised.
Untold(s) ==
    \/ s = "await" /\ offer.sync
    \/ s = "absent" /\ (\A x \in Range(services) : x.plans = << >>)
    \/ s = "getbinding" /\ (~bindOK \/ ~service.bindings)
    \/ s \in {"conflict", "change"} /\ OtherPlan = None
    \/ s \in {"get", "ghost"} /\ service.instances # "promised"
    \/ s = "ghostbinding" /\ ~service.bindings
    \/ s = "maintenance" /\ ~plan.version

Skip(s) ==
    /\ at = s /\ Untold(s)
    /\ IF s = "await" \/ (s = "getbinding" /\ ~bindOK) THEN UNCHANGED skipped
       ELSE skipped' = skipped \union {CheckOf(s)}
    /\ at' = CASE s = "change" -> "maintenance" [] s = "maintenance" -> "cleanup" [] OTHER -> After(s)
    /\ UNCHANGED <<offer, wanted, defect, services, service, plan, bindOK, polls, inst,
                   bound, recorded, operator, passed, failed, owed, blind, lost>>

Local == {"display", "pick", "spec", "await", "end"}

\* The parameter was accepted, and the broker has not recorded it.
Dropped(s, r) == s = "parameters" /\ r.status \in {200, 202} /\ ~recorded'

\* What there is to be reported after a step; "back" is not a check.
Owes(s, r) ==
    IF s # "back" /\ (r # Right(s) \/ Dropped(s, r)) THEN owed \union {CheckOf(s)} ELSE owed

\* No parameters were shown that could be compared, or the parameter was not
\* taken with a plan_id either.
Mute(s, r) ==
    \/ s = "report" /\ (r.status # 200 \/ r.body = "bare")
    \/ s = "probe" /\ r.status \notin {200, 202}

\* One request and its answer: the right one, the defect's, or none at all.
Exchange(s) ==
    /\ at = s /\ s \notin Local /\ ~Untold(s)
    /\ \E r \in {Answer(s), NoAnswer} :
        /\ Enter(s, Judge(s, r))
        /\ Carries(s, r)
        /\ owed' = Owes(s, r)
        /\ blind' = (blind \/ Mute(s, r))
        /\ IF r = NoAnswer THEN lost < MaxLost /\ lost' = lost + 1 ELSE UNCHANGED lost
        /\ bindOK' = IF s = "bind" THEN Good(s, r) ELSE bindOK
        /\ services' = IF s = "catalog" /\ r.status = 200 THEN offer.services ELSE services
    /\ UNCHANGED <<offer, wanted, defect, service, plan, polls, operator>>

\* checkCatalogDisplay and checkServiceBindingSpec look at what has been read.
Inspect(s) ==
    /\ at = s /\ s \in {"display", "spec"}
    /\ LET there == IF s = "display" THEN services # << >> ELSE bindOK
           full == IF s = "display" THEN offer.display ELSE offer.typed
       IN  /\ Enter(s, CASE ~there -> "quiet" [] there /\ Spoilt(s) -> "fail"
                         [] there /\ ~Spoilt(s) -> IF full THEN "pass" ELSE "skip")
           /\ owed' = IF there /\ Spoilt(s) THEN owed \union {CheckOf(s)} ELSE owed
    /\ UNCHANGED <<offer, wanted, defect, services, service, plan, bindOK, polls, inst,
                   bound, recorded, operator, blind, lost>>

Pick ==
    /\ at = "pick"
    /\ LET s == PickService
           p == IF s = None THEN None
                ELSE ResolvePlan(s, IF wanted.service = None THEN None ELSE wanted.plan)
       IN  IF p # None
           THEN /\ service' = s /\ plan' = p
                /\ Enter("pick", "pass")
           ELSE /\ failed' = IF wanted.service = None THEN failed ELSE failed \union {"pick"}
                /\ skipped' = skipped \union {"lifecycle"}
                /\ at' = "end"
                /\ UNCHANGED <<service, plan, passed>>
    /\ UNCHANGED <<offer, wanted, defect, services, bindOK, polls, inst, bound, recorded,
                   operator, owed, blind, lost>>

\* Mutant of Patience: there is no deadline.
Forever(n) == TRUE

\* The deadline has not passed.
Patience(n) == n < MaxPolls

\* awaitOperation: one poll of last_operation, whose state the operator's CR has.
Poll ==
    /\ at = "await" /\ ~offer.sync
    /\ \/ /\ operator = "ready"
          /\ Enter("await", "pass")
          /\ UNCHANGED <<polls, owed, lost>>
       \/ /\ operator = "broken" \/ (operator = "working" /\ ~Patience(polls))
          /\ Enter("await", "fail")
          /\ owed' = owed \union {"await"}
          /\ UNCHANGED <<polls, lost>>
       \/ /\ operator = "working" /\ Patience(polls)
          /\ polls' = IF polls < MaxPolls THEN polls + 1 ELSE 0
          /\ UNCHANGED <<at, passed, failed, skipped, owed, lost>>
       \/ /\ lost < MaxLost /\ lost' = lost + 1
          /\ Enter("await", "fail")
          /\ owed' = owed \union {"await"}
          /\ UNCHANGED polls
    /\ UNCHANGED <<offer, wanted, defect, services, service, plan, bindOK, inst, bound,
                   recorded, operator, blind>>

Step == (\E s \in Steps : Skip(s) \/ Exchange(s) \/ Inspect(s)) \/ Pick \/ Poll

Next == Step \/ OperatorDone

Spec == Init /\ [][Next]_vars

\* The gate goes on; its client gives every request a timeout.
FairSpec == Spec /\ WF_vars(Step)

-----------------------------------------------------------------------------
(* Properties.                                                             *)

Harmless == defect = None /\ lost = 0 /\ operator # "broken" /\ "await" \notin failed

\* The change that is promised cannot be taken back, and the plan it leads to
\* names no version.
Stranded == /\ OtherPlan # None /\ PlanChangePromised(plan) /\ plan.version
            /\ ~PlanChangePromised(OtherPlan) /\ ~OtherPlan.version

\* The gate asks for the version of an instance even if GET is not there to ask.
Unreadable == plan.version /\ (service.instances = "none" \/ Stranded)

\* "Gegen einen konformen Broker darf nichts anschlagen" and "der Audit muss
\* hinter sich aufraeumen": whatever a conforming broker offers, and wherever
\* its promises send the instance, the run ends green and leaves nothing, three
\* cases excepted in which the code turns a conforming broker red: it binds what
\* is not bindable; it fetches the version of an instance though GET is neither
\* promised nor there; it reads the version off the wrong plan after a change of
\* plan that cannot be taken back.  A plan asked for and not there is no exception.
ConformingPasses ==
    at = "end" /\ Harmless /\ Complete(offer.services)
    => /\ failed = IF service = None THEN {"pick"}
                   ELSE (IF service.bindable THEN {} ELSE {"bind", "rebind", "unbind"})
                        \union (IF Unreadable THEN {"maintenance-info"} ELSE {})
       /\ inst = None /\ ~bound

\* A wrong answer, or none, or a parameter that is accepted and dropped turns
\* the check it was asked for red, whatever other steps were skipped or failed
\* on the way.  Of parameters that holds only if there was something to tell by:
\* "ohne Rueckmeldung laesst sich die Zusage nicht pruefen".
WrongAnswersReported ==
    at = "end" => owed \subseteq failed \union (IF blind THEN {"update-parameters"} ELSE {})

\* A broker that never finishes, or does not answer, does not hold the gate.
RunEnds == <>(at = "end")
==============================================================================
