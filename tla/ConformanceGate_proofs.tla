----------------------- MODULE ConformanceGate_proofs -----------------------
(***************************************************************************)
(* The verdicts of the conformance gate, for every list of catalogs that   *)
(* OSB allows, any defects, any number of polls and of lost answers.       *)
(***************************************************************************)
EXTENDS ConformanceGate, TLAPS, WellFoundedInduction

-----------------------------------------------------------------------------
(* Where a run may be.                                                     *)

Unread == {"auth", "healthz", "unversioned", "foreign", "version", "catalog"}

Early == Unread \union {"display", "unknown", "absent", "errorbody", "pick"}

WithBinding ==
    {"spec", "rebind", "bindnoservice", "bindnoplan", "bindghost", "getbinding", "unbind"}

\* The instance is there, with the plan it was made with.
Kept == WithBinding \union
    {"await", "reprovision", "noservice", "noplan", "bind", "conflict", "get", "operation",
     "ghost", "ghostbinding", "update", "updateghost", "parameters", "report", "probe", "change"}

Ending == {"cleanup", "delete", "redelete", "end"}

Late == Ending \union {"back", "maintenance", "stale"}

\* A defect the check of its step tells from the right answer: parameters and
\* a change are not taken with the other status of success, and the rest does
\* not pass.
Visible(d) ==
    CASE d.step \in Local \union {"back", "probe"} -> TRUE
      [] d.step \in {"parameters", "change"} -> d.status # 202
      [] d.step = "errorbody" -> d.body # "right"
      [] OTHER -> ~(d.body = "right" /\ d.status \in Expected(d.step))

Telling == \A d \in Defects : Visible(d)

Seen == defect # None => Visible(defect)

-----------------------------------------------------------------------------
(* The invariants.                                                         *)

\* Only a defect of this step puts an instance where the gate did not send it.
Overrun == defect # None /\ defect.step = "conflict"

Chosen == service \in Range(offer.services) /\ plan \in Range(service.plans)

\* What holds whatever the broker answers.
BInv ==
    /\ offer \in Offers /\ defect \in Defects \union {None}
    /\ lost \in Nat /\ at \in Steps /\ bound \in BOOLEAN
    /\ services \in {<< >>, offer.services}
    /\ at \in Early => service = None /\ plan = None
    /\ at \notin Early => (at = "end" /\ service = None) \/ Chosen
    /\ at \in Early \union {"provision"} => inst = None /\ bound = FALSE
    /\ at \in Kept /\ Seen /\ ~Overrun => inst = plan.id
    /\ recorded => offer.keys

\* The change is promised, the change back is not.
OneWay == OtherPlan # None /\ PlanChangePromised(plan) /\ ~PlanChangePromised(OtherPlan)

\* What has been tried of the binding before a step, and cannot be had.
Tried(s) ==
    IF s \in Early \union {"provision", "await", "reprovision", "noservice", "noplan", "bind"} THEN {}
    ELSE IF s \in {"spec", "rebind"} THEN {"bind"}
    ELSE IF s \in WithBinding THEN {"bind", "rebind"}
    ELSE {"bind", "rebind", "unbind"}

Verdicts ==
    IF at = "end" /\ service = None THEN {"pick"}
    ELSE (IF service.bindable THEN {} ELSE Tried(at))
         \union (IF at \in Ending /\ Unreadable THEN {"maintenance-info"} ELSE {})

\* Where a run against a conforming broker stands.
OnCourse ==
    /\ at \notin Unread => services = offer.services
    /\ failed = Verdicts
    /\ at = "back" => OtherPlan # None /\ PlanChangePromised(plan) /\ inst = OtherPlan.id
    /\ at \in {"maintenance", "stale", "cleanup", "delete"} =>
          inst = IF OneWay THEN OtherPlan.id ELSE plan.id
    /\ at \in {"redelete", "end"} => inst = None
    /\ at = "stale" => ~Unreadable /\ plan.version
    /\ bound <=> at \in WithBinding /\ service.bindable
    /\ bindOK => at \notin Early /\ service.bindable
    /\ at = "report" => recorded
    /\ at = "probe" => ~offer.keys

GInv == Harmless /\ Complete(offer.services) => OnCourse

\* What is owed and not reported yet is the probe's to report, or the report's.
Pending == IF at = "probe" \/ (at = "report" /\ ~recorded) THEN {"update-parameters"} ELSE {}

Excused == IF blind THEN {"update-parameters"} ELSE {}

WInv == Seen => owed \subseteq failed \union Pending \union Excused

-----------------------------------------------------------------------------
(* The order of the steps.                                                 *)

LEMMA OrderIsOneToOne ==
    \A i, j \in 1 .. 42 : Order[i] = Order[j] => i = j
  BY SMTT(60) DEF Order

LEMMA Successor ==
    ASSUME NEW i \in 1 .. 41  PROVE  After(Order[i]) = Order[1 + i]
<1>1. DOMAIN Order = 1 .. 42
  BY DEF Order
<1>2. i = CHOOSE j \in DOMAIN Order : Order[j] = Order[i]
  <2> DEFINE P(j) == j \in DOMAIN Order /\ Order[j] = Order[i]
  <2>1. \A j \in 1 .. 42 : Order[j] = Order[i] => j = i
    BY OrderIsOneToOne
  <2>2. \A j : (j \in DOMAIN Order /\ Order[j] = Order[i]) <=> j = i
    BY <2>1, <1>1
  <2>3. QED
    BY <2>2, <1>1
<1>3. QED
  BY <1>2 DEF After

LEMMA AfterEarly ==
    /\ After("auth") = "healthz" /\ After("healthz") = "unversioned"
    /\ After("unversioned") = "foreign" /\ After("foreign") = "version"
    /\ After("version") = "catalog" /\ After("catalog") = "display"
    /\ After("display") = "unknown" /\ After("unknown") = "absent"
    /\ After("absent") = "errorbody" /\ After("errorbody") = "pick"
    /\ After("pick") = "provision" /\ After("provision") = "await"
    /\ After("await") = "reprovision"
<1>1. /\ Order[1] = "auth" /\ Order[2] = "healthz" /\ Order[3] = "unversioned"
      /\ Order[4] = "foreign" /\ Order[5] = "version" /\ Order[6] = "catalog"
      /\ Order[7] = "display" /\ Order[8] = "unknown" /\ Order[9] = "absent"
      /\ Order[10] = "errorbody" /\ Order[11] = "pick" /\ Order[12] = "provision"
      /\ Order[13] = "await" /\ Order[14] = "reprovision"
  BY DEF Order
<1>2. \A i \in 1 .. 41 : After(Order[i]) = Order[1 + i]
  BY Successor
<1>3. QED
  BY <1>1, <1>2

LEMMA AfterAwait ==
    /\ After("reprovision") = "noservice" /\ After("noservice") = "noplan"
    /\ After("noplan") = "bind" /\ After("bind") = "spec"
    /\ After("spec") = "rebind" /\ After("rebind") = "bindnoservice"
    /\ After("bindnoservice") = "bindnoplan" /\ After("bindnoplan") = "bindghost"
    /\ After("bindghost") = "getbinding" /\ After("getbinding") = "unbind"
    /\ After("unbind") = "conflict" /\ After("conflict") = "get"
    /\ After("get") = "operation" /\ After("operation") = "ghost"
<1>1. /\ Order[14] = "reprovision" /\ Order[15] = "noservice" /\ Order[16] = "noplan"
      /\ Order[17] = "bind" /\ Order[18] = "spec" /\ Order[19] = "rebind"
      /\ Order[20] = "bindnoservice" /\ Order[21] = "bindnoplan" /\ Order[22] = "bindghost"
      /\ Order[23] = "getbinding" /\ Order[24] = "unbind" /\ Order[25] = "conflict"
      /\ Order[26] = "get" /\ Order[27] = "operation" /\ Order[28] = "ghost"
  BY DEF Order
<1>2. \A i \in 1 .. 41 : After(Order[i]) = Order[1 + i]
  BY Successor
<1>3. QED
  BY <1>1, <1>2

LEMMA AfterOperation ==
    /\ After("ghost") = "ghostbinding" /\ After("ghostbinding") = "update"
    /\ After("update") = "updateghost" /\ After("updateghost") = "parameters"
    /\ After("parameters") = "report" /\ After("report") = "probe"
    /\ After("probe") = "change" /\ After("change") = "back"
    /\ After("back") = "maintenance" /\ After("maintenance") = "stale"
    /\ After("stale") = "cleanup" /\ After("cleanup") = "delete"
    /\ After("delete") = "redelete" /\ After("redelete") = "end"
<1>1. /\ Order[28] = "ghost" /\ Order[29] = "ghostbinding" /\ Order[30] = "update"
      /\ Order[31] = "updateghost" /\ Order[32] = "parameters" /\ Order[33] = "report"
      /\ Order[34] = "probe" /\ Order[35] = "change" /\ Order[36] = "back"
      /\ Order[37] = "maintenance" /\ Order[38] = "stale" /\ Order[39] = "cleanup"
      /\ Order[40] = "delete" /\ Order[41] = "redelete" /\ Order[42] = "end"
  BY DEF Order
<1>2. \A i \in 1 .. 41 : After(Order[i]) = Order[1 + i]
  BY Successor
<1>3. QED
  BY <1>1, <1>2

StepNames == Early \union {"provision"} \union Kept \union Late

LEMMA StepsAreNamed == Steps = StepNames
<1>1. DOMAIN Order = 1 .. 42
  BY DEF Order
<1>2. \A i \in 1 .. 42 : Order[i] \in StepNames
  BY SMTT(60) DEF Order, StepNames, Early, Unread, Kept, WithBinding, Late, Ending
<1>3. ASSUME NEW s \in StepNames  PROVE  \E i \in 1 .. 42 : Order[i] = s
  <2>1. CASE s \in {"auth", "healthz", "unversioned", "foreign", "version", "catalog", "display"}
    <3>1. /\ Order[1] = "auth" /\ Order[2] = "healthz" /\ Order[3] = "unversioned"
          /\ Order[4] = "foreign" /\ Order[5] = "version" /\ Order[6] = "catalog"
          /\ Order[7] = "display"
      BY DEF Order
    <3>2. QED
      BY <2>1, <3>1
  <2>2. CASE s \in {"unknown", "absent", "errorbody", "pick", "provision", "await", "reprovision"}
    <3>1. /\ Order[8] = "unknown" /\ Order[9] = "absent" /\ Order[10] = "errorbody"
          /\ Order[11] = "pick" /\ Order[12] = "provision" /\ Order[13] = "await"
          /\ Order[14] = "reprovision"
      BY DEF Order
    <3>2. QED
      BY <2>2, <3>1
  <2>3. CASE s \in {"noservice", "noplan", "bind", "spec", "rebind", "bindnoservice", "bindnoplan"}
    <3>1. /\ Order[15] = "noservice" /\ Order[16] = "noplan" /\ Order[17] = "bind"
          /\ Order[18] = "spec" /\ Order[19] = "rebind" /\ Order[20] = "bindnoservice"
          /\ Order[21] = "bindnoplan"
      BY DEF Order
    <3>2. QED
      BY <2>3, <3>1
  <2>4. CASE s \in {"bindghost", "getbinding", "unbind", "conflict", "get", "operation", "ghost"}
    <3>1. /\ Order[22] = "bindghost" /\ Order[23] = "getbinding" /\ Order[24] = "unbind"
          /\ Order[25] = "conflict" /\ Order[26] = "get" /\ Order[27] = "operation"
          /\ Order[28] = "ghost"
      BY DEF Order
    <3>2. QED
      BY <2>4, <3>1
  <2>5. CASE s \in {"ghostbinding", "update", "updateghost", "parameters", "report", "probe", "change"}
    <3>1. /\ Order[29] = "ghostbinding" /\ Order[30] = "update" /\ Order[31] = "updateghost"
          /\ Order[32] = "parameters" /\ Order[33] = "report" /\ Order[34] = "probe"
          /\ Order[35] = "change"
      BY DEF Order
    <3>2. QED
      BY <2>5, <3>1
  <2>6. CASE s \in {"back", "maintenance", "stale", "cleanup", "delete", "redelete", "end"}
    <3>1. /\ Order[36] = "back" /\ Order[37] = "maintenance" /\ Order[38] = "stale"
          /\ Order[39] = "cleanup" /\ Order[40] = "delete" /\ Order[41] = "redelete"
          /\ Order[42] = "end"
      BY DEF Order
    <3>2. QED
      BY <2>6, <3>1
  <2>7. QED
    BY <2>1, <2>2, <2>3, <2>4, <2>5, <2>6
       DEF StepNames, Early, Unread, Kept, WithBinding, Late, Ending
<1>4. QED
  BY <1>1, <1>2, <1>3 DEF Steps, Range

LEMMA LeastIsMember ==
    ASSUME NEW T \in SUBSET Nat, T # {}  PROVE  Min(T) \in T
<1>1. PICK x \in T : \A y \in T : <<y, x>> \notin OpToRel(<, Nat)
  BY NatLessThanWellFounded, WFMin, Zenon
<1>2. \A y \in T : ~(y < x)
  BY <1>1, Zenon DEF OpToRel
<1>3. \A y \in T : x <= y
  BY <1>2
<1>4. QED
  BY <1>3 DEF Min

\* Where a step leads, whatever comes of it.
LEMMA GoOnAdvances ==
    ASSUME NEW s \in Steps, s # "end", NEW v
    PROVE  /\ s \in Early \ {"pick"} => GoOn(s, v) \in Early
           /\ s = "pick" => GoOn(s, v) = "provision"
           /\ s = "provision" => GoOn(s, v) = IF v = "fail" THEN "end" ELSE "await"
           /\ s \in Kept => GoOn(s, v) \in Kept \union Late
           /\ s \in Late => GoOn(s, v) \in Late
           /\ GoOn(s, v) \in Steps
<1>1. s \in Early \ {"pick"} => GoOn(s, v) \in Early
  BY AfterEarly DEF GoOn, Early, Unread
<1>2. s = "pick" => GoOn(s, v) = "provision"
  BY AfterEarly DEF GoOn
<1>3. s = "provision" => GoOn(s, v) = IF v = "fail" THEN "end" ELSE "await"
  BY AfterEarly DEF GoOn
<1>4. s \in Kept => GoOn(s, v) \in Kept \union Late
  BY AfterEarly, AfterAwait, AfterOperation DEF GoOn, Kept, WithBinding, Late, Ending
<1>5. s \in Late => GoOn(s, v) \in Late
  BY AfterOperation DEF GoOn, Late, Ending
<1>6. /\ s \in Early \union {"provision"} \union Kept \union Late
      /\ {"provision", "await", "end", "pick"} \subseteq StepNames
  BY StepsAreNamed DEF StepNames, Early, Late, Ending, Kept
<1>7. GoOn(s, v) \in StepNames
  BY <1>1, <1>2, <1>3, <1>4, <1>5, <1>6 DEF StepNames
<1>8. QED
  BY <1>1, <1>2, <1>3, <1>4, <1>5, <1>7, StepsAreNamed

\* The phases of a run have nothing in common.
LEMMA PhasesApart ==
    /\ Early \intersect Kept = {} /\ Early \intersect Late = {} /\ Kept \intersect Late = {}
    /\ "provision" \notin Early \union Kept \union Late
    /\ "pick" \in Early /\ "end" \in Late /\ "await" \in Kept /\ "provision" \in Steps
    /\ Unread \subseteq Early /\ WithBinding \subseteq Kept /\ Ending \subseteq Late
    /\ Early \subseteq Steps /\ Kept \subseteq Steps /\ Late \subseteq Steps
<1>1. /\ Early \intersect Kept = {} /\ Early \intersect Late = {} /\ Kept \intersect Late = {}
      /\ "provision" \notin Early \union Kept \union Late
  BY DEF Early, Unread, Kept, WithBinding, Late, Ending
<1>2. "pick" \in Early /\ "end" \in Late /\ "await" \in Kept
  BY DEF Early, Late, Ending, Kept
<1>3. Unread \subseteq Early /\ WithBinding \subseteq Kept /\ Ending \subseteq Late
  BY DEF Early, Kept, Late
<1>4. QED
  BY <1>1, <1>2, <1>3, StepsAreNamed DEF StepNames

-----------------------------------------------------------------------------
(* What the gate reads off a catalog.                                      *)

LEMMA LeastHit ==
    ASSUME NEW seq, seq \in Seq(Range(seq)), NEW hits \in SUBSET DOMAIN seq, hits # {}
    PROVE  Min(hits) \in hits /\ seq[Min(hits)] \in Range(seq)
<1>1. DOMAIN seq = 1 .. Len(seq) /\ Len(seq) \in Nat
  OBVIOUS
<1>2. hits \in SUBSET Nat
  BY <1>1
<1>3. Min(hits) \in hits
  BY <1>2, LeastIsMember
<1>4. QED
  BY <1>3 DEF Range

LEMMA PlanNamedIsThere ==
    ASSUME service.plans \in Seq(Range(service.plans)), NEW id
    PROVE  \/ PlanNamed(id) = None /\ \A p \in Range(service.plans) : p.id # id
           \/ PlanNamed(id) \in Range(service.plans) /\ PlanNamed(id).id = id
<1> DEFINE hits == {i \in DOMAIN service.plans : service.plans[i].id = id}
<1>1. PlanNamed(id) = IF hits = {} THEN None ELSE service.plans[Min(hits)]
  BY DEF PlanNamed, FirstOf
<1>2. hits # {} => Min(hits) \in hits
  <2>1. hits \in SUBSET DOMAIN service.plans
    OBVIOUS
  <2> HIDE DEF hits
  <2>2. QED
    BY <2>1, LeastHit
<1>3. QED
  BY <1>1, <1>2 DEF Range

LEMMA OtherPlanIsThere ==
    ASSUME service.plans \in Seq(Range(service.plans))
    PROVE  \/ OtherPlan = None
           \/ OtherPlan \in Range(service.plans) /\ OtherPlan.id # plan.id
<1> DEFINE hits == {i \in DOMAIN service.plans : service.plans[i].id # plan.id}
<1>1. OtherPlan = IF hits = {} THEN None ELSE service.plans[Min(hits)]
  BY DEF OtherPlan, FirstOf
<1>2. hits # {} => Min(hits) \in hits
  <2>1. hits \in SUBSET DOMAIN service.plans
    OBVIOUS
  <2> HIDE DEF hits
  <2>2. QED
    BY <2>1, LeastHit
<1>3. QED
  BY <1>1, <1>2 DEF Range

LEMMA ResolvedPlanIsThere ==
    ASSUME NEW s, s.plans \in Seq(Range(s.plans)), NEW id
    PROVE  /\ ResolvePlan(s, id) = None \/ ResolvePlan(s, id) \in Range(s.plans)
           /\ id = None /\ s.plans # << >> => ResolvePlan(s, id) \in Range(s.plans)
<1> DEFINE hits == {i \in DOMAIN s.plans : id \in {None, s.plans[i].id}}
<1>1. ResolvePlan(s, id) = IF hits = {} THEN None ELSE s.plans[Min(hits)]
  BY DEF ResolvePlan, FirstOf
<1>2. hits # {} => Min(hits) \in hits
  <2>1. hits \in SUBSET DOMAIN s.plans
    OBVIOUS
  <2> HIDE DEF hits
  <2>2. QED
    BY <2>1, LeastHit
<1>3. id = None /\ s.plans # << >> => 1 \in hits
  OBVIOUS
<1>4. QED
  BY <1>1, <1>2, <1>3 DEF Range

LEMMA PickedServiceIsThere ==
    ASSUME services \in Seq(Range(services))
    PROVE  /\ PickService = None \/ PickService \in Range(services)
           /\ wanted.service = None /\ Complete(services) => PickService \in Range(services)
<1> DEFINE asked == {i \in DOMAIN services : services[i].id = wanted.service}
           real == {i \in DOMAIN services : ~services[i].demo /\ services[i].plans # << >>}
           any == {i \in DOMAIN services : services[i].plans # << >>}
           First(hits) == IF hits = {} THEN None ELSE services[Min(hits)]
<1>1. PickService = IF wanted.service # None THEN First(asked)
                    ELSE IF First(real) # None THEN First(real) ELSE First(any)
  BY DEF PickService, FirstOf
<1>2. \A hits \in SUBSET DOMAIN services :
         /\ First(hits) = None \/ First(hits) \in Range(services)
         /\ hits # {} => First(hits) \in Range(services)
  BY LeastHit
<1>3. asked \in SUBSET DOMAIN services /\ real \in SUBSET DOMAIN services
      /\ any \in SUBSET DOMAIN services
  OBVIOUS
<1>4. Complete(services) => First(any) \in Range(services)
  <2>1. SUFFICES ASSUME Complete(services)  PROVE any # {}
    BY <1>2, <1>3
  <2>2. 1 \in DOMAIN services /\ services[1] \in Range(services)
    BY <2>1 DEF Complete, Range
  <2>3. QED
    BY <2>1, <2>2 DEF Complete
<1>5. QED
  <2> HIDE DEF asked, real, any, First
  <2>1. QED
    BY <1>1, <1>2, <1>3, <1>4

\* The plans of the service under audit, once it is chosen.
LEMMA PlansOfChosen ==
    ASSUME offer \in Offers, Chosen
    PROVE  /\ service.plans \in Seq(Range(service.plans))
           /\ plan # None /\ plan.id # None /\ PlanNamed(plan.id) = plan
           /\ OtherPlan # None =>
                 /\ OtherPlan.id # None /\ OtherPlan.id # plan.id
                 /\ PlanNamed(OtherPlan.id) = OtherPlan
<1>1. service.plans \in Seq(Range(service.plans))
  BY OffersAssumption DEF Chosen
<1>2. \A p, q \in Range(service.plans) :
         p # None /\ p.id # None /\ (p.id = q.id => p = q)
  <2>1. \A i, j \in DOMAIN service.plans :
           /\ service.plans[i] # None /\ service.plans[i].id # None
           /\ service.plans[i].id = service.plans[j].id => i = j
    BY OffersAssumption DEF Chosen
  <2>2. QED
    BY <2>1 DEF Range
<1>3. \A p \in Range(service.plans) : PlanNamed(p.id) = p
  BY <1>1, <1>2, PlanNamedIsThere
<1>4. QED
  BY <1>1, <1>2, <1>3, OtherPlanIsThere DEF Chosen

LEMMA PickChooses ==
    ASSUME offer \in Offers, services \in {<< >>, offer.services},
           NEW id,
           PickService # None, ResolvePlan(PickService, id) # None
    PROVE  /\ PickService \in Range(offer.services)
           /\ ResolvePlan(PickService, id) \in Range(PickService.plans)
<1>1. services \in Seq(Range(services)) /\ Range(services) \subseteq Range(offer.services)
  <2>1. CASE services = << >>
    BY <2>1 DEF Range
  <2>2. CASE services = offer.services
    BY <2>2, OffersAssumption
  <2>3. QED
    BY <2>1, <2>2
<1>2. PickService \in Range(offer.services)
  BY <1>1, PickedServiceIsThere
<1>3. PickService.plans \in Seq(Range(PickService.plans))
  BY <1>2, OffersAssumption
<1>4. QED
  BY <1>2, <1>3, ResolvedPlanIsThere

-----------------------------------------------------------------------------
(* What holds whatever the broker answers.                                 *)

LEMMA BInit == Init => BInv
<1>1. "auth" \in Early
  BY DEF Early, Unread
<1>2. "auth" \in Steps /\ "auth" \notin Kept
  BY <1>1, PhasesApart
<1>3. ASSUME Init  PROVE BInv
  <2>1. /\ offer \in Offers /\ defect \in Defects \union {None} /\ lost = 0 /\ at = "auth"
        /\ services = << >> /\ service = None /\ plan = None /\ inst = None /\ bound = FALSE
        /\ recorded = FALSE
    BY <1>3 DEF Init
  <2>2. QED
    BY <1>1, <1>2, <2>1 DEF BInv
<1>4. QED
  BY <1>3

\* A visible defect does not pass for the right answer to a provision.
LEMMA ProvisionPassesIfCarriedOut ==
    ASSUME Seen, NEW r \in {Answer("provision"), NoAnswer}, r # Right("provision")
    PROVE  Judge("provision", r) = "fail"
<1>1. ~Good("provision", r)
  <2>1. CASE r = NoAnswer
    BY <2>1 DEF Good, NoAnswer
  <2>2. CASE r = Answer("provision") /\ r # NoAnswer
    <3>1. /\ defect # None /\ defect.step = "provision"
          /\ r = [status |-> defect.status, body |-> defect.body]
      BY <2>2 DEF Answer, Spoilt
    <3>2. QED
      BY <3>1 DEF Seen, Visible, Local, Good, Expected
  <2>3. QED
    BY <2>1, <2>2
<1>2. QED
  BY <1>1 DEF Judge

\* The broker keeps what no request of these steps is about.
LEMMA EffectKeeps ==
    ASSUME NEW s \in Steps, NEW r, Effect(s) \/ NoEffect \/ Overreach(s, r), bound \in BOOLEAN
    PROVE  /\ s \in Early => inst' = inst /\ bound' = bound
           /\ /\ s \in Kept \ {"change"} /\ inst = plan.id /\ inst # None
              /\ s # "conflict" \/ Effect(s) \/ NoEffect
              => inst' = inst
           /\ bound' \in BOOLEAN
           /\ s = "provision" /\ Effect(s) /\ inst = None => inst' = plan.id
           /\ (recorded => offer.keys) => (recorded' => offer.keys)
<1>1. CASE NoEffect /\ ~Effect(s)
  BY <1>1 DEF NoEffect
<1>2. CASE Effect(s)
  <2>1. s \in Early => inst' = inst
    BY <1>2 DEF Effect, Early, Unread
  <2>2. s \in Early => bound' = bound
    BY <1>2 DEF Effect, Early, Unread
  <2>3. s \in Kept \ {"change"} /\ inst = plan.id /\ inst # None => inst' = inst
    BY <1>2 DEF Effect, Kept, WithBinding, Asked
  <2>4. bound' \in BOOLEAN
    BY <1>2 DEF Effect
  <2>5. s = "provision" /\ inst = None => inst' = plan.id
    BY <1>2 DEF Effect
  <2>6. s \in {"parameters", "probe"} /\ Conforming(s) = 200 => offer.keys
    BY DEF Conforming
  <2>7. recorded' => recorded \/ offer.keys
    BY <1>2, <2>6 DEF Effect
  <2>8. QED
    BY <2>1, <2>2, <2>3, <2>4, <2>5, <2>7
<1>3. CASE Overreach(s, r) /\ ~Effect(s) /\ ~NoEffect
  <2>1. /\ s \in {"conflict", "update", "probe", "change", "back"}
        /\ inst' = Asked(s) /\ bound' = bound /\ recorded' = recorded
    BY <1>3 DEF Overreach
  <2>2. s \notin Early
    BY <2>1 DEF Early, Unread
  <2>3. s \in {"update", "probe"} => inst' = plan.id
    BY <2>1 DEF Asked
  <2>4. s \in Kept \ {"change"} => s \in {"conflict", "update", "probe"}
    BY <2>1 DEF Kept, WithBinding
  <2>5. QED
    BY <1>3, <2>1, <2>2, <2>3, <2>4
<1>4. QED
  BY <1>1, <1>2, <1>3

\* Only a defective answer comes with more than it should do.
LEMMA OverreachIsDefective ==
    ASSUME NEW s, NEW r \in {Answer(s), NoAnswer}, Carries(s, r)
    PROVE  /\ Effect(s) \/ NoEffect \/ Overreach(s, r)
           /\ r = Right(s) /\ s # "parameters" => Effect(s)
           /\ s = "conflict" /\ ~Overrun => Effect(s) \/ NoEffect
<1>1. s = "conflict" /\ ~Overrun /\ r # Right(s) => r = NoAnswer
  BY DEF Answer, Spoilt, Overrun
<1>2. ~Overreach(s, NoAnswer)
  BY DEF Overreach, NoAnswer
<1>3. QED
  BY <1>1, <1>2 DEF Carries

LEMMA BExchange ==
    ASSUME BInv, NEW s \in Steps, Exchange(s)  PROVE BInv'
<1>1. /\ at = s /\ s \notin Local
      /\ UNCHANGED <<offer, wanted, defect, service, plan, polls, operator>>
  BY DEF Exchange
<1>2. PICK r \in {Answer(s), NoAnswer} :
        /\ Enter(s, Judge(s, r))
        /\ Carries(s, r)
        /\ IF r = NoAnswer THEN lost < MaxLost /\ lost' = lost + 1 ELSE UNCHANGED lost
        /\ services' = IF s = "catalog" /\ r.status = 200 THEN offer.services ELSE services
  BY DEF Exchange
<1>3. s # "end" /\ s # "pick"
  BY <1>1 DEF Local
<1> DEFINE v == Judge(s, r)
<1>4. at' = GoOn(s, v)
  BY <1>2 DEF Enter
<1>5. lost' \in Nat /\ services' \in {<< >>, offer'.services} /\ at' \in Steps
  BY <1>1, <1>2, <1>3, <1>4, GoOnAdvances DEF BInv
<1>6. /\ at' \in Early => at \in Early
      /\ at' \in Kept => at \in Kept \ {"change"} \/ (at = "provision" /\ v # "fail")
      /\ at' # "provision"
      /\ at' \notin Early => at \notin Early
  <2>1. at \in Early \ {"pick"} \/ at = "provision" \/ at \in Kept \/ at \in Late
    BY <1>1, <1>3, StepsAreNamed DEF StepNames
  <2>2. at = "change" => at' \notin Kept
    BY <1>1, <1>4, AfterOperation DEF GoOn, Kept, WithBinding
  <2>3. QED
    BY <1>1, <1>3, <1>4, <2>1, <2>2, GoOnAdvances, PhasesApart
<1>7. Effect(s) \/ NoEffect \/ Overreach(s, r)
  BY <1>2, OverreachIsDefective
<1>8. at' \in Early \union {"provision"} => inst' = None /\ bound' = FALSE
  BY <1>1, <1>6, <1>7, EffectKeeps DEF BInv
<1>9. bound' \in BOOLEAN
  BY <1>7, EffectKeeps DEF BInv
<1>10. ASSUME at' \in Kept, Seen, ~Overrun  PROVE inst' = plan.id
  <2>1. CASE at \in Kept \ {"change"}
    <3>1. inst = plan.id /\ Chosen
      BY <2>1, <1>10, PhasesApart DEF BInv
    <3>2. inst # None
      BY <3>1, PlansOfChosen DEF BInv
    <3>3. s # "conflict" \/ Effect(s) \/ NoEffect
      BY <1>2, <1>10, OverreachIsDefective
    <3>4. QED
      BY <1>1, <1>7, <2>1, <3>1, <3>2, <3>3, EffectKeeps DEF BInv
  <2>2. CASE at = "provision" /\ v # "fail"
    <3>1. r = Right(s)
      BY <1>1, <1>10, <2>2, ProvisionPassesIfCarriedOut
    <3>2. Effect(s)
      BY <1>1, <1>2, <2>2, <3>1, OverreachIsDefective
    <3>3. inst = None
      BY <2>2 DEF BInv
    <3>4. QED
      BY <1>1, <2>2, <3>2, <3>3, EffectKeeps DEF BInv
  <2>3. QED
    BY <1>6, <1>10, <2>1, <2>2
<1>11. (Chosen' <=> Chosen) /\ (Seen' <=> Seen) /\ (Overrun' <=> Overrun)
  BY <1>1 DEF Chosen, Seen, Overrun
<1>12. at' \in Early => service' = None /\ plan' = None
  BY <1>1, <1>6 DEF BInv
<1>13. at' \notin Early => (at' = "end" /\ service' = None) \/ Chosen'
  BY <1>1, <1>3, <1>6, <1>11 DEF BInv
<1>14. at' \in Kept /\ Seen' /\ ~Overrun' => inst' = plan'.id
  BY <1>1, <1>10, <1>11
<1>15. recorded' => offer'.keys
  BY <1>1, <1>7, EffectKeeps DEF BInv
<1>16. QED
  BY <1>1, <1>5, <1>8, <1>9, <1>12, <1>13, <1>14, <1>15 DEF BInv

LEMMA BSkip ==
    ASSUME BInv, NEW s \in Steps, Skip(s)  PROVE BInv'
<1>1. /\ at = s /\ Untold(s)
      /\ at' = CASE s = "change" -> "maintenance" [] s = "maintenance" -> "cleanup"
                 [] OTHER -> After(s)
      /\ UNCHANGED <<offer, defect, services, service, plan, inst, bound, recorded, lost>>
  BY DEF Skip
<1>2. s \in {"await", "absent", "getbinding", "conflict", "change", "get", "ghost",
             "ghostbinding", "maintenance"}
  BY <1>1 DEF Untold
<1>3. CASE s = "absent"
  <2>1. s \in Early /\ at' \in Early
    BY <1>1, <1>3, AfterEarly DEF Early
  <2>2. Chosen' <=> Chosen
    BY <1>1 DEF Chosen
  <2>3. at' \in Steps /\ at' \notin Kept /\ s \notin Kept /\ at' # "end"
    BY <2>1, PhasesApart
  <2>4. QED
    BY <1>1, <2>1, <2>2, <2>3 DEF BInv
<1>4. CASE s # "absent"
  <2>1. (s \in Kept \/ s \in Late) /\ (at' \in Kept \/ at' \in Late) /\ (at' \in Kept => s \in Kept)
        /\ at' # "end" /\ s # "end"
    BY <1>1, <1>2, <1>4, AfterEarly, AfterAwait, AfterOperation
       DEF Kept, WithBinding, Late, Ending
  <2>2. (Chosen' <=> Chosen) /\ (Seen' <=> Seen) /\ (Overrun' <=> Overrun)
    BY <1>1 DEF Chosen, Seen, Overrun
  <2>3. at' \in Steps /\ at' \notin Early /\ at' # "provision" /\ s \notin Early
    BY <2>1, PhasesApart
  <2>4. QED
    BY <1>1, <2>1, <2>2, <2>3 DEF BInv
<1>5. QED
  BY <1>3, <1>4

LEMMA BInspect ==
    ASSUME BInv, NEW s \in Steps, Inspect(s)  PROVE BInv'
<1>1. /\ at = s /\ s \in {"display", "spec"}
      /\ UNCHANGED <<offer, defect, services, service, plan, inst, bound, recorded, lost>>
  BY DEF Inspect
<1>2. at' = After(s)
  <2>1. PICK v : Enter(s, v)
    BY DEF Inspect
  <2>2. QED
    BY <1>1, <2>1 DEF Enter, GoOn
<1>3. CASE s = "display"
  <2>1. s \in Early /\ at' \in Early
    BY <1>2, <1>3, AfterEarly DEF Early
  <2>2. Chosen' <=> Chosen
    BY <1>1 DEF Chosen
  <2>3. at' \in Steps /\ at' \notin Kept /\ s \notin Kept /\ at' # "end"
    BY <2>1, PhasesApart
  <2>4. QED
    BY <1>1, <2>1, <2>2, <2>3 DEF BInv
<1>4. CASE s = "spec"
  <2>1. s \in Kept /\ at' \in Kept
    BY <1>2, <1>4, AfterAwait DEF Kept, WithBinding
  <2>2. (Chosen' <=> Chosen) /\ (Seen' <=> Seen) /\ (Overrun' <=> Overrun)
    BY <1>1 DEF Chosen, Seen, Overrun
  <2>3. at' \in Steps /\ at' \notin Early /\ at' # "provision" /\ s \notin Early /\ s # "end"
    BY <2>1, PhasesApart
  <2>4. QED
    BY <1>1, <2>1, <2>2, <2>3 DEF BInv
<1>5. QED
  BY <1>1, <1>3, <1>4

LEMMA BPick ==
    ASSUME BInv, Pick  PROVE BInv'
<1>1. at = "pick" /\ UNCHANGED <<offer, defect, services, inst, bound, recorded, lost>>
  BY DEF Pick
<1>2. at \in Early /\ service = None /\ plan = None /\ inst = None /\ bound = FALSE
  BY <1>1, PhasesApart DEF BInv
<1> DEFINE s == PickService
           id == IF wanted.service = None THEN None ELSE wanted.plan
           p == IF s = None THEN None ELSE ResolvePlan(s, id)
<1>3. CASE p # None
  <2>1. service' = s /\ plan' = p /\ Enter("pick", "pass")
    BY <1>3 DEF Pick
  <2>2. at' = "provision"
    BY <2>1, AfterEarly DEF Enter, GoOn
  <2>3. s # None /\ p = ResolvePlan(s, id)
    BY <1>3
  <2>4. Chosen'
    BY <1>1, <1>3, <2>1, <2>3, PickChooses DEF Chosen, BInv
  <2>5. at' \in Steps /\ at' \notin Kept /\ at' \notin Early
    BY <2>2, PhasesApart
  <2>6. QED
    BY <1>1, <1>2, <2>2, <2>4, <2>5 DEF BInv
<1>4. CASE p = None
  <2>1. at' = "end" /\ UNCHANGED <<service, plan>>
    BY <1>4 DEF Pick
  <2>2. at' \in Steps /\ at' \notin Kept /\ at' \notin Early /\ at' # "provision"
    BY <2>1, PhasesApart
  <2>3. QED
    BY <1>1, <1>2, <2>1, <2>2 DEF BInv
<1>5. QED
  BY <1>3, <1>4

LEMMA BPoll ==
    ASSUME BInv, Poll  PROVE BInv'
<1>1. /\ at = "await"
      /\ UNCHANGED <<offer, defect, services, service, plan, inst, bound, recorded>>
  BY DEF Poll
<1>2. at' \in {"await", "reprovision", "end"}
  <2>1. at' = at \/ (\E v : Enter("await", v))
    BY DEF Poll
  <2>2. \A v : Enter("await", v) => at' \in {"reprovision", "end"}
    BY AfterEarly DEF Enter, GoOn
  <2>3. QED
    BY <1>1, <2>1, <2>2
<1>3. lost' \in Nat
  BY DEF Poll, BInv
<1>4. at \in Kept /\ (at' \in Kept \/ at' = "end")
  BY <1>1, <1>2 DEF Kept
<1>5. at \notin Early /\ at # "end" /\ at' \in Steps /\ at' \notin Early /\ at' # "provision"
  BY <1>4, PhasesApart
<1>6. (Chosen' <=> Chosen) /\ (Seen' <=> Seen) /\ (Overrun' <=> Overrun)
  BY <1>1 DEF Chosen, Seen, Overrun
<1>7. QED
  BY <1>1, <1>3, <1>4, <1>5, <1>6 DEF BInv

LEMMA BNext == BInv /\ [Next]_vars => BInv'
<1>1. CASE UNCHANGED vars
  BY <1>1 DEF vars, BInv, Chosen, Seen, Overrun
<1>2. ASSUME BInv, OperatorDone  PROVE BInv'
  BY <1>2 DEF OperatorDone, BInv, Chosen, Seen, Overrun
<1>3. ASSUME BInv, Step  PROVE BInv'
  BY <1>3, BSkip, BExchange, BInspect, BPick, BPoll DEF Step
<1>4. QED
  BY <1>1, <1>2, <1>3 DEF Next

LEMMA BAlways == Spec => []BInv
  BY BInit, BNext, PTL DEF Spec

-----------------------------------------------------------------------------
(* Wrong answers.                                                          *)

\* A conforming broker takes the change that its catalog promises.
LEMMA ChangesAsPromised ==
    ASSUME BInv, Chosen, OtherPlan # None
    PROVE  /\ inst = plan.id => (Changes(OtherPlan.id) <=> PlanChangePromised(plan))
           /\ inst = OtherPlan.id => (Changes(plan.id) <=> PlanChangePromised(OtherPlan))
<1>1. /\ OtherPlan.id # plan.id /\ PlanNamed(plan.id) = plan
      /\ PlanNamed(OtherPlan.id) = OtherPlan
  BY PlansOfChosen DEF BInv
<1>2. ASSUME inst = plan.id  PROVE Changes(OtherPlan.id) <=> PlanChangePromised(plan)
  BY <1>1, <1>2 DEF Changes, PlanChangePromised
<1>3. ASSUME inst = OtherPlan.id  PROVE Changes(plan.id) <=> PlanChangePromised(OtherPlan)
  BY <1>1, <1>3 DEF Changes, PlanChangePromised
<1>4. QED
  BY <1>2, <1>3

\* Silence fails a step that has something to say to it.
LEMMA SilenceFails ==
    ASSUME NEW s, s \notin {"back", "report", "probe"}
    PROVE  Judge(s, NoAnswer) = "fail"
<1>1. NoAnswer.body # "right" /\ NoAnswer.status = -1
  BY DEF NoAnswer
<1>2. ~Good(s, NoAnswer)
  BY <1>1 DEF Good
<1>3. QED
  BY <1>1, <1>2 DEF Judge

\* So does a visible defect, but of the parameters.
LEMMA DefectFails ==
    ASSUME BInv, Seen, NEW s \in Steps, at = s, ~Untold(s), Answer(s) # Right(s),
           s \notin Local, s \notin {"back", "parameters", "probe"},
           ~Mute(s, Answer(s))
    PROVE  Judge(s, Answer(s)) = "fail"
<1> DEFINE r == Answer(s)
<1>1. /\ defect # None /\ defect.step = s /\ Visible(defect)
      /\ r = [status |-> defect.status, body |-> defect.body]
  BY DEF Answer, Spoilt, Seen
<1>2. r.status = defect.status /\ r.body = defect.body
  BY <1>1
<1> HIDE DEF r
<1>3. ~(s = "report" /\ (r.status # 200 \/ r.body = "bare"))
  BY DEF Mute, r
<1>4. CASE s # "change"
  <2>1. ~Good(s, r)
    BY <1>1, <1>2, <1>4 DEF Visible, Good
  <2>2. Judge(s, r) = "fail"
    BY <1>3, <1>4, <2>1 DEF Judge
  <2>3. QED
    BY <2>2 DEF r
<1>5. CASE s = "change"
  <2>1. "change" \in Kept /\ "change" \notin Early
    BY PhasesApart DEF Kept
  <2>2. Chosen /\ inst = plan.id /\ OtherPlan # None
    BY <1>1, <1>5, <2>1 DEF BInv, Untold, Overrun
  <2>3. Right(s) = [status |-> IF PlanChangePromised(plan) THEN 200 ELSE 422, body |-> "right"]
    <3>1. Changes(OtherPlan.id) <=> PlanChangePromised(plan)
      BY <2>2, ChangesAsPromised
    <3>2. Conforming(s) = IF PlanChangePromised(plan) THEN 200 ELSE 422
      BY <1>5, <3>1 DEF Conforming, Asked
    <3>3. Right(s) = [status |-> Conforming(s), body |-> "right"]
      BY <1>5 DEF Right
    <3>4. QED
      BY <3>2, <3>3
  <2>4. r.status # 202
    BY <1>1, <1>2, <1>5 DEF Visible, Local
  <2>5. ~Good(s, r)
    <3>1. ASSUME Good(s, r)  PROVE FALSE
      <4>1. r.body = "right" /\ r.status = IF PlanChangePromised(plan) THEN 200 ELSE 422
        BY <1>1, <1>2, <1>5, <2>4, <3>1 DEF Good
      <4>2. QED
        BY <1>1, <1>2, <2>3, <4>1 DEF r
    <3>2. QED
      BY <3>1
  <2>6. QED
    BY <1>5, <2>5 DEF Judge, r
<1>6. QED
  BY <1>4, <1>5

\* A parameter that is owed is reported, or left for the next step to report.
LEMMA ParameterPends ==
    ASSUME BInv, Seen, NEW r \in {Answer("parameters"), NoAnswer}, NEW a,
           Effect("parameters") \/ NoEffect \/ Overreach("parameters", r),
           r # Right("parameters") \/ Dropped("parameters", r),
           a = GoOn("parameters", Judge("parameters", r))
    PROVE  \/ Judge("parameters", r) = "fail"
           \/ a = "probe" \/ (a = "report" /\ ~recorded')
<1> DEFINE v == Judge("parameters", r)
<1>1. v \in {"fail", "quiet", "pass"}
  BY DEF Judge
<1>2. v = "quiet" => a = "probe"
  BY DEF GoOn
<1>3. ASSUME v = "pass"  PROVE a = "report" /\ ~recorded'
  <2>1. a = "report"
    BY <1>3 DEF GoOn
  <2>2. Good("parameters", r)
    BY <1>3 DEF Judge
  <2>3. r.body = "right" /\ r.status \in {200, 202}
    BY <2>2 DEF Good, Expected
  <2>4. ASSUME ~Dropped("parameters", r)  PROVE FALSE
    <3>1. r # Right("parameters") /\ recorded'
      BY <2>3, <2>4 DEF Dropped
    <3>2. r = Answer("parameters")
      BY <2>3 DEF NoAnswer
    <3>3. /\ defect # None /\ defect.step = "parameters"
          /\ r = [status |-> defect.status, body |-> defect.body]
      BY <3>1, <3>2 DEF Answer, Spoilt
    <3>4. r.status # 202
      BY <3>3 DEF Seen, Visible, Local
    <3>5. r = [status |-> 200, body |-> "right"]
      BY <2>3, <3>3, <3>4
    <3>6. Right("parameters") = [status |-> IF offer.keys THEN 200 ELSE 400, body |-> "right"]
      BY DEF Right, Conforming
    <3>7. ~offer.keys
      BY <3>1, <3>5, <3>6
    <3>8. ~recorded'
      <4>1. "parameters" \in Steps
        BY PhasesApart DEF Kept
      <4>2. QED
        BY <3>7, <4>1, EffectKeeps DEF BInv
    <3>9. QED
      BY <3>1, <3>8
  <2>5. QED
    BY <2>1, <2>4 DEF Dropped
<1>4. QED
  BY <1>1, <1>2, <1>3

LEMMA WExchange ==
    ASSUME BInv, WInv, NEW s \in Steps, Exchange(s)  PROVE WInv'
<1>1. /\ at = s /\ s \notin Local /\ ~Untold(s)
      /\ UNCHANGED <<offer, wanted, defect, service, plan, polls, operator>>
  BY DEF Exchange
<1>2. PICK r \in {Answer(s), NoAnswer} :
        /\ Enter(s, Judge(s, r)) /\ owed' = Owes(s, r) /\ Carries(s, r)
        /\ blind' = (blind \/ Mute(s, r))
  BY DEF Exchange
<1> DEFINE v == Judge(s, r)
<1>3. /\ failed' = IF v = "fail" THEN failed \union {CheckOf(s)} ELSE failed
      /\ at' = GoOn(s, v)
  BY <1>2 DEF Enter
<1>4. SUFFICES ASSUME Seen'  PROVE owed' \subseteq failed' \union Pending' \union Excused'
  BY DEF WInv
<1>5. Seen
  BY <1>1, <1>4 DEF Seen
<1>6. owed \subseteq failed \union Pending \union Excused
  BY <1>5 DEF WInv
<1>7. s \in {"parameters", "report", "probe"} => CheckOf(s) = "update-parameters"
  BY DEF CheckOf
<1>8. /\ owed' \subseteq owed \union {CheckOf(s)}
      /\ owed' # owed => s # "back" /\ (r # Right(s) \/ Dropped(s, r))
  BY <1>2 DEF Owes
<1>9. failed \subseteq failed' /\ Excused \subseteq Excused'
  BY <1>2, <1>3 DEF Excused
<1>10. CASE s \in {"report", "probe"}
  <2>1. Pending \subseteq {"update-parameters"} /\ CheckOf(s) = "update-parameters"
    BY <1>7, <1>10 DEF Pending
  <2>2. CASE Mute(s, r)
    <3>1. Excused' = {"update-parameters"}
      BY <1>2, <2>2 DEF Excused
    <3>2. QED
      BY <1>6, <1>8, <1>9, <2>1, <3>1
  <2>3. CASE v = "fail"
    <3>1. "update-parameters" \in failed'
      BY <1>3, <2>1, <2>3
    <3>2. QED
      BY <1>6, <1>8, <1>9, <2>1, <3>1
  <2>4. CASE ~Mute(s, r) /\ v # "fail"
    <3>1. s = "report" /\ r.status = 200 /\ r.body # "bare"
      BY <1>10, <2>4 DEF Mute, Judge
    <3>2. r = Right(s)
      <4>1. r = Answer(s)
        BY <3>1 DEF NoAnswer
      <4>2. QED
        BY <1>1, <1>5, <2>4, <3>1, <4>1, DefectFails
    <3>3. Right(s).body = Shown
      BY <3>1 DEF Right
    <3>4. r.body = "right"
      BY <2>4, <3>1 DEF Judge, Good, Expected
    <3>5. recorded
      BY <3>2, <3>3, <3>4 DEF Shown
    <3>6. Pending = {} /\ owed' = owed
      BY <1>1, <1>8, <3>1, <3>2, <3>5 DEF Pending, Dropped
    <3>7. QED
      BY <1>6, <1>9, <3>6
  <2>5. QED
    BY <2>2, <2>3, <2>4
<1>11. CASE s \notin {"report", "probe"}
  <2>1. owed \subseteq failed' \union Excused'
    BY <1>1, <1>6, <1>9, <1>11 DEF Pending
  <2>2. CASE owed' = owed \/ v = "fail"
    BY <1>3, <1>8, <2>1, <2>2
  <2>3. CASE owed' # owed /\ v # "fail"
    <3>1. s # "back" /\ (r # Right(s) \/ Dropped(s, r))
      BY <1>8, <2>3
    <3>2. s = "parameters"
      <4>1. SUFFICES ASSUME s # "parameters"  PROVE FALSE
        OBVIOUS
      <4>2. r # Right(s)
        BY <3>1, <4>1 DEF Dropped
      <4>3. ~Mute(s, Answer(s))
        BY <1>11 DEF Mute
      <4>4. QED
        BY <1>1, <1>5, <1>11, <2>3, <3>1, <4>1, <4>2, <4>3, SilenceFails, DefectFails
    <3>3. Effect(s) \/ NoEffect \/ Overreach(s, r)
      BY <1>2, OverreachIsDefective
    <3>4. at' = "probe" \/ (at' = "report" /\ ~recorded')
      BY <1>2, <1>3, <1>5, <2>3, <3>1, <3>2, <3>3, ParameterPends
    <3>5. Pending' = {"update-parameters"}
      BY <3>4 DEF Pending
    <3>6. QED
      BY <1>7, <1>8, <2>1, <3>2, <3>5
  <2>4. QED
    BY <2>2, <2>3
<1>12. QED
  BY <1>10, <1>11

LEMMA WNext == BInv /\ WInv /\ [Next]_vars => WInv'
<1> SUFFICES ASSUME BInv, WInv, [Next]_vars  PROVE WInv'
  OBVIOUS
<1>1. CASE UNCHANGED vars \/ OperatorDone
  BY <1>1 DEF OperatorDone, vars, WInv, Seen, Pending, Excused
<1>2. ASSUME NEW s \in Steps, Skip(s)  PROVE WInv'
  <2>1. s \notin {"probe", "report"} /\ at = s /\ UNCHANGED <<defect, owed, failed, blind>>
    BY <1>2 DEF Skip, Untold
  <2>2. QED
    BY <2>1 DEF WInv, Seen, Pending, Excused
<1>3. ASSUME NEW s \in Steps, Inspect(s)  PROVE WInv'
  <2>1. s \notin {"probe", "report"} /\ at = s /\ UNCHANGED <<defect, blind>>
    BY <1>3 DEF Inspect
  <2>2. PICK v : /\ Enter(s, v)
                 /\ owed' \in {owed, owed \union {CheckOf(s)}}
                 /\ owed' # owed => v = "fail"
    <3> DEFINE there == IF s = "display" THEN services # << >> ELSE bindOK
               full == IF s = "display" THEN offer.display ELSE offer.typed
               w == CASE ~there -> "quiet" [] there /\ Spoilt(s) -> "fail"
                      [] there /\ ~Spoilt(s) -> IF full THEN "pass" ELSE "skip"
    <3>1. /\ Enter(s, w)
          /\ owed' = IF there /\ Spoilt(s) THEN owed \union {CheckOf(s)} ELSE owed
      BY <1>3 DEF Inspect
    <3>2. there /\ Spoilt(s) => w = "fail"
      <4> HIDE DEF there, full
      <4>1. QED
        OBVIOUS
    <3>3. QED
      BY <3>1, <3>2
  <2>3. failed' = IF v = "fail" THEN failed \union {CheckOf(s)} ELSE failed
    BY <2>2 DEF Enter
  <2>4. QED
    BY <2>1, <2>2, <2>3 DEF WInv, Seen, Pending, Excused
<1>4. CASE Pick
  <2>1. at = "pick" /\ UNCHANGED <<defect, owed, blind>> /\ failed \subseteq failed'
    BY <1>4 DEF Pick, Enter
  <2>2. QED
    BY <2>1 DEF WInv, Seen, Pending, Excused
<1>5. CASE Poll
  <2>1. at = "await" /\ UNCHANGED <<defect, blind>> /\ CheckOf("await") = "await"
    BY <1>5 DEF Poll, CheckOf
  <2>2. failed \subseteq failed' /\ owed' \subseteq owed \union (failed' \intersect {"await"})
    BY <1>5, <2>1 DEF Poll, Enter
  <2>3. QED
    BY <2>1, <2>2 DEF WInv, Seen, Pending, Excused
<1>6. QED
  BY <1>1, <1>2, <1>3, <1>4, <1>5, WExchange DEF Next, Step

\* Whatever answer goes wrong or missing, whatever parameter is dropped, and
\* whatever the run skips after it, the check it was asked for is red at the
\* end, that of parameters if there was something to tell by.  A defect counts
\* if the check can tell it from a right answer; what it is blind to is in
\* Visible: the status of success that answers a parameter or a plan change.
THEOREM WrongAnswersTurnRed ==
    ASSUME Telling  PROVE Spec => []WrongAnswersReported
<1>1. BInv => Seen
  BY DEF BInv, Seen, Telling
<1>2. Init => WInv
  BY DEF Init, WInv
<1>3. BInv /\ WInv => WrongAnswersReported
  BY <1>1 DEF WInv, WrongAnswersReported, Pending, Excused
<1>4. QED
  BY <1>2, <1>3, BAlways, WNext, PTL DEF Spec

-----------------------------------------------------------------------------
(* A conforming broker.                                                    *)

LEMMA HarmlessBefore ==
    ASSUME BInv, Next, Harmless'
    PROVE  Harmless /\ defect = None /\ UNCHANGED <<offer, wanted, defect>>
<1>1. /\ UNCHANGED <<offer, wanted, defect>>
      /\ lost' = lost \/ lost' = lost + 1
      /\ failed \subseteq failed'
      /\ operator = "broken" => operator' = "broken"
  <2>1. CASE OperatorDone
    BY <2>1 DEF OperatorDone
  <2>2. ASSUME NEW s \in Steps, Skip(s) \/ Inspect(s) \/ Exchange(s)
        PROVE  /\ UNCHANGED <<offer, wanted, defect, operator>>
               /\ lost' = lost \/ lost' = lost + 1
               /\ failed \subseteq failed'
    BY <2>2 DEF Skip, Inspect, Exchange, Enter
  <2>3. CASE Pick
    BY <2>3 DEF Pick, Enter
  <2>4. CASE Poll
    BY <2>4 DEF Poll, Enter
  <2>5. QED
    BY <2>1, <2>2, <2>3, <2>4 DEF Next, Step
<1>2. lost = 0
  BY <1>1 DEF Harmless, BInv
<1>3. QED
  BY <1>1, <1>2 DEF Harmless

\* Nothing is lost and nothing is defect: the answer is the right one.
LEMMA RightExchange ==
    ASSUME BInv, NEW s \in Steps, Exchange(s), Harmless'
    PROVE  /\ at = s /\ s \notin Local /\ ~Untold(s)
           /\ Enter(s, Judge(s, Right(s))) /\ Effect(s)
           /\ UNCHANGED <<offer, service, plan>>
           /\ bindOK' = IF s = "bind" THEN Good(s, Right(s)) ELSE bindOK
           /\ services' = IF s = "catalog" /\ Right(s).status = 200
                          THEN offer.services ELSE services
<1>1. Harmless /\ defect = None
  BY HarmlessBefore DEF Next, Step
<1>2. PICK r \in {Answer(s), NoAnswer} :
        /\ Enter(s, Judge(s, r))
        /\ Carries(s, r)
        /\ IF r = NoAnswer THEN lost < MaxLost /\ lost' = lost + 1 ELSE UNCHANGED lost
        /\ bindOK' = IF s = "bind" THEN Good(s, r) ELSE bindOK
        /\ services' = IF s = "catalog" /\ r.status = 200 THEN offer.services ELSE services
  BY DEF Exchange
<1>3. r # NoAnswer
  BY <1>1, <1>2 DEF Harmless
<1>4. r = Right(s)
  BY <1>1, <1>2, <1>3 DEF Answer, Spoilt
<1>5. Effect(s)
  BY <1>1, <1>2, <1>4 DEF Carries, Spoilt
<1>6. QED
  BY <1>2, <1>4, <1>5 DEF Exchange

\* What the gate makes of the right answer.
RightVerdict(s) ==
    CASE s = "back" \/ (s = "parameters" /\ ~offer.keys) -> "quiet"
      [] s = "probe" -> "skip"
      [] s = "maintenance" -> IF Unreadable THEN "fail" ELSE "quiet"
      [] s = "report" ->
            IF service.instances = "none" \/ offer.shows = "never" THEN "skip" ELSE "pass"
      [] s \in {"bind", "rebind", "unbind"} -> IF service.bindable THEN "pass" ELSE "fail"
      [] OTHER -> "pass"

\* Statuses that do not depend on what the broker has.
LEMMA PlainSteps ==
    ASSUME NEW s, s \in {"auth", "healthz", "unversioned", "foreign", "version", "unknown",
                         "absent", "noservice", "noplan", "bindnoservice", "bindnoplan",
                         "bindghost", "operation", "ghost", "ghostbinding", "updateghost",
                         "stale", "errorbody"}
    PROVE  Judge(s, Right(s)) = "pass"
<1>1. Right(s) = [status |-> Conforming(s), body |-> "right"]
  BY DEF Right
<1>2. Good(s, Right(s))
  <2>1. CASE s = "errorbody"
    BY <1>1, <2>1 DEF Good
  <2>2. CASE s \in {"auth", "healthz", "unversioned", "foreign", "version", "unknown", "absent"}
    BY <1>1, <2>2 DEF Good, Expected, Conforming
  <2>3. CASE s \in {"noservice", "noplan", "bindnoservice", "bindnoplan", "bindghost"}
    BY <1>1, <2>3 DEF Good, Expected, Conforming
  <2>4. CASE s \in {"operation", "ghost", "ghostbinding", "updateghost", "stale"}
    BY <1>1, <2>4 DEF Good, Expected, Conforming
  <2>5. QED
    BY <2>1, <2>2, <2>3, <2>4
<1>3. QED
  BY <1>2 DEF Judge

LEMMA VerdictIsRight ==
    ASSUME BInv, OnCourse, Complete(offer.services), defect = None,
           at \notin Local, ~Untold(at)
    PROVE  Judge(at, Right(at)) = RightVerdict(at)
<1>1. ASSUME at \notin Early, at # "end"
      PROVE  /\ Chosen /\ plan.id # None /\ PlanNamed(plan.id) = plan
             /\ OtherPlan # None => /\ OtherPlan.id # None /\ OtherPlan.id # plan.id
                                   /\ PlanNamed(OtherPlan.id) = OtherPlan
  BY <1>1, PlansOfChosen DEF BInv
<1>2. at \in Steps
  BY DEF BInv
<1>3. CASE at \in {"auth", "healthz", "unversioned", "foreign", "version", "unknown",
                   "absent", "noservice", "noplan", "bindnoservice", "bindnoplan",
                   "bindghost", "operation", "ghost", "ghostbinding", "updateghost",
                   "stale", "errorbody"}
  BY <1>3, PlainSteps DEF RightVerdict
<1>4. CASE at = "catalog"
  <2>1. Right(at).status = 200 /\ Right(at).body = "right"
    BY <1>4 DEF Right, Conforming
  <2>2. QED
    BY <1>4, <2>1 DEF Judge, Good, Expected, RightVerdict
<1>5. CASE at = "provision"
  <2>1. inst = None /\ plan.id # None
    BY <1>1, <1>5, PhasesApart DEF BInv
  <2>2. Conforming("provision") \in {201, 202}
    BY <2>1 DEF Conforming
  <2>3. Right(at).status \in {201, 202} /\ Right(at).body = "right"
    BY <1>5, <2>2 DEF Right
  <2>4. QED
    BY <1>5, <2>3 DEF Judge, Good, Expected, RightVerdict
<1>6. CASE at \in {"reprovision", "conflict", "get", "update", "parameters", "change"}
  <2>1. at \in Kept
    BY <1>6 DEF Kept
  <2>2. at \notin Early /\ at # "end"
    BY <2>1, PhasesApart
  <2>3. inst = plan.id
    BY <2>1 DEF BInv, Seen, Overrun
  <2>4. Right(at) = [status |-> Conforming(at), body |-> "right"]
    BY <1>6, <2>3 DEF Right
  <2>5. CASE at = "reprovision"
    <3>1. Conforming(at) = 200
      BY <1>1, <2>2, <2>3, <2>5 DEF Conforming
    <3>2. QED
      BY <2>4, <2>5, <3>1 DEF Judge, Good, Expected, RightVerdict
  <2>6. CASE at = "conflict"
    <3>1. OtherPlan # None
      BY <2>6 DEF Untold
    <3>2. Conforming(at) = 409
      BY <1>1, <2>2, <2>3, <2>6, <3>1 DEF Conforming
    <3>3. QED
      BY <2>4, <2>6, <3>2 DEF Judge, Good, Expected, RightVerdict
  <2>7. CASE at = "parameters"
    <3>1. Conforming(at) = IF offer.keys THEN 200 ELSE 400
      BY <2>7 DEF Conforming
    <3>2. QED
      BY <2>4, <2>7, <3>1 DEF Judge, Good, Expected, RightVerdict
  <2>8. CASE at = "change"
    <3>1. OtherPlan # None
      BY <2>8 DEF Untold
    <3>2. Changes(OtherPlan.id) <=> PlanChangePromised(plan)
      BY <1>1, <2>2, <2>3, <3>1, ChangesAsPromised
    <3>3. Conforming(at) = IF PlanChangePromised(plan) THEN 200 ELSE 422
      BY <2>8, <3>2 DEF Conforming, Asked
    <3>4. QED
      BY <2>4, <2>8, <3>3 DEF Judge, Good, RightVerdict
  <2>9. CASE at = "get"
    <3>1. Conforming(at) = 200
      BY <2>9 DEF Conforming, Untold
    <3>2. QED
      BY <2>4, <2>9, <3>1 DEF Judge, Good, Expected, RightVerdict
  <2>10. CASE at = "update"
    <3>1. Conforming(at) = 200
      BY <2>3, <2>10 DEF Conforming, Asked, Changes
    <3>2. QED
      BY <2>4, <2>10, <3>1 DEF Judge, Good, Expected, RightVerdict
  <2>11. QED
    BY <1>6, <2>5, <2>6, <2>7, <2>8, <2>9, <2>10
<1>7. CASE at \in {"bind", "rebind", "getbinding", "unbind"}
  <2>1. bound <=> at # "bind" /\ service.bindable
    BY <1>7 DEF OnCourse, WithBinding
  <2>2. Right(at) = [status |-> Conforming(at), body |-> "right"]
    BY <1>7 DEF Right
  <2>3. CASE at \in {"bind", "rebind"}
    <3>1. Conforming(at) = IF service.bindable THEN IF at = "bind" THEN 201 ELSE 200 ELSE 400
      BY <2>1, <2>3 DEF Conforming
    <3>2. QED
      BY <2>2, <2>3, <3>1 DEF Judge, Good, Expected, RightVerdict
  <2>4. CASE at = "getbinding"
    <3>1. service.bindable
      BY <2>4 DEF OnCourse, Untold
    <3>2. Conforming(at) = 200
      BY <2>1, <2>4, <3>1 DEF Conforming
    <3>3. QED
      BY <2>2, <2>4, <3>2 DEF Judge, Good, Expected, RightVerdict
  <2>5. CASE at = "unbind"
    <3>1. Conforming(at) = IF service.bindable THEN 200 ELSE 410
      BY <2>1, <2>5 DEF Conforming
    <3>2. QED
      BY <2>2, <2>5, <3>1 DEF Judge, Good, Expected, RightVerdict
  <2>6. QED
    BY <1>7, <2>3, <2>4, <2>5
<1>8. CASE at = "cleanup"
  <2>1. ~bound
    BY <1>8 DEF OnCourse, WithBinding
  <2>2. Right(at) = [status |-> 410, body |-> "right"]
    BY <1>8, <2>1 DEF Right, Conforming
  <2>3. QED
    BY <1>8, <2>2 DEF Judge, Good, Expected, RightVerdict
<1>9. CASE at = "report"
  <2>1. recorded
    BY <1>9 DEF OnCourse
  <2>2. Right(at).body = IF offer.shows = "never" THEN "bare" ELSE "right"
    BY <1>9, <2>1 DEF Right, Shown
  <2>3. Right(at).status = IF service.instances = "none" THEN 404 ELSE 200
    BY <1>9 DEF Right, Conforming
  <2>4. QED
    BY <1>9, <2>2, <2>3 DEF Judge, Good, Expected, RightVerdict
<1>10. CASE at = "probe"
  <2>1. Right(at).status = 400
    BY <1>10 DEF Right, Conforming, OnCourse
  <2>2. QED
    BY <1>10, <2>1 DEF Judge, RightVerdict
<1>11. CASE at = "back"
  BY <1>11 DEF Judge, RightVerdict
<1>12. CASE at = "maintenance"
  <2>1. at \notin Early /\ at # "end"
    BY <1>12, PhasesApart DEF Late
  <2>2. inst = IF OneWay THEN OtherPlan.id ELSE plan.id
    BY <1>12 DEF OnCourse
  <2>3. plan.version
    BY <1>12 DEF Untold
  <2>4. PlanNamed(inst) = IF OneWay THEN OtherPlan ELSE plan
    <3>1. CASE OneWay
      BY <1>1, <2>1, <2>2, <3>1 DEF OneWay
    <3>2. CASE ~OneWay
      BY <1>1, <2>1, <2>2, <3>2
    <3>3. QED
      BY <3>1, <3>2
  <2>5. Unreadable <=> service.instances = "none" \/ ~PlanNamed(inst).version
    <3>1. CASE OneWay
      BY <2>3, <2>4, <3>1 DEF OneWay, Stranded, Unreadable
    <3>2. CASE ~OneWay
      BY <2>3, <2>4, <3>2 DEF OneWay, Stranded, Unreadable
    <3>3. QED
      BY <3>1, <3>2
  <2>6. /\ Right(at).status = IF service.instances = "none" THEN 404 ELSE 200
        /\ Right(at).body = IF PlanNamed(inst).version THEN "right" ELSE "wrong"
    BY <1>12 DEF Right, Conforming
  <2>7. Good(at, Right(at)) <=> ~Unreadable
    BY <1>12, <2>5, <2>6 DEF Good, Expected
  <2>8. QED
    BY <1>12, <2>7 DEF Judge, RightVerdict
<1>13. CASE at \in {"delete", "redelete"}
  <2>1. CASE at = "delete"
    <3>1. at \notin Early /\ at # "end" /\ (OneWay => OtherPlan # None)
      BY <2>1, PhasesApart DEF Late, Ending, OneWay
    <3>2. inst # None
      BY <1>1, <2>1, <3>1 DEF OnCourse
    <3>3. Right(at) = [status |-> 200, body |-> "right"]
      BY <2>1, <3>2 DEF Right, Conforming
    <3>4. QED
      BY <2>1, <3>3 DEF Judge, Good, Expected, RightVerdict
  <2>2. CASE at = "redelete"
    <3>1. Right(at) = [status |-> 410, body |-> "right"]
      BY <2>2 DEF Right, Conforming, OnCourse
    <3>2. QED
      BY <2>2, <3>1 DEF Judge, Good, Expected, RightVerdict
  <2>3. QED
    BY <1>13, <2>1, <2>2
<1>14. QED
  BY <1>2, <1>3, <1>4, <1>5, <1>6, <1>7, <1>8, <1>9, <1>10, <1>11, <1>12, <1>13, StepsAreNamed
     DEF StepNames, Early, Unread, Kept, WithBinding, Late, Ending, Local

\* What the right answers leave of the broker.
LEMMA EffectIsRight ==
    ASSUME BInv, OnCourse, defect = None, at \in Steps \ Local, ~Untold(at), Effect(at)
    PROVE  /\ inst' = CASE at = "provision" -> plan.id
                        [] at = "change" -> IF PlanChangePromised(plan) THEN OtherPlan.id ELSE plan.id
                        [] at = "back" -> IF PlanChangePromised(OtherPlan) THEN plan.id ELSE OtherPlan.id
                        [] at \in {"delete", "redelete"} -> None
                        [] OTHER -> inst
           /\ bound' <=> at \in {"bind"} \union (WithBinding \ {"unbind"}) /\ service.bindable
           /\ (recorded' <=> recorded \/ (at \in {"parameters", "probe"} /\ offer.keys))
<1>1. ASSUME at \notin Early, at # "end"
      PROVE  /\ Chosen /\ plan.id # None
             /\ OtherPlan # None => OtherPlan.id # None /\ OtherPlan.id # plan.id
  BY <1>1, PlansOfChosen DEF BInv
<1>2. recorded' <=> (recorded \/ (at \in {"parameters", "probe"} /\ offer.keys))
  <2>1. recorded' <=> (recorded \/ (at \in {"parameters", "probe"} /\ Conforming(at) = 200))
    BY DEF Effect
  <2>2. at = "parameters" => (Conforming(at) = 200 <=> offer.keys)
    BY DEF Conforming
  <2>3. at = "probe" => ~offer.keys /\ Conforming(at) # 200
    BY DEF Conforming, OnCourse
  <2>4. QED
    BY <2>1, <2>2, <2>3
<1>3. bound' <=> at \in {"bind"} \union (WithBinding \ {"unbind"}) /\ service.bindable
  <2>1. bound' <=> /\ bound \/ (at \in {"bind", "rebind"} /\ service.bindable)
                   /\ at \notin {"unbind", "cleanup", "delete"}
    BY DEF Effect
  <2>2. bound <=> at \in WithBinding /\ service.bindable
    BY DEF OnCourse
  <2>3. QED
    BY <2>1, <2>2 DEF WithBinding
<1>4. CASE at = "provision"
  <2>1. inst = None
    BY <1>4 DEF BInv
  <2>2. inst' = plan.id
    BY <1>4, <2>1 DEF Effect
  <2>3. QED
    BY <1>2, <1>3, <1>4, <2>2
<1>5. CASE at \in {"reprovision", "update", "probe", "change"}
  <2>1. at \in Kept /\ at \notin Early /\ at # "end"
    BY <1>5, PhasesApart DEF Kept
  <2>2. inst = plan.id /\ plan.id # None
    BY <1>1, <2>1 DEF BInv, Seen, Overrun
  <2>3. at = "change" => (Changes(OtherPlan.id) <=> PlanChangePromised(plan))
    BY <1>1, <2>1, <2>2, ChangesAsPromised DEF Untold
  <2>4. CASE at = "change"
    <3>1. Conforming(at) = IF PlanChangePromised(plan) THEN 200 ELSE 422
      BY <2>3, <2>4 DEF Conforming, Asked
    <3>2. inst' = IF PlanChangePromised(plan) THEN OtherPlan.id ELSE plan.id
      BY <2>2, <2>4, <3>1 DEF Effect, Asked
    <3>3. QED
      BY <1>2, <1>3, <2>4, <3>2
  <2>5. CASE at # "change"
    <3>1. inst' = inst
      BY <1>5, <2>2, <2>5 DEF Effect, Asked
    <3>2. QED
      BY <1>2, <1>3, <1>5, <2>5, <3>1
  <2>6. QED
    BY <2>4, <2>5
<1>6. CASE at = "back"
  <2>1. OtherPlan # None /\ inst = OtherPlan.id
    BY <1>6 DEF OnCourse
  <2>2. at \notin Early /\ at # "end"
    BY <1>6, PhasesApart DEF Late
  <2>3. Changes(plan.id) <=> PlanChangePromised(OtherPlan)
    BY <1>1, <2>1, <2>2, ChangesAsPromised
  <2>4. Conforming(at) = IF PlanChangePromised(OtherPlan) THEN 200 ELSE 422
    BY <1>6, <2>3 DEF Conforming, Asked
  <2>5. inst' = IF PlanChangePromised(OtherPlan) THEN plan.id ELSE OtherPlan.id
    BY <1>6, <2>1, <2>4 DEF Effect, Asked
  <2>6. QED
    BY <1>2, <1>3, <1>6, <2>5
<1>7. CASE at \notin {"provision", "reprovision", "update", "probe", "change", "back"}
  BY <1>2, <1>3, <1>7 DEF Effect
<1>8. QED
  BY <1>2, <1>3, <1>4, <1>5, <1>6, <1>7

\* What is read off the catalog stays while the choice does.
LEMMA ChoiceStays ==
    ASSUME UNCHANGED <<service, plan>>
    PROVE  /\ OtherPlan' = OtherPlan /\ (OneWay' <=> OneWay) /\ (Unreadable' <=> Unreadable)
           /\ PlanChangePromised(plan)' <=> PlanChangePromised(plan)
<1>1. OtherPlan' = OtherPlan
  BY DEF OtherPlan, FirstOf
<1>2. PlanChangePromised(plan)' <=> PlanChangePromised(plan)
  BY DEF PlanChangePromised
<1>3. PlanChangePromised(OtherPlan)' <=> PlanChangePromised(OtherPlan)
  BY <1>1 DEF PlanChangePromised
<1>4. Stranded' <=> Stranded
  BY <1>1, <1>2, <1>3 DEF Stranded
<1>5. QED
  BY <1>1, <1>2, <1>3, <1>4 DEF OneWay, Unreadable

\* A step after which nothing but the binding is at stake yet, or any more.
LEMMA StaysOnCourse ==
    ASSUME OnCourse, UNCHANGED <<offer, service, plan>>,
           at \notin Late, at' \in Early \union {"provision"} \union Kept,
           failed' = IF service.bindable THEN {} ELSE Tried(at'),
           at' \notin Unread => services' = offer.services,
           bound' <=> at' \in WithBinding /\ service.bindable,
           bindOK' => at' \notin Early /\ service.bindable,
           at' = "report" => recorded',
           at' = "probe" => ~offer.keys
    PROVE  OnCourse'
<1>1. at' \notin Late /\ at' # "end"
  BY PhasesApart DEF Late, Ending
<1>2. at' \notin Ending
  BY <1>1 DEF Late
<1>3. failed' = Verdicts'
  BY <1>1, <1>2 DEF Verdicts, Tried
<1>4. at' \notin {"back", "maintenance", "stale", "cleanup", "delete", "redelete", "end"}
  BY <1>1 DEF Late, Ending
<1>5. QED
  BY <1>3, <1>4 DEF OnCourse

\* What has failed while the instance has its plan.
LEMMA FailedSoFar ==
    ASSUME OnCourse, at \notin Ending
    PROVE  failed = IF service.bindable THEN {} ELSE Tried(at)
<1>1. at # "end"
  BY DEF Ending
<1>2. QED
  BY <1>1 DEF OnCourse, Verdicts

LEMMA GExchange ==
    ASSUME BInv, OnCourse, Complete(offer.services), Harmless',
           NEW s \in Steps, Exchange(s)
    PROVE  OnCourse'
<1>1. /\ at = s /\ s \notin Local /\ ~Untold(s)
      /\ Enter(s, Judge(s, Right(s))) /\ Effect(s)
      /\ UNCHANGED <<offer, service, plan>>
      /\ bindOK' = IF s = "bind" THEN Good(s, Right(s)) ELSE bindOK
      /\ services' = IF s = "catalog" /\ Right(s).status = 200 THEN offer.services ELSE services
  BY RightExchange
<1>2. defect = None
  BY HarmlessBefore DEF Next, Step
<1>3. Judge(s, Right(s)) = RightVerdict(s)
  BY <1>1, <1>2, VerdictIsRight
<1> DEFINE v == RightVerdict(s)
<1>4. /\ failed' = IF v = "fail" THEN failed \union {CheckOf(s)} ELSE failed
      /\ at' = GoOn(s, v)
  BY <1>1, <1>3 DEF Enter
<1>5. /\ inst' = CASE s = "provision" -> plan.id
                   [] s = "change" -> IF PlanChangePromised(plan) THEN OtherPlan.id ELSE plan.id
                   [] s = "back" -> IF PlanChangePromised(OtherPlan) THEN plan.id ELSE OtherPlan.id
                   [] s \in {"delete", "redelete"} -> None
                   [] OTHER -> inst
      /\ (bound' <=> s \in {"bind"} \union (WithBinding \ {"unbind"}) /\ service.bindable)
      /\ recorded' <=> (recorded \/ (s \in {"parameters", "probe"} /\ offer.keys))
  BY <1>1, <1>2, EffectIsRight
<1>6. /\ OtherPlan' = OtherPlan /\ (OneWay' <=> OneWay) /\ (Unreadable' <=> Unreadable)
      /\ PlanChangePromised(plan)' <=> PlanChangePromised(plan)
  BY <1>1, ChoiceStays
<1>7. bindOK' => s \notin Early /\ service.bindable
  <2>1. CASE s = "bind"
    <3>1. Judge(s, Right(s)) = IF Good(s, Right(s)) THEN "pass" ELSE "fail"
      BY <2>1 DEF Judge
    <3>2. v = IF service.bindable THEN "pass" ELSE "fail"
      BY <2>1 DEF RightVerdict
    <3>3. s \notin Early
      BY <2>1 DEF Early, Unread
    <3>4. QED
      BY <1>1, <1>3, <2>1, <3>1, <3>2, <3>3
  <2>2. CASE s # "bind"
    BY <1>1, <2>2 DEF OnCourse
  <2>3. QED
    BY <2>1, <2>2
<1>8. CASE s \in Early
  <2>1. s \in Early \ {"pick"} /\ v = "pass" /\ s # "end"
    BY <1>1, <1>8, PhasesApart DEF RightVerdict, Local, Early, Unread
  <2>2. at' \in Early /\ at \notin Late /\ at \notin Ending
    BY <1>1, <1>4, <2>1, GoOnAdvances, PhasesApart DEF Late
  <2>3. at' \notin Unread => services' = offer.services
    <3>1. CASE s = "catalog"
      <4>1. Right(s).status = 200
        BY <3>1 DEF Right, Conforming
      <4>2. QED
        BY <1>1, <3>1, <4>1
    <3>2. CASE s \in Unread \ {"catalog"}
      BY <1>4, <2>1, <3>2, AfterEarly DEF Unread, GoOn
    <3>3. CASE s \notin Unread
      BY <1>1, <3>3 DEF OnCourse, Unread
    <3>4. QED
      BY <3>1, <3>2, <3>3
  <2>4. ~bound' /\ at' \notin WithBinding
    BY <1>5, <1>8, <2>2, PhasesApart DEF Early, Unread, WithBinding
  <2>5. at' # "report" /\ at' # "probe"
    BY <2>2 DEF Early, Unread
  <2>6. failed' = IF service.bindable THEN {} ELSE Tried(at')
    <3>1. Tried(at) = {} /\ Tried(at') = {}
      BY <1>1, <1>8, <2>2 DEF Tried
    <3>2. failed = {}
      BY <2>2, <3>1, FailedSoFar
    <3>3. failed' = failed
      BY <1>4, <2>1
    <3>4. QED
      BY <3>1, <3>2, <3>3
  <2>7. ~bindOK'
    BY <1>7, <1>8
  <2>8. QED
    BY <1>1, <2>2, <2>3, <2>4, <2>5, <2>6, <2>7, StaysOnCourse
<1>9. CASE s \notin Early
  <2>1. Chosen /\ plan.id # None /\ services = offer.services /\ services' = offer.services
    <3>1. s # "end" /\ s \notin Unread /\ s # "catalog"
      BY <1>1, <1>9, PhasesApart DEF Local, Unread
    <3>2. Chosen /\ services = offer.services
      BY <1>1, <1>9, <3>1 DEF BInv, OnCourse
    <3>3. QED
      BY <1>1, <3>1, <3>2, PlansOfChosen DEF BInv
  <2>2. CASE s = "provision"
    <3>1. v = "pass" /\ at' = "await"
      BY <1>4, <2>2, GoOnAdvances, PhasesApart DEF RightVerdict
    <3>2. at \notin Late /\ at' \in Kept /\ at' \notin WithBinding /\ at' \notin Early
      BY <1>1, <2>2, <3>1, PhasesApart DEF WithBinding
    <3>3. ~bound'
      BY <1>5, <2>2 DEF WithBinding
    <3>4. failed' = IF service.bindable THEN {} ELSE Tried(at')
      <4>1. Tried(at) = {} /\ Tried(at') = {} /\ at \notin Ending
        BY <1>1, <2>2, <3>1 DEF Tried, Ending
      <4>2. failed = {}
        BY <4>1, FailedSoFar
      <4>3. failed' = failed
        BY <1>4, <3>1
      <4>4. QED
        BY <4>1, <4>2, <4>3
    <3>5. QED
      BY <1>1, <1>7, <2>1, <3>1, <3>2, <3>3, <3>4, StaysOnCourse
  <2>3. CASE s \in Kept \ {"change"}
    <3>1. /\ v = "fail" <=> s \in {"bind", "rebind", "unbind"} /\ ~service.bindable
          /\ at \notin Late /\ at \notin Ending
      BY <1>1, <2>3, PhasesApart DEF RightVerdict, Late, Kept, WithBinding
    <3>2. at' = CASE s = "parameters" -> IF offer.keys THEN "report" ELSE "probe"
                  [] s = "report" -> "change" [] OTHER -> After(s)
      <4>1. CASE s = "parameters"
        BY <1>4, <4>1 DEF GoOn, RightVerdict
      <4>2. CASE s = "report"
        BY <1>4, <4>2 DEF GoOn
      <4>3. CASE s \notin {"parameters", "report"}
        <5>1. /\ s # "auth" /\ s # "provision" /\ s # "delete" /\ s # "maintenance" /\ s # "change"
              /\ s # "parameters" /\ s # "report"
          BY <2>3, <4>3, PhasesApart DEF Kept, WithBinding
        <5>2. s = "await" \/ s = "get" \/ s = "update" => v # "fail"
          BY <3>1
        <5>3. GoOn(s, v) = After(s)
          <6> HIDE DEF v
          <6>1. QED
            BY <5>1, <5>2 DEF GoOn
        <5>4. QED
          BY <1>4, <4>3, <5>3
      <4>4. QED
        BY <4>1, <4>2, <4>3
    <3>3. at' \in Kept /\ (at' \in WithBinding <=> s \in {"bind"} \union (WithBinding \ {"unbind"}))
      BY <2>3, <3>2, AfterEarly, AfterAwait, AfterOperation DEF Kept, WithBinding
    <3>4. at' = "report" => s = "parameters" /\ offer.keys
      BY <2>3, <3>2, AfterEarly, AfterAwait, AfterOperation DEF Kept, WithBinding
    <3>5. at' = "probe" => ~offer.keys
      BY <2>3, <3>2, AfterEarly, AfterAwait, AfterOperation DEF Kept, WithBinding
    <3>6. at' = "report" => recorded'
      BY <1>5, <3>4
    <3>7. Tried(at') = IF s \in {"bind", "rebind", "unbind"} THEN Tried(s) \union {s} ELSE Tried(s)
      <4>1. CASE s \in {"await", "reprovision", "noservice", "noplan"}
        <5>1. at' \in {"reprovision", "noservice", "noplan", "bind"}
          BY <3>2, <4>1, AfterEarly, AfterAwait
        <5>2. QED
          BY <4>1, <5>1 DEF Tried
      <4>2. CASE s \in {"bind", "spec", "rebind"}
        <5>1. at' = CASE s = "bind" -> "spec" [] s = "spec" -> "rebind" [] OTHER -> "bindnoservice"
          BY <3>2, <4>2, AfterAwait
        <5>2. QED
          BY <4>2, <5>1 DEF Tried, Early, Unread, WithBinding
      <4>3. CASE s \in {"bindnoservice", "bindnoplan", "bindghost", "getbinding"}
        <5>1. at' \in {"bindnoplan", "bindghost", "getbinding", "unbind"}
          BY <3>2, <4>3, AfterAwait
        <5>2. QED
          BY <4>3, <5>1 DEF Tried, Early, Unread, WithBinding
      <4>4. CASE s = "unbind"
        <5>1. at' = "conflict"
          BY <3>2, <4>4, AfterAwait
        <5>2. QED
          BY <4>4, <5>1 DEF Tried, Early, Unread, WithBinding
      <4>5. CASE s \in {"conflict", "get", "operation", "ghost", "ghostbinding", "update",
                        "updateghost", "parameters", "report", "probe"}
        <5>1. at' \in {"get", "operation", "ghost", "ghostbinding", "update", "updateghost",
                       "parameters", "report", "probe", "change"}
          BY <3>2, <4>5, AfterAwait, AfterOperation
        <5>2. QED
          BY <4>5, <5>1 DEF Tried, Early, Unread, WithBinding
      <4>6. QED
        BY <2>3, <4>1, <4>2, <4>3, <4>4, <4>5 DEF Kept, WithBinding
    <3>8. failed' = IF service.bindable THEN {} ELSE Tried(at')
      <4>1. failed = IF service.bindable THEN {} ELSE Tried(s)
        BY <1>1, <3>1, FailedSoFar
      <4>2. s \in {"bind", "rebind", "unbind"} => CheckOf(s) = s
        BY DEF CheckOf
      <4>3. QED
        BY <1>4, <3>1, <3>7, <4>1, <4>2
    <3>9. bound' <=> at' \in WithBinding /\ service.bindable
      BY <1>5, <3>3
    <3>10. at' \notin Early
      BY <3>3, PhasesApart
    <3>11. QED
      BY <1>1, <1>7, <2>1, <3>1, <3>3, <3>5, <3>6, <3>8, <3>9, <3>10, StaysOnCourse
  <2>4. CASE s \in {"change", "back"}
    <3>1. at \notin Ending /\ at # "end" /\ "change" \in Kept
      BY <1>1, <2>4 DEF Ending, Kept
    <3>2. /\ failed = IF service.bindable THEN {} ELSE Tried(s)
          /\ OtherPlan # None
      BY <1>1, <2>4, <3>1, FailedSoFar DEF OnCourse, Untold
    <3>3. v # "fail"
      BY <2>4 DEF RightVerdict
    <3>4. at' = IF s = "change" /\ PlanChangePromised(plan) THEN "back" ELSE "maintenance"
      BY <1>4, <2>4, <3>3, AfterOperation DEF GoOn
    <3>5. /\ ~bound' /\ at' \notin WithBinding /\ at' \notin Ending /\ at' \notin Unread
          /\ at' \notin Early
      BY <1>5, <2>4, <3>4 DEF WithBinding, Ending, Unread, Early
    <3>6. failed' = Verdicts'
      <4>1. Tried(at') = Tried(s)
        BY <2>4, <3>4 DEF Tried, Early, Unread, WithBinding
      <4>2. at' # "end"
        BY <3>4
      <4>3. QED
        BY <1>1, <1>4, <3>2, <3>3, <3>5, <4>1, <4>2 DEF Verdicts, Tried
    <3>7. /\ at' = "back" => PlanChangePromised(plan) /\ inst' = OtherPlan.id
          /\ at' = "maintenance" => inst' = IF OneWay THEN OtherPlan.id ELSE plan.id
      <4>1. CASE s = "change"
        BY <1>5, <3>4, <4>1 DEF OneWay
      <4>2. CASE s = "back"
        <5>1. PlanChangePromised(plan)
          BY <1>1, <4>2 DEF OnCourse
        <5>2. QED
          BY <1>5, <3>2, <3>4, <4>2, <5>1 DEF OneWay
      <4>3. QED
        BY <2>4, <4>1, <4>2
    <3>8. at' \in {"back", "maintenance"}
      BY <3>4
    <3>9. QED
      BY <1>1, <1>6, <1>7, <2>1, <3>2, <3>5, <3>6, <3>7, <3>8 DEF OnCourse
  <2>5. CASE s = "maintenance"
    <3>1. /\ inst = (IF OneWay THEN OtherPlan.id ELSE plan.id) /\ plan.version
          /\ failed = IF service.bindable THEN {} ELSE Tried(s)
      <4>1. at \notin Ending
        BY <1>1, <2>5 DEF Ending
      <4>2. QED
        BY <1>1, <2>5, <4>1, FailedSoFar DEF OnCourse, Untold
    <3>2. at' = IF Unreadable THEN "cleanup" ELSE "stale"
      BY <1>4, <2>5, AfterOperation DEF GoOn, RightVerdict
    <3>3. failed' = failed \union IF Unreadable THEN {"maintenance-info"} ELSE {}
      BY <1>4, <2>5, <3>1 DEF RightVerdict, CheckOf
    <3>4. inst' = inst /\ ~bound'
      BY <1>5, <2>5 DEF WithBinding
    <3>5. failed' = Verdicts'
      <4>1. Tried(at') = Tried(s)
        BY <2>5, <3>2 DEF Tried, Early, Unread, WithBinding
      <4>2. Tried(at)' = Tried(at')
        BY DEF Tried
      <4>3. at' # "end" /\ (at' \in Ending <=> Unreadable)
        BY <3>2 DEF Ending
      <4>4. Verdicts' = (IF service.bindable THEN {} ELSE Tried(at'))
                          \union IF Unreadable THEN {"maintenance-info"} ELSE {}
        BY <1>1, <1>6, <4>2, <4>3 DEF Verdicts
      <4>5. QED
        BY <3>1, <3>3, <4>1, <4>4
    <3>6. at' \notin WithBinding /\ at' \in {"cleanup", "stale"} /\ at' \notin Early
      BY <3>2 DEF WithBinding, Early, Unread
    <3>7. at' = "stale" => ~Unreadable /\ plan.version
      BY <3>1, <3>2
    <3>8. QED
      BY <1>1, <1>6, <1>7, <2>1, <3>1, <3>4, <3>5, <3>6, <3>7 DEF OnCourse
  <2>6. CASE s \in {"stale", "cleanup", "delete", "redelete"}
    <3>1. v = "pass" /\ failed' = failed
      BY <1>4, <2>6 DEF RightVerdict
    <3>2. at' = CASE s = "stale" -> "cleanup" [] s = "cleanup" -> "delete"
                  [] s = "delete" -> "redelete" [] s = "redelete" -> "end"
      BY <1>4, <2>6, <3>1, AfterOperation DEF GoOn
    <3>3. failed = (IF service.bindable THEN {} ELSE Tried(s))
                      \union IF Unreadable THEN {"maintenance-info"} ELSE {}
      <4>1. CASE s = "stale"
        <5>1. s \notin Ending /\ ~Unreadable
          BY <1>1, <4>1 DEF Ending, OnCourse
        <5>2. QED
          BY <1>1, <5>1, FailedSoFar
      <4>2. CASE s # "stale"
        <5>1. s \in Ending /\ s # "end"
          BY <2>6, <4>2 DEF Ending
        <5>2. QED
          BY <1>1, <5>1 DEF OnCourse, Verdicts
      <4>3. QED
        BY <4>1, <4>2
    <3>4. at' \in Ending /\ at' \notin WithBinding /\ ~bound' /\ service' # None /\ at' \notin Early
      <4>1. service # None
        BY <2>1, OffersAssumption DEF Chosen, BInv
      <4>2. QED
        BY <1>1, <1>5, <2>6, <3>2, <4>1 DEF Ending, WithBinding, Early, Unread
    <3>5. failed' = Verdicts'
      <4>1. Tried(at') = Tried(s)
        BY <2>6, <3>2 DEF Tried, Early, Unread, WithBinding
      <4>2. Tried(at)' = Tried(at')
        BY DEF Tried
      <4>3. Verdicts' = (IF service.bindable THEN {} ELSE Tried(at'))
                          \union IF Unreadable THEN {"maintenance-info"} ELSE {}
        BY <1>1, <1>6, <3>4, <4>2 DEF Verdicts
      <4>4. QED
        BY <3>1, <3>3, <4>1, <4>3
    <3>6. /\ at' \in {"cleanup", "delete"} => inst' = IF OneWay THEN OtherPlan.id ELSE plan.id
          /\ at' \in {"redelete", "end"} => inst' = None
      BY <1>1, <1>5, <2>6, <3>2 DEF OnCourse
    <3>7. at' \in {"cleanup", "delete", "redelete", "end"}
      BY <3>4 DEF Ending
    <3>8. QED
      BY <1>1, <1>6, <1>7, <2>1, <3>4, <3>5, <3>6, <3>7 DEF OnCourse
  <2>7. QED
    BY <1>1, <1>9, <2>2, <2>3, <2>4, <2>5, <2>6, StepsAreNamed
       DEF StepNames, Late, Ending, Local
<1>10. QED
  BY <1>8, <1>9

LEMMA GSkip ==
    ASSUME BInv, OnCourse, defect = None, NEW s \in Steps, Skip(s)
    PROVE  OnCourse'
<1>1. /\ at = s /\ Untold(s)
      /\ at' = CASE s = "change" -> "maintenance" [] s = "maintenance" -> "cleanup"
                 [] OTHER -> After(s)
      /\ UNCHANGED <<offer, services, service, plan, bindOK, inst, bound, recorded, failed>>
  BY DEF Skip
<1>2. s \in {"await", "absent", "getbinding", "conflict", "change", "get", "ghost",
             "ghostbinding", "maintenance"}
  BY <1>1 DEF Untold
<1>3. s \notin Unread /\ s \notin Ending /\ services = offer.services
  BY <1>1, <1>2 DEF OnCourse, Unread, Ending
<1>4. (OneWay' <=> OneWay) /\ (Unreadable' <=> Unreadable)
  BY <1>1, ChoiceStays
<1>5. failed = IF service.bindable THEN {} ELSE Tried(s)
  BY <1>1, <1>3, FailedSoFar
<1>6. CASE s \notin {"change", "maintenance"}
  <2>1. at' = CASE s = "await" -> "reprovision" [] s = "absent" -> "errorbody"
                [] s = "getbinding" -> "unbind" [] s = "conflict" -> "get"
                [] s = "get" -> "operation" [] s = "ghost" -> "ghostbinding"
                [] s = "ghostbinding" -> "update"
    BY <1>1, <1>2, <1>6, AfterEarly, AfterAwait, AfterOperation
  <2>2. /\ at' \in Early \union Kept
        /\ at' \in WithBinding <=> s \in WithBinding
        /\ at' \in Early <=> s \in Early
        /\ at' # "report" /\ at' # "probe"
    BY <1>2, <1>6, <2>1 DEF Early, Unread, Kept, WithBinding
  <2>3. at \notin Late
    BY <1>1, <1>2, <1>6 DEF Late, Ending
  <2>4. bound' <=> at' \in WithBinding /\ service.bindable
    BY <1>1, <2>2 DEF OnCourse
  <2>5. Tried(at') = Tried(s)
    BY <1>2, <1>6, <2>1 DEF Tried, Early, Unread, WithBinding
  <2>6. bindOK' => at' \notin Early /\ service.bindable
    BY <1>1, <2>2 DEF OnCourse
  <2>7. failed' = IF service.bindable THEN {} ELSE Tried(at')
    BY <1>1, <1>5, <2>5
  <2>8. QED
    BY <1>1, <1>3, <2>2, <2>3, <2>4, <2>6, <2>7, StaysOnCourse
<1>7. CASE s \in {"change", "maintenance"}
  <2>1. at' = IF s = "change" THEN "maintenance" ELSE "cleanup"
    BY <1>1, <1>7
  <2>2. s = "maintenance" => ~Unreadable
    BY <1>1 DEF Untold, Unreadable
  <2>3. inst = IF OneWay THEN OtherPlan.id ELSE plan.id
    <3>1. CASE s = "change"
      <4>1. at \in Kept /\ OtherPlan = None
        BY <1>1, <3>1 DEF Kept, Untold
      <4>2. ~OneWay
        BY <4>1 DEF OneWay
      <4>3. inst = plan.id
        BY <4>1 DEF BInv, Seen, Overrun
      <4>4. QED
        BY <4>2, <4>3
    <3>2. CASE s = "maintenance"
      BY <1>1, <3>2 DEF OnCourse
    <3>3. QED
      BY <1>7, <3>1, <3>2
  <2>4. ~bound' /\ at' \notin WithBinding /\ at' \notin Early
    BY <1>1, <1>7, <2>1 DEF OnCourse, WithBinding, Early, Unread
  <2>5. failed' = Verdicts'
    <3>1. Tried(at') = Tried(s)
      BY <1>7, <2>1 DEF Tried, Early, Unread, WithBinding
    <3>2. Tried(at)' = Tried(at')
      BY DEF Tried
    <3>3. at' # "end" /\ ~(at' \in Ending /\ Unreadable)
      BY <1>7, <2>1, <2>2 DEF Ending
    <3>4. Verdicts' = IF service.bindable THEN {} ELSE Tried(at')
      BY <1>1, <1>4, <3>2, <3>3 DEF Verdicts
    <3>5. QED
      BY <1>1, <1>5, <3>1, <3>4
  <2>6. OtherPlan' = OtherPlan
    BY <1>1, ChoiceStays
  <2>7. bindOK' => service.bindable
    BY <1>1 DEF OnCourse
  <2>8. QED
    BY <1>1, <1>3, <1>4, <2>1, <2>3, <2>4, <2>5, <2>6, <2>7 DEF OnCourse
<1>8. QED
  BY <1>6, <1>7

LEMMA GInspect ==
    ASSUME BInv, OnCourse, defect = None, NEW s \in Steps, Inspect(s)
    PROVE  OnCourse'
<1>1. /\ at = s /\ s \in {"display", "spec"}
      /\ UNCHANGED <<offer, services, service, plan, bindOK, inst, bound, recorded>>
  BY DEF Inspect
<1>2. PICK v : Enter(s, v) /\ v # "fail"
  <2> DEFINE there == IF s = "display" THEN services # << >> ELSE bindOK
             full == IF s = "display" THEN offer.display ELSE offer.typed
             w == CASE ~there -> "quiet" [] there /\ Spoilt(s) -> "fail"
                    [] there /\ ~Spoilt(s) -> IF full THEN "pass" ELSE "skip"
  <2>1. Enter(s, w)
    BY DEF Inspect
  <2>2. ~Spoilt(s)
    BY DEF Spoilt
  <2>3. w # "fail"
    <3> HIDE DEF there, full
    <3>1. QED
      BY <2>2
  <2>4. QED
    BY <2>1, <2>3
<1>3. failed' = failed /\ at' = After(s)
  BY <1>1, <1>2 DEF Enter, GoOn
<1>4. at' = IF s = "display" THEN "unknown" ELSE "rebind"
  BY <1>1, <1>3, AfterEarly, AfterAwait
<1>5. services = offer.services /\ (bound <=> s = "spec" /\ service.bindable)
  BY <1>1 DEF OnCourse, Unread, WithBinding
<1>6. /\ at \notin Late /\ at' \in Early \union Kept /\ at' \notin {"report", "probe"}
      /\ at' \in WithBinding <=> s = "spec"
      /\ at' \in Early <=> s \in Early
  BY <1>1, <1>4 DEF Late, Ending, Early, Unread, Kept, WithBinding
<1>7. bound' <=> at' \in WithBinding /\ service.bindable
  BY <1>1, <1>5, <1>6
<1>8. failed' = IF service.bindable THEN {} ELSE Tried(at')
  <2>1. Tried(at') = Tried(s)
    BY <1>1, <1>4 DEF Tried, Early, Unread, WithBinding
  <2>2. QED
    BY <1>1, <1>3, <1>6, <2>1, FailedSoFar DEF Late
<1>9. bindOK' => at' \notin Early /\ service.bindable
  BY <1>1, <1>6 DEF OnCourse
<1>10. QED
  BY <1>1, <1>5, <1>6, <1>7, <1>8, <1>9, StaysOnCourse

LEMMA GPick ==
    ASSUME BInv, OnCourse, Complete(offer.services), Pick
    PROVE  OnCourse'
<1>1. at = "pick" /\ UNCHANGED <<offer, wanted, services, bindOK, inst, bound, recorded>>
  BY DEF Pick
<1>2. /\ at \in Early /\ at \notin Unread /\ at \notin Ending /\ at \notin WithBinding
      /\ service = None /\ inst = None
  BY <1>1, PhasesApart DEF BInv, Unread, Ending, WithBinding
<1>3. failed = {} /\ services = offer.services /\ ~bound /\ ~bindOK
  <2>1. Tried(at) = {}
    BY <1>2 DEF Tried
  <2>2. QED
    BY <1>1, <1>2, <2>1, FailedSoFar DEF OnCourse
<1> DEFINE s == PickService
           id == IF wanted.service = None THEN None ELSE wanted.plan
           p == IF s = None THEN None ELSE ResolvePlan(s, id)
<1>4. CASE p # None
  <2>1. Enter("pick", "pass")
    BY <1>4 DEF Pick
  <2>2. at' = "provision" /\ failed' = failed
    BY <2>1, AfterEarly DEF Enter, GoOn
  <2>3. failed' = Verdicts'
    BY <1>3, <2>2 DEF Verdicts, Ending, Tried
  <2>4. at' \notin WithBinding
    BY <2>2 DEF WithBinding
  <2>5. QED
    BY <1>1, <1>3, <2>2, <2>3, <2>4 DEF OnCourse
<1>5. CASE p = None
  <2>1. /\ failed' = IF wanted.service = None THEN failed ELSE failed \union {"pick"}
        /\ at' = "end" /\ UNCHANGED <<service, plan>>
    BY <1>5 DEF Pick
  <2>2. wanted.service # None
    <3>1. SUFFICES ASSUME wanted.service = None  PROVE FALSE
      OBVIOUS
    <3>2. services \in Seq(Range(services)) /\ Complete(services)
      BY <1>3, OffersAssumption DEF BInv
    <3>3. s \in Range(services)
      BY <3>1, <3>2, PickedServiceIsThere
    <3>4. /\ s # None /\ s.plans \in Seq(Range(s.plans)) /\ s.plans # << >>
          /\ \A q \in Range(s.plans) : q # None
      <4>1. s # None /\ s.plans \in Seq(Range(s.plans))
        BY <1>3, <3>3, OffersAssumption DEF BInv
      <4>2. s.plans # << >>
        BY <3>2, <3>3 DEF Complete
      <4>3. \A i \in DOMAIN s.plans : s.plans[i] # None
        BY <1>3, <3>3, OffersAssumption DEF BInv
      <4>4. QED
        BY <4>1, <4>2, <4>3 DEF Range
    <3>5. ResolvePlan(s, id) \in Range(s.plans)
      BY <3>1, <3>4, ResolvedPlanIsThere
    <3>6. QED
      BY <1>5, <3>4, <3>5
  <2>3. failed' = Verdicts'
    BY <1>2, <1>3, <2>1, <2>2 DEF Verdicts
  <2>4. at' \notin WithBinding
    BY <2>1 DEF WithBinding
  <2>5. QED
    BY <1>1, <1>2, <1>3, <2>1, <2>3, <2>4 DEF OnCourse
<1>6. QED
  BY <1>4, <1>5

LEMMA GPoll ==
    ASSUME BInv, OnCourse, Harmless', Poll
    PROVE  OnCourse'
<1>1. /\ at = "await"
      /\ UNCHANGED <<offer, services, service, plan, bindOK, inst, bound, recorded>>
  BY DEF Poll
<1>2. ~Enter("await", "fail")
  BY DEF Enter, CheckOf, Harmless
<1>3. Enter("await", "pass") \/ UNCHANGED <<at, failed>>
  BY <1>2 DEF Poll
<1>4. failed' = failed /\ at' \in {"await", "reprovision"}
  BY <1>1, <1>3, AfterEarly DEF Enter, GoOn
<1>5. /\ at \notin Late /\ at \notin Unread /\ at \notin WithBinding
      /\ at' \in Kept /\ at' \notin WithBinding /\ at' \notin {"report", "probe"}
  BY <1>1, <1>4 DEF Late, Ending, Unread, WithBinding, Kept
<1>6. services = offer.services /\ ~bound
  BY <1>5 DEF OnCourse
<1>7. failed' = IF service.bindable THEN {} ELSE Tried(at')
  <2>1. Tried(at') = Tried(at)
    BY <1>1, <1>4 DEF Tried
  <2>2. QED
    BY <1>4, <1>5, <2>1, FailedSoFar DEF Late
<1>8. bindOK' => at' \notin Early /\ service.bindable
  BY <1>1, <1>5, PhasesApart DEF OnCourse
<1>9. QED
  BY <1>1, <1>4, <1>5, <1>6, <1>7, <1>8, StaysOnCourse

LEMMA GNext == BInv /\ GInv /\ [Next]_vars => GInv'
<1> SUFFICES ASSUME BInv, GInv, [Next]_vars, Harmless', Complete(offer.services)'
             PROVE  OnCourse'
  BY DEF GInv
<1>1. CASE UNCHANGED vars
  <2>1. OnCourse
    BY <1>1 DEF vars, GInv, Harmless, Complete
  <2>2. OtherPlan' = OtherPlan /\ (OneWay' <=> OneWay) /\ (Unreadable' <=> Unreadable)
        /\ (PlanChangePromised(plan)' <=> PlanChangePromised(plan))
    BY <1>1, ChoiceStays DEF vars
  <2>3. QED
    BY <1>1, <2>1, <2>2 DEF vars, OnCourse, Verdicts, Tried
<1>2. CASE Next
  <2>1. Harmless /\ defect = None /\ UNCHANGED offer
    BY <1>2, HarmlessBefore
  <2>2. Complete(offer.services)
    BY <2>1 DEF Complete
  <2>3. OnCourse
    BY <2>1, <2>2 DEF GInv
  <2>4. CASE OperatorDone
    <3>1. UNCHANGED <<offer, at, services, service, plan, bindOK, inst, bound, recorded, failed>>
      BY <2>4 DEF OperatorDone
    <3>2. OtherPlan' = OtherPlan /\ (OneWay' <=> OneWay) /\ (Unreadable' <=> Unreadable)
          /\ (PlanChangePromised(plan)' <=> PlanChangePromised(plan))
      BY <3>1, ChoiceStays
    <3>3. QED
      BY <2>3, <3>1, <3>2 DEF OnCourse, Verdicts, Tried
  <2>5. ASSUME NEW s \in Steps, Skip(s)  PROVE OnCourse'
    BY <2>1, <2>3, <2>5, GSkip
  <2>6. ASSUME NEW s \in Steps, Exchange(s)  PROVE OnCourse'
    BY <2>2, <2>3, <2>6, GExchange
  <2>7. ASSUME NEW s \in Steps, Inspect(s)  PROVE OnCourse'
    BY <2>1, <2>3, <2>7, GInspect
  <2>8. CASE Pick
    BY <2>2, <2>3, <2>8, GPick
  <2>9. CASE Poll
    BY <2>3, <2>9, GPoll
  <2>10. QED
    BY <1>2, <2>4, <2>5, <2>6, <2>7, <2>8, <2>9 DEF Next, Step
<1>3. QED
  BY <1>1, <1>2

\* Whatever complete catalog a conforming broker offers, wherever its promises
\* send the instance and however long its operator takes: if the run reaches
\* its end with every answer there, it leaves neither the instance nor the
\* binding, and it is green but for the plan that is asked for and not there and
\* for three things the code does to a conforming broker: it binds an offering
\* that is not bindable, it asks for the version of an instance that cannot be
\* fetched, and it reads the version off the wrong plan.
THEOREM ConformingIsGreen == Spec => []ConformingPasses
<1>1. Init => GInv
  <2>1. SUFFICES ASSUME Init  PROVE OnCourse
    BY DEF GInv
  <2>2. at = "auth" /\ failed = {} /\ bound = FALSE /\ bindOK = FALSE /\ service = None
    BY <2>1 DEF Init
  <2>3. at \in Unread /\ at \notin Ending /\ at \notin WithBinding
    BY <2>2 DEF Unread, Ending, WithBinding
  <2>4. failed = Verdicts
    BY <2>2, <2>3 DEF Verdicts, Tried, Early
  <2>5. QED
    BY <2>2, <2>3, <2>4 DEF OnCourse
<1>2. BInv /\ GInv => ConformingPasses
  <2>1. SUFFICES ASSUME GInv, at = "end", Harmless, Complete(offer.services)
                 PROVE  /\ failed = IF service = None THEN {"pick"}
                                    ELSE (IF service.bindable THEN {}
                                             ELSE {"bind", "rebind", "unbind"})
                                         \union (IF Unreadable THEN {"maintenance-info"} ELSE {})
                        /\ inst = None /\ ~bound
    BY DEF ConformingPasses
  <2>2. OnCourse
    BY <2>1 DEF GInv
  <2>3. "end" \in Ending /\ "end" \notin WithBinding /\ Tried("end") = {"bind", "rebind", "unbind"}
    BY DEF Ending, WithBinding, Tried, Early, Unread
  <2>4. QED
    BY <2>1, <2>2, <2>3 DEF OnCourse, Verdicts
<1>3. QED
  BY <1>1, <1>2, BAlways, GNext, PTL DEF Spec
=============================================================================
