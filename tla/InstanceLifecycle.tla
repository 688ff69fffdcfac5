-------------------------- MODULE InstanceLifecycle --------------------------
(***************************************************************************)
(* The life of a service instance: the PUT, PATCH and DELETE handlers of   *)
(* internal/handlers, the engine of internal/definition they drive, the    *)
(* instance records of the state store and the Kubernetes objects the      *)
(* operator acts on.                                                       *)
(*                                                                         *)
(* The broker holds no lock across a request: a handler is a chain of      *)
(* calls to the API server and any other handler, a crash, or a client     *)
(* that hangs up may come between two of them.  Every such call is one     *)
(* step here; what happens between two calls is in-process and is part of  *)
(* the step that precedes it.                                              *)
(***************************************************************************)
EXTENDS Naturals, Sequences

CONSTANTS
    Instances,      \* instance ids
    Requests,       \* handler goroutines; one that has answered is reused
    Services,       \* offering ids in the catalog
    Plans,          \* plan ids in the catalog
    Namespaces, Default,        \* target namespaces; Default is "default"
    DocNames, Main,             \* documents of a template; Main is the CR itself
    Keys, Values,               \* user parameters
    ServiceOf,      \* [Plans -> Services]
    Docs,           \* [Contents -> Seq(DocNames)]: documents rendered for a plan
                    \*   and parameters, in order
    OwnNamespace,   \* [DocNames -> Namespaces or NoNamespace]: the one a document names
    Retains,        \* plans with retainOnDeprovision
    Leavable,       \* plans for which PlanChangeAllowed holds
    Allowed,        \* [Plans -> SUBSET Keys]: allowedParameters
    Adverse,        \* what may go wrong in this instance, see AdverseKinds
    Unset, NoRecord, NoObject, NoService, NoPlan, NoNamespace

\* A call named here may fail ("getInstance" .. "label"), a write may be
\* carried out and still be reported as failed ("lostReply"), the platform may
\* send a second operation for an instance before the first is answered
\* ("overlap") or a DELETE that names another service than the instance's
\* ("wrongService"), the broker may crash and the client may hang up.
AdverseKinds == {"getInstance", "listBindings", "namespace", "apply", "put",
                 "forget", "delete", "label", "lostReply", "overlap",
                 "wrongService", "crash", "hangup"}

ObjectKeys == Instances \X Namespaces \X DocNames

ParamSets == [Keys -> Values \union {Unset}]

Contents == [plan : Plans, params : ParamSets]

Records == [plan : Plans, params : ParamSets, ns : Namespaces, refs : Seq(ObjectKeys)]

ASSUME CatalogAssumption ==
    /\ ServiceOf \in [Plans -> Services]
    /\ Docs \in [Contents -> Seq(DocNames)]
    /\ \A c \in Contents : Docs[c] # <<>>
    /\ OwnNamespace \in [DocNames -> Namespaces \union {NoNamespace}]
    /\ Retains \subseteq Plans
    /\ Leavable \subseteq Plans
    /\ Allowed \in [Plans -> SUBSET Keys]

ASSUME EnvironmentAssumption ==
    /\ Instances # {}
    /\ Default \in Namespaces
    /\ Main \in DocNames
    /\ Adverse \subseteq AdverseKinds

ASSUME DistinctnessAssumption ==
    /\ Unset \notin Values
    /\ NoRecord \notin Records
    /\ NoObject \notin Contents
    /\ NoService \notin Services
    /\ NoPlan \notin Plans
    /\ NoNamespace \notin Namespaces

VARIABLES
    records,    \* [Instances -> record in the state store or NoRecord]
    objects,    \* [ObjectKeys -> content of the live object or NoObject]
    labelled,   \* live objects that carry osb.io/retained-instance
    bound,      \* instances with a ready binding in the state store
    pc,         \* [Requests -> the call the handler makes next]
    req,        \* [Requests -> what the request says, defaults filled in]
    loc,        \* [Requests -> the handler's local state; its answer, once it is idle]
    hung        \* requests whose client is gone: their context is cancelled

store   == <<records, bound>>
cluster == <<objects, labelled>>
vars    == <<records, objects, labelled, bound, pc, req, loc, hung>>

-----------------------------------------------------------------------------
(* What the definitions decide, without a call.                            *)

NoParams == [k \in Keys |-> Unset]

\* Mutant of Overlay: a PATCH replaces the parameters.
ReplaceAll(base, patch) == patch

\* Patched keys replace stored ones, keys not named stay.
Overlay(base, patch) ==
    [k \in Keys |-> IF patch[k] = Unset THEN base[k] ELSE patch[k]]

ParamsAllowed(plan, params) ==
    \A k \in Keys : params[k] # Unset => k \in Allowed[plan]

PlanKnown(service, plan) == plan \in Plans /\ ServiceOf[plan] = service

\* A document that names no namespace goes to the instance's.
KeyOf(i, ns, doc) ==
    <<i, IF OwnNamespace[doc] = NoNamespace THEN ns ELSE OwnNamespace[doc], doc>>

\* What the template renders for a content.
ManifestKeys(i, ns, content) ==
    [n \in DOMAIN Docs[content] |-> KeyOf(i, ns, Docs[content][n])]

\* Mutant of SafeName: the fallback forgets the namespace.
UnqualifiedName(i, ns) == <<i, Main>>

\* The one object a deprovision without a record looks for.
SafeName(i, ns) == <<i, ns, Main>>

RefsOf(rec) == IF rec = NoRecord THEN {} ELSE {rec.refs[n] : n \in DOMAIN rec.refs}

\* Mutant of PlanRetains: the whole offering has to retain.
OfferingRetains(service, rec) == rec # NoRecord /\ \A p \in Plans : p \in Retains

PlanRetains(service, rec) ==
    rec # NoRecord /\ PlanKnown(service, rec.plan) /\ rec.plan \in Retains

-----------------------------------------------------------------------------
(* Requests.                                                               *)

Calls == {"idle", "service", "lookup", "namespace", "applyGet", "applyPut", "undo",
          "recGet", "recPut", "bindings", "nsRead", "engineRead", "compare",
          "label", "delete", "forget"}

Codes == {"none", "ok", "accepted", "gone", "notFound", "conflict", "invalid",
          "error", "lost"}

\* opt is the one flag a request carries: accepts_incomplete of a PUT, and of a
\* PATCH whether its maintenance_info (if any) is the target plan's.
Inputs == [plan    : Plans \union {NoPlan},
           params  : ParamSets,
           ns      : Namespaces,
           service : Services \union {NoService},
           op      : {"none", "provision", "update", "deprovision"},
           inst    : Instances,
           opt     : BOOLEAN]

Input(op, i, s, p, params, ns, opt) ==
    [plan |-> p, params |-> params, ns |-> ns, service |-> s, op |-> op,
     inst |-> i, opt |-> opt]

NoInput == Input("none", CHOOSE i \in Instances : TRUE, NoService, NoPlan, NoParams,
                 Default, FALSE)

Locals == [known   : Records \union {NoRecord},    \* the engine's copy of the record
           merged  : ParamSets,                    \* the parameters to render
           todo    : Seq(ObjectKeys),              \* documents still to be handled
           applied : Seq(ObjectKeys),
           found   : BOOLEAN,                      \* what the Get before a Put saw
           code    : Codes]                        \* the answer, as far as it is known

NoLocals == [known |-> NoRecord, merged |-> NoParams, todo |-> <<>>,
             applied |-> <<>>, found |-> FALSE, code |-> "none"]

InFlight(r) == pc[r] # "idle"

Quiet(i) == \A r \in Requests : InFlight(r) => req[r].inst # i

\* Platforms queue operations per instance; the broker does not enforce it.
MaySend(r, i) == ~InFlight(r) /\ ("overlap" \in Adverse \/ Quiet(i))

Succeeds(r) == r \notin hung

Fails(r, call) == r \in hung \/ call \in Adverse

\* The handler goes on to its next call; input is what it knows of the request.
Continue(r, call, input, l) ==
    /\ pc' = [pc EXCEPT ![r] = call]
    /\ req' = [req EXCEPT ![r] = input]
    /\ loc' = [loc EXCEPT ![r] = l]
    /\ UNCHANGED hung

Goto(r, call, l) == Continue(r, call, req[r], l)

Answer(r, code) ==
    /\ pc' = [pc EXCEPT ![r] = "idle"]
    /\ req' = [req EXCEPT ![r] = NoInput]
    /\ loc' = [loc EXCEPT ![r] =
                  [NoLocals EXCEPT !.code = IF r \in hung THEN "lost" ELSE code]]
    /\ hung' = hung \ {r}

\* A request in full arrives; call is the first call its handler makes.
Receive(r, input, call) ==
    /\ MaySend(r, input.inst)
    /\ Continue(r, call, input, [NoLocals EXCEPT !.code = "ok", !.merged = input.params])
    /\ UNCHANGED <<store, cluster>>

Init ==
    /\ records = [i \in Instances |-> NoRecord]
    /\ objects = [k \in ObjectKeys |-> NoObject]
    /\ labelled = {}
    /\ bound = {}
    /\ pc = [r \in Requests |-> "idle"]
    /\ req = [r \in Requests |-> NoInput]
    /\ loc = [r \in Requests |-> NoLocals]
    /\ hung = {}

-----------------------------------------------------------------------------
(* Apply: ApplyManifestRefs handles the rendered documents in order, each  *)
(* with a Get and a Create or Update.  RetryOnConflict repeats the pair    *)
(* until the write meets the version it read, so a write replaces whatever *)
(* is there; only existence matters between the two calls.                 *)

Content(r) == [plan |-> req[r].plan, params |-> loc[r].merged]

\* Mutants of Abandon: an update is rolled back too; a provision only if a
\* document failed, not if the record did.
RollBackAlways(r, code) ==
    IF loc[r].applied # <<>>
    THEN Goto(r, "undo", [loc[r] EXCEPT !.todo = loc[r].applied, !.code = code])
    ELSE Answer(r, code)

RollBackApplyOnly(r, code) ==
    IF req[r].op = "provision" /\ loc[r].applied # <<>> /\ loc[r].todo # <<>>
    THEN Goto(r, "undo", [loc[r] EXCEPT !.todo = loc[r].applied, !.code = code])
    ELSE Answer(r, code)

\* A provision that fails after some documents stand takes them down again.
Abandon(r, code) ==
    IF req[r].op = "provision" /\ loc[r].applied # <<>>
    THEN Goto(r, "undo", [loc[r] EXCEPT !.todo = loc[r].applied, !.code = code])
    ELSE Answer(r, code)

\* What follows the last document: an update that found no record keeps none.
AfterApply(r, l) ==
    IF req[r].op = "update" /\ l.known = NoRecord
    THEN Answer(r, "ok")
    ELSE Goto(r, "recGet", l)

NextDocument(r) ==
    LET l == [loc[r] EXCEPT !.applied = Append(@, Head(loc[r].todo)), !.todo = Tail(@)]
    IN  IF l.todo = <<>> THEN AfterApply(r, l) ELSE Goto(r, "applyGet", l)

ApplyGet(r) ==
    /\ pc[r] = "applyGet"
    /\ \/ /\ Succeeds(r)
          /\ Goto(r, "applyPut", [loc[r] EXCEPT !.found = objects[Head(loc[r].todo)] # NoObject])
       \/ /\ Fails(r, "apply")
          /\ Abandon(r, "error")
    /\ UNCHANGED <<store, cluster>>

Put(r, k) ==
    /\ objects' = [objects EXCEPT ![k] = Content(r)]
    /\ labelled' = labelled \ {k}

ApplyPut(r) ==
    LET k == Head(loc[r].todo)
        there == objects[k] # NoObject
    IN  /\ pc[r] = "applyPut"
        /\ \/ /\ Succeeds(r) /\ loc[r].found = there      \* Create or Update
              /\ Put(r, k)
              /\ NextDocument(r)
           \/ /\ Succeeds(r) /\ ~loc[r].found /\ there    \* AlreadyExists is tolerated
              /\ NextDocument(r)
              /\ UNCHANGED cluster
           \/ /\ Succeeds(r) /\ loc[r].found /\ ~there    \* Update answers NotFound
              /\ Abandon(r, "notFound")
              /\ UNCHANGED cluster
           \/ /\ Fails(r, "apply")
              /\ Abandon(r, "error")
              /\ UNCHANGED cluster
           \/ /\ "lostReply" \in Adverse /\ Succeeds(r) /\ loc[r].found = there
              /\ Put(r, k)
              /\ Abandon(r, "error")
        /\ UNCHANGED store

\* DeleteManifestRefs: one reference, a missing object is no error.  The rest
\* is left alone once a call fails.
Remove(r, k) ==
    /\ objects' = [objects EXCEPT ![k] = NoObject]
    /\ labelled' = labelled \ {k}

\* rollbackPartialProvision; its calls run under the request's own context.
Undo(r) ==
    LET k == Head(loc[r].todo)
        rest == Tail(loc[r].todo)
    IN  /\ pc[r] = "undo"
        /\ \/ /\ Succeeds(r)
              /\ Remove(r, k)
              /\ IF rest = <<>> THEN Answer(r, loc[r].code)
                 ELSE Goto(r, "undo", [loc[r] EXCEPT !.todo = rest])
           \/ /\ Fails(r, "delete")
              /\ Answer(r, loc[r].code)
              /\ UNCHANGED cluster
        /\ UNCHANGED store

-----------------------------------------------------------------------------
(* PutInstance of the state store, behind the engine's registry.           *)

\* Mutant of NewRecord: the namespace is not the one the objects went to.
NewRecordInDefault(r) ==
    [plan |-> req[r].plan, params |-> loc[r].merged, ns |-> Default,
     refs |-> loc[r].applied]

NewRecord(r) ==
    [plan |-> req[r].plan, params |-> loc[r].merged, ns |-> req[r].ns,
     refs |-> loc[r].applied]

\* Mutant of UpdatedRecord: the merged parameters are not recorded.
UpdatedPlanOnly(r) ==
    [loc[r].known EXCEPT !.plan = req[r].plan,
                         !.refs = IF loc[r].applied # <<>> THEN loc[r].applied ELSE @]

\* An update writes the engine's copy back; the references change only when
\* something was applied.
UpdatedRecord(r) ==
    [loc[r].known EXCEPT !.plan = req[r].plan, !.params = loc[r].merged,
                         !.refs = IF loc[r].applied # <<>> THEN loc[r].applied ELSE @]

RecordOf(r) == IF req[r].op = "update" THEN UpdatedRecord(r) ELSE NewRecord(r)

RecGet(r) ==
    /\ pc[r] = "recGet"
    /\ \/ /\ Succeeds(r)
          /\ Goto(r, "recPut", [loc[r] EXCEPT !.found = records[req[r].inst] # NoRecord])
       \/ /\ Fails(r, "put")
          /\ Abandon(r, "error")
    /\ UNCHANGED <<store, cluster>>

RecPut(r) ==
    LET i == req[r].inst
        there == records[i] # NoRecord
        write == records' = [records EXCEPT ![i] = RecordOf(r)]
    IN  /\ pc[r] = "recPut"
        /\ \/ /\ Succeeds(r) /\ loc[r].found = there
              /\ write
              /\ Answer(r, IF req[r].op = "provision" THEN "accepted" ELSE "ok")
           \/ /\ Succeeds(r) /\ loc[r].found # there       \* AlreadyExists, NotFound
              /\ Abandon(r, IF there THEN "conflict" ELSE "notFound")
              /\ UNCHANGED records
           \/ /\ Fails(r, "put")
              /\ Abandon(r, "error")
              /\ UNCHANGED records
           \/ /\ "lostReply" \in Adverse /\ Succeeds(r) /\ loc[r].found = there
              /\ write
              /\ Abandon(r, "error")
        /\ UNCHANGED <<bound, cluster>>

-----------------------------------------------------------------------------
(* PUT /v2/service_instances/:instance_id                                  *)

\* An unknown service or plan and a stale maintenance_info are refused at once.
ReceiveProvision(r) ==
    \E i \in Instances, s \in Services, p \in Plans, params \in ParamSets,
       ns \in Namespaces, async \in BOOLEAN :
        \/ /\ PlanKnown(s, p)
           /\ Receive(r, Input("provision", i, s, p, params, ns, async), "lookup")
        \/ /\ MaySend(r, i)
           /\ Answer(r, "invalid")
           /\ UNCHANGED <<store, cluster>>

\* StoredInstance: a read that fails counts as an instance nobody knows.
LookupProvision(r) ==
    LET rec == records[req[r].inst]
    IN  /\ pc[r] = "lookup" /\ req[r].op = "provision"
        /\ \/ /\ Succeeds(r) /\ rec # NoRecord
              /\ Answer(r, IF rec.plan = req[r].plan /\ rec.params = req[r].params
                           THEN "ok" ELSE "conflict")
           \/ /\ (Succeeds(r) /\ rec = NoRecord) \/ Fails(r, "getInstance")
              /\ IF req[r].opt /\ ParamsAllowed(req[r].plan, req[r].params)
                 THEN Goto(r, "namespace", loc[r])
                 ELSE Answer(r, "invalid")
        /\ UNCHANGED <<store, cluster>>

\* EnsureNamespace, then decodeManifests: the documents to apply.
PrepareNamespace(r) ==
    /\ pc[r] = "namespace"
    /\ \/ /\ Succeeds(r)
          /\ Goto(r, "applyGet",
                  [loc[r] EXCEPT !.todo = ManifestKeys(req[r].inst, req[r].ns, Content(r))])
       \/ /\ Fails(r, "namespace")
          /\ Answer(r, "error")
    /\ UNCHANGED <<store, cluster>>

-----------------------------------------------------------------------------
(* PATCH /v2/service_instances/:instance_id                                *)

ReceiveUpdate(r) ==
    \E i \in Instances, s \in Services \union {NoService}, p \in Plans \union {NoPlan},
       params \in ParamSets, current \in BOOLEAN :
        Receive(r, Input("update", i, s, p, params, Default, current), "lookup")

\* Mutant of PlanChangeAllowed: the target plan is asked.
TargetAsked(service, source, target) ==
    target = source \/ (PlanKnown(service, target) /\ target \in Leavable)

\* The plan the record names is asked whether it may be left, not the target.
PlanChangeAllowed(service, source, target) ==
    target = source \/ (PlanKnown(service, source) /\ source \in Leavable)

\* Service and plan default to the record's.  Everything after the
\* question of leaving is about the target plan.
LookupUpdate(r) ==
    LET rec    == records[req[r].inst]
        source == rec.plan
        svc    == IF req[r].service = NoService THEN ServiceOf[source] ELSE req[r].service
        target == IF req[r].plan = NoPlan THEN source ELSE req[r].plan
    IN  /\ pc[r] = "lookup" /\ req[r].op = "update"
        /\ \/ /\ Succeeds(r) /\ rec # NoRecord
              /\ IF /\ PlanChangeAllowed(svc, source, target)
                    /\ req[r].opt
                    /\ PlanKnown(svc, target)
                    /\ ParamsAllowed(target, req[r].params)
                 THEN Continue(r, "engineRead",
                               [req[r] EXCEPT !.service = svc, !.plan = target, !.ns = rec.ns],
                               loc[r])
                 ELSE Answer(r, "invalid")
           \/ /\ (Succeeds(r) /\ rec = NoRecord) \/ Fails(r, "getInstance")
              /\ Answer(r, "notFound")
        /\ UNCHANGED <<store, cluster>>

\* Mutant of EffectiveAllowed: only what the PATCH sends is validated.
PatchAllowed(r, merged) == ParamsAllowed(req[r].plan, req[r].params)

\* The merged set is validated, not only what is new.
EffectiveAllowed(r, merged) == ParamsAllowed(req[r].plan, merged)

\* updateDefinition reads the record again; a failed read means "no record",
\* and the request's own parameters are all there is.
EngineReadUpdate(r) ==
    LET i == req[r].inst
        docs(merged) == ManifestKeys(i, req[r].ns, [plan |-> req[r].plan, params |-> merged])
        next(rec, merged) ==
            IF EffectiveAllowed(r, merged)
            THEN Goto(r, "compare", [loc[r] EXCEPT !.known = rec, !.merged = merged,
                                                   !.todo = docs(merged)])
            ELSE Answer(r, "invalid")
    IN  /\ pc[r] = "engineRead" /\ req[r].op = "update"
        /\ \/ /\ Succeeds(r) /\ records[i] # NoRecord
              /\ next(records[i], Overlay(records[i].params, req[r].params))
           \/ /\ (Succeeds(r) /\ records[i] = NoRecord) \/ Fails(r, "getInstance")
              /\ next(NoRecord, req[r].params)
        /\ UNCHANGED <<store, cluster>>

\* ManifestsUpToDate: nothing is applied when every live object already has the
\* rendered content and labels; a read that fails counts as a difference.
Compare(r) ==
    LET k    == Head(loc[r].todo)
        rest == Tail(loc[r].todo)
        same == objects[k] = Content(r) /\ k \notin labelled
        all  == ManifestKeys(req[r].inst, req[r].ns, Content(r))
    IN  /\ pc[r] = "compare"
        /\ \/ /\ Succeeds(r) /\ same
              /\ IF rest = <<>> THEN AfterApply(r, [loc[r] EXCEPT !.todo = <<>>])
                 ELSE Goto(r, "compare", [loc[r] EXCEPT !.todo = rest])
           \/ /\ (Succeeds(r) /\ ~same) \/ Fails(r, "apply")
              /\ Goto(r, "applyGet", [loc[r] EXCEPT !.todo = all])
        /\ UNCHANGED <<store, cluster>>

-----------------------------------------------------------------------------
(* DELETE /v2/service_instances/:instance_id                               *)

\* The service the instance has, if there is one, or none.
RightService(i, s) == records[i] # NoRecord => s \in {NoService, ServiceOf[records[i].plan]}

\* Without service_id a first read of the record supplies it; one that is given
\* is not compared with the record.
ReceiveDeprovision(r) ==
    \E i \in Instances, s \in Services \union {NoService} :
        /\ "wrongService" \in Adverse \/ RightService(i, s)
        /\ Receive(r, Input("deprovision", i, s, NoPlan, NoParams, Default, FALSE),
                   IF s = NoService THEN "service" ELSE "lookup")

FindService(r) ==
    LET rec == records[req[r].inst]
    IN  /\ pc[r] = "service"
        /\ \/ /\ Succeeds(r) /\ rec # NoRecord
              /\ Continue(r, "lookup", [req[r] EXCEPT !.service = ServiceOf[rec.plan]], loc[r])
           \/ /\ (Succeeds(r) /\ rec = NoRecord) \/ Fails(r, "getInstance")
              /\ Goto(r, "lookup", loc[r])
        /\ UNCHANGED <<store, cluster>>

LookupDeprovision(r) ==
    LET rec == records[req[r].inst]
    IN  /\ pc[r] = "lookup" /\ req[r].op = "deprovision"
        /\ \/ /\ Succeeds(r) /\ rec # NoRecord
              /\ IF req[r].service = NoService THEN Answer(r, "invalid")
                 ELSE Goto(r, "bindings", loc[r])
           \/ /\ (Succeeds(r) /\ rec = NoRecord) \/ Fails(r, "getInstance")
              /\ Answer(r, "gone")
        /\ UNCHANGED <<store, cluster>>

\* Mutants of CheckBindings: bindings are ignored, or waited for.
IgnoreBindings(r) ==
    /\ pc[r] = "bindings"
    /\ Goto(r, "nsRead", loc[r])
    /\ UNCHANGED <<store, cluster>>

AwaitUnbind(r) ==
    /\ pc[r] = "bindings"
    /\ req[r].inst \notin bound
    /\ Goto(r, "nsRead", loc[r])
    /\ UNCHANGED <<store, cluster>>

\* BindingsOfInstance: a list that fails is taken as a list without bindings.
CheckBindings(r) ==
    /\ pc[r] = "bindings"
    /\ \/ /\ Succeeds(r) /\ req[r].inst \in bound
          /\ Answer(r, "conflict")
       \/ /\ (Succeeds(r) /\ req[r].inst \notin bound) \/ Fails(r, "listBindings")
          /\ Goto(r, "nsRead", loc[r])
    /\ UNCHANGED <<store, cluster>>

\* instanceNamespace reads the record once more and falls back to "default".
FindNamespace(r) ==
    LET rec == records[req[r].inst]
    IN  /\ pc[r] = "nsRead"
        /\ \/ /\ Succeeds(r) /\ rec # NoRecord
              /\ Continue(r, "engineRead", [req[r] EXCEPT !.ns = rec.ns], loc[r])
           \/ /\ (Succeeds(r) /\ rec = NoRecord) \/ Fails(r, "getInstance")
              /\ Continue(r, "engineRead", [req[r] EXCEPT !.ns = Default], loc[r])
        /\ UNCHANGED <<store, cluster>>

\* Mutant of ToTearDown: only the CR is looked for.
CROnly(i, ns, rec) == <<SafeName(i, ns)>>

\* AppliedRefs, or the one CR if nothing is recorded.
ToTearDown(i, ns, rec) == IF rec = NoRecord THEN <<SafeName(i, ns)>> ELSE rec.refs

\* DeprovisionInstance: the engine's own read decides whether the plan keeps
\* its resources, and which objects there are to delete.
EngineReadDeprovision(r) ==
    LET next(rec) ==
            Goto(r, IF PlanRetains(req[r].service, rec) THEN "label" ELSE "delete",
                 [loc[r] EXCEPT !.known = rec,
                     !.todo = ToTearDown(req[r].inst, req[r].ns, rec)])
    IN  /\ pc[r] = "engineRead" /\ req[r].op = "deprovision"
        /\ \/ Succeeds(r) /\ next(records[req[r].inst])
           \/ Fails(r, "getInstance") /\ next(NoRecord)
        /\ UNCHANGED <<store, cluster>>

\* The objects of a retaining plan stay and are labelled.  A label that cannot
\* be set is remembered and reported once the record is gone.
Label(r) ==
    LET k == Head(loc[r].todo)
        rest == Tail(loc[r].todo)
        next(code) == Goto(r, IF rest = <<>> THEN "forget" ELSE "label",
                           [loc[r] EXCEPT !.todo = rest, !.code = code])
    IN  /\ pc[r] = "label"
        /\ \/ /\ Succeeds(r) /\ objects[k] # NoObject
              /\ labelled' = labelled \union {k}
              /\ next(loc[r].code)
           \/ /\ (Succeeds(r) /\ objects[k] = NoObject) \/ Fails(r, "label")
              /\ UNCHANGED labelled
              /\ next("error")
        /\ UNCHANGED <<store, objects>>

\* Mutant of Delete: a failed delete is remembered like a failed label.
DeleteRest(r) ==
    LET k == Head(loc[r].todo)
        rest == Tail(loc[r].todo)
        next(code) == Goto(r, IF rest = <<>> THEN "forget" ELSE "delete",
                           [loc[r] EXCEPT !.todo = rest, !.code = code])
    IN  /\ pc[r] = "delete"
        /\ \/ Succeeds(r) /\ Remove(r, k) /\ next(loc[r].code)
           \/ Fails(r, "delete") /\ next("error") /\ UNCHANGED cluster
        /\ UNCHANGED store

\* Mutant of Delete: an object that is missing is an error.
DeleteExisting(r) ==
    LET k == Head(loc[r].todo)
        rest == Tail(loc[r].todo)
    IN  /\ pc[r] = "delete"
        /\ \/ /\ Succeeds(r) /\ objects[k] # NoObject
              /\ Remove(r, k)
              /\ Goto(r, IF rest = <<>> THEN "forget" ELSE "delete",
                      [loc[r] EXCEPT !.todo = rest])
           \/ /\ Fails(r, "delete") \/ objects[k] = NoObject
              /\ Answer(r, "error")
              /\ UNCHANGED cluster
        /\ UNCHANGED store

Delete(r) ==
    LET k == Head(loc[r].todo)
        rest == Tail(loc[r].todo)
    IN  /\ pc[r] = "delete"
        /\ \/ /\ Succeeds(r)
              /\ Remove(r, k)
              /\ Goto(r, IF rest = <<>> THEN "forget" ELSE "delete",
                      [loc[r] EXCEPT !.todo = rest])
           \/ /\ Fails(r, "delete")
              /\ Answer(r, "error")
              /\ UNCHANGED cluster
        /\ UNCHANGED store

\* Mutant of Forget: the error of the store is dropped.
ForgetAnyway(r) ==
    /\ pc[r] = "forget"
    /\ \/ /\ Succeeds(r)
          /\ records' = [records EXCEPT ![req[r].inst] = NoRecord]
       \/ /\ Fails(r, "forget")
          /\ UNCHANGED records
    /\ Answer(r, loc[r].code)
    /\ UNCHANGED <<bound, cluster>>

Forget(r) ==
    /\ pc[r] = "forget"
    /\ \/ /\ Succeeds(r)
          /\ records' = [records EXCEPT ![req[r].inst] = NoRecord]
          /\ \/ Answer(r, loc[r].code)
             \/ "lostReply" \in Adverse /\ Answer(r, "error")
       \/ /\ Fails(r, "forget")
          /\ Answer(r, "error")
          /\ UNCHANGED records
    /\ UNCHANGED <<bound, cluster>>

-----------------------------------------------------------------------------
(* What happens around the handlers.                                       *)

\* Bind and unbind, seen from here.  A bind does not look at the instance's
\* record, so only the platform's queue keeps the two apart.
BindingAppears(i) ==
    /\ i \notin bound
    /\ "overlap" \in Adverse \/ (Quiet(i) /\ records[i] # NoRecord)
    /\ bound' = bound \union {i}
    /\ UNCHANGED <<records, cluster, pc, req, loc, hung>>

BindingDisappears(i) ==
    /\ i \in bound
    /\ "overlap" \in Adverse \/ Quiet(i)
    /\ bound' = bound \ {i}
    /\ UNCHANGED <<records, cluster, pc, req, loc, hung>>

\* The client closes its connection: every later call of r fails at once.
HangUp(r) ==
    /\ "hangup" \in Adverse
    /\ InFlight(r)
    /\ hung' = hung \union {r}
    /\ UNCHANGED <<store, cluster, pc, req, loc>>

\* The process dies; nothing but the API server's content is left.
Crash ==
    /\ "crash" \in Adverse
    /\ \E r \in Requests : InFlight(r)
    /\ pc' = [r \in Requests |-> "idle"]
    /\ loc' = [r \in Requests |->
                  IF InFlight(r) THEN [NoLocals EXCEPT !.code = "lost"] ELSE loc[r]]
    /\ req' = [r \in Requests |-> NoInput]
    /\ hung' = {}
    /\ UNCHANGED <<store, cluster>>

Arrive(r) == ReceiveProvision(r) \/ ReceiveUpdate(r) \/ ReceiveDeprovision(r)

Apply(r) == ApplyGet(r) \/ ApplyPut(r) \/ Undo(r)

Record(r) == RecGet(r) \/ RecPut(r)

ProvisionStep(r) == LookupProvision(r) \/ PrepareNamespace(r)

UpdateStep(r) == LookupUpdate(r) \/ EngineReadUpdate(r) \/ Compare(r)

DeprovisionStep(r) ==
    \/ FindService(r) \/ LookupDeprovision(r) \/ CheckBindings(r) \/ FindNamespace(r)
    \/ EngineReadDeprovision(r) \/ Label(r) \/ Delete(r) \/ Forget(r)

Handle(r) ==
    \/ ProvisionStep(r) \/ UpdateStep(r) \/ DeprovisionStep(r)
    \/ Apply(r) \/ Record(r)

Next ==
    \/ \E r \in Requests : Arrive(r) \/ Handle(r) \/ HangUp(r)
    \/ \E i \in Instances : BindingAppears(i) \/ BindingDisappears(i)
    \/ Crash

Spec == Init /\ [][Next]_vars

\* The scheduler runs every handler; nothing obliges clients to send anything.
FairSpec == Spec /\ \A r \in Requests : WF_vars(Handle(r))

\* A platform that does not let go: it repeats the DELETE of an instance; and a
\* delete that is tried again and again does not fail every time.
RepeatSpec ==
    /\ FairSpec
    /\ \A r \in Requests :
          /\ WF_vars(ReceiveDeprovision(r))
          /\ SF_vars(Delete(r) /\ InFlight(r)')

-----------------------------------------------------------------------------
(* Properties.  Which of them hold depends on Adverse: the runs say.       *)

\* The variables have the types their comments give.
TypeOK ==
    /\ records \in [Instances -> Records \union {NoRecord}]
    /\ objects \in [ObjectKeys -> Contents \union {NoObject}]
    /\ labelled \subseteq ObjectKeys
    /\ bound \subseteq Instances
    /\ pc \in [Requests -> Calls]
    /\ req \in [Requests -> Inputs]
    /\ loc \in [Requests -> Locals]
    /\ hung \subseteq Requests

LiveObjects(i) == {k \in ObjectKeys : k[1] = i /\ objects[k] # NoObject}

\* In this step request r is answered with code.
Answers(r, code) ==
    /\ InFlight(r) /\ ~InFlight(r)'
    /\ loc'[r].code = code

\* The whitelist of a plan (allowedParameters) holds for what is stored and for
\* what runs, whatever sequence of updates and plan changes led there: both
\* carry only parameters their own plan allows.
ConfigurationAllowed ==
    /\ \A i \in Instances :
          records[i] # NoRecord => ParamsAllowed(records[i].plan, records[i].params)
    /\ \A k \in ObjectKeys :
          objects[k] # NoObject => ParamsAllowed(objects[k].plan, objects[k].params)

\* Nothing runs that no record leads to: once no handler is at work on an
\* instance, each of its objects is referenced by its record or was left
\* standing, labelled, by a deprovision of a retaining plan.
NoOrphans ==
    \A i \in Instances :
        Quiet(i) => LiveObjects(i) \subseteq RefsOf(records[i]) \union labelled

\* A provision answered 202 and an update answered 200 are done what they say:
\* the record has the plan and the parameters asked for, and every document of
\* that plan exists with exactly the recorded configuration.
AcceptedMeansConfigured ==
    [][\A r \in Requests :
          Answers(r, "accepted") \/ (Answers(r, "ok") /\ req[r].op = "update")
          => LET i   == req[r].inst
                 rec == records'[i]
             IN  /\ rec # NoRecord
                 /\ rec.plan = req[r].plan
                 /\ Overlay(rec.params, req[r].params) = rec.params
                 /\ rec.refs = ManifestKeys(i, rec.ns, [plan |-> rec.plan, params |-> rec.params])
                 /\ \A k \in RefsOf(rec) :
                       /\ objects'[k] = [plan |-> rec.plan, params |-> rec.params]
                       /\ k \notin labelled']_vars

\* Every object a record refers to is this instance's and is where its template
\* puts it: in the namespace the document names, or else in the record's, which
\* is the one every later request renders for.
RefsInNamespace ==
    \A i \in Instances : \A k \in RefsOf(records[i]) : k = KeyOf(i, records[i].ns, k[3])

\* 410 and 200 tell the platform that a deprovision is through: the broker then
\* holds no record of the instance.
GoneMeansForgotten ==
    [][\A r \in Requests :
          req[r].op = "deprovision" /\ (Answers(r, "ok") \/ Answers(r, "gone"))
          => records'[req[r].inst] = NoRecord]_vars

\* A DELETE answered with an error can be repeated: the record, which is all a
\* later DELETE has to go by, is still there.
FailedDeprovisionIsRepeatable ==
    [][\A r \in Requests :
          pc[r] \in {"delete", "label", "forget"} /\ Answers(r, "error")
          => records'[req[r].inst] # NoRecord]_vars

\* The record is the only way to an instance's objects.  When it goes, they are
\* gone, or retained and labelled so that an operator finds them.
ForgottenMeansTornDown ==
    [][\A i \in Instances :
          records'[i] = NoRecord
          => \A k \in RefsOf(records[i]) : objects'[k] = NoObject \/ k \in labelled']_vars

Destroyed(k) == objects[k] # NoObject /\ objects'[k] = NoObject

\* retainOnDeprovision: while an instance is recorded under a retaining plan, no
\* step deletes an object its record refers to.
RetainedDataSurvives ==
    [][\A i \in Instances : \A k \in RefsOf(records[i]) :
          Destroyed(k) => records[i].plan \notin Retains]_vars

\* The objects of a recorded instance are deleted by a deprovision of that
\* instance and by nothing else; the clean-up of a failed provision never
\* reaches them.
OnlyDeprovisionDestroys ==
    [][\A i \in Instances : \A k \in RefsOf(records[i]) :
          Destroyed(k) => \E r \in Requests : pc[r] = "delete" /\ req[r].inst = i]_vars

\* A plan change the catalog does not promise does not happen: a record leaves
\* its plan only if that plan may be left.
PlanLeftOnlyIfLeavable ==
    [][\A i \in Instances :
          records[i] # NoRecord /\ records'[i] # NoRecord
          /\ records'[i].plan # records[i].plan => records[i].plan \in Leavable]_vars

\* A PATCH merges: the keys it does not name keep the value they have in the
\* record at the moment it is written.
PatchKeepsOtherKeys ==
    [][\A r \in Requests :
          LET i == req[r].inst
          IN  /\ pc[r] = "recPut" /\ Answers(r, "ok")
              /\ records[i] # NoRecord
              => \A k \in Keys :
                    req[r].params[k] = Unset => records'[i].params[k] = records[i].params[k]]_vars

\* An instance that has been given up comes back only by a new provision.
OnlyProvisionCreates ==
    [][\A i \in Instances :
          records[i] = NoRecord /\ records'[i] # NoRecord
          => \E r \in Requests :
                pc[r] = "recPut" /\ req[r].op = "provision" /\ req[r].inst = i]_vars

\* An instance with bindings does not disappear.
BoundInstancesStay ==
    [][\A i \in bound : records[i] # NoRecord => records'[i] # NoRecord]_vars

\* Every request is answered: no chain of conflicts, failures or races leaves a
\* handler without a next step.
RequestsAnswered == \A r \in Requests : InFlight(r) ~> ~InFlight(r)

OnlyTeardown ==
    /\ bound = {} /\ hung = {}
    /\ \A r \in Requests : req[r].op \in {"none", "deprovision"}

\* A teardown that was interrupted anywhere can be completed: once crashes have
\* ceased and all the platform still sends are repeated DELETEs, every record
\* goes away, whatever of the objects earlier attempts have left.
TeardownConverges ==
    (<>[]OnlyTeardown /\ <>[][~Crash]_vars)
    => <>[](\A i \in Instances : records[i] = NoRecord)
==============================================================================
