# osb-broker-go in TLA+

A model of the broker: the handlers that provision, update, deprovision, bind
and unbind, the engine they drive, the state store behind them and the Kubernetes
objects all of them write; what a platform sees of it (catalog, answers, polling);
the process that serves it, from its environment over TLS and authentication to
its end; and the two programs beside it, the state migration and the conformance
gate. TLC checks small instances; TLAPS proves the properties that matter most
for every size.

`PROJECT.json` maps every definition to the lines it models, lists the hazards
the properties are aimed at, and names the runs. Paths below are relative to
the repository.

## The system

The broker is one Go process (or several replicas) without a lock and without a
background worker: a request is a goroutine that makes a chain of calls to the
API server and answers. All state is in Kubernetes. What is hard about it
follows from that: any other handler, a crash, a failing call or a client that
hangs up can come between two calls of the chain, and nothing repairs
afterwards what a chain leaves half-way, except a request the platform repeats.

| component | state it keeps | operations | hard because | correct if |
|---|---|---|---|---|
| instance handlers (`internal/handlers/service_instances.go`, `definition_instances.go`, `registry_adapter.go`) and engine (`internal/definition/engine.go`, `update.go`, `retain.go`, `operator.go`) | none of its own; the record and the applied objects | PUT, PATCH, DELETE of an instance, last_operation | several documents per instance, roll-back, a merge of parameters, retained data, errors taken for "not there" | answers are true, no object without a record, no data lost that was to be kept |
| binding handlers (`service_bindings.go`) and projection (`internal/definition/servicebinding.go`, `fromstatus.go`) | none; record, store Secret, projected Secret | PUT, DELETE of a binding | three objects, two kinds of owner, rotation | what was handed out stands until the unbind, nothing stays after it |
| state store (`internal/broker/statestore.go`, `crdstate.go`) | a map under a mutex, or one object per record | put, get, delete, lists, counts | optimistic concurrency with a limited number of attempts; two objects per binding | one call is one atomic step or an error |
| broker facade (`internal/broker/broker.go`) | - | hands on to the store | - | - |
| definitions and catalog (`definition.go`, `limits.go`, `render.go`, `load.go`) | read once | plan rules, limits, catalog | one rule is asked in several places, and definitions change under running instances | the catalog promises what the handlers do |
| readiness (`readiness.go`, last_operation) | - | poll, deadline | a moving condition, a boundary, failing reads | polling ends, within the announced time |
| server and TLS (`internal/server`) | certificate set under a lock | reload, handshake, shutdown | three files read one after another | no mixed pair is served, a finished rotation is, an end cuts nothing off |
| authentication (`internal/auth`) and configuration (`internal/config`) | read once | validate, derive, chain of methods | two methods, one of them at the handshake | one valid method suffices, and none locks the others out |
| namespace strategy | read once | a template | - | - |
| migration (`internal/migrate`, `cmd/osb-state-migrate`) | - | copy the ConfigMap's records to the CRD store | abort and re-run, a broker beside it | nothing is lost, a run can be repeated |
| conformance gate (`cmd/osb-gate`) | its report | one run of some forty requests | skips, early returns and changes that later checks depend on | green exactly on a conforming broker, which it leaves clean |
| router, metrics, logging, docs | counters | order of the middleware | - | - |

They interact by calls within a request only. The shared state is the API
server's: records, objects, Secrets. Kubernetes' garbage collector and the
operators act on it by themselves.

## Modules

| module | models |
|---|---|
| `StateStore` | the abstract store: a call takes effect at one instant or reports an error |
| `CRDStateStore` | `CRDStateStore.PutInstance/GetInstance/DeleteInstance`, shown to implement `StateStore` |
| `InstanceLifecycle` | PUT, PATCH and DELETE of an instance through handlers, engine, operator client and store |
| `BindingLifecycle` | PUT and DELETE of a binding, its record, its two Secrets and who owns them |
| `ServiceDefinition` | what a definition decides and what of it the catalog says; pure operators |
| `PlatformView` | an instance as a platform lives with it: catalog, answers, versions, polling, deployments |
| `BrokerConfig` | what the environment makes of the broker and whom it lets in; pure operators |
| `BrokerServer` | the process: start, certificate rotation, connections, end |
| `Migration` | `osb-state-migrate`, run until it succeeds, beside a broker |
| `ConformanceGate` | a run of `osb-gate` against a broker that may have a defect |
| `*_proofs` | the theorems |
| `MC*` | values for TLC; all the properties are in the modules themselves |

### StateStore, CRDStateStore

`StateStore` is what `statestore_contract_test.go` asks of "every
implementation", for callers that run at the same time. `stored` maps ids to
values; a call has a start, an instant (`Perform`) and a return.

`CRDStateStore` has one step per API call. `ReadForPut` and `Write` are the Get
and the Create or Update inside `RetryOnConflict`; `tries` counts its attempts.
Of the resourceVersion only one thing matters, whether somebody has written
since the read: `stale` is the set of clients for whom that is so. `NameOf` is
`resourceName` and assumed to be injective; it is a hash, and collisions are
excluded. People annotate records with `kubectl` (`Annotate`), which is why the
store replaces the spec and nothing else.

The refinement `Contract == INSTANCE StateStore WITH ...` maps `stored` to the
value of the object with the id's name if that object carries the id. It is
checked by TLC (`KeepsContract`) and proved. The two other modules rely on it:
they take one call of the store as one step where they can, and have the final
Get and Put of `PutInstance` as two.

### InstanceLifecycle

`pc[r]` names the call handler `r` makes next, `loc[r]` is the handler's local
state, `req[r]` what it knows of its request. A step is one call and everything
in-process up to the next one: `LookupProvision` is the lookup and every check
`ProvisionServiceInstance` makes on the result, `RecPut` the write of the record
and the answer or the begin of the roll-back.

- provision: lookup, `PrepareNamespace`, `ApplyGet`/`ApplyPut` per document,
  `RecGet`/`RecPut`, or `Undo` per document;
- update: lookup, `EngineReadUpdate`, `Compare` (`ManifestsUpToDate`), apply,
  record;
- deprovision: `FindService`, lookup, `CheckBindings`, `FindNamespace`,
  `EngineReadDeprovision`, `Label` or `Delete` per object, `Forget`.

`Adverse` says what may go wrong: which call fails, whether a reply may be lost,
whether two operations for one instance overlap, a crash, a client that hangs up
(`hung`: every later call of the handler fails, those of a roll-back included).

An object's content is the plan and the parameters it was rendered from; a template
(`Docs`) is the sequence of document names it renders for a content, so that which
documents there are may depend on the plan and on the parameters. A document lies in
the namespace it names itself (`OwnNamespace`), or else in the one it is rendered for
(`KeyOf`, `decodeManifests`). A plan belongs to one service; a DELETE may name the
instance's, none (then a read supplies it), or, with `"wrongService"` in `Adverse`,
any other. The rules of a plan (`Retains`, `Leavable`, `Allowed`) are constants.

### BindingLifecycle

`binding`, `secret` and `projected` are the record, the Secret the store keeps
for it and the Secret projected into the instance's namespace. `source` is the
operator's own Secret, which may change at any time (`Publish`). An owner
reference holds a uid, so what counts is whether the owner it was made from is
still there: `live`, `gone` or `none`. A reference fetched by a handler that has
not written yet loses its owner with the others (`DeleteRecord`,
`InstanceGoes`); the garbage collector takes what has lost it.

The instance's record stands for its CR too. Instances come and go as
`InstanceLifecycle` has it: no deprovision while a binding stands. `issued` is
history: what a 201 has handed out since the last unbind was received.

Every action that changes the state of the binding half is here. Nothing that a
bind has done is undone when a later call fails; a client that hangs up or a
reply that is lost therefore ends a handler just as a crash does, and needs no
action of its own.

### ServiceDefinition, PlatformView

`ServiceDefinition` has the rules as operators over a definition: `LimitAllows`
and `ValidatePlanParams` (`limits.go`), `PlanChangeAllowed`, `MaintenanceVersion`,
`ReadinessTimeout`, `Validate`, and `Catalog` with its `ParameterSchema`. A bound
and a scalar are texts; `Quantity` and `Number` say what `resource.ParseQuantity`
and `strconv.ParseFloat` make of a text, as constants. `SchemaAdmits` is a JSON
Schema validator on the platform's side.

`PlatformView` composes them into requests that are atomic here (their calls are
in `InstanceLifecycle`): `ProvisionAnswer` and `UpdateAnswer` are the handlers'
early returns in their order, `Provision`, `Update`, `Deprovision` what an
accepted one leaves. `definition` is what the broker has loaded and changes with
`Redeploy`, `catalog` the platform's copy, which may be old; `cr` is the main
resource with its condition and age, and `GetLastOperation` the verdict on it.
`basis` is history: the definition of the last accepted request.

### BrokerConfig, BrokerServer

An environment is a record of what its variables say. `Loads` is
`LoadFrom`/`Validate`, `ClientAuth` is `deriveClientAuth`, `Authenticates` the
chain, `Status` the order of authentication, version check and routing. `Roots` is
what a certificate is held against: the pool of the CA file or, when there is none
because the file is empty, the system's own roots, which the image ships
(`Dockerfile:13`).

`BrokerServer` runs a process under one environment. The reloader's `Reload` is
three steps, because a rotation (`WriteFile`) replaces one file at a time:
`ReadCert`, `ReadKey`, and `Swap` with the read of the CA. A read that fails, a
pair that does not fit or a garbled CA keeps the material in use, or ends a
process that is starting. A connection keeps the pool of its handshake. `Drains`
is what `http.Server.Shutdown` waits for.

### Migration

A run is `Start`, `Read`, a `Copy` per entry in any order the two loops over maps
admit, and `Finish`; a failing call, with or without effect, and a kill abort it.
A record in the store is "legacy" (as migrated) or "current" (changed by the
broker since); `gone` is history. The operator may delete the ConfigMap after a
run that reported a transfer.

### ConformanceGate

The run is a sequence of steps (`Order`), each one request or none; `Judge` is
what the gate makes of the answer, `GoOn` where it goes then, `Untold` when it
sends nothing. An answer is a status and a body, which has what the check looks for,
has not, or lacks that part (`Bodies`). The broker is a conforming one (`Conforming`,
`Effect`) with at most one defect, which answers one step wrongly. A conforming broker
takes plan changes as its catalog promises them, may be synchronous, may refuse
parameters, need not be bindable, need not have GET on an instance, or have it without
promising it, and shows parameters always, only if there are any, or never (`Shown`).
What a wrong answer does to the broker is open (`Carries`): what the right one would
have done, nothing, or a change of plan that should have been refused (`Overreach`).
A catalog without services, or with a service without plans, is not `Complete`, and
the gate says so. `owed` is history: the checks that have got a wrong answer or none,
or whose parameter was accepted and dropped; `blind` says that the gate was shown
nothing it could tell a parameter by.

## Runs

| run | instance | shows | distinct states |
|---|---|---|---|
| `serial` | 1 instance, 2 offerings with 3 plans, 2 documents, 2 parameters, 1 handler; writes and deletes fail, crash, hang-up; no failing read or label, no lost reply, no DELETE under another service | answers are true, a teardown is complete and repeatable, retained data, plans and parameters are kept | 274 005 |
| `spaces` | 2 namespaces, 1 offering with 2 plans, 1 parameter, 2 documents, one of which names its own namespace; failing writes, a working clean-up, no crash | nothing stays without a record; what a record refers to is its instance's and lies where its documents go | 39 617 |
| `overlap` | 2 handlers on 1 instance, failing reads and writes, lost replies, a DELETE under another service | the whitelist of a plan holds for records and objects | 641 850 |
| `converge` | 2 handlers that may overlap, failures, crash, hang-up, fairness | every request is answered; a repeated DELETE gets through | 61 674 |
| `store` | 2 clients, 2 ids, 2 values, 2 attempts, failures, lost replies, crash, annotations, fairness | the store implements its contract; notes survive; calls return | 154 177 |
| `bindings` | 1 binding, 2 instances, 2 services, 2 namespaces, 1 handler; failing writes, crash, rotation | what was handed out stands and is repeated; a binding stays where it is | 623 800 |
| `bindings_overlap` | 2 handlers on 1 binding, the same faults, fairness | no credentials without a record, an unbind leaves nothing, a projected Secret goes with its instance | 156 122 |
| `migrate` | 2 instances and 2 bindings, an empty id of each kind, a null entry; 2 faults, fairness | nothing is lost, bindings follow their instances, a failed run can be repeated to its end | 43 075 |
| `platform` | 4 definitions (one does not load, one reduces, one renews the versions), 2 plans, 6 values of 1 parameter; failing reads, removed resources, fairness | records conform, a fresh catalog's word on plan changes, versions, polling and plain parameters is kept, polling ends | 12 555 |
| `process` | 6 environments (2 do not load), 5 kinds of client, one with a certificate of the system's roots, 1 connection, 2 generations, 3 writes to the files, fairness | pairs fit, a finished rotation is served, any method is enough, a regular end is clean | 846 894 |
| `gate` | 9 brokers (bindable or not, GET promised, answered or missing, parameters shown always, if there are any, never), 3 choices of service and plan, 39 wrong answers or none, 1 lost answer, 2 polls, fairness | a conforming broker passes, three exceptions named, and is left clean; wrong answers are reported; runs end | 908 934 |

Bounds. Records, objects and Secrets of different ids have different names and
no step of the code touches those of two ids (`rollbackPartialProvision`,
`DeleteManifestRefs` and the store work on the request's own), so one instance
and one binding show every interference there is; `bindings` has two instances
because one binding can be asked for either. Two handlers are the least that
interfere, and one that has answered starts again, so runs are of any length.
Two documents are the least with a "first applied, second failed"; two plans the
least with a change; two attempts the least with a conflict that is retried and
one that is given up. `overlap` uses the symmetry of its
handlers; the runs with liveness use none. Deadlock is checked in every run but
`gate`, whose program ends.

`migrate`: two faults abort a run, and the next one as well. `platform`: two plans
with different words on changes, limits that are a maximum, a list and none, a
timeout that is given, left to the default (2) and negative, and ages up to the
longest of them plus one (`MaxAge`); a value of every form, below, at and above the
bounds. `process`: three writes take a rotation of the three files to its end, or
break a file and mend it; connections do not influence each other, so one will do.
`gate`: each defect is a wrong answer at one step; two polls are the least
with one that is followed by another; the nine brokers have each word on bindable, GET and
parameters, and plans that may both be left, one or the other only, or neither. Two offerings are
the least in which a DELETE can name the wrong one (`overlap` lets it; in `serial` it
names the instance's or none), two namespaces the least in which a document can lie
beside its instance.

Fairness. Weak fairness of `Handle(r)`, `Work(c)`: a goroutine runs on, and a
call returns, with an error if nothing else (client-go's requests are bounded by
the request's context). Weak fairness of the two `Collect` actions: Kubernetes'
garbage collector. `converge` also assumes a platform that repeats its DELETE,
and that a delete tried again and again does not fail every single time
(`RepeatSpec`). Nothing obliges a client to send, an operator to publish, or a
fault to happen or to stop. `migrate`: a run that has been started goes on, and
whoever runs it repeats one that failed (faults are bounded, so some run has
none). `platform`: the platform polls, and time passes; the operator need not
report. `process`: the ticker ticks, a reload goes on, and `Shutdown` returns when
it can or its timeout passes; handlers may hang. `gate`: the program goes on,
since each of its requests has a timeout.

Every property of a passing run has a mutant, a plausible bug in the code under
which TLC finds it violated (`PROJECT.json`). The mutated operators stand before
the definitions they replace.

## What does not hold

One run shows the code contradicting its comments without any fault or
concurrency; the quote is in `PROJECT.json`:

| run | what happens |
|---|---|
| `document_dropped` | a plan change to a plan with fewer documents: the dropped document's object keeps running and no record leads to it (`update.go:93-96`) |

The following were found with the same modules, by setting `Adverse`, and have no
run of their own:

| `Adverse` | property that fails | what happens |
|---|---|---|
| `getInstance` | RetainedDataSurvives | one failed read of the record during a DELETE and the data of a retaining plan is deleted (`registry_adapter.go:40`), although of such a plan "nur die Daten bleiben" (`definition.go:92-93`) |
| `overlap` | OnlyDeprovisionDestroys | of two overlapping PUTs the slower one's roll-back deletes the objects of the instance the faster one was answered 202 for (`crdstate.go:101`, `engine.go:268`) |
| `crash` (`BindingLifecycle`) | RepeatCarriesCredentials | a crash between record and Secret of a binding: the repeated bind answers 200 without credentials, for ever (`crdstate.go:177-187`), although the answer to PUT "traegt die Zugangsdaten" (`service_bindings.go:147-148`) |
| `lostReply` | OnlyDeprovisionDestroys | the record is written, its reply lost, and the roll-back deletes the objects of a recorded instance |
| `overlap` | PlanLeftOnlyIfLeavable | two PUTs with different plans are both answered 202; the later one replaces the record |
| `overlap` | PatchKeepsOtherKeys | a PATCH writes back a record that another one has changed meanwhile |
| `overlap` | OnlyProvisionCreates | a PATCH creates the record a DELETE has just removed |
| `getInstance` | GoneMeansForgotten | a DELETE whose lookup fails answers 410 and the instance runs on |
| `label` | FailedDeprovisionIsRepeatable | an object that cannot be labelled: 500, then 410, and objects without label or record |
| `getInstance` | AcceptedMeansConfigured | an update whose engine read fails applies the patch alone, answers 200 and records nothing |
| `put` | NoOrphans, with a plan of more documents | a PATCH that has applied a new document fails at the record; repeated, it finds everything up to date and records no new reference |
| `put`, with a template that renders more documents for more parameters | NoOrphans | the same without a change of plan: the new document is applied, the record is not written, and the document stays unreferenced until a PATCH names its parameters again |
| `listBindings`, or `overlap` | BoundInstancesStay | the error of the list is ignored, or a bind comes after it: the instance goes under its bindings |
| `wrongService` | RetainedDataSurvives, FailedDeprovisionIsRepeatable | the `service_id` of a DELETE is not compared with the record's, and the plan is looked up in another offering |
| `hangup` | NoOrphans | the roll-back runs under the cancelled context and deletes nothing |
| `crash` | NoOrphans | objects applied without a record; named as an open gap in ADR 0011 |
| - | - | a retained object that a new provision adopts (an AlreadyExists is tolerated, `operator.go:232`) is deleted when that provision is rolled back |

For bindings: a failing `record` or `secret` read at a bind overwrites an existing
binding, also of another instance, and at an unbind answers 410; a failing
`namespace` read at an unbind looks for the projected Secret in `default` and
leaves the real one; a bind that fails after the projection leaves that Secret
until its instance goes, and the platform's unbind is answered 410; a bind that
fails or crashes between its two writes leaves a record without credentials.

What the newer modules brought up:

- *Catalog.* A schema and the limits agree on parameters in the plain form, a number
  for a range and a string for a list (`SchemaPromise`). Otherwise they do not,
  although `limits.go:160-161` says "was der Broker mit 400 ablehnt, darf das Schema
  nicht erlauben": the string "3" passes a schema with maximum 2 and is refused, and
  the number 2 is refused by the schema of the list ["2"] and taken by the broker.
- *Records.* After a plan is tightened, a PATCH of an instance that holds an older
  value is refused, whatever it asks for, unless it replaces that value. A PATCH
  answers 200 at once and creates a resource that was missing.
- *Polling.* `maximum_polling_duration` is the limit itself, while the verdict
  needs an age above it. A failing read and a removed resource are both answered
  "failed", which platforms take as final. A negative timeout leaves
  `maximum_polling_duration` out and polling need not end.
- *Rotation.* An empty CA file is accepted and loses the pool in use
  (`tls.go:99-105`), although `tls.go:58-59` promises that a truncated file
  mid-rotation breaks nothing. Until the next poll certificates of the broker's own
  CA are refused, and since a missing pool (`ClientCAs`, `tls.go:169`) means the
  system's roots, which the image ships, a certificate of any of those passes the
  handshake; with empty allowlists it is then authenticated, although
  `config.go:104-105` and `mtls.go:22-23` say that these accept what "the configured
  CA signed". `AnyMethodIsEnough` holds with the roots counted as trusted
  (`Vouched`), which is what the code does and not what those comments say. The CA
  is read last, so a pair may be in use with the CA before it for one poll. Open
  connections keep the pool of their handshake.
- *Authentication.* A client certificate that leads to no known CA ends the
  handshake even beside a right password. With mTLS alone a 401 has no
  `WWW-Authenticate` header, and the gate's first check fails on such a broker.
- *Migration.* A repeated run overwrites what the broker has changed meanwhile and
  brings back what it has deleted, although `migrate.go:98-99` calls it idempotent. A
  mistyped namespace or name is "nichts zu tun" and exit code 0.
- *Gate.* "Gegen einen konformen Broker darf nichts anschlagen"
  (`mockbroker_test.go:469`) is not so in three cases, which `ConformingPasses` names;
  it says which checks then fail, and that no others do:
  - A service that is not `bindable` is bound all the same (`checks.go:831-845`; the
    catalog's word, `checks.go:252`, is not asked): bind, re-bind and unbind fail.
  - A plan that names a version has the instance's version fetched, and any answer but
    200 is a failure (`maintenance_info.go:57-62`), whether GET is promised or not.
    `mockbroker_test.go:544-548` says that a broker that does not promise it is
    conforming and must not fail for it; the test's broker answers GET nevertheless.
  - If the plan it audits names a version, its change to another plan is promised, that
    plan may not be left (by its own word or the offering's) and names no version
    (`Stranded`), then the PATCH back is refused, which is ignored, and the version is
    looked for on the wrong plan.

  A parameter that is accepted and dropped is only noticed if the broker shows something
  to tell it by: a GET without a `parameters` object is a skip (`checks.go:1097-1100`).
  This repository's own broker leaves out an empty object (`types.go:148`), so one that
  behaves like it and drops the only parameter goes unnoticed. The comment allows the
  skip for brokers that do not report parameters (`checks.go:1048-1051`); the code cannot
  tell them from one that has none to report. `WrongAnswersReported` exempts both
  (`blind`), and a probe of a refused parameter that gets no answer, which is
  read as a refusal. After a failed or late operator, or an unanswered request, the gate
  leaves the instance behind.

## Proofs

| theorem | for every | argument |
|---|---|---|
| `TypeCorrect`, `WhitelistHolds` (`InstanceLifecycle_proofs`) | catalog, number of handlers, `Adverse` | below |
| `RefsStayInNamespace`, `RecordsAreProvisioned`, `PatchMerges` (`InstanceLifecycle_serial_proofs`) | the same, without `overlap` | below |
| `BoundStay` | and without `listBindings` | below |
| `LeavesOnlyLeavable` | without `overlap`, `getInstance` | below |
| `ForgottenIsTornDown` | and without `label` | below |
| `DestroyedByDeprovision` | without `overlap`, `getInstance`, `lostReply` | below |
| `RetainedStays` | and without `wrongService` | below |
| `AcceptedIsConfigured` | without `overlap`, `getInstance`, if `UpdatesKeepDocuments` | below |
| `FailureIsRepeatable` | without `overlap`, `getInstance`, `label`, `lostReply`, `wrongService` | below |
| `NothingIsOrphaned` | without `overlap`, `getInstance`, `label`, `delete`, `lostReply`, `crash`, `hangup`, if `UpdatesKeepDocuments` | below |
| `GoneIsForgotten` | without `getInstance` | from types alone |
| `StoreTypeCorrect`, `StoreKeepsContract`, `NotesAreKept` (`CRDStateStore_proofs`) | number of clients, ids, attempts, `Adverse` | a step maps to `Perform`, `Call`, `Return`, `Crash` or a stutter |
| `BindingTypeCorrect`, `NoStrayCredentials` (`BindingLifecycle_proofs`) | number of everything, `Adverse` | below |
| `AnsweredBindsStand`, `RepeatedBindAnswersSame` | the same, if `Readable` (without `record`, `secret`, `deprovision`) | below |
| `BindingsStayPut` | and without `overlap` | below |
| `LoneUnbindLeavesNothing` | the same, if `Findable` (without `namespace`, `deprovision`, `wrongPath`) | below |
| `TransferComplete`, `InstancesFirst` (`Migration_proofs`) | ConfigMap, number of faults | what a run in progress has behind it has arrived |
| `StoredConforms`, `PromisesKept` (`PlatformView_proofs`) | definitions, plans, keys, values, inputs | below |
| `PairsServed`, `AnyMethodAdmits` (`BrokerServer_proofs`) | environments, clients, connections, generations, writes | below |
| `ConformingIsGreen` (`ConformanceGate_proofs`) | catalogs, choices, polls, lost answers | below |
| `WrongAnswersTurnRed` | the same, defects that are `Telling` | below |

Assumptions are those of the modules (`CatalogAssumption`, `EnvironmentAssumption`,
`DistinctnessAssumption`, `NameAssumption`, `CRDAssumption`, `BindingAssumption`,
`MigrationAssumption`, `LegacyAssumption`, `TextAssumption`,
`PlainNumberAssumption`, `TimeoutAssumption`, `DefinitionAssumption`,
`PlatformAssumption`, `ServerAssumption`, `OffersAssumption`, `DefectsAssumption`);
the runs evaluate them. `OffersAssumption` is OSB's: plan ids are unique in a
service. `LegacyAssumption` says what the old store wrote, `PlainNumberAssumption`
that a text which is a number to `strconv` is the same quantity.

*InstanceLifecycle.* Types are not inductive by themselves: `Head(loc[r].todo)`
needs a todo that is not empty, and a PATCH's record needs to be there.
`Coherent` says for each call what the handler may rely on when it makes it. One
of its conjuncts is that the parameters a handler is about to apply or record
are allowed under the plan it will apply them for; the check is made once, before
the first of these calls, and every later step carries it along, whatever other
handlers do to the record meanwhile. `WhitelistHolds` follows.

*InstanceLifecycle under a platform that queues.* Without `overlap` one handler at
most is at work on an instance (`Queued`), so that what it has read is still so when
it writes. `SInv` says what that is, per call: a provision past its lookup has no
record against it (`Provisions`); an update works on the record as it is, in its
namespace, and its plan may be left (`Updates`); a deprovision has found no binding,
and deletes only what no plan retains (`Deprovisions`); what is to be applied,
undone or deleted is the instance's own, and where its documents go (`Placed`,
`Within`). A handler whose client is gone (`gone`) may believe anything, since none
of its calls succeeds any more. Each theorem excludes just those faults each of
which alone makes TLC find its property violated, and no other: failing writes are
in all of them, crashes and hang-ups in all but `NothingIsOrphaned`. No theorem
limits the number of offerings: what a DELETE under another service would break is a
fault of its own, `wrongService`. `ForgottenIsTornDown` needs `TInv` besides: each
object the record refers to is still on the list, gone or labelled. `KeyTouched` is
the step that matters there: nobody but the deprovision itself touches the
instance's objects while it works.

*What is answered, and what is left.* Three more invariants relate the documents to
the live objects. `CInv` (for `AcceptedIsConfigured`) says that a record refers to
the documents of its plan in order, and of each handler how many of them already are
what it renders; what was found up to date without a write is part of it. Here the
code relies on something it does not check: an update to a plan with fewer documents
would leave some behind, and one that adds a document may leave that one.
`UpdatesKeepDocuments` therefore says of contents, a plan with parameters, between
which an update may lead that they render the same documents; the templates of the
runs do, but for the run that shows the opposite. `FInv` (for `FailureIsRepeatable`)
keeps, under a retaining plan, every object its record refers to, so that a label
always finds its object. `OInv` (for `NothingIsOrphaned`) is about the moments in
between: a live object without a record is on the list of a provision that will
either record it or take it down. The faults excluded there are the ones the code
has no answer to: whoever is cut off leaves what it has applied, and a roll-back
gives up at the first delete that fails. For each of them TLC has a counterexample,
so the theorem is as general as the code is.

*CRDStateStore.* The refinement needs that an object with a given name carries
the id its name was made from (`NamesOK`), and that a client does what its job
says (`JobsOK`). An accepted write and a delete map to `Perform` with its effect,
a lost reply to the same with an error, a conflict that is retried to a stutter.

*BindingLifecycle.* `StraysAreDoomed` says nothing of a handler that is about to
write. `WriterOK` adds that one that holds an owner reference holds one to a
record that is there, or a dead one. It needs no assumption on faults or order.
`AnsweredBindStands` does: a read that fails is taken for "not there" and the bind
starts anew, and a bind whose instance goes under it answers 201 for a record that
goes too (`Readable`). The stronger invariant `JInv` says what a handler that nobody
has met (`alone`) has found out by its next call (`HandlersOK`), of any handler what
does not depend on others, and, next to the property, which handlers may be at work
on a binding that stands: a bind that has just begun, or one that has met another and
is about to find the record (`AllStanding`). Handlers may overlap throughout.
`RepeatedBindAnswersSame` adds that the record of a standing binding says whether the
store keeps credentials (`RInv`), and `BindingsStayPut` that the platform queues
(`QInv`): two binds that have both found no record do overwrite each other.
`LoneUnbindLeavesNothing` needs no readable store, since an unbind that cannot read
answers with an error. Its invariant `UInv` says that a projected Secret lies in the
namespace of an instance that is there, for the binding that the record names
(`Housed`), and what an undisturbed unbind has deleted by its next call
(`HandlersAt`). A namespace that is not found, and an unbind under another instance's
path, break it.

*PlatformView.* `RecordConforms` is inductive: `Acceptable` asks for the merged
parameters as well as for the patch, and `UpdatedRecord` takes the version anew.
`PromisesKept` needs only that a loaded definition is valid (`Loaded`); the work is
in `PropertyIsExact`: for a plain value the schema derived from a limit admits
exactly what the limit allows, whatever the limit. Of other values (a number given as a
string, a list given as a number) and of a PATCH's parameters it says nothing: there the
code breaks `limits.go:160-161`, see above.

*BrokerServer.* `PairServed` is inductive, since only `Swap` changes what is served
and takes only a pair that fits. For `AnyMethodIsEnough` the invariant records how
each connection's handshake and answer were decided; the lemmas `ChainTriesAll` and
`PassesIfMay` show that a certificate an active method would take has passed the
handshake, so that the chain sees it. An active method would take what is vouched for
(`Vouched`): by the pool of the handshake, or by the system's roots if there was none.

*ConformanceGate.* `BInv` holds whatever is answered: what is chosen is in the
catalog, and from the provision to the plan change the instance has the plan it was
made with. For `ConformingIsGreen`, `OnCourse` says of each step of the run with a
conforming broker which plan the instance has, whether it has a binding, and what
has failed so far: exactly what the three exceptions cost (`Verdicts`). There are 42
steps, each with the verdict on the right answer (`VerdictIsRight`) and what is left
of the broker (`EffectIsRight`). The proof is where `Stranded` got its form: a plan
whose own word is missing cannot be left either if the offering's is no. For
`WrongAnswersTurnRed`, what is owed and not yet red is the probe's to report, or,
after a parameter that was dropped, the report's (`Pending`); what a broker that
shows nothing keeps from the gate is excused with `blind`. A defective broker may
also carry out a plan change it should refuse (`OverreachIsDefective`). A defect
must be one its check can tell (`Telling`, which the run's defects are): the gate
does not distinguish 200 and 202 on a plan change, nor 400 and 422 on a refused
parameter, and a PATCH back it does not look at.

*Migration.* The two loops put an instance before every binding, and `LegacyAssumption`
gives each binding its instance in the same ConfigMap; a run that is aborted keeps
what it has written, so only a run in progress needs `Progress`.

Only model-checked: all liveness (`RequestsAnswered`, `TeardownConverges`,
`CallsReturn`, `SecretsCollected`, `ProjectedDieWithInstance`, `RunsComplete`,
`PollingEnds`, `RotationServed`, `StopsClean`, `RunEnds`), which the prover cannot do
under fairness. Every safety property of a passing run is stated by a theorem; where
a theorem excludes a fault that a run allows, only the run checks the property with
that fault, on its own instance.

## Abstractions

- Deleting an object is immediate; finalizers and an operator's own reaction are
  left out. The operator never touches what the broker applied.
- `RetryOnConflict` around a record is its last Get and Put; running out of
  attempts is a failing call. That is justified by `KeepsContract`.
- After a conflict a Create may also be tried; the model allows a little more
  than the API server would.
- A crash ends all handlers at once. With several replicas it would end some;
  a handler that never goes on has the same effect in the safety runs.
- Requests that are rejected before the first call (malformed, unknown service)
  change nothing and are left out of `BindingLifecycle`.
- The operator's Secret is readable only where this service's instance has it.
- `PlatformView` has one instance and requests that succeed or are refused as a
  whole; the definition of another offering with the same id is excluded.
- A reload reads the CA and swaps in one step; nothing but the swap depends on the
  CA, and a write before or after is the same to it.
- Of the gate's requests only the provision is carried out asynchronously; PATCH, DELETE
  and bind are sent without `accepts_incomplete` and answered at once. A version that is
  no version and metadata of the wrong form are wrong answers of their steps.
- The migration writes a binding's record and its Secret in one step. `PutBinding` makes
  two calls (`crdstate.go:145-187`); what is between them is in `BindingLifecycle`. A
  migration that is killed there aborts, and the repeated run writes both again.
- Documents of different instances are different objects: their names hold the
  instance's, also where they name a namespace of their own.
- Message texts, JSON, labels other than the retained one, metrics, logs.

## Not modelled

- `reconcile.go`: only its tests call it, no path of the program runs it.
- Templates, names and the namespace template: what they make of a text is a
  question of the text; the models take distinct names for distinct ids.
- Counters and gauges, access log, documents, warnings of the configuration, the
  challenges of a 401: nothing the broker's answers or objects depend on.
- `mapping`, `valueFrom` and status sources of a bind: pure functions of a Secret
  and a status, one value in `BindingLifecycle`.
- Generated deep copies, API types and charts.

## What could come next

1. The composition of `InstanceLifecycle` and `BindingLifecycle`: `bound` becomes the
   bindings' records, and a deprovision races a bind step by step.
2. Two offerings in `PlatformView`, whose ids may collide, and the order of the
   definitions' files, which decides then.
3. Theorems: a version of `UpdatesKeepDocuments` for catalogs whose updates only add
   documents, with the writes of records succeeding (a failed one leaves the added
   document unreferenced, as above).
4. The parameters of a PATCH, and values that are not plain, in `SchemaPromise`, once
   schemas and limits agree on them.
