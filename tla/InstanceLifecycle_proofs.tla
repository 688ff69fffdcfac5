----------------------- MODULE InstanceLifecycle_proofs -----------------------
(***************************************************************************)
(* Type correctness of InstanceLifecycle and the invariant that no         *)
(* parameter is stored or applied under a plan that does not allow it, for *)
(* every catalog, every number of handlers and every combination of faults *)
(* and races: neither theorem assumes anything about Adverse.              *)
(***************************************************************************)
EXTENDS InstanceLifecycle, SequenceTheorems, TLAPS

-----------------------------------------------------------------------------
(* The inductive invariant.                                                *)

\* What a handler that is about to make a call may rely on.
Coherent(call, in, l) ==
    /\ call \in {"service", "bindings", "nsRead", "label", "delete", "forget"}
          => in.op = "deprovision"
    /\ call = "compare" => in.op = "update"
    /\ call \in {"compare", "applyGet", "applyPut", "undo", "label", "delete"}
          => l.todo # <<>>
    /\ call \in {"namespace", "compare", "applyGet", "applyPut", "undo", "recGet", "recPut"}
          => in.op \in {"provision", "update"} /\ in.plan \in Plans
    /\ call \in {"namespace", "compare", "applyGet", "applyPut", "recGet", "recPut"}
          => ParamsAllowed(in.plan, l.merged)
    /\ call = "lookup" /\ in.op = "provision" => in.plan \in Plans /\ l.merged = in.params
    /\ call = "engineRead" /\ in.op = "update" => in.plan \in Plans
    /\ call \in {"recGet", "recPut"} /\ in.op = "provision" => l.applied # <<>>
    /\ call \in {"recGet", "recPut"} /\ in.op = "update" => l.known # NoRecord
    /\ l.known # NoRecord => l.known.refs # <<>>

WellFormed(call, in, l) ==
    call \in Calls /\ in \in Inputs /\ l \in Locals /\ Coherent(call, in, l)

HandlersOK ==
    /\ pc \in [Requests -> Calls]
    /\ req \in [Requests -> Inputs]
    /\ loc \in [Requests -> Locals]
    /\ hung \subseteq Requests
    /\ \A r \in Requests : Coherent(pc[r], req[r], loc[r])

\* A record names at least one object, and only parameters its plan allows.
RecordsOK ==
    /\ records \in [Instances -> Records \union {NoRecord}]
    /\ \A i \in Instances :
          records[i] # NoRecord
          => records[i].refs # <<>> /\ ParamsAllowed(records[i].plan, records[i].params)

ObjectsOK ==
    /\ objects \in [ObjectKeys -> Contents \union {NoObject}]
    /\ \A k \in ObjectKeys :
          objects[k] # NoObject => ParamsAllowed(objects[k].plan, objects[k].params)

IInv ==
    /\ HandlersOK
    /\ RecordsOK
    /\ ObjectsOK
    /\ labelled \subseteq ObjectKeys
    /\ bound \subseteq Instances

-----------------------------------------------------------------------------
(* The operators the actions are built from.                               *)

LEMMA NoParamsType == NoParams \in ParamSets
BY DEF NoParams, ParamSets

LEMMA OverlayType ==
    ASSUME NEW base \in ParamSets, NEW patch \in ParamSets
    PROVE  Overlay(base, patch) \in ParamSets
BY DEF Overlay, ParamSets

LEMMA SafeNameType ==
    ASSUME NEW i \in Instances, NEW ns \in Namespaces
    PROVE  SafeName(i, ns) \in ObjectKeys
BY EnvironmentAssumption DEF SafeName, ObjectKeys

LEMMA KeyOfType ==
    ASSUME NEW i \in Instances, NEW ns \in Namespaces, NEW doc \in DocNames
    PROVE  KeyOf(i, ns, doc) \in ObjectKeys
BY CatalogAssumption DEF KeyOf, ObjectKeys

LEMMA ContentType ==
    ASSUME NEW plan \in Plans, NEW params \in ParamSets
    PROVE  [plan |-> plan, params |-> params] \in Contents
BY DEF Contents

\* The documents rendered for a content: a non-empty sequence of object keys.
LEMMA ManifestKeysType ==
    ASSUME NEW i \in Instances, NEW ns \in Namespaces, NEW content \in Contents
    PROVE  /\ ManifestKeys(i, ns, content) \in Seq(ObjectKeys)
           /\ ManifestKeys(i, ns, content) # <<>>
<1> DEFINE d == Docs[content]
<1>1. d \in Seq(DocNames) /\ d # <<>>
  BY CatalogAssumption
<1>2. Len(d) \in Nat \ {0} /\ d \in [1..Len(d) -> DocNames]
  BY <1>1, LenProperties, EmptySeq
<1>3. ManifestKeys(i, ns, content) = [n \in 1..Len(d) |-> KeyOf(i, ns, d[n])]
  BY <1>2 DEF ManifestKeys
<1>4. [n \in 1..Len(d) |-> KeyOf(i, ns, d[n])] \in [1..Len(d) -> ObjectKeys]
  BY <1>2, KeyOfType
<1>5. ManifestKeys(i, ns, content) \in Seq(ObjectKeys)
  <2>1. Seq(ObjectKeys) = UNION {[1..n -> ObjectKeys] : n \in Nat}
    BY SeqDef
  <2>2. \A n \in Nat : [1..n -> ObjectKeys] \subseteq Seq(ObjectKeys)
    BY <2>1, Zenon
  <2> QED
    BY <1>2, <1>3, <1>4, <2>2
<1>6. DOMAIN ManifestKeys(i, ns, content) = 1..Len(d)
  BY <1>3
<1>7. 1 \in 1..Len(d)
  BY <1>2
<1>8. DOMAIN <<>> = {}
  OBVIOUS
<1> QED
  BY <1>5, <1>6, <1>7, <1>8

LEMMA NoInputType == NoInput \in Inputs
BY EnvironmentAssumption, NoParamsType DEF NoInput, Input, Inputs

LEMMA NoLocalsType == NoLocals \in Locals
BY NoParamsType, EmptySeq DEF NoLocals, Locals, Codes

\* A handler that goes on leaves every handler's state well-formed if its own is.
LEMMA ContinueKeeps ==
    ASSUME HandlersOK,
           NEW r \in Requests, NEW call, NEW input, NEW l,
           WellFormed(call, input, l),
           Continue(r, call, input, l)
    PROVE  HandlersOK'
<1>1. /\ pc' = [pc EXCEPT ![r] = call]
      /\ req' = [req EXCEPT ![r] = input]
      /\ loc' = [loc EXCEPT ![r] = l]
      /\ hung' = hung
  BY DEF Continue
<1>2. /\ pc' \in [Requests -> Calls]
      /\ req' \in [Requests -> Inputs]
      /\ loc' \in [Requests -> Locals]
      /\ hung' \subseteq Requests
  BY <1>1 DEF HandlersOK, WellFormed
<1>3. ASSUME NEW q \in Requests
      PROVE  Coherent(pc'[q], req'[q], loc'[q])
  <2>1. CASE q = r
    <3>1. pc'[q] = call /\ req'[q] = input /\ loc'[q] = l
      BY <1>1, <2>1 DEF HandlersOK
    <3> QED
      BY <3>1 DEF WellFormed
  <2>2. CASE q # r
    <3>1. pc'[q] = pc[q] /\ req'[q] = req[q] /\ loc'[q] = loc[q]
      BY <1>1, <2>2 DEF HandlersOK
    <3> QED
      BY <3>1 DEF HandlersOK
  <2> QED
    BY <2>1, <2>2
<1> QED
  BY <1>2, <1>3 DEF HandlersOK

LEMMA IdleWellFormed ==
    ASSUME NEW code \in Codes
    PROVE  WellFormed("idle", NoInput, [NoLocals EXCEPT !.code = code])
<1>1. [NoLocals EXCEPT !.code = code] \in Locals
  BY NoLocalsType DEF Locals
<1>2. [NoLocals EXCEPT !.code = code].known = NoRecord
  BY DEF NoLocals
<1> QED
  BY <1>1, <1>2, NoInputType DEF WellFormed, Coherent, Calls

LEMMA AnswerKeeps ==
    ASSUME HandlersOK, NEW r \in Requests, NEW code \in Codes, Answer(r, code)
    PROVE  HandlersOK'
<1> DEFINE c == IF r \in hung THEN "lost" ELSE code
           l == [NoLocals EXCEPT !.code = c]
<1>1. WellFormed("idle", NoInput, l)
  BY IdleWellFormed DEF Codes
<1> HIDE DEF l
<1>2. /\ pc' = [pc EXCEPT ![r] = "idle"]
      /\ req' = [req EXCEPT ![r] = NoInput]
      /\ loc' = [loc EXCEPT ![r] = l]
      /\ hung' = hung \ {r}
  BY DEF Answer, l
<1>3. /\ pc' \in [Requests -> Calls]
      /\ req' \in [Requests -> Inputs]
      /\ loc' \in [Requests -> Locals]
      /\ hung' \subseteq Requests
  BY <1>1, <1>2 DEF HandlersOK, WellFormed
<1>4. ASSUME NEW q \in Requests
      PROVE  Coherent(pc'[q], req'[q], loc'[q])
  <2>1. CASE q = r
    <3>1. pc'[q] = "idle" /\ req'[q] = NoInput /\ loc'[q] = l
      BY <1>2, <2>1 DEF HandlersOK
    <3> QED
      BY <1>1, <3>1 DEF WellFormed
  <2>2. CASE q # r
    <3>1. pc'[q] = pc[q] /\ req'[q] = req[q] /\ loc'[q] = loc[q]
      BY <1>2, <2>2 DEF HandlersOK
    <3> QED
      BY <3>1 DEF HandlersOK
  <2> QED
    BY <2>1, <2>2
<1> QED
  BY <1>3, <1>4 DEF HandlersOK

\* Continuing and answering are all a handler does to its own state.
LEMMA GotoKeeps ==
    ASSUME HandlersOK, NEW r \in Requests, NEW call, NEW l,
           WellFormed(call, req[r], l), Goto(r, call, l)
    PROVE  HandlersOK'
BY ContinueKeeps DEF Goto

\* A handler's own state, as the steps below use it.
LEMMA OwnState ==
    ASSUME HandlersOK, NEW r \in Requests
    PROVE  /\ pc[r] \in Calls
           /\ req[r] \in Inputs
           /\ loc[r] \in Locals
           /\ Coherent(pc[r], req[r], loc[r])
BY DEF HandlersOK

LEMMA AbandonKeeps ==
    ASSUME HandlersOK, NEW r \in Requests, NEW code \in Codes,
           pc[r] \in {"applyGet", "applyPut", "recGet", "recPut"},
           Abandon(r, code)
    PROVE  HandlersOK'
<1> DEFINE l == [loc[r] EXCEPT !.todo = loc[r].applied, !.code = code]
<1>1. CASE req[r].op = "provision" /\ loc[r].applied # <<>>
  <2>1. Goto(r, "undo", l)
    BY <1>1 DEF Abandon
  <2>2. l \in Locals /\ l.todo # <<>> /\ l.known = loc[r].known
    BY <1>1, OwnState DEF Locals
  <2>3. WellFormed("undo", req[r], l)
    BY <2>2, OwnState DEF WellFormed, Coherent, Calls
  <2> QED
    BY <2>1, <2>3, GotoKeeps
<1>2. CASE ~(req[r].op = "provision" /\ loc[r].applied # <<>>)
  BY <1>2, AnswerKeeps DEF Abandon
<1> QED
  BY <1>1, <1>2

LEMMA AfterApplyKeeps ==
    ASSUME HandlersOK, NEW r \in Requests, NEW l \in Locals,
           req[r].op \in {"provision", "update"}, req[r].plan \in Plans,
           ParamsAllowed(req[r].plan, l.merged),
           req[r].op = "provision" => l.applied # <<>>,
           l.known # NoRecord => l.known.refs # <<>>,
           AfterApply(r, l)
    PROVE  HandlersOK'
<1>1. CASE req[r].op = "update" /\ l.known = NoRecord
  BY <1>1, AnswerKeeps DEF AfterApply, Codes
<1>2. CASE ~(req[r].op = "update" /\ l.known = NoRecord)
  <2>1. WellFormed("recGet", req[r], l)
    BY <1>2, OwnState DEF WellFormed, Coherent, Calls
  <2> QED
    BY <1>2, <2>1, GotoKeeps DEF AfterApply
<1> QED
  BY <1>1, <1>2

LEMMA NextDocumentKeeps ==
    ASSUME HandlersOK, NEW r \in Requests, pc[r] = "applyPut", NextDocument(r)
    PROVE  HandlersOK'
<1> DEFINE l == [loc[r] EXCEPT !.applied = Append(@, Head(loc[r].todo)), !.todo = Tail(@)]
<1>1. /\ loc[r] \in Locals /\ loc[r].todo # <<>>
      /\ req[r].op \in {"provision", "update"} /\ req[r].plan \in Plans
      /\ ParamsAllowed(req[r].plan, loc[r].merged)
      /\ loc[r].known # NoRecord => loc[r].known.refs # <<>>
  BY OwnState DEF Coherent
<1>2. /\ Head(loc[r].todo) \in ObjectKeys
      /\ Tail(loc[r].todo) \in Seq(ObjectKeys)
  BY <1>1, HeadTailProperties DEF Locals
<1>3. /\ Append(loc[r].applied, Head(loc[r].todo)) \in Seq(ObjectKeys)
      /\ Append(loc[r].applied, Head(loc[r].todo)) # <<>>
  BY <1>1, <1>2, AppendProperties DEF Locals
<1>4. /\ l \in Locals /\ l.applied # <<>>
      /\ l.known = loc[r].known /\ l.merged = loc[r].merged
  BY <1>1, <1>2, <1>3 DEF Locals
<1> HIDE DEF l
<1>5. CASE l.todo = <<>>
  <2>1. AfterApply(r, l)
    BY <1>5 DEF NextDocument, l
  <2> QED
    BY <1>1, <1>4, <2>1, AfterApplyKeeps
<1>6. CASE l.todo # <<>>
  <2>1. Goto(r, "applyGet", l)
    BY <1>6 DEF NextDocument, l
  <2>2. WellFormed("applyGet", req[r], l)
    BY <1>1, <1>4, <1>6, OwnState DEF WellFormed, Coherent, Calls
  <2> QED
    BY <2>1, <2>2, GotoKeeps
<1> QED
  BY <1>5, <1>6

-----------------------------------------------------------------------------
(* Every step keeps the invariant, one lemma per action.                   *)

\* Steps that touch neither the store nor the cluster.
LEMMA HandlersOnly ==
    ASSUME IInv, HandlersOK', UNCHANGED <<store, cluster>>
    PROVE  IInv'
BY DEF IInv, RecordsOK, ObjectsOK, store, cluster

LEMMA ReceiveKeeps ==
    ASSUME IInv, NEW r \in Requests, NEW input \in Inputs,
           NEW call \in {"lookup", "service"},
           call = "lookup" /\ input.op = "provision" => input.plan \in Plans,
           call = "service" => input.op = "deprovision",
           Receive(r, input, call)
    PROVE  IInv'
<1> DEFINE l == [NoLocals EXCEPT !.code = "ok", !.merged = input.params]
<1>1. l \in Locals /\ l.merged = input.params /\ l.known = NoRecord
  BY NoLocalsType DEF Locals, Inputs, Codes, NoLocals
<1>2. WellFormed(call, input, l)
  BY <1>1 DEF WellFormed, Coherent, Calls
<1>3. Continue(r, call, input, l)
  BY DEF Receive
<1>4. HandlersOK'
  BY <1>2, <1>3, ContinueKeeps DEF IInv
<1> QED
  BY <1>4, HandlersOnly DEF Receive

LEMMA InputType ==
    ASSUME NEW op \in {"provision", "update", "deprovision"}, NEW i \in Instances,
           NEW s \in Services \union {NoService}, NEW p \in Plans \union {NoPlan},
           NEW params \in ParamSets, NEW ns \in Namespaces, NEW opt \in BOOLEAN
    PROVE  /\ Input(op, i, s, p, params, ns, opt) \in Inputs
           /\ Input(op, i, s, p, params, ns, opt).op = op
           /\ Input(op, i, s, p, params, ns, opt).plan = p
BY DEF Input, Inputs

LEMMA ArriveStep ==
    ASSUME IInv, NEW r \in Requests, Arrive(r)
    PROVE  IInv'
<1>1. CASE ReceiveProvision(r)
  <2>1. PICK i \in Instances, s \in Services, p \in Plans, params \in ParamSets,
             ns \in Namespaces, async \in BOOLEAN :
            \/ Receive(r, Input("provision", i, s, p, params, ns, async), "lookup")
            \/ Answer(r, "invalid") /\ UNCHANGED <<store, cluster>>
    BY <1>1 DEF ReceiveProvision
  <2>2. CASE Receive(r, Input("provision", i, s, p, params, ns, async), "lookup")
    BY <2>2, InputType, ReceiveKeeps
  <2>3. CASE Answer(r, "invalid") /\ UNCHANGED <<store, cluster>>
    BY <2>3, AnswerKeeps, HandlersOnly DEF Codes, IInv
  <2> QED
    BY <2>1, <2>2, <2>3
<1>2. CASE ReceiveUpdate(r)
  <2>1. PICK i \in Instances, s \in Services \union {NoService}, p \in Plans \union {NoPlan},
             params \in ParamSets, current \in BOOLEAN :
            Receive(r, Input("update", i, s, p, params, Default, current), "lookup")
    BY <1>2 DEF ReceiveUpdate
  <2> QED
    BY <2>1, InputType, ReceiveKeeps, EnvironmentAssumption
<1>3. CASE ReceiveDeprovision(r)
  <2>1. PICK i \in Instances, s \in Services \union {NoService} :
            Receive(r, Input("deprovision", i, s, NoPlan, NoParams, Default, FALSE),
                    IF s = NoService THEN "service" ELSE "lookup")
    BY <1>3 DEF ReceiveDeprovision
  <2> DEFINE input == Input("deprovision", i, s, NoPlan, NoParams, Default, FALSE)
             call  == IF s = NoService THEN "service" ELSE "lookup"
  <2>2. input \in Inputs /\ input.op = "deprovision"
    BY NoParamsType, EnvironmentAssumption DEF Input, Inputs
  <2>3. call \in {"lookup", "service"} /\ Receive(r, input, call)
    BY <2>1
  <2> HIDE DEF input, call
  <2> QED
    BY <2>2, <2>3, ReceiveKeeps
<1> QED
  BY <1>1, <1>2, <1>3 DEF Arrive

LEMMA LookupProvisionStep ==
    ASSUME IInv, NEW r \in Requests, LookupProvision(r)
    PROVE  IInv'
<1>1. HandlersOK
  BY DEF IInv
<1>2. CASE \E code \in Codes : Answer(r, code)
  BY <1>1, <1>2, AnswerKeeps, HandlersOnly DEF LookupProvision
<1>3. CASE /\ ParamsAllowed(req[r].plan, req[r].params)
           /\ Goto(r, "namespace", loc[r])
  <2>1. WellFormed("namespace", req[r], loc[r])
    BY <1>1, <1>3, OwnState DEF LookupProvision, WellFormed, Coherent, Calls
  <2> QED
    BY <1>1, <1>3, <2>1, GotoKeeps, HandlersOnly DEF LookupProvision
<1> QED
  BY <1>2, <1>3 DEF LookupProvision, Codes

LEMMA PrepareNamespaceStep ==
    ASSUME IInv, NEW r \in Requests, PrepareNamespace(r)
    PROVE  IInv'
<1> DEFINE docs == ManifestKeys(req[r].inst, req[r].ns, Content(r))
           l    == [loc[r] EXCEPT !.todo = docs]
<1>1. HandlersOK /\ UNCHANGED <<store, cluster>>
  BY DEF IInv, PrepareNamespace
<1>2. CASE Goto(r, "applyGet", l)
  <2>1. /\ req[r] \in Inputs /\ loc[r] \in Locals
        /\ Coherent("namespace", req[r], loc[r])
    BY <1>1, OwnState DEF PrepareNamespace
  <2>2. docs \in Seq(ObjectKeys) /\ docs # <<>>
    BY <2>1, ContentType, ManifestKeysType DEF Inputs, Locals, Coherent, Content
  <2> HIDE DEF docs
  <2>3. l \in Locals /\ l.todo # <<>> /\ l.merged = loc[r].merged /\ l.known = loc[r].known
    BY <2>1, <2>2 DEF Locals
  <2>4. WellFormed("applyGet", req[r], l)
    BY <2>1, <2>3 DEF WellFormed, Coherent, Calls
  <2> QED
    BY <1>1, <1>2, <2>4, GotoKeeps, HandlersOnly
<1>3. CASE Answer(r, "error")
  BY <1>1, <1>3, AnswerKeeps, HandlersOnly DEF Codes
<1> QED
  BY <1>2, <1>3 DEF PrepareNamespace

LEMMA ApplyGetStep ==
    ASSUME IInv, NEW r \in Requests, ApplyGet(r)
    PROVE  IInv'
<1> DEFINE seen == objects[Head(loc[r].todo)] # NoObject
           l    == [loc[r] EXCEPT !.found = seen]
<1>1. HandlersOK /\ UNCHANGED <<store, cluster>> /\ pc[r] = "applyGet"
  BY DEF IInv, ApplyGet
<1>2. CASE Goto(r, "applyPut", l)
  <2>1. /\ req[r] \in Inputs /\ loc[r] \in Locals
        /\ Coherent("applyGet", req[r], loc[r])
    BY <1>1, OwnState
  <2>2. seen \in BOOLEAN
    OBVIOUS
  <2> HIDE DEF seen
  <2>3. /\ l \in Locals /\ l.todo = loc[r].todo /\ l.merged = loc[r].merged
        /\ l.known = loc[r].known
    BY <2>1, <2>2 DEF Locals
  <2>4. WellFormed("applyPut", req[r], l)
    BY <2>1, <2>3 DEF WellFormed, Coherent, Calls
  <2> QED
    BY <1>1, <1>2, <2>4, GotoKeeps, HandlersOnly
<1>3. CASE Abandon(r, "error")
  BY <1>1, <1>3, AbandonKeeps, HandlersOnly DEF Codes
<1> QED
  BY <1>2, <1>3 DEF ApplyGet

\* What is written is the content the handler checked against its plan.
LEMMA PutKeeps ==
    ASSUME IInv, NEW r \in Requests, pc[r] = "applyPut",
           NEW k \in ObjectKeys, Put(r, k)
    PROVE  ObjectsOK' /\ labelled' \subseteq ObjectKeys
<1>1. /\ req[r].plan \in Plans /\ loc[r].merged \in ParamSets
      /\ ParamsAllowed(req[r].plan, loc[r].merged)
  BY OwnState DEF IInv, Coherent, Locals
<1>2. /\ Content(r) \in Contents
      /\ ParamsAllowed(Content(r).plan, Content(r).params)
  BY <1>1 DEF Content, Contents
<1>3. objects' = [objects EXCEPT ![k] = Content(r)] /\ labelled' = labelled \ {k}
  BY DEF Put
<1>4. objects' \in [ObjectKeys -> Contents \union {NoObject}]
  BY <1>2, <1>3 DEF IInv, ObjectsOK
<1>5. ASSUME NEW j \in ObjectKeys, objects'[j] # NoObject
      PROVE  ParamsAllowed(objects'[j].plan, objects'[j].params)
  <2>1. CASE j = k
    BY <1>2, <1>3, <2>1 DEF IInv, ObjectsOK
  <2>2. CASE j # k
    <3>1. objects'[j] = objects[j]
      BY <1>3, <2>2 DEF IInv, ObjectsOK
    <3> QED
      BY <1>5, <3>1 DEF IInv, ObjectsOK
  <2> QED
    BY <2>1, <2>2
<1> QED
  BY <1>3, <1>4, <1>5 DEF ObjectsOK, IInv

LEMMA RemoveKeeps ==
    ASSUME IInv, NEW r \in Requests, NEW k \in ObjectKeys, Remove(r, k)
    PROVE  ObjectsOK' /\ labelled' \subseteq ObjectKeys
<1>1. objects' = [objects EXCEPT ![k] = NoObject] /\ labelled' = labelled \ {k}
  BY DEF Remove
<1>2. objects' \in [ObjectKeys -> Contents \union {NoObject}]
  BY <1>1 DEF IInv, ObjectsOK
<1>3. \A j \in ObjectKeys : objects'[j] = NoObject \/ objects'[j] = objects[j]
  BY <1>1 DEF IInv, ObjectsOK
<1> QED
  BY <1>1, <1>2, <1>3 DEF ObjectsOK, IInv

LEMMA ClusterStep ==
    ASSUME IInv, HandlersOK', UNCHANGED store,
           ObjectsOK', labelled' \subseteq ObjectKeys
    PROVE  IInv'
BY DEF IInv, RecordsOK, store

LEMMA ApplyPutStep ==
    ASSUME IInv, NEW r \in Requests, ApplyPut(r)
    PROVE  IInv'
<1> DEFINE k == Head(loc[r].todo)
<1>1. HandlersOK /\ UNCHANGED store /\ pc[r] = "applyPut"
  BY DEF IInv, ApplyPut
<1>2. k \in ObjectKeys
  BY <1>1, OwnState, HeadTailProperties DEF Coherent, Locals
<1>3. \/ Put(r, k) /\ NextDocument(r)
      \/ UNCHANGED cluster /\ NextDocument(r)
      \/ UNCHANGED cluster /\ \E code \in Codes : Abandon(r, code)
      \/ Put(r, k) /\ Abandon(r, "error")
  BY DEF ApplyPut, Codes
<1> HIDE DEF k
<1>4. HandlersOK'
  BY <1>1, <1>3, NextDocumentKeeps, AbandonKeeps DEF Codes
<1>5. ObjectsOK' /\ labelled' \subseteq ObjectKeys
  <2>1. CASE Put(r, k)
    BY <1>1, <1>2, <2>1, PutKeeps
  <2>2. CASE UNCHANGED cluster
    BY <2>2 DEF IInv, ObjectsOK, cluster
  <2> QED
    BY <1>3, <2>1, <2>2
<1> QED
  BY <1>1, <1>4, <1>5, ClusterStep

\* The rest of a list of references still to be handled.
LEMMA RestType ==
    ASSUME HandlersOK, NEW r \in Requests, loc[r].todo # <<>>, NEW code \in Codes
    PROVE  /\ Head(loc[r].todo) \in ObjectKeys
           /\ [loc[r] EXCEPT !.todo = Tail(loc[r].todo)] \in Locals
           /\ [loc[r] EXCEPT !.todo = Tail(loc[r].todo), !.code = code] \in Locals
BY OwnState, HeadTailProperties DEF Locals

LEMMA UndoStep ==
    ASSUME IInv, NEW r \in Requests, Undo(r)
    PROVE  IInv'
<1> DEFINE k    == Head(loc[r].todo)
           rest == Tail(loc[r].todo)
           l    == [loc[r] EXCEPT !.todo = rest]
<1>1. HandlersOK /\ UNCHANGED store /\ pc[r] = "undo"
  BY DEF IInv, Undo
<1>2. /\ req[r] \in Inputs /\ loc[r] \in Locals /\ loc[r].code \in Codes
      /\ Coherent("undo", req[r], loc[r])
  BY <1>1, OwnState DEF Locals
<1>3. k \in ObjectKeys /\ l \in Locals /\ l.todo = rest /\ l.known = loc[r].known
  <2>1. loc[r].todo # <<>>
    BY <1>2 DEF Coherent
  <2>2. k \in ObjectKeys /\ l \in Locals
    BY <1>1, <1>2, <2>1, RestType
  <2> QED
    BY <1>2, <2>2 DEF Locals
<1>4. \/ Remove(r, k) /\ rest = <<>> /\ Answer(r, loc[r].code)
      \/ Remove(r, k) /\ rest # <<>> /\ Goto(r, "undo", l)
      \/ UNCHANGED cluster /\ Answer(r, loc[r].code)
  BY DEF Undo
<1> HIDE DEF k, rest, l
<1>5. HandlersOK'
  <2>1. CASE Answer(r, loc[r].code)
    BY <1>1, <1>2, <2>1, AnswerKeeps
  <2>2. CASE rest # <<>> /\ Goto(r, "undo", l)
    <3>1. WellFormed("undo", req[r], l)
      BY <1>2, <1>3, <2>2 DEF WellFormed, Coherent, Calls
    <3> QED
      BY <1>1, <2>2, <3>1, GotoKeeps
  <2> QED
    BY <1>4, <2>1, <2>2
<1>6. ObjectsOK' /\ labelled' \subseteq ObjectKeys
  <2>1. CASE Remove(r, k)
    BY <1>3, <2>1, RemoveKeeps
  <2>2. CASE UNCHANGED cluster
    BY <2>2 DEF IInv, ObjectsOK, cluster
  <2> QED
    BY <1>4, <2>1, <2>2
<1> QED
  BY <1>1, <1>5, <1>6, ClusterStep

LEMMA RecGetStep ==
    ASSUME IInv, NEW r \in Requests, RecGet(r)
    PROVE  IInv'
<1> DEFINE seen == records[req[r].inst] # NoRecord
           l    == [loc[r] EXCEPT !.found = seen]
<1>1. HandlersOK /\ UNCHANGED <<store, cluster>> /\ pc[r] = "recGet"
  BY DEF IInv, RecGet
<1>2. CASE Goto(r, "recPut", l)
  <2>1. /\ req[r] \in Inputs /\ loc[r] \in Locals
        /\ Coherent("recGet", req[r], loc[r])
    BY <1>1, OwnState
  <2>2. seen \in BOOLEAN
    OBVIOUS
  <2> HIDE DEF seen
  <2>3. /\ l \in Locals /\ l.applied = loc[r].applied /\ l.merged = loc[r].merged
        /\ l.known = loc[r].known
    BY <2>1, <2>2 DEF Locals
  <2>4. WellFormed("recPut", req[r], l)
    BY <2>1, <2>3 DEF WellFormed, Coherent, Calls
  <2> QED
    BY <1>1, <1>2, <2>4, GotoKeeps, HandlersOnly
<1>3. CASE Abandon(r, "error")
  BY <1>1, <1>3, AbandonKeeps, HandlersOnly DEF Codes
<1> QED
  BY <1>2, <1>3 DEF RecGet

\* The record a handler writes: typed, with references, within the whitelist.
LEMMA RecordOfOK ==
    ASSUME HandlersOK, NEW r \in Requests, pc[r] = "recPut"
    PROVE  /\ RecordOf(r) \in Records
           /\ RecordOf(r).refs # <<>>
           /\ ParamsAllowed(RecordOf(r).plan, RecordOf(r).params)
<1>1. /\ req[r] \in Inputs /\ loc[r] \in Locals
      /\ Coherent("recPut", req[r], loc[r])
  BY OwnState
<1>2. /\ req[r].plan \in Plans /\ loc[r].merged \in ParamSets /\ req[r].ns \in Namespaces
      /\ loc[r].applied \in Seq(ObjectKeys) /\ loc[r].known \in Records \union {NoRecord}
      /\ ParamsAllowed(req[r].plan, loc[r].merged)
  BY <1>1 DEF Inputs, Locals, Coherent
<1>3. CASE req[r].op = "update"
  <2>1. loc[r].known \in Records /\ loc[r].known.refs # <<>>
    BY <1>1, <1>2, <1>3 DEF Coherent
  <2>2. /\ UpdatedRecord(r) \in Records
        /\ UpdatedRecord(r).plan = req[r].plan /\ UpdatedRecord(r).params = loc[r].merged
        /\ UpdatedRecord(r).refs # <<>>
    BY <1>2, <2>1 DEF UpdatedRecord, Records
  <2> QED
    BY <1>2, <1>3, <2>2 DEF RecordOf
<1>4. CASE req[r].op # "update"
  <2>1. loc[r].applied # <<>>
    BY <1>1, <1>4 DEF Coherent
  <2>2. /\ NewRecord(r) \in Records
        /\ NewRecord(r).plan = req[r].plan /\ NewRecord(r).params = loc[r].merged
        /\ NewRecord(r).refs # <<>>
    BY <1>2, <2>1 DEF NewRecord, Records
  <2> QED
    BY <1>2, <1>4, <2>2 DEF RecordOf
<1> QED
  BY <1>3, <1>4

LEMMA StoreStep ==
    ASSUME IInv, HandlersOK', UNCHANGED <<bound, cluster>>, RecordsOK'
    PROVE  IInv'
BY DEF IInv, ObjectsOK, cluster

LEMMA RecPutStep ==
    ASSUME IInv, NEW r \in Requests, RecPut(r)
    PROVE  IInv'
<1> DEFINE i == req[r].inst
           write == records' = [records EXCEPT ![i] = RecordOf(r)]
<1>1. HandlersOK /\ UNCHANGED <<bound, cluster>> /\ pc[r] = "recPut"
  BY DEF IInv, RecPut
<1>2. /\ write \/ UNCHANGED records
      /\ \E code \in Codes : Answer(r, code) \/ Abandon(r, code)
  BY DEF RecPut, Codes
<1>3. HandlersOK'
  BY <1>1, <1>2, AnswerKeeps, AbandonKeeps
<1>4. RecordsOK'
  <2>1. CASE write
    <3>1. i \in Instances
      BY <1>1, OwnState DEF Inputs
    <3>2. /\ RecordOf(r) \in Records /\ RecordOf(r).refs # <<>>
          /\ ParamsAllowed(RecordOf(r).plan, RecordOf(r).params)
      BY <1>1, RecordOfOK
    <3>3. records' \in [Instances -> Records \union {NoRecord}]
      BY <2>1, <3>2 DEF IInv, RecordsOK
    <3>4. \A j \in Instances :
             records'[j] = records[j] \/ records'[j] = RecordOf(r)
      BY <2>1 DEF IInv, RecordsOK
    <3> QED
      BY <3>2, <3>3, <3>4 DEF IInv, RecordsOK
  <2>2. CASE UNCHANGED records
    BY <2>2 DEF IInv, RecordsOK
  <2> QED
    BY <1>2, <2>1, <2>2
<1> QED
  BY <1>1, <1>3, <1>4, StoreStep

LEMMA LookupUpdateStep ==
    ASSUME IInv, NEW r \in Requests, LookupUpdate(r)
    PROVE  IInv'
<1> DEFINE rec    == records[req[r].inst]
           svc    == IF req[r].service = NoService THEN ServiceOf[rec.plan] ELSE req[r].service
           target == IF req[r].plan = NoPlan THEN rec.plan ELSE req[r].plan
           input  == [req[r] EXCEPT !.service = svc, !.plan = target, !.ns = rec.ns]
<1>1. HandlersOK /\ UNCHANGED <<store, cluster>> /\ req[r].op = "update"
  BY DEF IInv, LookupUpdate
<1>2. CASE \E code \in Codes : Answer(r, code)
  BY <1>1, <1>2, AnswerKeeps, HandlersOnly
<1>3. CASE /\ rec # NoRecord
           /\ Continue(r, "engineRead", input, loc[r])
  <2>1. req[r] \in Inputs /\ loc[r] \in Locals /\ Coherent(pc[r], req[r], loc[r])
    BY <1>1, OwnState
  <2>2. rec.plan \in Plans /\ rec.ns \in Namespaces /\ ServiceOf[rec.plan] \in Services
    BY <1>3, <2>1, CatalogAssumption DEF IInv, RecordsOK, Records, Inputs
  <2>3. svc \in Services /\ target \in Plans
    BY <2>1, <2>2 DEF Inputs
  <2> HIDE DEF svc, target
  <2>4. input \in Inputs /\ input.plan \in Plans /\ input.op = "update"
    BY <1>1, <2>1, <2>2, <2>3 DEF Inputs
  <2> HIDE DEF input
  <2>5. WellFormed("engineRead", input, loc[r])
    BY <2>1, <2>4 DEF WellFormed, Coherent, Calls
  <2> QED
    BY <1>1, <1>3, <2>5, ContinueKeeps, HandlersOnly
<1> QED
  BY <1>2, <1>3 DEF LookupUpdate, Codes

LEMMA EngineReadUpdateStep ==
    ASSUME IInv, NEW r \in Requests, EngineReadUpdate(r)
    PROVE  IInv'
<1> DEFINE i == req[r].inst
           docs(merged) ==
               ManifestKeys(i, req[r].ns, [plan |-> req[r].plan, params |-> merged])
           l(rec, merged) ==
               [loc[r] EXCEPT !.known = rec, !.merged = merged, !.todo = docs(merged)]
<1>1. HandlersOK /\ UNCHANGED <<store, cluster>>
  BY DEF IInv, EngineReadUpdate
<1>2. /\ req[r] \in Inputs /\ loc[r] \in Locals
      /\ req[r].op = "update" /\ req[r].plan \in Plans
      /\ i \in Instances /\ req[r].params \in ParamSets
  BY <1>1, OwnState DEF EngineReadUpdate, Coherent, Inputs
<1>3. ASSUME NEW merged \in ParamSets
      PROVE  docs(merged) \in Seq(ObjectKeys) /\ docs(merged) # <<>>
  BY <1>2, ContentType, ManifestKeysType DEF Inputs
<1>0. \/ Answer(r, "invalid")
      \/ /\ records[i] # NoRecord
         /\ ParamsAllowed(req[r].plan, Overlay(records[i].params, req[r].params))
         /\ Goto(r, "compare", l(records[i], Overlay(records[i].params, req[r].params)))
      \/ /\ ParamsAllowed(req[r].plan, req[r].params)
         /\ Goto(r, "compare", l(NoRecord, req[r].params))
  BY DEF EngineReadUpdate, EffectiveAllowed
<1> HIDE DEF docs
<1>4. ASSUME NEW rec \in Records \union {NoRecord}, NEW merged \in ParamSets,
             rec # NoRecord => rec.refs # <<>>,
             ParamsAllowed(req[r].plan, merged),
             Goto(r, "compare", l(rec, merged))
      PROVE  IInv'
  <2>1. /\ l(rec, merged) \in Locals /\ l(rec, merged).todo # <<>>
        /\ l(rec, merged).known = rec /\ l(rec, merged).merged = merged
    BY <1>2, <1>3 DEF Locals
  <2> HIDE DEF l
  <2>2. WellFormed("compare", req[r], l(rec, merged))
    BY <1>2, <1>4, <2>1 DEF WellFormed, Coherent, Calls
  <2> QED
    BY <1>1, <1>4, <2>2, GotoKeeps, HandlersOnly
<1>5. CASE Answer(r, "invalid")
  BY <1>1, <1>5, AnswerKeeps, HandlersOnly DEF Codes
<1>6. CASE /\ records[i] # NoRecord
           /\ ParamsAllowed(req[r].plan, Overlay(records[i].params, req[r].params))
           /\ Goto(r, "compare", l(records[i], Overlay(records[i].params, req[r].params)))
  <2>1. records[i] \in Records /\ records[i].params \in ParamSets /\ records[i].refs # <<>>
    BY <1>2, <1>6 DEF IInv, RecordsOK, Records
  <2>2. Overlay(records[i].params, req[r].params) \in ParamSets
    BY <1>2, <2>1, OverlayType
  <2> QED
    BY <1>4, <1>6, <2>1, <2>2
<1>7. CASE /\ ParamsAllowed(req[r].plan, req[r].params)
           /\ Goto(r, "compare", l(NoRecord, req[r].params))
  BY <1>2, <1>4, <1>7
<1> QED
  BY <1>0, <1>5, <1>6, <1>7

LEMMA CompareStep ==
    ASSUME IInv, NEW r \in Requests, Compare(r)
    PROVE  IInv'
<1> DEFINE all     == ManifestKeys(req[r].inst, req[r].ns, Content(r))
           rest    == Tail(loc[r].todo)
           with(t) == [loc[r] EXCEPT !.todo = t]
<1>1. HandlersOK /\ UNCHANGED <<store, cluster>> /\ pc[r] = "compare"
  BY DEF IInv, Compare
<1>2. /\ req[r] \in Inputs /\ loc[r] \in Locals /\ Coherent("compare", req[r], loc[r])
  BY <1>1, OwnState
<1>3. rest \in Seq(ObjectKeys) /\ <<>> \in Seq(ObjectKeys)
  BY <1>2, HeadTailProperties, EmptySeq DEF Coherent, Locals
<1>4. all \in Seq(ObjectKeys) /\ all # <<>>
  BY <1>2, ContentType, ManifestKeysType DEF Inputs, Locals, Coherent, Content
<1>5. ASSUME NEW t \in Seq(ObjectKeys)
      PROVE  /\ with(t) \in Locals /\ with(t).todo = t /\ with(t).known = loc[r].known
             /\ with(t).merged = loc[r].merged /\ with(t).applied = loc[r].applied
  BY <1>2 DEF Locals
<1>6. \/ Goto(r, "applyGet", with(all))
      \/ rest # <<>> /\ Goto(r, "compare", with(rest))
      \/ AfterApply(r, with(<<>>))
  BY DEF Compare
<1> HIDE DEF all, rest, with
<1>7. CASE Goto(r, "applyGet", with(all))
  <2>1. WellFormed("applyGet", req[r], with(all))
    BY <1>2, <1>4, <1>5 DEF WellFormed, Coherent, Calls
  <2> QED
    BY <1>1, <1>7, <2>1, GotoKeeps, HandlersOnly
<1>8. CASE rest # <<>> /\ Goto(r, "compare", with(rest))
  <2>1. WellFormed("compare", req[r], with(rest))
    BY <1>2, <1>3, <1>5, <1>8 DEF WellFormed, Coherent, Calls
  <2> QED
    BY <1>1, <1>8, <2>1, GotoKeeps, HandlersOnly
<1>9. CASE AfterApply(r, with(<<>>))
  <2>1. /\ with(<<>>) \in Locals /\ with(<<>>).known = loc[r].known
        /\ with(<<>>).merged = loc[r].merged
    BY <1>3, <1>5
  <2>2. /\ req[r].op \in {"provision", "update"} /\ req[r].plan \in Plans
        /\ ParamsAllowed(req[r].plan, with(<<>>).merged)
        /\ with(<<>>).known # NoRecord => with(<<>>).known.refs # <<>>
    BY <1>2, <2>1 DEF Coherent
  <2>3. req[r].op # "provision"
    BY <1>2, <1>1 DEF Coherent
  <2> QED
    BY <1>1, <1>9, <2>1, <2>2, <2>3, AfterApplyKeeps, HandlersOnly
<1> QED
  BY <1>6, <1>7, <1>8, <1>9

LEMMA FindServiceStep ==
    ASSUME IInv, NEW r \in Requests, FindService(r)
    PROVE  IInv'
<1> DEFINE i     == req[r].inst
           input == [req[r] EXCEPT !.service = ServiceOf[records[i].plan]]
<1>1. HandlersOK /\ UNCHANGED <<store, cluster>> /\ pc[r] = "service"
  BY DEF IInv, FindService
<1>2. /\ req[r] \in Inputs /\ loc[r] \in Locals /\ Coherent("service", req[r], loc[r])
  BY <1>1, OwnState
<1>3. \/ records[i] # NoRecord /\ Continue(r, "lookup", input, loc[r])
      \/ Goto(r, "lookup", loc[r])
  BY DEF FindService
<1>4. CASE records[i] # NoRecord /\ Continue(r, "lookup", input, loc[r])
  <2>1. records[i] \in Records
    BY <1>2, <1>4 DEF IInv, RecordsOK, Inputs
  <2>2. ServiceOf[records[i].plan] \in Services
    BY <2>1, CatalogAssumption DEF Records
  <2>3. input \in Inputs /\ input.op = "deprovision"
    BY <1>2, <2>2 DEF Inputs, Coherent
  <2> HIDE DEF input
  <2>4. WellFormed("lookup", input, loc[r])
    BY <1>2, <2>3 DEF WellFormed, Coherent, Calls
  <2> QED
    BY <1>1, <1>4, <2>4, ContinueKeeps, HandlersOnly
<1>5. CASE Goto(r, "lookup", loc[r])
  <2>1. WellFormed("lookup", req[r], loc[r])
    BY <1>2 DEF WellFormed, Coherent, Calls
  <2> QED
    BY <1>1, <1>5, <2>1, GotoKeeps, HandlersOnly
<1> QED
  BY <1>3, <1>4, <1>5

LEMMA LookupDeprovisionStep ==
    ASSUME IInv, NEW r \in Requests, LookupDeprovision(r)
    PROVE  IInv'
<1>1. HandlersOK /\ UNCHANGED <<store, cluster>>
  BY DEF IInv, LookupDeprovision
<1>2. \/ \E code \in Codes : Answer(r, code)
      \/ Goto(r, "bindings", loc[r])
  BY DEF LookupDeprovision, Codes
<1>3. WellFormed("bindings", req[r], loc[r])
  BY <1>1, OwnState DEF LookupDeprovision, WellFormed, Coherent, Calls
<1> QED
  BY <1>1, <1>2, <1>3, AnswerKeeps, GotoKeeps, HandlersOnly

LEMMA CheckBindingsStep ==
    ASSUME IInv, NEW r \in Requests, CheckBindings(r)
    PROVE  IInv'
<1>1. HandlersOK /\ UNCHANGED <<store, cluster>>
  BY DEF IInv, CheckBindings
<1>2. \/ \E code \in Codes : Answer(r, code)
      \/ Goto(r, "nsRead", loc[r])
  BY DEF CheckBindings, Codes
<1>3. pc[r] = "bindings"
  BY DEF CheckBindings
<1>4. WellFormed("nsRead", req[r], loc[r])
  BY <1>1, <1>3, OwnState DEF WellFormed, Coherent, Calls
<1> QED
  BY <1>1, <1>2, <1>4, AnswerKeeps, GotoKeeps, HandlersOnly

LEMMA FindNamespaceStep ==
    ASSUME IInv, NEW r \in Requests, FindNamespace(r)
    PROVE  IInv'
<1> DEFINE i         == req[r].inst
           input(ns) == [req[r] EXCEPT !.ns = ns]
<1>1. HandlersOK /\ UNCHANGED <<store, cluster>> /\ pc[r] = "nsRead"
  BY DEF IInv, FindNamespace
<1>2. /\ req[r] \in Inputs /\ loc[r] \in Locals /\ Coherent("nsRead", req[r], loc[r])
  BY <1>1, OwnState
<1>3. \/ records[i] # NoRecord /\ Continue(r, "engineRead", input(records[i].ns), loc[r])
      \/ Continue(r, "engineRead", input(Default), loc[r])
  BY DEF FindNamespace
<1>4. ASSUME NEW ns \in Namespaces, Continue(r, "engineRead", input(ns), loc[r])
      PROVE  IInv'
  <2>1. input(ns) \in Inputs /\ input(ns).op = "deprovision"
    BY <1>2 DEF Inputs, Coherent
  <2> HIDE DEF input
  <2>2. WellFormed("engineRead", input(ns), loc[r])
    BY <1>2, <2>1 DEF WellFormed, Coherent, Calls
  <2> QED
    BY <1>1, <1>4, <2>2, ContinueKeeps, HandlersOnly
<1>5. CASE records[i] # NoRecord /\ Continue(r, "engineRead", input(records[i].ns), loc[r])
  <2>1. records[i].ns \in Namespaces
    BY <1>2, <1>5 DEF IInv, RecordsOK, Inputs, Records
  <2> QED
    BY <1>4, <1>5, <2>1
<1> QED
  BY <1>3, <1>4, <1>5, EnvironmentAssumption

LEMMA EngineReadDeprovisionStep ==
    ASSUME IInv, NEW r \in Requests, EngineReadDeprovision(r)
    PROVE  IInv'
<1> DEFINE i      == req[r].inst
           l(rec) == [loc[r] EXCEPT !.known = rec, !.todo = ToTearDown(i, req[r].ns, rec)]
<1>1. HandlersOK /\ UNCHANGED <<store, cluster>> /\ pc[r] = "engineRead"
  BY DEF IInv, EngineReadDeprovision
<1>2. req[r] \in Inputs /\ loc[r] \in Locals /\ req[r].op = "deprovision"
  BY <1>1, OwnState DEF EngineReadDeprovision
<1>3. \E rec \in {records[i], NoRecord}, call \in {"label", "delete"} : Goto(r, call, l(rec))
  BY DEF EngineReadDeprovision
<1>4. PICK rec \in {records[i], NoRecord}, call \in {"label", "delete"} : Goto(r, call, l(rec))
  BY <1>3
<1>5. /\ rec \in Records \union {NoRecord}
      /\ rec # NoRecord => rec.refs # <<>>
  BY <1>2 DEF IInv, RecordsOK, Inputs
<1>6. /\ ToTearDown(i, req[r].ns, rec) \in Seq(ObjectKeys)
      /\ ToTearDown(i, req[r].ns, rec) # <<>>
  <2>1. CASE rec = NoRecord
    BY <1>2, <2>1, SafeNameType DEF ToTearDown, Inputs
  <2>2. CASE rec # NoRecord
    BY <1>5, <2>2 DEF ToTearDown, Records
  <2> QED
    BY <2>1, <2>2
<1>7. l(rec) \in Locals /\ l(rec).todo # <<>> /\ l(rec).known = rec
  BY <1>2, <1>5, <1>6 DEF Locals
<1> HIDE DEF l
<1>8. WellFormed(call, req[r], l(rec))
  BY <1>2, <1>5, <1>7 DEF WellFormed, Coherent, Calls
<1> QED
  BY <1>1, <1>4, <1>8, GotoKeeps, HandlersOnly

\* What Label and Delete have in common: they work off a list, then forget.
LEMMA WorkOffKeeps ==
    ASSUME HandlersOK, NEW r \in Requests, pc[r] \in {"label", "delete"},
           NEW code \in Codes,
           Goto(r, IF Tail(loc[r].todo) = <<>> THEN "forget" ELSE pc[r],
                [loc[r] EXCEPT !.todo = Tail(loc[r].todo), !.code = code])
    PROVE  HandlersOK'
<1> DEFINE rest == Tail(loc[r].todo)
           l    == [loc[r] EXCEPT !.todo = rest, !.code = code]
           call == IF rest = <<>> THEN "forget" ELSE pc[r]
<1>1. /\ loc[r] \in Locals /\ req[r] \in Inputs /\ Coherent(pc[r], req[r], loc[r])
  BY OwnState
<1>2. req[r].op = "deprovision" /\ loc[r].todo # <<>>
  BY <1>1 DEF Coherent
<1>3. rest \in Seq(ObjectKeys)
  BY <1>1, <1>2, HeadTailProperties DEF Locals
<1>4. l \in Locals /\ l.todo = rest /\ l.known = loc[r].known
  BY <1>1, <1>3 DEF Locals
<1>5. Goto(r, call, l)
  OBVIOUS
<1>6. call \in {"forget", "label", "delete"} /\ (call # "forget" => rest # <<>>)
  OBVIOUS
<1> HIDE DEF l, rest, call
<1>7. WellFormed(call, req[r], l)
  BY <1>1, <1>2, <1>4, <1>6 DEF WellFormed, Coherent, Calls
<1> QED
  BY <1>5, <1>7, GotoKeeps

LEMMA LabelStep ==
    ASSUME IInv, NEW r \in Requests, Label(r)
    PROVE  IInv'
<1> DEFINE k == Head(loc[r].todo)
<1>1. /\ HandlersOK /\ pc[r] = "label"
      /\ UNCHANGED <<store, objects>>
  BY DEF IInv, Label
<1>2. loc[r] \in Locals /\ loc[r].todo # <<>>
  BY <1>1, OwnState DEF Coherent
<1>3. k \in ObjectKeys /\ loc[r].code \in Codes
  BY <1>2, HeadTailProperties DEF Locals
<1>4. labelled' \subseteq labelled \union {k}
  BY DEF Label
<1>5. \E code \in Codes :
         Goto(r, IF Tail(loc[r].todo) = <<>> THEN "forget" ELSE pc[r],
              [loc[r] EXCEPT !.todo = Tail(loc[r].todo), !.code = code])
  BY <1>1, <1>3 DEF Label, Codes
<1>6. HandlersOK'
  BY <1>1, <1>5, WorkOffKeeps
<1> QED
  BY <1>1, <1>3, <1>4, <1>6 DEF IInv, RecordsOK, ObjectsOK, store

LEMMA DeleteStep ==
    ASSUME IInv, NEW r \in Requests, Delete(r)
    PROVE  IInv'
<1> DEFINE k == Head(loc[r].todo)
<1>1. HandlersOK /\ pc[r] = "delete" /\ UNCHANGED store
  BY DEF IInv, Delete
<1>2. loc[r] \in Locals /\ loc[r].todo # <<>>
  BY <1>1, OwnState DEF Coherent
<1>3. k \in ObjectKeys /\ loc[r].code \in Codes
  BY <1>2, HeadTailProperties DEF Locals
<1>4. [loc[r] EXCEPT !.todo = Tail(loc[r].todo)]
        = [loc[r] EXCEPT !.todo = Tail(loc[r].todo), !.code = loc[r].code]
  BY <1>2 DEF Locals
<1>5. CASE /\ Remove(r, k)
           /\ Goto(r, IF Tail(loc[r].todo) = <<>> THEN "forget" ELSE pc[r],
                   [loc[r] EXCEPT !.todo = Tail(loc[r].todo), !.code = loc[r].code])
  BY <1>1, <1>3, <1>5, WorkOffKeeps, RemoveKeeps, ClusterStep
<1>6. CASE Answer(r, "error") /\ UNCHANGED cluster
  BY <1>1, <1>6, AnswerKeeps, HandlersOnly DEF Codes
<1> QED
  BY <1>1, <1>4, <1>5, <1>6 DEF Delete

LEMMA ForgetStep ==
    ASSUME IInv, NEW r \in Requests, Forget(r)
    PROVE  IInv'
<1>1. HandlersOK /\ UNCHANGED <<bound, cluster>>
  BY DEF IInv, Forget
<1>2. loc[r].code \in Codes
  BY <1>1, OwnState DEF Locals
<1>3. \E code \in Codes : Answer(r, code)
  BY <1>2 DEF Forget, Codes
<1>4. HandlersOK'
  BY <1>1, <1>3, AnswerKeeps
<1>5. RecordsOK'
  BY DEF Forget, IInv, RecordsOK
<1> QED
  BY <1>1, <1>4, <1>5, StoreStep

\* Bindings, the client and the process.
LEMMA SurroundingsStep ==
    ASSUME IInv,
           \/ \E i \in Instances : BindingAppears(i) \/ BindingDisappears(i)
           \/ \E r \in Requests : HangUp(r)
    PROVE  IInv'
<1>1. CASE \E i \in Instances : BindingAppears(i) \/ BindingDisappears(i)
  BY <1>1 DEF BindingAppears, BindingDisappears, IInv, HandlersOK, RecordsOK, ObjectsOK, cluster
<1>2. CASE \E r \in Requests : HangUp(r)
  BY <1>2 DEF HangUp, IInv, HandlersOK, RecordsOK, ObjectsOK, store, cluster
<1> QED
  BY <1>1, <1>2

LEMMA CrashStep ==
    ASSUME IInv, Crash
    PROVE  IInv'
<1> DEFINE lost == [NoLocals EXCEPT !.code = "lost"]
<1>1. WellFormed("idle", NoInput, lost)
  BY IdleWellFormed DEF Codes
<1> HIDE DEF lost
<1>2. /\ pc' = [r \in Requests |-> "idle"]
      /\ req' = [r \in Requests |-> NoInput]
      /\ loc' = [r \in Requests |-> IF InFlight(r) THEN lost ELSE loc[r]]
      /\ hung' = {}
      /\ UNCHANGED <<store, cluster>>
  BY DEF Crash, lost
<1>3. HandlersOK
  BY DEF IInv
<1>4. /\ loc' \in [Requests -> Locals]
      /\ \A r \in Requests : loc'[r] = lost \/ loc'[r] = loc[r]
  BY <1>1, <1>2, <1>3 DEF HandlersOK, WellFormed
<1>5. ASSUME NEW r \in Requests
      PROVE  Coherent("idle", NoInput, loc'[r])
  <2>1. loc[r] \in Locals /\ Coherent(pc[r], req[r], loc[r])
    BY <1>3, OwnState
  <2> QED
    BY <1>1, <1>4, <2>1 DEF WellFormed, Coherent
<1>6. HandlersOK'
  <2>1. /\ pc' \in [Requests -> Calls]
        /\ req' \in [Requests -> Inputs]
        /\ hung' \subseteq Requests
    BY <1>1, <1>2 DEF WellFormed
  <2>2. \A r \in Requests : pc'[r] = "idle" /\ req'[r] = NoInput
    BY <1>2
  <2> QED
    BY <1>4, <1>5, <2>1, <2>2 DEF HandlersOK
<1> QED
  BY <1>2, <1>6, HandlersOnly

-----------------------------------------------------------------------------
(* The invariant and the theorems.                                         *)

LEMMA InitIInv == Init => IInv
<1> SUFFICES ASSUME Init PROVE IInv
  OBVIOUS
<1>1. WellFormed("idle", NoInput, NoLocals)
  BY NoInputType, NoLocalsType DEF WellFormed, Coherent, Calls, NoLocals
<1>2. HandlersOK
  BY <1>1 DEF Init, HandlersOK, WellFormed
<1>3. RecordsOK /\ ObjectsOK
  BY DEF Init, RecordsOK, ObjectsOK
<1> QED
  BY <1>2, <1>3 DEF Init, IInv

LEMMA NextIInv == IInv /\ [Next]_vars => IInv'
<1> SUFFICES ASSUME IInv, [Next]_vars PROVE IInv'
  OBVIOUS
<1>1. ASSUME NEW r \in Requests, Handle(r) PROVE IInv'
  <2>1. CASE ProvisionStep(r)
    BY <2>1, LookupProvisionStep, PrepareNamespaceStep DEF ProvisionStep
  <2>2. CASE UpdateStep(r)
    BY <2>2, LookupUpdateStep, EngineReadUpdateStep, CompareStep DEF UpdateStep
  <2>3. CASE DeprovisionStep(r)
    BY <2>3, FindServiceStep, LookupDeprovisionStep, CheckBindingsStep, FindNamespaceStep,
       EngineReadDeprovisionStep, LabelStep, DeleteStep, ForgetStep DEF DeprovisionStep
  <2>4. CASE Apply(r)
    BY <2>4, ApplyGetStep, ApplyPutStep, UndoStep DEF Apply
  <2>5. CASE Record(r)
    BY <2>5, RecGetStep, RecPutStep DEF Record
  <2> QED
    BY <1>1, <2>1, <2>2, <2>3, <2>4, <2>5 DEF Handle
<1>2. CASE UNCHANGED vars
  BY <1>2 DEF vars, IInv, HandlersOK, RecordsOK, ObjectsOK
<1> QED
  BY <1>1, <1>2, ArriveStep, SurroundingsStep, CrashStep DEF Next

LEMMA IInvHolds == Spec => []IInv
BY InitIInv, NextIInv, PTL DEF Spec

\* Every variable keeps the type its comment gives, whatever fails and whoever
\* interferes: in particular no handler is ever left without a document to
\* work on, and no call is made with a plan the catalog does not have.
THEOREM TypeCorrect == Spec => []TypeOK
<1>1. IInv => TypeOK
  BY DEF IInv, HandlersOK, RecordsOK, ObjectsOK, TypeOK
<1> QED
  BY <1>1, IInvHolds, PTL

\* The whitelist of each plan holds for every stored record and every live
\* object, under every interleaving of handlers, failing calls, crashes and
\* lost replies, for every catalog.
THEOREM WhitelistHolds == Spec => []ConfigurationAllowed
<1>1. IInv => ConfigurationAllowed
  BY DEF IInv, RecordsOK, ObjectsOK, ConfigurationAllowed
<1> QED
  BY <1>1, IInvHolds, PTL
=============================================================================
