--------------------------- MODULE BindingLifecycle ---------------------------
(***************************************************************************)
(* The life of a binding: the bind and unbind handlers, the two objects    *)
(* CRDStateStore keeps for a binding (its record and a Secret with the     *)
(* credentials, owned by the record) and the Secret that is projected into *)
(* the instance's namespace, owned by the instance's CR.                   *)
(*                                                                         *)
(* Nothing a bind has done is undone when a later call of it fails, so a   *)
(* client that hangs up and a reply that is lost end a handler just as a   *)
(* crash does.  One call of the store is one step: StoreKeepsContract.     *)
(***************************************************************************)
CONSTANTS
    Instances, Bindings, Requests, Services,
    Namespaces, Default,    \* Default is "default"
    Creds, NoCreds,         \* credentials; NoCreds is the empty map
    Projecting,             \* services with bind.projectSecret
    Adverse,                \* what may happen, of AdverseKinds
    NoInstance, NoBinding, NoSecret, NoSource, NotIssued

\* A call of that name fails; handlers of one binding overlap; an instance is
\* deprovisioned under a bind; an unbind names another instance or service; the
\* broker dies.
AdverseKinds == {"record", "secret", "namespace", "source", "owner", "project",
                 "put", "credentials", "unproject", "delete", "deleteCredentials",
                 "overlap", "deprovision", "wrongPath", "crash"}

VARIABLES
    instance,   \* [Instances -> its record, which stands for its CR too, or NoInstance]
    source,     \* [Instances -> the operator's credentials, or NoSource]
    binding,    \* [Bindings -> record or NoBinding]
    secret,     \* [Bindings -> credentials Secret of the store or NoSecret]
    projected,  \* [Bindings \X Namespaces -> projected Secret or NoSecret]
    issued,     \* [Bindings -> what a 201 handed out since the last unbind] (history)
    pc,         \* [Requests -> the call the handler makes next]
    req,        \* [Requests -> what the request says]
    loc         \* [Requests -> the handler's local state; its answer, once it is idle]

state == <<instance, source, binding, secret, projected>>
vars  == <<instance, source, binding, secret, projected, issued, pc, req, loc>>

InstanceRecords == [ns : Namespaces, service : Services]

\* secret says whether the record names a credentials Secret.
BindingRecords == [inst : Instances, service : Services, secret : BOOLEAN]

\* An owner reference holds the uid of an object: of one that is there, of one
\* that is gone (the garbage collector removes what it owned), or none.
Owners == {"live", "gone", "none"}

Sources == Creds \union {NoCreds}

StoreSecrets == [creds : Creds, owner : Owners]

Projections == [creds : Sources, owner : Owners, inst : Instances]

ASSUME BindingAssumption ==
    /\ Instances # {} /\ Bindings # {} /\ Services # {}
    /\ Default \in Namespaces
    /\ NoCreds \notin Creds
    /\ NotIssued \notin Creds \union {NoCreds}
    /\ NoBinding \notin BindingRecords
    /\ NoSecret \notin StoreSecrets \union Projections
    /\ NoInstance \notin InstanceRecords
    /\ NoSource \notin Sources
    /\ Projecting \subseteq Services
    /\ Adverse \subseteq AdverseKinds

Calls == {"idle", "record", "secret", "namespace", "source", "owner", "project",
          "put", "putOwner", "credentials", "dropCredentials",
          "unproject", "delete", "deleteCredentials"}

Inputs == [op : {"none", "bind", "unbind"}, id : Bindings, inst : Instances, service : Services]

NoInput == [op |-> "none", id |-> CHOOSE b \in Bindings : TRUE,
            inst |-> CHOOSE i \in Instances : TRUE,
            service |-> CHOOSE s \in Services : TRUE]

Codes == {"none", "created", "ok", "conflict", "gone", "error", "lost"}

Locals == [code  : Codes,
           creds : Sources,
           known : BindingRecords \union {NoBinding},
           ns    : Namespaces,
           owner : Owners,      \* the owner reference the next Secret gets
           alone : BOOLEAN]     \* no other handler of this binding met it (history)

NoLocals == [code |-> "none", creds |-> NoCreds, known |-> NoBinding, ns |-> Default,
             owner |-> "none", alone |-> TRUE]

InFlight(r) == pc[r] # "idle"

Fails(call) == call \in Adverse

QuietBinding(b) == \A r \in Requests : InFlight(r) => req[r].id # b

QuietInstance(i) == \A r \in Requests : InFlight(r) => req[r].inst # i

Goto(r, call, l) ==
    /\ pc' = [pc EXCEPT ![r] = call]
    /\ loc' = [loc EXCEPT ![r] = l]
    /\ UNCHANGED <<req, issued>>

Answer(r, code, creds) ==
    /\ pc' = [pc EXCEPT ![r] = "idle"]
    /\ req' = [req EXCEPT ![r] = NoInput]
    /\ loc' = [loc EXCEPT ![r] = [NoLocals EXCEPT !.code = code, !.creds = creds]]
    /\ issued' = [issued EXCEPT ![req[r].id] =
          IF code = "created" /\ loc[r].alone THEN creds ELSE @]

Refuse(r, code) == Answer(r, code, NoCreds)

Init ==
    /\ instance = [i \in Instances |-> NoInstance]
    /\ source = [i \in Instances |-> NoSource]
    /\ binding = [b \in Bindings |-> NoBinding]
    /\ secret = [b \in Bindings |-> NoSecret]
    /\ projected = [p \in Bindings \X Namespaces |-> NoSecret]
    /\ issued = [b \in Bindings |-> NotIssued]
    /\ pc = [r \in Requests |-> "idle"]
    /\ req = [r \in Requests |-> NoInput]
    /\ loc = [r \in Requests |-> NoLocals]

-----------------------------------------------------------------------------
(* Both handlers begin with the record (StoredBinding) and the namespace.  *)

Receive(r, input) ==
    /\ ~InFlight(r)
    /\ "overlap" \in Adverse \/ QuietBinding(input.id)
    /\ pc' = [pc EXCEPT ![r] = "record"]
    /\ req' = [req EXCEPT ![r] = input]
    /\ loc' = [q \in Requests |->
          IF q = r THEN [NoLocals EXCEPT !.alone = QuietBinding(input.id)]
          ELSE IF InFlight(q) /\ req[q].id = input.id THEN [loc[q] EXCEPT !.alone = FALSE]
          ELSE loc[q]]
    /\ issued' = IF input.op = "unbind" THEN [issued EXCEPT ![input.id] = NotIssued]
                 ELSE issued
    /\ UNCHANGED state

\* A platform binds an instance it knows to be there.
ReceiveBind(r) ==
    \E b \in Bindings, i \in Instances, s \in Services :
        /\ instance[i] # NoInstance
        /\ Receive(r, [op |-> "bind", id |-> b, inst |-> i, service |-> s])

\* service_id is optional and then the record's, the instance is the path's.
ReceiveUnbind(r) ==
    \E b \in Bindings, i \in Instances, s \in Services :
        /\ ("wrongPath" \notin Adverse /\ binding[b] # NoBinding)
               => (i = binding[b].inst /\ s = binding[b].service)
        /\ Receive(r, [op |-> "unbind", id |-> b, inst |-> i, service |-> s])

\* GetBinding without an answer: a bind starts anew, an unbind is done.
Unknown(r) ==
    IF req[r].op = "bind" THEN Goto(r, "namespace", loc[r]) ELSE Refuse(r, "gone")

\* Mutant of Known: a record of something else does not end the bind.
OverwriteOther(r, rec, creds) ==
    IF req[r].op = "bind" /\ rec.inst = req[r].inst /\ rec.service = req[r].service
    THEN Answer(r, "ok", creds)
    ELSE Goto(r, "namespace", loc[r])

Known(r, rec, creds) ==
    IF req[r].op = "unbind" THEN Goto(r, "namespace", loc[r])
    ELSE IF rec.inst = req[r].inst /\ rec.service = req[r].service
    THEN Answer(r, "ok", creds)
    ELSE Refuse(r, "conflict")

GetRecord(r) ==
    LET rec == binding[req[r].id]
    IN  /\ pc[r] = "record"
        /\ \/ /\ rec # NoBinding
              /\ IF rec.secret THEN Goto(r, "secret", [loc[r] EXCEPT !.known = rec])
                 ELSE Known(r, rec, NoCreds)
           \/ /\ rec = NoBinding \/ Fails("record")
              /\ Unknown(r)
        /\ UNCHANGED state

\* Mutants of ReadCredentials: the Secret is handed out undecoded; what the
\* operator has now is handed out.
Undecoded(b) == secret[b]

OperatorsOwn(b) ==
    IF source[binding[b].inst] = NoSource THEN NoCreds ELSE source[binding[b].inst]

\* A Secret that is missing is no error.
ReadCredentials(b) == IF secret[b] = NoSecret THEN NoCreds ELSE secret[b].creds

GetSecret(r) ==
    /\ pc[r] = "secret"
    /\ \/ Known(r, loc[r].known, ReadCredentials(req[r].id))
       \/ Fails("secret") /\ Unknown(r)
    /\ UNCHANGED state

\* instanceNamespace falls back to "default".  An unbind goes on to the
\* projected Secret if the definition projects.
InstanceNamespace(r) ==
    LET rec   == instance[req[r].inst]
        next  == IF req[r].op = "bind" THEN "source"
                 ELSE IF req[r].service \in Projecting THEN "unproject" ELSE "delete"
        in(n) == Goto(r, next, [loc[r] EXCEPT !.ns = n, !.known = NoBinding])
    IN  /\ pc[r] = "namespace"
        /\ \/ rec # NoInstance /\ in(rec.ns)
           \/ (rec = NoInstance \/ Fails("namespace")) /\ in(Default)
        /\ UNCHANGED state

-----------------------------------------------------------------------------
(* Bind.                                                                   *)

\* BindCredentials: the operator's Secret, where this service would have it.
BindCredentials(r) ==
    LET i == req[r].inst
        readable == /\ instance[i] # NoInstance /\ source[i] # NoSource
                    /\ instance[i] = [ns |-> loc[r].ns, service |-> req[r].service]
    IN  /\ pc[r] = "source"
        /\ \/ /\ readable
              /\ Goto(r, IF req[r].service \in Projecting THEN "owner" ELSE "put",
                      [loc[r] EXCEPT !.creds = source[i]])
           \/ (~readable \/ Fails("source")) /\ Refuse(r, "error")
        /\ UNCHANGED state

\* Mutant of ProjectionOwner: the Secret gets no owner.
NoProjectionOwner(r) ==
    /\ pc[r] = "owner"
    /\ Goto(r, "project", loc[r])
    /\ UNCHANGED state

\* ProjectBindingSecret: the instance's CR becomes the owner, if it is there.
ProjectionOwner(r) ==
    LET there == instance[req[r].inst] # NoInstance /\ instance[req[r].inst].ns = loc[r].ns
    IN  /\ pc[r] = "owner"
        /\ \/ Goto(r, "project", [loc[r] EXCEPT !.owner = IF there THEN "live" ELSE "none"])
           \/ Fails("owner") /\ Refuse(r, "error")
        /\ UNCHANGED state

\* Another handler writes the same binding's objects: a Create or Update may be
\* refused.
Contended(r) == \E q \in Requests \ {r} : InFlight(q) /\ req[q].id = req[r].id

\* WriteSecret without an owner leaves the reference of a Secret that is there.
WriteProjection(r) ==
    /\ pc[r] = "project"
    /\ \/ /\ projected' = [projected EXCEPT ![<<req[r].id, loc[r].ns>>] =
                [creds |-> loc[r].creds, inst |-> req[r].inst,
                 owner |-> IF loc[r].owner = "none" /\ @ # NoSecret
                           THEN @.owner ELSE loc[r].owner]]
          /\ Goto(r, "put", loc[r])
       \/ /\ Fails("project") \/ Contended(r)
          /\ Refuse(r, "error")
          /\ UNCHANGED projected
    /\ UNCHANGED <<instance, source, binding, secret>>

\* PutBinding, first object: the record.
PutRecord(r) ==
    LET some == loc[r].creds # NoCreds
    IN  /\ pc[r] = "put"
        /\ \/ /\ binding' = [binding EXCEPT ![req[r].id] =
                    [inst |-> req[r].inst, service |-> req[r].service, secret |-> some]]
              /\ Goto(r, IF some THEN "putOwner" ELSE "dropCredentials", loc[r])
           \/ /\ Fails("put") \/ Contended(r)
              /\ Refuse(r, "error")
              /\ UNCHANGED binding
        /\ UNCHANGED <<instance, source, secret, projected>>

\* Mutant of SecretOwner: the Secret gets no owner.
NoSecretOwner(r) ==
    /\ pc[r] = "putOwner"
    /\ Goto(r, "credentials", loc[r])
    /\ UNCHANGED state

\* PutBinding, second object: the Secret, owned by the record just written.
SecretOwner(r) ==
    /\ pc[r] = "putOwner"
    /\ \/ /\ binding[req[r].id] # NoBinding
          /\ Goto(r, "credentials", [loc[r] EXCEPT !.owner = "live"])
       \/ /\ binding[req[r].id] = NoBinding \/ Fails("put")
          /\ Refuse(r, "error")
    /\ UNCHANGED state

\* Mutant of AfterCredentials: an error of the Secret does not fail the bind.
CreatedAnyway(r, failed) == Answer(r, "created", loc[r].creds)

AfterCredentials(r, failed) ==
    IF failed THEN Refuse(r, "error") ELSE Answer(r, "created", loc[r].creds)

WriteCredentials(r) ==
    /\ pc[r] = "credentials"
    /\ \/ /\ secret' = [secret EXCEPT ![req[r].id] =
                [creds |-> loc[r].creds, owner |-> loc[r].owner]]
          /\ AfterCredentials(r, FALSE)
       \/ /\ Fails("credentials") \/ Contended(r)
          /\ AfterCredentials(r, TRUE)
          /\ UNCHANGED secret
    /\ UNCHANGED <<instance, source, binding, projected>>

\* Without credentials a Secret left by an earlier bind has to go.
DropCredentials(r) ==
    /\ pc[r] = "dropCredentials"
    /\ \/ /\ secret' = [secret EXCEPT ![req[r].id] = NoSecret]
          /\ AfterCredentials(r, FALSE)
       \/ /\ Fails("credentials")
          /\ AfterCredentials(r, TRUE)
          /\ UNCHANGED secret
    /\ UNCHANGED <<instance, source, binding, projected>>

-----------------------------------------------------------------------------
(* Unbind.                                                                 *)

\* Mutant of DeleteProjection: in "default", whatever the instance's namespace.
DeleteDefaultProjection(r) ==
    /\ pc[r] = "unproject"
    /\ projected' = [projected EXCEPT ![<<req[r].id, Default>>] = NoSecret]
    /\ Goto(r, "delete", loc[r])
    /\ UNCHANGED <<instance, source, binding, secret>>

DeleteProjection(r) ==
    /\ pc[r] = "unproject"
    /\ \/ /\ projected' = [projected EXCEPT ![<<req[r].id, loc[r].ns>>] = NoSecret]
          /\ Goto(r, "delete", loc[r])
       \/ /\ Fails("unproject")
          /\ Refuse(r, "error")
          /\ UNCHANGED projected
    /\ UNCHANGED <<instance, source, binding, secret>>

Orphaned(owner) == IF owner = "live" THEN "gone" ELSE owner

OrphanSecret(b) ==
    IF secret[b] = NoSecret THEN NoSecret ELSE [secret[b] EXCEPT !.owner = Orphaned(@)]

\* DeleteBinding, first object.  What the record owned, or a bind under way is
\* about to make it own, has lost its owner.
DeleteRecord(r) ==
    LET b == req[r].id
    IN  /\ pc[r] = "delete"
        /\ \/ /\ binding' = [binding EXCEPT ![b] = NoBinding]
              /\ secret' = [secret EXCEPT ![b] = OrphanSecret(b)]
              /\ pc' = [pc EXCEPT ![r] = "deleteCredentials"]
              /\ loc' = [q \in Requests |->
                    IF pc[q] = "credentials" /\ req[q].id = b
                    THEN [loc[q] EXCEPT !.owner = Orphaned(@)] ELSE loc[q]]
              /\ UNCHANGED <<req, issued>>
           \/ /\ Fails("delete")
              /\ Refuse(r, "error")
              /\ UNCHANGED <<binding, secret>>
        /\ UNCHANGED <<instance, source, projected>>

DeleteCredentials(r) ==
    /\ pc[r] = "deleteCredentials"
    /\ \/ /\ secret' = [secret EXCEPT ![req[r].id] = NoSecret]
          /\ Refuse(r, "ok")
       \/ /\ Fails("deleteCredentials")
          /\ Refuse(r, "error")
          /\ UNCHANGED secret
    /\ UNCHANGED <<instance, source, binding, projected>>

-----------------------------------------------------------------------------
(* The instance, its operator, the garbage collector and a crash.          *)

InstanceAppears(i) ==
    /\ instance[i] = NoInstance
    /\ \E rec \in InstanceRecords : instance' = [instance EXCEPT ![i] = rec]
    /\ UNCHANGED <<source, binding, secret, projected, issued, pc, req, loc>>

HasBindings(i) == \E b \in Bindings : binding[b] # NoBinding /\ binding[b].inst = i

\* A deprovision, as InstanceLifecycle has it: refused while a binding stands.
InstanceGoes(i) ==
    /\ instance[i] # NoInstance
    /\ ~HasBindings(i)
    /\ "deprovision" \in Adverse \/ QuietInstance(i)
    /\ instance' = [instance EXCEPT ![i] = NoInstance]
    /\ source' = [source EXCEPT ![i] = NoSource]
    /\ projected' = [p \in Bindings \X Namespaces |->
          IF projected[p] # NoSecret /\ projected[p].inst = i
          THEN [projected[p] EXCEPT !.owner = Orphaned(@)] ELSE projected[p]]
    /\ loc' = [q \in Requests |->
          IF pc[q] = "project" /\ req[q].inst = i
          THEN [loc[q] EXCEPT !.owner = Orphaned(@)] ELSE loc[q]]
    /\ UNCHANGED <<binding, secret, issued, pc, req>>

\* The operator writes its Secret, and later rotates what is in it.
Publish(i, creds) ==
    /\ instance[i] # NoInstance
    /\ source[i] # creds
    /\ source' = [source EXCEPT ![i] = creds]
    /\ UNCHANGED <<instance, binding, secret, projected, issued, pc, req, loc>>

CollectSecret(b) ==
    /\ secret[b] # NoSecret
    /\ secret[b].owner = "gone"
    /\ secret' = [secret EXCEPT ![b] = NoSecret]
    /\ UNCHANGED <<instance, source, binding, projected, issued, pc, req, loc>>

CollectProjection(p) ==
    /\ projected[p] # NoSecret
    /\ projected[p].owner = "gone"
    /\ projected' = [projected EXCEPT ![p] = NoSecret]
    /\ UNCHANGED <<instance, source, binding, secret, issued, pc, req, loc>>

Crash ==
    /\ Fails("crash")
    /\ \E r \in Requests : InFlight(r)
    /\ pc' = [r \in Requests |-> "idle"]
    /\ req' = [r \in Requests |-> NoInput]
    /\ loc' = [r \in Requests |->
          IF InFlight(r) THEN [NoLocals EXCEPT !.code = "lost"] ELSE loc[r]]
    /\ UNCHANGED <<state, issued>>

-----------------------------------------------------------------------------
Handle(r) ==
    \/ GetRecord(r)
    \/ GetSecret(r)
    \/ InstanceNamespace(r)
    \/ BindCredentials(r)
    \/ ProjectionOwner(r)
    \/ WriteProjection(r)
    \/ PutRecord(r)
    \/ SecretOwner(r)
    \/ WriteCredentials(r)
    \/ DropCredentials(r)
    \/ DeleteProjection(r)
    \/ DeleteRecord(r)
    \/ DeleteCredentials(r)

Collect ==
    \/ \E b \in Bindings : CollectSecret(b)
    \/ \E p \in Bindings \X Namespaces : CollectProjection(p)

Next ==
    \/ \E r \in Requests : ReceiveBind(r) \/ ReceiveUnbind(r) \/ Handle(r)
    \/ \E i \in Instances : InstanceAppears(i) \/ InstanceGoes(i)
    \/ \E i \in Instances, creds \in Sources : Publish(i, creds)
    \/ Collect
    \/ Crash

Spec == Init /\ [][Next]_vars

\* A handler runs on, and the cluster's garbage collector works.
FairSpec ==
    /\ Spec
    /\ \A r \in Requests : WF_vars(Handle(r))
    /\ \A b \in Bindings : WF_vars(CollectSecret(b))
    /\ \A p \in Bindings \X Namespaces : WF_vars(CollectProjection(p))

-----------------------------------------------------------------------------
(* Properties.                                                             *)

\* Every variable holds a value of its type.
TypeOK ==
    /\ instance \in [Instances -> InstanceRecords \union {NoInstance}]
    /\ source \in [Instances -> Sources \union {NoSource}]
    /\ binding \in [Bindings -> BindingRecords \union {NoBinding}]
    /\ secret \in [Bindings -> StoreSecrets \union {NoSecret}]
    /\ projected \in [Bindings \X Namespaces -> Projections \union {NoSecret}]
    /\ issued \in [Bindings -> Sources \union {NotIssued}]
    /\ pc \in [Requests -> Calls]
    /\ req \in [Requests -> Inputs]
    /\ loc \in [Requests -> Locals]

\* Record, store Secret and projected Secret of a binding are what its bind left.
BindStands(b, creds) ==
    LET rec == binding[b]
    IN  /\ rec # NoBinding
        /\ secret[b] = IF creds = NoCreds THEN NoSecret
                       ELSE [creds |-> creds, owner |-> "live"]
        /\ instance[rec.inst] # NoInstance
        /\ instance[rec.inst].service = rec.service
        /\ rec.service \in Projecting =>
             projected[<<b, instance[rec.inst].ns>>] =
                 [creds |-> creds, owner |-> "live", inst |-> rec.inst]

\* What a 201 handed out stands until the next unbind: the record names the
\* instance, the store's Secret holds these very credentials and is owned by the
\* record, and the projected Secret, where the service has one, holds them in the
\* instance's namespace and is owned by its CR.  Neither a rotation nor a handler
\* that fails or crashes half-way changes that.
AnsweredBindStands ==
    \A b \in Bindings : issued[b] # NotIssued => BindStands(b, issued[b])

\* A bind repeated after a 201 answers 200 with the credentials of that 201, also
\* when the operator has rotated its own since.
RepeatAnswersSame ==
    [][\A r \in Requests :
        (/\ InFlight(r) /\ ~InFlight(r)'
         /\ req[r].op = "bind" /\ loc'[r].code = "ok"
         /\ loc[r].alone /\ issued[req[r].id] # NotIssued)
        => loc'[r].creds = issued[req[r].id]]_vars

\* "die Antwort auf PUT traegt die Zugangsdaten": a repeated bind is not answered
\* 200 without the credentials its record says the store keeps.
RepeatCarriesCredentials ==
    [][\A r \in Requests :
        (/\ InFlight(r) /\ ~InFlight(r)'
         /\ req[r].op = "bind" /\ loc'[r].code = "ok"
         /\ binding[req[r].id] # NoBinding)
        => (binding[req[r].id].secret => loc'[r].creds # NoCreds)]_vars

\* An unbind that answers 200, undisturbed, leaves neither record nor store
\* Secret, nor a projected Secret of this binding and instance that nobody would
\* ever remove.
UnbindLeavesNothing ==
    [][\A r \in Requests :
        (/\ InFlight(r) /\ ~InFlight(r)'
         /\ req[r].op = "unbind" /\ loc'[r].code = "ok" /\ loc[r].alone)
        => LET b == req[r].id
           IN  /\ binding'[b] = NoBinding
               /\ secret'[b] = NoSecret
               /\ \A n \in Namespaces :
                      LET left == projected'[<<b, n>>]
                      IN  left = NoSecret \/ left.owner = "gone" \/ left.inst # req[r].inst]_vars

\* A binding belongs to one instance from its bind to its unbind: no write moves
\* its record to another instance or service.
OneInstancePerBinding ==
    [][\A b \in Bindings : binding[b] # NoBinding /\ binding'[b] # NoBinding
        => /\ binding'[b].inst = binding[b].inst
           /\ binding'[b].service = binding[b].service]_vars

\* Credentials in the store without a record of their binding have lost their
\* owner, so that the garbage collector takes them; no order of binds, unbinds
\* and crashes leaves them with an owner that lives, or with none.
StraysAreDoomed ==
    \A b \in Bindings : secret[b] # NoSecret /\ binding[b] = NoBinding
        => secret[b].owner = "gone"

\* Credentials in the store go away once their binding has no record, unless the
\* binding comes back.
SecretsCollected ==
    \A b \in Bindings :
        (secret[b] # NoSecret /\ binding[b] = NoBinding)
        ~> (secret[b] = NoSecret \/ binding[b] # NoBinding)

\* A projected Secret does not outlive its instance: also one whose bind failed
\* after it was written is gone, or written anew, some time after the deprovision.
ProjectedDieWithInstance ==
    \A p \in Bindings \X Namespaces, i \in Instances :
        (projected[p] # NoSecret /\ projected[p].inst = i /\ instance[i] = NoInstance)
        ~> (projected[p] = NoSecret \/ instance[i] # NoInstance)

=============================================================================
