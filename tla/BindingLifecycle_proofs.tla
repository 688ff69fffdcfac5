------------------------ MODULE BindingLifecycle_proofs ------------------------
(***************************************************************************)
(* Proofs about BindingLifecycle.  Whatever fails and whoever overlaps, the *)
(* types hold and credentials without a record have lost their owner.  If  *)
(* the store can be read and no instance goes under a bind, what a 201     *)
(* handed out stands and a repeated bind hands out the same, and an unbind *)
(* that nobody has met leaves nothing behind.  If the platform queues the  *)
(* requests of a binding besides, a binding stays with its instance.       *)
(***************************************************************************)
EXTENDS BindingLifecycle, TLAPS

\* A handler about to write the store's Secret has credentials to write and an
\* owner; without a record that owner is gone.
WriterOK(r) ==
    /\ pc[r] \in {"putOwner", "credentials"} => loc[r].creds # NoCreds
    /\ pc[r] = "credentials" =>
          /\ loc[r].owner # "none"
          /\ binding[req[r].id] = NoBinding => loc[r].owner = "gone"

WritersOK == \A r \in Requests : WriterOK(r)

\* Every Secret of the store was written with an owner.
SecretsOwned == \A b \in Bindings : secret[b] # NoSecret => secret[b].owner # "none"

IInv == TypeOK /\ WritersOK /\ SecretsOwned /\ StraysAreDoomed

HandlersTyped == pc \in [Requests -> Calls] /\ req \in [Requests -> Inputs] /\ loc \in [Requests -> Locals]

IssuedTyped == issued \in [Bindings -> Sources \union {NotIssued}]

-----------------------------------------------------------------------------
LEMMA NoInputType == NoInput \in Inputs
BY BindingAssumption DEF NoInput, Inputs

LEMMA NoLocalsType == NoLocals \in Locals
BY BindingAssumption DEF NoLocals, Locals, Codes, Sources, Owners

LEMMA OrphanedType ==
    ASSUME NEW o \in Owners
    PROVE  Orphaned(o) \in Owners /\ (o # "none" => Orphaned(o) = "gone")
BY DEF Orphaned, Owners

\* The handlers after a step that lets one of them go on, or answers it.
LEMMA GotoKeeps ==
    ASSUME IInv, NEW r \in Requests, NEW call \in Calls, NEW l \in Locals,
           Goto(r, call, l)
    PROVE  /\ HandlersTyped' /\ IssuedTyped'
           /\ pc'[r] = call /\ loc'[r] = l /\ req' = req
           /\ \A q \in Requests \ {r} : pc'[q] = pc[q] /\ loc'[q] = loc[q]
BY DEF Goto, IInv, TypeOK, HandlersTyped, IssuedTyped

LEMMA AnswerKeeps ==
    ASSUME IInv, NEW r \in Requests, NEW code \in Codes, NEW creds \in Sources,
           Answer(r, code, creds)
    PROVE  /\ HandlersTyped' /\ IssuedTyped'
           /\ pc'[r] = "idle"
           /\ \A q \in Requests \ {r} : pc'[q] = pc[q] /\ loc'[q] = loc[q] /\ req'[q] = req[q]
<1>1. pc' \in [Requests -> Calls] /\ pc'[r] = "idle"
  BY DEF Answer, IInv, TypeOK, Calls
<1>2. req' \in [Requests -> Inputs]
  BY NoInputType DEF Answer, IInv, TypeOK
<1>3. [NoLocals EXCEPT !.code = code, !.creds = creds] \in Locals
  BY NoLocalsType DEF Locals
<1>4. loc' \in [Requests -> Locals]
  BY <1>3 DEF Answer, IInv, TypeOK
<1>5. IssuedTyped'
  <2>1. req[r].id \in Bindings
    BY DEF IInv, TypeOK, Inputs
  <2> QED
    BY <2>1 DEF Answer, IInv, TypeOK, IssuedTyped
<1>6. \A q \in Requests \ {r} : pc'[q] = pc[q] /\ loc'[q] = loc[q] /\ req'[q] = req[q]
  BY DEF Answer, IInv, TypeOK
<1> QED
  BY <1>1, <1>2, <1>4, <1>5, <1>6 DEF HandlersTyped

LEMMA RefuseKeeps ==
    ASSUME IInv, NEW r \in Requests, NEW code \in Codes, Refuse(r, code)
    PROVE  /\ HandlersTyped' /\ IssuedTyped'
           /\ pc'[r] = "idle"
           /\ \A q \in Requests \ {r} : pc'[q] = pc[q] /\ loc'[q] = loc[q] /\ req'[q] = req[q]
BY AnswerKeeps DEF Refuse, Sources

\* What a handler knows of its request.
LEMMA InputTypes ==
    ASSUME IInv, NEW r \in Requests
    PROVE  /\ req[r] \in Inputs /\ loc[r] \in Locals
           /\ req[r].id \in Bindings /\ req[r].inst \in Instances /\ req[r].service \in Services
           /\ loc[r].creds \in Sources /\ loc[r].ns \in Namespaces /\ loc[r].owner \in Owners
           /\ loc[r].known \in BindingRecords \union {NoBinding}
BY DEF IInv, TypeOK, Inputs, Locals

-----------------------------------------------------------------------------
(* The inductive invariant, one lemma per action.                          *)

LEMMA InitIInv == Init => IInv
<1> SUFFICES ASSUME Init PROVE IInv
  OBVIOUS
<1>1. TypeOK
  BY NoInputType, NoLocalsType DEF Init, TypeOK, Calls
<1>2. WritersOK /\ SecretsOwned /\ StraysAreDoomed
  BY DEF Init, WritersOK, WriterOK, SecretsOwned, StraysAreDoomed
<1> QED
  BY <1>1, <1>2 DEF IInv

\* A step of r that only moves r on, to a call that is no write of the Secret.
LEMMA MovesOn ==
    ASSUME IInv, NEW r \in Requests, UNCHANGED state, HandlersTyped', IssuedTyped',
           pc'[r] \notin {"putOwner", "credentials"},
           \A q \in Requests \ {r} : pc'[q] = pc[q] /\ loc'[q] = loc[q] /\ req'[q] = req[q]
    PROVE  IInv'
<1>1. TypeOK'
  BY DEF IInv, TypeOK, HandlersTyped, IssuedTyped, state
<1>2. SecretsOwned' /\ StraysAreDoomed'
  BY DEF IInv, SecretsOwned, StraysAreDoomed, state
<1>3. WritersOK'
  <2> SUFFICES ASSUME NEW q \in Requests PROVE WriterOK(q)'
    BY DEF WritersOK
  <2>1. CASE q = r
    BY <2>1 DEF WriterOK
  <2>2. CASE q # r
    BY <2>2 DEF IInv, WritersOK, WriterOK, state
  <2> QED
    BY <2>1, <2>2
<1> QED
  BY <1>1, <1>2, <1>3 DEF IInv

LEMMA ReceiveStep ==
    ASSUME IInv, NEW r \in Requests, ReceiveBind(r) \/ ReceiveUnbind(r)
    PROVE  IInv'
<1>1. PICK input \in Inputs : Receive(r, input)
  <2>1. \A b \in Bindings, i \in Instances, s \in Services :
          /\ [op |-> "bind", id |-> b, inst |-> i, service |-> s] \in Inputs
          /\ [op |-> "unbind", id |-> b, inst |-> i, service |-> s] \in Inputs
    BY DEF Inputs
  <2>2. CASE ReceiveBind(r)
    BY <2>1, <2>2 DEF ReceiveBind
  <2>3. CASE ReceiveUnbind(r)
    BY <2>1, <2>3 DEF ReceiveUnbind
  <2> QED
    BY <2>2, <2>3
<1>2. pc' \in [Requests -> Calls] /\ req' \in [Requests -> Inputs] /\ UNCHANGED state
  BY <1>1 DEF Receive, IInv, TypeOK, Calls
<1>3. loc' \in [Requests -> Locals]
  <2>1. [NoLocals EXCEPT !.alone = QuietBinding(input.id)] \in Locals
    <3>1. QuietBinding(input.id) \in BOOLEAN
      BY DEF QuietBinding
    <3> QED
      BY <3>1, NoLocalsType DEF Locals
  <2>2. \A q \in Requests : [loc[q] EXCEPT !.alone = FALSE] \in Locals /\ loc[q] \in Locals
    BY DEF IInv, TypeOK, Locals
  <2> QED
    BY <1>1, <2>1, <2>2 DEF Receive
<1>4. IssuedTyped'
  BY <1>1 DEF Receive, IInv, TypeOK, IssuedTyped, Inputs
<1>5. TypeOK' /\ SecretsOwned' /\ StraysAreDoomed'
  BY <1>2, <1>3, <1>4 DEF IInv, TypeOK, IssuedTyped, SecretsOwned, StraysAreDoomed, state
<1>6. WritersOK'
  <2> SUFFICES ASSUME NEW q \in Requests PROVE WriterOK(q)'
    BY DEF WritersOK
  <2>1. CASE q = r
    BY <1>1, <2>1 DEF Receive, WriterOK, IInv, TypeOK
  <2>2. CASE q # r
    <3>1. /\ pc'[q] = pc[q] /\ req'[q] = req[q]
          /\ loc'[q].creds = loc[q].creds /\ loc'[q].owner = loc[q].owner
      BY <1>1, <2>2 DEF Receive, IInv, TypeOK, Locals
    <3> QED
      BY <1>2, <3>1 DEF IInv, WritersOK, WriterOK, state
  <2> QED
    BY <2>1, <2>2
<1> QED
  BY <1>5, <1>6 DEF IInv

LEMMA UnknownKeeps ==
    ASSUME IInv, NEW r \in Requests, UNCHANGED state, Unknown(r)
    PROVE  IInv'
<1>1. CASE req[r].op = "bind"
  <2>1. Goto(r, "namespace", loc[r])
    BY <1>1 DEF Unknown
  <2> QED
    BY <2>1, GotoKeeps, InputTypes, MovesOn DEF Calls
<1>2. CASE req[r].op # "bind"
  <2>1. Refuse(r, "gone")
    BY <1>2 DEF Unknown
  <2> QED
    BY <2>1, RefuseKeeps, MovesOn DEF Codes
<1> QED
  BY <1>1, <1>2

LEMMA KnownKeeps ==
    ASSUME IInv, NEW r \in Requests, NEW rec, NEW creds \in Sources, UNCHANGED state,
           Known(r, rec, creds)
    PROVE  IInv'
<1>1. CASE req[r].op = "unbind"
  <2>1. Goto(r, "namespace", loc[r])
    BY <1>1 DEF Known
  <2> QED
    BY <2>1, GotoKeeps, InputTypes, MovesOn DEF Calls
<1>2. CASE Answer(r, "ok", creds)
  BY <1>2, AnswerKeeps, MovesOn DEF Codes
<1>3. CASE Refuse(r, "conflict")
  BY <1>3, RefuseKeeps, MovesOn DEF Codes
<1> QED
  BY <1>1, <1>2, <1>3 DEF Known

LEMMA GetRecordStep ==
    ASSUME IInv, NEW r \in Requests, GetRecord(r)
    PROVE  IInv'
<1> DEFINE rec == binding[req[r].id]
<1>0. UNCHANGED state
  BY DEF GetRecord
<1>1. CASE rec # NoBinding /\ Goto(r, "secret", [loc[r] EXCEPT !.known = rec])
  <2>1. [loc[r] EXCEPT !.known = rec] \in Locals
    BY InputTypes DEF IInv, TypeOK, Locals
  <2> QED
    BY <1>0, <1>1, <2>1, GotoKeeps, MovesOn DEF Calls
<1>2. CASE Known(r, rec, NoCreds)
  BY <1>0, <1>2, KnownKeeps DEF Sources
<1>3. CASE Unknown(r)
  BY <1>0, <1>3, UnknownKeeps
<1> QED
  BY <1>1, <1>2, <1>3 DEF GetRecord

LEMMA GetSecretStep ==
    ASSUME IInv, NEW r \in Requests, GetSecret(r)
    PROVE  IInv'
<1>1. ReadCredentials(req[r].id) \in Sources
  BY InputTypes DEF ReadCredentials, IInv, TypeOK, StoreSecrets, Sources
<1> QED
  BY <1>1, KnownKeeps, UnknownKeeps DEF GetSecret

LEMMA InstanceNamespaceStep ==
    ASSUME IInv, NEW r \in Requests, InstanceNamespace(r)
    PROVE  IInv'
<1>1. PICK n \in Namespaces, call \in {"source", "unproject", "delete"} :
          Goto(r, call, [loc[r] EXCEPT !.ns = n, !.known = NoBinding])
  <2>1. instance[req[r].inst] # NoInstance => instance[req[r].inst].ns \in Namespaces
    BY InputTypes DEF IInv, TypeOK, InstanceRecords
  <2> QED
    BY <2>1, BindingAssumption DEF InstanceNamespace
<1>2. [loc[r] EXCEPT !.ns = n, !.known = NoBinding] \in Locals
  BY InputTypes DEF Locals
<1> QED
  BY <1>1, <1>2, GotoKeeps, MovesOn DEF InstanceNamespace, Calls

LEMMA BindCredentialsStep ==
    ASSUME IInv, NEW r \in Requests, BindCredentials(r)
    PROVE  IInv'
<1>1. CASE /\ source[req[r].inst] # NoSource
           /\ Goto(r, IF req[r].service \in Projecting THEN "owner" ELSE "put",
                   [loc[r] EXCEPT !.creds = source[req[r].inst]])
  <2>1. [loc[r] EXCEPT !.creds = source[req[r].inst]] \in Locals
    BY <1>1, InputTypes DEF IInv, TypeOK, Locals
  <2> QED
    BY <1>1, <2>1, GotoKeeps, MovesOn DEF BindCredentials, Calls
<1>2. CASE Refuse(r, "error")
  BY <1>2, RefuseKeeps, MovesOn DEF BindCredentials, Codes
<1> QED
  BY <1>1, <1>2 DEF BindCredentials

LEMMA ProjectionOwnerStep ==
    ASSUME IInv, NEW r \in Requests, ProjectionOwner(r)
    PROVE  IInv'
<1>1. CASE \E o \in Owners : Goto(r, "project", [loc[r] EXCEPT !.owner = o])
  <2>1. PICK o \in Owners : Goto(r, "project", [loc[r] EXCEPT !.owner = o])
    BY <1>1
  <2>2. [loc[r] EXCEPT !.owner = o] \in Locals
    BY InputTypes DEF Locals
  <2> QED
    BY <2>1, <2>2, GotoKeeps, MovesOn DEF ProjectionOwner, Calls
<1>2. CASE Refuse(r, "error")
  BY <1>2, RefuseKeeps, MovesOn DEF ProjectionOwner, Codes
<1> QED
  BY <1>1, <1>2 DEF ProjectionOwner, Owners

\* A step of r that leaves record and store Secret of every binding alone.
LEMMA StoreUntouched ==
    ASSUME IInv, NEW r \in Requests, HandlersTyped', IssuedTyped',
           UNCHANGED <<instance, source, binding, secret>>,
           projected' \in [Bindings \X Namespaces -> Projections \union {NoSecret}],
           pc'[r] \notin {"putOwner", "credentials"},
           \A q \in Requests \ {r} : pc'[q] = pc[q] /\ loc'[q] = loc[q] /\ req'[q] = req[q]
    PROVE  IInv'
<1>1. TypeOK'
  BY DEF IInv, TypeOK, HandlersTyped, IssuedTyped
<1>2. SecretsOwned' /\ StraysAreDoomed'
  BY DEF IInv, SecretsOwned, StraysAreDoomed
<1>3. WritersOK'
  <2> SUFFICES ASSUME NEW q \in Requests PROVE WriterOK(q)'
    BY DEF WritersOK
  <2>1. CASE q = r
    BY <2>1 DEF WriterOK
  <2>2. CASE q # r
    BY <2>2 DEF IInv, WritersOK, WriterOK
  <2> QED
    BY <2>1, <2>2
<1> QED
  BY <1>1, <1>2, <1>3 DEF IInv

LEMMA WriteProjectionStep ==
    ASSUME IInv, NEW r \in Requests, WriteProjection(r)
    PROVE  IInv'
<1> DEFINE k == <<req[r].id, loc[r].ns>>
<1>1. CASE /\ Goto(r, "put", loc[r])
           /\ projected' = [projected EXCEPT ![k] =
                [creds |-> loc[r].creds, inst |-> req[r].inst,
                 owner |-> IF loc[r].owner = "none" /\ @ # NoSecret
                           THEN @.owner ELSE loc[r].owner]]
  <2>1. k \in Bindings \X Namespaces
    BY InputTypes
  <2>2. projected[k] # NoSecret => projected[k].owner \in Owners
    BY <2>1 DEF IInv, TypeOK, Projections
  <2>3. [creds |-> loc[r].creds, inst |-> req[r].inst,
         owner |-> IF loc[r].owner = "none" /\ projected[k] # NoSecret
                   THEN projected[k].owner ELSE loc[r].owner] \in Projections
    BY <2>2, InputTypes DEF Projections
  <2>4. projected' \in [Bindings \X Namespaces -> Projections \union {NoSecret}]
    BY <1>1, <2>1, <2>3 DEF IInv, TypeOK
  <2>5. /\ HandlersTyped' /\ IssuedTyped' /\ pc'[r] = "put"
        /\ \A q \in Requests \ {r} : pc'[q] = pc[q] /\ loc'[q] = loc[q] /\ req'[q] = req[q]
    BY <1>1, GotoKeeps, InputTypes DEF Calls
  <2>6. UNCHANGED <<instance, source, binding, secret>>
    BY DEF WriteProjection
  <2> QED
    BY <2>4, <2>5, <2>6, StoreUntouched
<1>2. CASE Refuse(r, "error") /\ UNCHANGED projected
  BY <1>2, RefuseKeeps, StoreUntouched DEF WriteProjection, Codes, IInv, TypeOK
<1> QED
  BY <1>1, <1>2 DEF WriteProjection

LEMMA DeleteProjectionStep ==
    ASSUME IInv, NEW r \in Requests, DeleteProjection(r)
    PROVE  IInv'
<1>1. CASE /\ Goto(r, "delete", loc[r])
           /\ projected' = [projected EXCEPT ![<<req[r].id, loc[r].ns>>] = NoSecret]
  <2>1. projected' \in [Bindings \X Namespaces -> Projections \union {NoSecret}]
    BY <1>1, InputTypes DEF IInv, TypeOK
  <2> QED
    BY <1>1, <2>1, GotoKeeps, InputTypes, StoreUntouched DEF DeleteProjection, Calls
<1>2. CASE Refuse(r, "error") /\ UNCHANGED projected
  BY <1>2, RefuseKeeps, StoreUntouched DEF DeleteProjection, Codes, IInv, TypeOK
<1> QED
  BY <1>1, <1>2 DEF DeleteProjection

LEMMA PutRecordStep ==
    ASSUME IInv, NEW r \in Requests, PutRecord(r)
    PROVE  IInv'
<1> DEFINE some == loc[r].creds # NoCreds
           b    == req[r].id
<1>1. CASE /\ binding' = [binding EXCEPT ![b] =
                [inst |-> req[r].inst, service |-> req[r].service, secret |-> some]]
           /\ Goto(r, IF some THEN "putOwner" ELSE "dropCredentials", loc[r])
  <2>1. [inst |-> req[r].inst, service |-> req[r].service, secret |-> some] \in BindingRecords
    BY InputTypes DEF BindingRecords
  <2>2. binding' \in [Bindings -> BindingRecords \union {NoBinding}]
    BY <1>1, <2>1 DEF IInv, TypeOK
  <2>3. /\ HandlersTyped' /\ IssuedTyped'
        /\ pc'[r] = IF some THEN "putOwner" ELSE "dropCredentials"
        /\ loc'[r] = loc[r] /\ req' = req
        /\ \A q \in Requests \ {r} : pc'[q] = pc[q] /\ loc'[q] = loc[q]
    BY <1>1, GotoKeeps, InputTypes DEF Calls
  <2>4. TypeOK'
    BY <2>2, <2>3 DEF PutRecord, IInv, TypeOK, HandlersTyped, IssuedTyped
  <2>5. \A c \in Bindings : binding'[c] = NoBinding => binding[c] = NoBinding \/ c = b
    BY <1>1 DEF IInv, TypeOK
  <2>6. SecretsOwned'
    BY DEF PutRecord, IInv, SecretsOwned
  <2>7. StraysAreDoomed'
    <3> SUFFICES ASSUME NEW c \in Bindings, secret[c] # NoSecret, binding'[c] = NoBinding
                 PROVE  secret[c].owner = "gone"
      BY DEF StraysAreDoomed, PutRecord
    <3>1. c # b
      BY <1>1, <2>1, BindingAssumption DEF IInv, TypeOK
    <3> QED
      BY <2>5, <3>1 DEF IInv, StraysAreDoomed
  <2>8. WritersOK'
    <3> SUFFICES ASSUME NEW q \in Requests PROVE WriterOK(q)'
      BY DEF WritersOK
    <3>1. CASE q = r
      BY <2>3, <3>1 DEF WriterOK
    <3>2. CASE q # r
      <4>1. binding'[req[q].id] = NoBinding => binding[req[q].id] = NoBinding
        BY <1>1, <2>1, BindingAssumption, InputTypes DEF IInv, TypeOK
      <4> QED
        BY <2>3, <3>2, <4>1 DEF IInv, WritersOK, WriterOK
    <3> QED
      BY <3>1, <3>2
  <2> QED
    BY <2>4, <2>6, <2>7, <2>8 DEF IInv
<1>2. CASE Refuse(r, "error") /\ UNCHANGED binding
  BY <1>2, RefuseKeeps, StoreUntouched DEF PutRecord, Codes, IInv, TypeOK
<1> QED
  BY <1>1, <1>2 DEF PutRecord

LEMMA SecretOwnerStep ==
    ASSUME IInv, NEW r \in Requests, SecretOwner(r)
    PROVE  IInv'
<1>1. CASE /\ binding[req[r].id] # NoBinding
           /\ Goto(r, "credentials", [loc[r] EXCEPT !.owner = "live"])
  <2>1. [loc[r] EXCEPT !.owner = "live"] \in Locals
    BY InputTypes DEF Locals, Owners
  <2>2. /\ HandlersTyped' /\ IssuedTyped'
        /\ pc'[r] = "credentials" /\ loc'[r] = [loc[r] EXCEPT !.owner = "live"] /\ req' = req
        /\ \A q \in Requests \ {r} : pc'[q] = pc[q] /\ loc'[q] = loc[q]
    BY <1>1, <2>1, GotoKeeps DEF Calls
  <2>3. TypeOK' /\ SecretsOwned' /\ StraysAreDoomed'
    BY <2>2 DEF SecretOwner, IInv, TypeOK, HandlersTyped, IssuedTyped, SecretsOwned,
                StraysAreDoomed, state
  <2>4. WriterOK(r)'
    <3>1. loc[r].creds # NoCreds
      BY DEF SecretOwner, IInv, WritersOK, WriterOK
    <3>2. loc'[r].creds = loc[r].creds /\ loc'[r].owner = "live"
      BY <2>2, InputTypes DEF Locals
    <3> QED
      BY <1>1, <2>2, <3>1, <3>2 DEF SecretOwner, WriterOK, state
  <2>5. \A q \in Requests \ {r} : WriterOK(q)'
    BY <2>2 DEF SecretOwner, IInv, WritersOK, WriterOK, state
  <2> QED
    BY <2>3, <2>4, <2>5 DEF IInv, WritersOK
<1>2. CASE Refuse(r, "error")
  BY <1>2, RefuseKeeps, MovesOn DEF SecretOwner, Codes
<1> QED
  BY <1>1, <1>2 DEF SecretOwner

\* A step of r that ends it and changes, at most, its binding's store Secret.
LEMMA SecretWritten ==
    ASSUME IInv, NEW r \in Requests, NEW s \in StoreSecrets \union {NoSecret},
           HandlersTyped', IssuedTyped', pc'[r] = "idle",
           \A q \in Requests \ {r} : pc'[q] = pc[q] /\ loc'[q] = loc[q] /\ req'[q] = req[q],
           UNCHANGED <<instance, source, binding, projected>>,
           secret' = [secret EXCEPT ![req[r].id] = s],
           s # NoSecret => s.owner # "none",
           s # NoSecret /\ binding[req[r].id] = NoBinding => s.owner = "gone"
    PROVE  IInv'
<1>1. TypeOK'
  BY InputTypes DEF IInv, TypeOK, HandlersTyped, IssuedTyped
<1>2. SecretsOwned' /\ StraysAreDoomed'
  BY DEF IInv, TypeOK, SecretsOwned, StraysAreDoomed
<1>3. WritersOK'
  BY DEF IInv, WritersOK, WriterOK
<1> QED
  BY <1>1, <1>2, <1>3 DEF IInv

LEMMA AfterCredentialsKeeps ==
    ASSUME IInv, NEW r \in Requests, NEW failed \in BOOLEAN, AfterCredentials(r, failed)
    PROVE  /\ HandlersTyped' /\ IssuedTyped'
           /\ pc'[r] = "idle"
           /\ \A q \in Requests \ {r} : pc'[q] = pc[q] /\ loc'[q] = loc[q] /\ req'[q] = req[q]
<1>1. CASE failed
  <2>1. Refuse(r, "error")
    BY <1>1 DEF AfterCredentials
  <2> QED
    BY <2>1, RefuseKeeps DEF Codes
<1>2. CASE ~failed
  <2>1. Answer(r, "created", loc[r].creds)
    BY <1>2 DEF AfterCredentials
  <2> QED
    BY <2>1, InputTypes, AnswerKeeps DEF Codes
<1> QED
  BY <1>1, <1>2

LEMMA WriteCredentialsStep ==
    ASSUME IInv, NEW r \in Requests, WriteCredentials(r)
    PROVE  IInv'
<1> DEFINE s == [creds |-> loc[r].creds, owner |-> loc[r].owner]
<1>1. CASE /\ secret' = [secret EXCEPT ![req[r].id] = s]
           /\ AfterCredentials(r, FALSE)
  <2>1. /\ s \in StoreSecrets
        /\ s.owner # "none"
        /\ binding[req[r].id] = NoBinding => s.owner = "gone"
    BY InputTypes DEF WriteCredentials, IInv, WritersOK, WriterOK, StoreSecrets, Sources
  <2> HIDE DEF s
  <2> QED
    BY <1>1, <2>1, AfterCredentialsKeeps, SecretWritten DEF WriteCredentials
<1>2. CASE AfterCredentials(r, TRUE) /\ UNCHANGED secret
  BY <1>2, AfterCredentialsKeeps, StoreUntouched DEF WriteCredentials, IInv, TypeOK
<1> QED
  BY <1>1, <1>2 DEF WriteCredentials

LEMMA DropCredentialsStep ==
    ASSUME IInv, NEW r \in Requests, DropCredentials(r)
    PROVE  IInv'
<1>1. CASE secret' = [secret EXCEPT ![req[r].id] = NoSecret] /\ AfterCredentials(r, FALSE)
  BY <1>1, AfterCredentialsKeeps, SecretWritten DEF DropCredentials
<1>2. CASE AfterCredentials(r, TRUE) /\ UNCHANGED secret
  BY <1>2, AfterCredentialsKeeps, StoreUntouched DEF DropCredentials, IInv, TypeOK
<1> QED
  BY <1>1, <1>2 DEF DropCredentials

LEMMA DeleteCredentialsStep ==
    ASSUME IInv, NEW r \in Requests, DeleteCredentials(r)
    PROVE  IInv'
<1>1. CASE secret' = [secret EXCEPT ![req[r].id] = NoSecret] /\ Refuse(r, "ok")
  BY <1>1, RefuseKeeps, SecretWritten DEF DeleteCredentials, Codes
<1>2. CASE Refuse(r, "error") /\ UNCHANGED secret
  BY <1>2, RefuseKeeps, StoreUntouched DEF DeleteCredentials, Codes, IInv, TypeOK
<1> QED
  BY <1>1, <1>2 DEF DeleteCredentials

\* Handlers whose owner references lose their object stay well-formed.
LEMMA LosingOwners ==
    ASSUME IInv, NEW lost \in SUBSET Requests,
           loc' = [q \in Requests |->
                     IF q \in lost THEN [loc[q] EXCEPT !.owner = Orphaned(@)] ELSE loc[q]]
    PROVE  /\ loc' \in [Requests -> Locals]
           /\ \A q \in Requests : /\ loc'[q] = [loc[q] EXCEPT !.owner = loc'[q].owner]
                                  /\ loc[q].owner # "none" => loc'[q].owner # "none"
                                  /\ loc[q].owner = "gone" => loc'[q].owner = "gone"
                                  /\ q \in lost /\ loc[q].owner # "none" => loc'[q].owner = "gone"
                                  /\ q \notin lost => loc'[q] = loc[q]
<1>1. ASSUME NEW q \in Requests
      PROVE  /\ loc'[q] \in Locals
             /\ loc'[q] = [loc[q] EXCEPT !.owner = loc'[q].owner]
             /\ loc[q].owner # "none" => loc'[q].owner # "none"
             /\ loc[q].owner = "gone" => loc'[q].owner = "gone"
             /\ q \in lost /\ loc[q].owner # "none" => loc'[q].owner = "gone"
             /\ q \notin lost => loc'[q] = loc[q]
  <2>1. Orphaned(loc[q].owner) \in Owners /\ (loc[q].owner # "none" => Orphaned(loc[q].owner) = "gone")
    BY <1>1, InputTypes, OrphanedType
  <2>2. CASE q \in lost
    <3>1. loc'[q] = [loc[q] EXCEPT !.owner = Orphaned(loc[q].owner)]
      BY <1>1, <2>2
    <3> QED
      BY <1>1, <2>1, <2>2, <3>1, InputTypes DEF Locals
  <2>3. CASE q \notin lost
    BY <1>1, <2>3, InputTypes DEF Locals
  <2> QED
    BY <2>2, <2>3
<1> QED
  BY <1>1

LEMMA DeleteRecordStep ==
    ASSUME IInv, NEW r \in Requests, DeleteRecord(r)
    PROVE  IInv'
<1> DEFINE b    == req[r].id
           lost == {q \in Requests : pc[q] = "credentials" /\ req[q].id = b}
<1>1. CASE /\ binding' = [binding EXCEPT ![b] = NoBinding]
           /\ secret' = [secret EXCEPT ![b] = OrphanSecret(b)]
           /\ pc' = [pc EXCEPT ![r] = "deleteCredentials"]
           /\ loc' = [q \in Requests |->
                 IF pc[q] = "credentials" /\ req[q].id = b
                 THEN [loc[q] EXCEPT !.owner = Orphaned(@)] ELSE loc[q]]
           /\ UNCHANGED <<req, issued>>
  <2>1. /\ loc' \in [Requests -> Locals]
        /\ \A q \in Requests : /\ loc'[q].creds = loc[q].creds
                               /\ loc[q].owner # "none" => loc'[q].owner # "none"
                               /\ loc[q].owner = "gone" => loc'[q].owner = "gone"
                               /\ q \in lost /\ loc[q].owner # "none" => loc'[q].owner = "gone"
    <3>1. loc' = [q \in Requests |->
                 IF q \in lost THEN [loc[q] EXCEPT !.owner = Orphaned(@)] ELSE loc[q]]
      BY <1>1
    <3>2. lost \in SUBSET Requests
      OBVIOUS
    <3> HIDE DEF lost
    <3>3. /\ loc' \in [Requests -> Locals]
          /\ \A q \in Requests : /\ loc'[q] = [loc[q] EXCEPT !.owner = loc'[q].owner]
                                 /\ loc[q].owner # "none" => loc'[q].owner # "none"
                                 /\ loc[q].owner = "gone" => loc'[q].owner = "gone"
                                 /\ q \in lost /\ loc[q].owner # "none" => loc'[q].owner = "gone"
      BY <3>1, <3>2, LosingOwners
    <3>4. \A q \in Requests : loc'[q].creds = loc[q].creds
      BY <3>3, InputTypes DEF Locals
    <3> QED
      BY <3>3, <3>4
  <2>2. b \in Bindings
    BY InputTypes
  <2>3. /\ OrphanSecret(b) \in StoreSecrets \union {NoSecret}
        /\ OrphanSecret(b) # NoSecret => OrphanSecret(b).owner = "gone"
    <3>1. CASE secret[b] = NoSecret
      BY <3>1 DEF OrphanSecret
    <3>2. CASE secret[b] # NoSecret
      <4>1. secret[b] \in StoreSecrets /\ secret[b].owner \in Owners /\ secret[b].owner # "none"
        BY <2>2, <3>2 DEF IInv, TypeOK, StoreSecrets, SecretsOwned
      <4>2. OrphanSecret(b) = [secret[b] EXCEPT !.owner = Orphaned(secret[b].owner)]
        BY <3>2 DEF OrphanSecret
      <4> QED
        BY <4>1, <4>2, OrphanedType DEF StoreSecrets
    <3> QED
      BY <3>1, <3>2
  <2>4. TypeOK'
    BY <1>1, <2>1, <2>2, <2>3 DEF DeleteRecord, IInv, TypeOK, Calls
  <2>5. SecretsOwned' /\ StraysAreDoomed'
    BY <1>1, <2>2, <2>3 DEF IInv, TypeOK, SecretsOwned, StraysAreDoomed
  <2>6. WritersOK'
    <3> SUFFICES ASSUME NEW q \in Requests PROVE WriterOK(q)'
      BY DEF WritersOK
    <3>1. CASE q = r
      BY <1>1, <3>1 DEF WriterOK, IInv, TypeOK
    <3>2. CASE q # r
      <4>1. /\ pc'[q] = pc[q] /\ req'[q] = req[q]
            /\ req[q].id # b => binding'[req[q].id] = binding[req[q].id]
        BY <1>1, <3>2, InputTypes DEF IInv, TypeOK
      <4>2. CASE req[q].id = b /\ pc[q] = "credentials"
        BY <2>1, <4>1, <4>2 DEF IInv, WritersOK, WriterOK
      <4>3. CASE req[q].id # b \/ pc[q] # "credentials"
        BY <2>1, <4>1, <4>3 DEF IInv, WritersOK, WriterOK
      <4> QED
        BY <4>2, <4>3
    <3> QED
      BY <3>1, <3>2
  <2> QED
    BY <2>4, <2>5, <2>6 DEF IInv
<1>2. CASE Refuse(r, "error") /\ UNCHANGED <<binding, secret>>
  BY <1>2, RefuseKeeps, StoreUntouched DEF DeleteRecord, Codes, IInv, TypeOK
<1> QED
  BY <1>1, <1>2 DEF DeleteRecord

LEMMA InstanceStep ==
    ASSUME IInv, NEW i \in Instances,
           InstanceAppears(i) \/ InstanceGoes(i) \/ \E creds \in Sources : Publish(i, creds)
    PROVE  IInv'
<1>1. CASE InstanceAppears(i)
  BY <1>1 DEF InstanceAppears, IInv, TypeOK, WritersOK, WriterOK, SecretsOwned, StraysAreDoomed
<1>2. CASE \E creds \in Sources : Publish(i, creds)
  BY <1>2 DEF Publish, IInv, TypeOK, WritersOK, WriterOK, SecretsOwned, StraysAreDoomed
<1>3. CASE InstanceGoes(i)
  <2> DEFINE lost == {q \in Requests : pc[q] = "project" /\ req[q].inst = i}
  <2>1. /\ loc' \in [Requests -> Locals]
        /\ \A q \in Requests : q \notin lost => loc'[q] = loc[q]
    <3>1. loc' = [q \in Requests |->
                 IF q \in lost THEN [loc[q] EXCEPT !.owner = Orphaned(@)] ELSE loc[q]]
      BY <1>3 DEF InstanceGoes
    <3>2. lost \in SUBSET Requests
      OBVIOUS
    <3> HIDE DEF lost
    <3> QED
      BY <3>1, <3>2, LosingOwners
  <2>2. projected' \in [Bindings \X Namespaces -> Projections \union {NoSecret}]
    <3> SUFFICES ASSUME NEW p \in Bindings \X Namespaces, projected[p] # NoSecret
                 PROVE  [projected[p] EXCEPT !.owner = Orphaned(@)] \in Projections
      BY <1>3 DEF InstanceGoes, IInv, TypeOK
    <3>1. projected[p] \in Projections /\ projected[p].owner \in Owners
      BY DEF IInv, TypeOK, Projections
    <3> QED
      BY <3>1, OrphanedType DEF Projections
  <2>3. TypeOK'
    BY <1>3, <2>1, <2>2 DEF InstanceGoes, IInv, TypeOK
  <2>4. SecretsOwned' /\ StraysAreDoomed'
    BY <1>3 DEF InstanceGoes, IInv, SecretsOwned, StraysAreDoomed
  <2>5. WritersOK'
    BY <1>3, <2>1 DEF InstanceGoes, IInv, WritersOK, WriterOK
  <2> QED
    BY <2>3, <2>4, <2>5 DEF IInv
<1> QED
  BY <1>1, <1>2, <1>3

LEMMA CollectStep ==
    ASSUME IInv, Collect
    PROVE  IInv'
<1>1. CASE \E b \in Bindings : CollectSecret(b)
  BY <1>1 DEF CollectSecret, IInv, TypeOK, WritersOK, WriterOK, SecretsOwned, StraysAreDoomed
<1>2. CASE \E p \in Bindings \X Namespaces : CollectProjection(p)
  BY <1>2 DEF CollectProjection, IInv, TypeOK, WritersOK, WriterOK, SecretsOwned, StraysAreDoomed
<1> QED
  BY <1>1, <1>2 DEF Collect

LEMMA CrashStep ==
    ASSUME IInv, Crash
    PROVE  IInv'
<1>1. [NoLocals EXCEPT !.code = "lost"] \in Locals
  BY NoLocalsType DEF Locals, Codes
<1>2. TypeOK'
  BY <1>1, NoInputType DEF Crash, IInv, TypeOK, Calls, state
<1>3. WritersOK' /\ SecretsOwned' /\ StraysAreDoomed'
  BY DEF Crash, IInv, WritersOK, WriterOK, SecretsOwned, StraysAreDoomed, state
<1> QED
  BY <1>2, <1>3 DEF IInv

LEMMA NextIInv == IInv /\ [Next]_vars => IInv'
<1> SUFFICES ASSUME IInv, [Next]_vars PROVE IInv'
  OBVIOUS
<1>1. ASSUME NEW r \in Requests, ReceiveBind(r) \/ ReceiveUnbind(r) PROVE IInv'
  BY <1>1, ReceiveStep
<1>2. ASSUME NEW r \in Requests, Handle(r) PROVE IInv'
  BY <1>2, GetRecordStep, GetSecretStep, InstanceNamespaceStep, BindCredentialsStep,
     ProjectionOwnerStep, WriteProjectionStep, PutRecordStep, SecretOwnerStep,
     WriteCredentialsStep, DropCredentialsStep, DeleteProjectionStep, DeleteRecordStep,
     DeleteCredentialsStep DEF Handle
<1>3. CASE UNCHANGED vars
  BY <1>3 DEF vars, IInv, TypeOK, WritersOK, WriterOK, SecretsOwned, StraysAreDoomed
<1> QED
  BY <1>1, <1>2, <1>3, InstanceStep, CollectStep, CrashStep DEF Next

LEMMA IInvHolds == Spec => []IInv
BY InitIInv, NextIInv, PTL DEF Spec

\* Whatever fails, crashes and overlaps, every variable keeps its type.
THEOREM BindingTypeCorrect == Spec => []TypeOK
BY IInvHolds, PTL DEF IInv

\* Whatever fails, crashes and overlaps, credentials in the store without a
\* record have lost their owner (StraysAreDoomed).
THEOREM NoStrayCredentials == Spec => []StraysAreDoomed
BY IInvHolds, PTL DEF IInv

-----------------------------------------------------------------------------
(* What an answered bind leaves.  The store can be read and no instance is   *)
(* deprovisioned under a bind; handlers may overlap, and then what is said   *)
(* of a handler is said of one that nobody has met.                         *)

Readable == Adverse \intersect {"record", "secret", "deprovision"} = {}

\* alone says of a running handler what it means.
AloneIsAlone ==
    \A q, r \in Requests :
        InFlight(q) /\ InFlight(r) /\ loc[r].alone /\ req[q].id = req[r].id => q = r

BindCalls == {"source", "owner", "project", "put", "putOwner", "credentials", "dropCredentials"}

UnbindCalls == {"unproject", "delete", "deleteCredentials"}

\* What a handler has found out and done by the time it makes its next call.
HandlerOK(r) ==
    LET b == req[r].id
        i == req[r].inst
        s == req[r].service
    IN  /\ InFlight(r) => req[r].op \in {"bind", "unbind"}
        /\ pc[r] \in BindCalls => req[r].op = "bind"
        /\ pc[r] \in UnbindCalls => req[r].op = "unbind"
        /\ pc[r] \in BindCalls \ {"source"}
              => instance[i] = [ns |-> loc[r].ns, service |-> s]
        /\ pc[r] = "project" => loc[r].owner = "live"
        /\ pc[r] = "dropCredentials" => loc[r].creds = NoCreds

\* What holds besides as long as it has met no other handler of its binding.
LoneOK(r) ==
    LET b == req[r].id
        i == req[r].inst
        s == req[r].service
    IN  loc[r].alone =>
        /\ req[r].op = "bind" /\ pc[r] \in {"namespace", "source", "owner", "project", "put"}
              => binding[b] = NoBinding
        /\ pc[r] \in {"put", "putOwner", "credentials", "dropCredentials"} /\ s \in Projecting
              => projected[<<b, loc[r].ns>>] =
                     [creds |-> loc[r].creds, owner |-> "live", inst |-> i]
        /\ pc[r] \in {"putOwner", "credentials", "dropCredentials"}
              => binding[b] = [inst |-> i, service |-> s, secret |-> loc[r].creds # NoCreds]
        /\ pc[r] = "credentials" => loc[r].owner = "live"

\* An answered bind stands, and the only handlers that still come for the binding
\* are repeated binds, which read.
Standing(b) ==
    issued[b] # NotIssued =>
        /\ BindStands(b, issued[b])
        /\ \A r \in Requests : InFlight(r) /\ req[r].id = b
              => req[r].op = "bind" /\ pc[r] \in {"record", "secret"}

HandlersOK == \A r \in Requests : HandlerOK(r) /\ LoneOK(r)

AllStanding == \A b \in Bindings : Standing(b)

JInv == IInv /\ AloneIsAlone /\ HandlersOK /\ AllStanding

LEMMA GotoFacts ==
    ASSUME IInv, NEW r \in Requests, NEW call \in Calls, NEW l \in Locals,
           Goto(r, call, l)
    PROVE  /\ pc'[r] = call /\ loc'[r] = l /\ req'[r] = req[r] /\ issued' = issued
           /\ \A q \in Requests \ {r} : pc'[q] = pc[q] /\ loc'[q] = loc[q] /\ req'[q] = req[q]
<1>1. UNCHANGED <<req, issued>>
  BY DEF Goto
<1> QED
  BY <1>1, GotoKeeps

LEMMA AnswerFacts ==
    ASSUME IInv, NEW r \in Requests, NEW code \in Codes, NEW creds \in Sources,
           Answer(r, code, creds)
    PROVE  /\ pc'[r] = "idle"
           /\ \A q \in Requests \ {r} : pc'[q] = pc[q] /\ loc'[q] = loc[q] /\ req'[q] = req[q]
           /\ \A c \in Bindings \ {req[r].id} : issued'[c] = issued[c]
           /\ issued'[req[r].id] =
                 IF code = "created" /\ loc[r].alone THEN creds ELSE issued[req[r].id]
<1>1. req[r].id \in Bindings
  BY InputTypes
<1>2. issued' = [issued EXCEPT ![req[r].id] =
                    IF code = "created" /\ loc[r].alone THEN creds ELSE @]
  BY DEF Answer
<1>3. issued \in [Bindings -> Sources \union {NotIssued}]
  BY DEF IInv, TypeOK
<1> QED
  BY <1>1, <1>2, <1>3, AnswerKeeps

LEMMA RefuseFacts ==
    ASSUME IInv, NEW r \in Requests, NEW code \in Codes, code # "created", Refuse(r, code)
    PROVE  /\ pc'[r] = "idle"
           /\ \A q \in Requests \ {r} : pc'[q] = pc[q] /\ loc'[q] = loc[q] /\ req'[q] = req[q]
           /\ \A c \in Bindings : issued'[c] = issued[c]
BY AnswerFacts, InputTypes DEF Refuse, Sources

\* A step of r touches r's binding alone, so that only r and that binding need
\* a look.
LEMMA OwnStep ==
    ASSUME JInv, IInv', NEW r \in Requests, InFlight(r), NEW b \in Bindings, b = req[r].id,
           UNCHANGED instance,
           \A q \in Requests \ {r} :
               /\ pc'[q] = pc[q] /\ req'[q] = req[q]
               /\ loc'[q].ns = loc[q].ns /\ loc'[q].creds = loc[q].creds
               /\ loc'[q].alone = loc[q].alone
               /\ loc'[q].owner = loc[q].owner \/ (pc[q] = "credentials" /\ req[q].id = b),
           pc'[r] = "idle" \/ (req'[r] = req[r] /\ loc'[r].alone = loc[r].alone),
           \A c \in Bindings \ {b} :
               /\ binding'[c] = binding[c] /\ secret'[c] = secret[c] /\ issued'[c] = issued[c]
               /\ \A n \in Namespaces : projected'[<<c, n>>] = projected[<<c, n>>],
           pc'[r] = "idle" \/ (HandlerOK(r)' /\ LoneOK(r)'), Standing(b)'
    PROVE  JInv'
<1>1. AloneIsAlone'
  BY DEF JInv, AloneIsAlone, InFlight
<1>2. HandlersOK'
  <2> SUFFICES ASSUME NEW q \in Requests PROVE HandlerOK(q)' /\ LoneOK(q)'
    BY DEF HandlersOK
  <2>1. CASE q = r
    BY <2>1 DEF HandlerOK, LoneOK, InFlight, BindCalls, UnbindCalls
  <2> SUFFICES ASSUME q # r PROVE HandlerOK(q)' /\ LoneOK(q)'
    BY <2>1
  <2>2. CASE ~InFlight(q)
    BY <2>2 DEF HandlerOK, LoneOK, InFlight, BindCalls, UnbindCalls
  <2>3. CASE InFlight(q)
    <3>1. /\ pc'[q] = pc[q] /\ req'[q] = req[q] /\ loc'[q].ns = loc[q].ns
          /\ loc'[q].creds = loc[q].creds /\ HandlerOK(q) /\ LoneOK(q)
      BY DEF JInv, HandlersOK
    <3>2. pc[q] # "credentials" => loc'[q].owner = loc[q].owner
      OBVIOUS
    <3>3. HandlerOK(q)'
      BY <3>1, <3>2 DEF HandlerOK, InFlight
    <3>4. LoneOK(q)'
      <4> SUFFICES ASSUME loc'[q].alone PROVE LoneOK(q)'
        BY DEF LoneOK
      <4>1. loc[q].alone
        OBVIOUS
      <4>2. req[q].id # b
        BY <2>3, <4>1, Zenon DEF JInv, AloneIsAlone
      <4>3. PICK c \in Bindings \ {b} : c = req[q].id
        BY <4>2, InputTypes DEF JInv
      <4>4. loc[q].ns \in Namespaces /\ loc'[q].owner = loc[q].owner
        BY <4>2, InputTypes DEF JInv
      <4>5. binding'[c] = binding[c] /\ projected'[<<c, loc[q].ns>>] = projected[<<c, loc[q].ns>>]
        BY <4>4
      <4> QED
        BY <3>1, <4>1, <4>3, <4>4, <4>5 DEF LoneOK
    <3> QED
      BY <3>3, <3>4
  <2> QED
    BY <2>2, <2>3
<1>3. AllStanding'
  <2> SUFFICES ASSUME NEW c \in Bindings, c # b, issued[c] # NotIssued, issued'[c] # NotIssued
               PROVE  Standing(c)'
    BY DEF AllStanding, Standing
  <2>1. Standing(c) /\ BindStands(c, issued[c])
    BY DEF JInv, AllStanding, Standing
  <2>2. binding[c] \in BindingRecords /\ instance[binding[c].inst] \in InstanceRecords
    BY <2>1 DEF BindStands, JInv, IInv, TypeOK, BindingRecords
  <2>3. instance[binding[c].inst].ns \in Namespaces
    BY <2>2 DEF InstanceRecords
  <2>4. BindStands(c, issued[c])'
    BY <2>1, <2>3 DEF BindStands
  <2>5. ASSUME NEW q \in Requests, InFlight(q)', req'[q].id = c
        PROVE  req'[q].op = "bind" /\ pc'[q] \in {"record", "secret"}
    BY <2>1, <2>5 DEF Standing, InFlight
  <2> QED
    BY <2>4, <2>5 DEF Standing
<1> QED
  BY <1>1, <1>2, <1>3 DEF JInv

\* A handler past its first two calls finds nothing issued for its binding.
LEMMA NothingIssued ==
    ASSUME JInv, NEW r \in Requests, InFlight(r),
           pc[r] \notin {"record", "secret"} \/ req[r].op # "bind" \/ binding[req[r].id] = NoBinding
    PROVE  issued[req[r].id] = NotIssued
BY InputTypes DEF JInv, AllStanding, Standing, BindStands

\* A step of r on to its next call that leaves the cluster alone.
LEMMA MovesOnJ ==
    ASSUME JInv, IInv', NEW r \in Requests, InFlight(r), UNCHANGED state,
           NEW call \in Calls, NEW l \in Locals, Goto(r, call, l), l.alone = loc[r].alone,
           HandlerOK(r)', LoneOK(r)',
           issued[req[r].id] = NotIssued \/ (req[r].op = "bind" /\ call = "secret")
    PROVE  JInv'
<1> DEFINE b == req[r].id
<1>1. /\ pc'[r] = call /\ req'[r] = req[r] /\ issued' = issued /\ loc'[r] = l
      /\ \A q \in Requests \ {r} : pc'[q] = pc[q] /\ loc'[q] = loc[q] /\ req'[q] = req[q]
  BY GotoFacts DEF JInv
<1>2. b \in Bindings
  BY InputTypes DEF JInv
<1>3. PICK c \in Bindings : c = b
  BY <1>2
<1>4. Standing(c)'
  <2>1. CASE issued[c] = NotIssued
    BY <1>1, <2>1 DEF Standing
  <2>2. CASE issued[c] # NotIssued
    <3>1. Standing(c) /\ BindStands(c, issued[c])'
      BY <1>1, <2>2 DEF JInv, AllStanding, Standing, BindStands, state
    <3> QED
      BY <1>1, <1>3, <2>2, <3>1 DEF Standing, InFlight
  <2> QED
    BY <2>1, <2>2
<1> QED
  BY <1>1, <1>3, <1>4, OwnStep DEF state

\* A step that answers r without handing anything out and leaves the cluster alone.
LEMMA EndsJ ==
    ASSUME JInv, IInv', NEW r \in Requests, InFlight(r), UNCHANGED state,
           pc'[r] = "idle",
           \A q \in Requests \ {r} : pc'[q] = pc[q] /\ loc'[q] = loc[q] /\ req'[q] = req[q],
           \A c \in Bindings : issued'[c] = issued[c]
    PROVE  JInv'
<1>1. PICK b \in Bindings : b = req[r].id
  BY InputTypes DEF JInv
<1>2. Standing(b)'
  <2>1. CASE issued[b] = NotIssued
    BY <2>1 DEF Standing
  <2>2. CASE issued[b] # NotIssued
    <3>1. Standing(b) /\ BindStands(b, issued[b])'
      BY <2>2 DEF JInv, AllStanding, Standing, BindStands, state
    <3> QED
      BY <1>1, <2>2, <3>1 DEF Standing, InFlight
  <2> QED
    BY <2>1, <2>2
<1> QED
  BY <1>1, <1>2, OwnStep DEF state

LEMMA UnknownJ ==
    ASSUME JInv, IInv', NEW r \in Requests, InFlight(r), UNCHANGED state, Unknown(r),
           req[r].op = "bind" => binding[req[r].id] = NoBinding
    PROVE  JInv'
<1> USE DEF JInv
<1>1. CASE req[r].op = "bind"
  <2>1. Goto(r, "namespace", loc[r])
    BY <1>1 DEF Unknown
  <2>2. issued[req[r].id] = NotIssued
    BY <1>1, NothingIssued
  <2>3. pc'[r] = "namespace" /\ req'[r] = req[r] /\ loc'[r] = loc[r]
    BY <2>1, GotoFacts, InputTypes DEF Calls
  <2>4. HandlerOK(r)' /\ LoneOK(r)'
    BY <1>1, <2>3 DEF HandlerOK, LoneOK, BindCalls, UnbindCalls, state
  <2> QED
    BY <2>1, <2>2, <2>4, MovesOnJ, InputTypes DEF Calls
<1>2. CASE req[r].op # "bind"
  <2>1. Refuse(r, "gone")
    BY <1>2 DEF Unknown
  <2> QED
    BY <2>1, RefuseFacts, EndsJ DEF Codes
<1> QED
  BY <1>1, <1>2

LEMMA KnownJ ==
    ASSUME JInv, IInv', NEW r \in Requests, InFlight(r), UNCHANGED state,
           NEW rec, NEW creds \in Sources, Known(r, rec, creds)
    PROVE  JInv'
<1> USE DEF JInv
<1>1. CASE req[r].op = "unbind"
  <2>1. Goto(r, "namespace", loc[r])
    BY <1>1 DEF Known
  <2>2. issued[req[r].id] = NotIssued
    BY <1>1, NothingIssued
  <2>3. pc'[r] = "namespace" /\ req'[r] = req[r] /\ loc'[r] = loc[r]
    BY <2>1, GotoFacts, InputTypes DEF Calls
  <2>4. HandlerOK(r)' /\ LoneOK(r)'
    BY <1>1, <2>3 DEF HandlerOK, LoneOK, BindCalls, UnbindCalls
  <2> QED
    BY <2>1, <2>2, <2>4, MovesOnJ, InputTypes DEF Calls
<1>2. CASE Answer(r, "ok", creds)
  <2>1. /\ pc'[r] = "idle"
        /\ \A q \in Requests \ {r} : pc'[q] = pc[q] /\ loc'[q] = loc[q] /\ req'[q] = req[q]
        /\ \A c \in Bindings : issued'[c] = issued[c]
    BY <1>2, AnswerFacts DEF Codes
  <2> QED
    BY <2>1, EndsJ
<1>3. CASE Refuse(r, "conflict")
  BY <1>3, RefuseFacts, EndsJ DEF Codes
<1> QED
  BY <1>1, <1>2, <1>3 DEF Known

LEMMA GetRecordJ ==
    ASSUME Readable, JInv, IInv', NEW r \in Requests, GetRecord(r)
    PROVE  JInv'
<1> USE DEF JInv
<1> DEFINE rec == binding[req[r].id]
<1>0. UNCHANGED state /\ InFlight(r) /\ ~Fails("record")
  BY DEF GetRecord, InFlight, Readable, Fails
<1>1. CASE rec # NoBinding /\ Goto(r, "secret", [loc[r] EXCEPT !.known = rec])
  <2>1. [loc[r] EXCEPT !.known = rec] \in Locals /\ [loc[r] EXCEPT !.known = rec].alone = loc[r].alone
    BY InputTypes DEF IInv, TypeOK, Locals
  <2>2. pc'[r] = "secret" /\ req'[r] = req[r]
    BY <1>1, <2>1, GotoFacts DEF Calls
  <2>3. HandlerOK(r)' /\ LoneOK(r)'
    BY <1>0, <2>2 DEF HandlersOK, HandlerOK, LoneOK, InFlight, BindCalls, UnbindCalls
  <2>4. issued[req[r].id] = NotIssued \/ req[r].op = "bind"
    BY <1>0, NothingIssued
  <2> QED
    BY <1>0, <1>1, <2>1, <2>3, <2>4, MovesOnJ DEF Calls
<1>2. CASE Known(r, rec, NoCreds)
  BY <1>0, <1>2, KnownJ DEF Sources
<1>3. CASE Unknown(r) /\ rec = NoBinding
  BY <1>0, <1>3, UnknownJ
<1> QED
  BY <1>0, <1>1, <1>2, <1>3 DEF GetRecord

LEMMA GetSecretJ ==
    ASSUME Readable, JInv, IInv', NEW r \in Requests, GetSecret(r)
    PROVE  JInv'
<1>1. ReadCredentials(req[r].id) \in Sources
  BY InputTypes DEF ReadCredentials, JInv, IInv, TypeOK, StoreSecrets, Sources
<1>2. UNCHANGED state /\ InFlight(r) /\ Known(r, loc[r].known, ReadCredentials(req[r].id))
  BY DEF GetSecret, InFlight, Readable, Fails
<1> QED
  BY <1>1, <1>2, KnownJ

LEMMA InstanceNamespaceJ ==
    ASSUME JInv, IInv', NEW r \in Requests, InstanceNamespace(r)
    PROVE  JInv'
<1> USE DEF JInv
<1> DEFINE next == IF req[r].op = "bind" THEN "source"
                   ELSE IF req[r].service \in Projecting THEN "unproject" ELSE "delete"
<1>0. UNCHANGED state /\ InFlight(r) /\ issued[req[r].id] = NotIssued
  BY NothingIssued DEF InstanceNamespace, InFlight
<1>1. PICK n \in Namespaces : Goto(r, next, [loc[r] EXCEPT !.ns = n, !.known = NoBinding])
  <2>1. instance[req[r].inst] # NoInstance => instance[req[r].inst].ns \in Namespaces
    BY InputTypes DEF IInv, TypeOK, InstanceRecords
  <2> QED
    BY <2>1, BindingAssumption DEF InstanceNamespace
<1> DEFINE l == [loc[r] EXCEPT !.ns = n, !.known = NoBinding]
<1>2. l \in Locals /\ l.alone = loc[r].alone
  BY InputTypes DEF Locals
<1>3. pc'[r] = next /\ req'[r] = req[r] /\ loc'[r] = l
  BY <1>1, <1>2, GotoFacts DEF Calls
<1>4. HandlerOK(r)'
  BY <1>0, <1>3 DEF InstanceNamespace, HandlersOK, HandlerOK, BindCalls, UnbindCalls, InFlight, state
<1>5. LoneOK(r)'
  <2>1. LoneOK(r) /\ pc[r] = "namespace" /\ binding' = binding
    BY <1>0 DEF InstanceNamespace, HandlersOK, state
  <2>2. next \in {"source", "unproject", "delete"}
    OBVIOUS
  <2> HIDE DEF next, l
  <2> QED
    BY <1>2, <1>3, <2>1, <2>2 DEF LoneOK
<1> QED
  BY <1>0, <1>1, <1>2, <1>4, <1>5, MovesOnJ DEF Calls

LEMMA BindCredentialsJ ==
    ASSUME JInv, IInv', NEW r \in Requests, BindCredentials(r)
    PROVE  JInv'
<1> USE DEF JInv
<1> DEFINE i    == req[r].inst
           next == IF req[r].service \in Projecting THEN "owner" ELSE "put"
           l    == [loc[r] EXCEPT !.creds = source[i]]
<1>0. UNCHANGED state /\ InFlight(r) /\ issued[req[r].id] = NotIssued
  BY NothingIssued DEF BindCredentials, InFlight
<1>1. CASE /\ source[i] # NoSource
           /\ instance[i] = [ns |-> loc[r].ns, service |-> req[r].service]
           /\ Goto(r, next, l)
  <2>1. l \in Locals /\ l.alone = loc[r].alone
    <3>1. i \in Instances /\ loc[r] \in Locals
      BY InputTypes
    <3>2. source[i] \in Sources
      BY <1>1, <3>1 DEF IInv, TypeOK
    <3> QED
      BY <3>1, <3>2 DEF Locals
  <2>2. pc'[r] = next /\ req'[r] = req[r] /\ loc'[r] = l /\ l.ns = loc[r].ns
    BY <1>1, <2>1, GotoFacts, InputTypes DEF Calls, Locals
  <2>3. /\ req[r].op = "bind" /\ (loc[r].alone => binding[req[r].id] = NoBinding)
        /\ binding' = binding /\ instance' = instance
    BY <1>0 DEF BindCredentials, HandlersOK, HandlerOK, LoneOK, BindCalls, state
  <2>4. next \in {"owner", "put"} /\ (next = "put" => req[r].service \notin Projecting)
    OBVIOUS
  <2>5. HandlerOK(r)' /\ LoneOK(r)'
    <3>1. pc'[r] \in {"owner", "put"} /\ (pc'[r] = "put" => req'[r].service \notin Projecting)
      BY <2>2, <2>4
    <3>2. instance'[i] = [ns |-> loc'[r].ns, service |-> req[r].service]
      BY <1>1, <2>2, <2>3
    <3> HIDE DEF l, next
    <3> QED
      BY <2>1, <2>2, <2>3, <3>1, <3>2 DEF HandlerOK, LoneOK, BindCalls, UnbindCalls, InFlight
  <2> QED
    BY <1>0, <1>1, <2>1, <2>5, MovesOnJ DEF Calls
<1>2. CASE Refuse(r, "error")
  BY <1>0, <1>2, RefuseFacts, EndsJ DEF Codes
<1> QED
  BY <1>1, <1>2 DEF BindCredentials

LEMMA ProjectionOwnerJ ==
    ASSUME JInv, IInv', NEW r \in Requests, ProjectionOwner(r)
    PROVE  JInv'
<1> USE DEF JInv
<1> DEFINE l == [loc[r] EXCEPT !.owner = "live"]
<1>0. /\ UNCHANGED state /\ InFlight(r) /\ issued[req[r].id] = NotIssued
      /\ instance[req[r].inst] = [ns |-> loc[r].ns, service |-> req[r].service]
      /\ req[r].op = "bind" /\ (loc[r].alone => binding[req[r].id] = NoBinding)
  BY NothingIssued DEF ProjectionOwner, InFlight, HandlersOK, HandlerOK, LoneOK, BindCalls
<1>1. CASE Goto(r, "project", l)
  <2>1. l \in Locals /\ l.ns = loc[r].ns /\ l.owner = "live" /\ l.alone = loc[r].alone
    BY InputTypes DEF Locals, Owners
  <2>2. pc'[r] = "project" /\ req'[r] = req[r] /\ loc'[r] = l
    BY <1>1, <2>1, GotoFacts DEF Calls
  <2>3. HandlerOK(r)' /\ LoneOK(r)'
    BY <1>0, <2>1, <2>2 DEF HandlerOK, LoneOK, BindCalls, UnbindCalls, InFlight, state
  <2> QED
    BY <1>0, <1>1, <2>1, <2>3, MovesOnJ DEF Calls
<1>2. CASE Refuse(r, "error")
  BY <1>0, <1>2, RefuseFacts, EndsJ DEF Codes
<1>3. instance[req[r].inst] # NoInstance /\ instance[req[r].inst].ns = loc[r].ns
  BY <1>0, InputTypes, BindingAssumption DEF InstanceRecords
<1> QED
  BY <1>1, <1>2, <1>3 DEF ProjectionOwner

\* A step of a handler that has nothing issued to answer for, and after which
\* there still is nothing, needs no look at Standing.
LEMMA WorksJ ==
    ASSUME JInv, IInv', NEW r \in Requests, InFlight(r), issued[req[r].id] = NotIssued,
           UNCHANGED instance,
           \A q \in Requests \ {r} : pc'[q] = pc[q] /\ loc'[q] = loc[q] /\ req'[q] = req[q],
           \/ pc'[r] = "idle"
           \/ /\ req'[r] = req[r] /\ loc'[r].alone = loc[r].alone
              /\ HandlerOK(r)' /\ LoneOK(r)',
           \A c \in Bindings : issued'[c] = issued[c],
           \A c \in Bindings \ {req[r].id} :
               /\ binding'[c] = binding[c] /\ secret'[c] = secret[c]
               /\ \A n \in Namespaces : projected'[<<c, n>>] = projected[<<c, n>>]
    PROVE  JInv'
<1>1. PICK b \in Bindings : b = req[r].id
  BY InputTypes DEF JInv
<1>2. Standing(b)'
  BY <1>1 DEF Standing
<1> QED
  BY <1>1, <1>2, OwnStep

LEMMA WriteProjectionJ ==
    ASSUME JInv, IInv', NEW r \in Requests, WriteProjection(r)
    PROVE  JInv'
<1> USE DEF JInv
<1> DEFINE b == req[r].id
           k == <<b, loc[r].ns>>
<1>0. /\ InFlight(r) /\ issued[b] = NotIssued /\ b \in Bindings /\ k \in Bindings \X Namespaces
      /\ instance[req[r].inst] = [ns |-> loc[r].ns, service |-> req[r].service]
      /\ req[r].op = "bind" /\ loc[r].owner = "live"
      /\ loc[r].alone => binding[b] = NoBinding
      /\ UNCHANGED <<instance, source, binding, secret>>
  BY NothingIssued, InputTypes
  DEF WriteProjection, InFlight, HandlersOK, HandlerOK, LoneOK, BindCalls
<1>1. CASE /\ Goto(r, "put", loc[r])
           /\ projected' = [projected EXCEPT ![k] =
                [creds |-> loc[r].creds, inst |-> req[r].inst,
                 owner |-> IF loc[r].owner = "none" /\ @ # NoSecret
                           THEN @.owner ELSE loc[r].owner]]
  <2>1. /\ pc'[r] = "put" /\ req'[r] = req[r] /\ loc'[r] = loc[r] /\ issued' = issued
        /\ \A q \in Requests \ {r} : pc'[q] = pc[q] /\ loc'[q] = loc[q] /\ req'[q] = req[q]
    BY <1>1, GotoFacts, InputTypes DEF Calls
  <2>2. projected \in [Bindings \X Namespaces -> Projections \union {NoSecret}]
    BY DEF IInv, TypeOK
  <2>3. projected'[k] = [creds |-> loc[r].creds, owner |-> "live", inst |-> req[r].inst]
    BY <1>0, <1>1, <2>2
  <2>4. \A c \in Bindings \ {b}, n \in Namespaces : projected'[<<c, n>>] = projected[<<c, n>>]
    BY <1>1, <2>2
  <2>5. HandlerOK(r)' /\ LoneOK(r)'
    BY <1>0, <2>1, <2>3 DEF HandlerOK, LoneOK, BindCalls, UnbindCalls, InFlight
  <2> QED
    BY <1>0, <2>1, <2>4, <2>5, WorksJ
<1>2. CASE Refuse(r, "error") /\ UNCHANGED projected
  BY <1>0, <1>2, RefuseFacts, EndsJ DEF Codes, state
<1> QED
  BY <1>1, <1>2 DEF WriteProjection

LEMMA PutRecordJ ==
    ASSUME JInv, IInv', NEW r \in Requests, PutRecord(r)
    PROVE  JInv'
<1> USE DEF JInv
<1> DEFINE b    == req[r].id
           some == loc[r].creds # NoCreds
           call == IF some THEN "putOwner" ELSE "dropCredentials"
           rec  == [inst |-> req[r].inst, service |-> req[r].service, secret |-> some]
<1>0. /\ InFlight(r) /\ issued[b] = NotIssued /\ b \in Bindings
      /\ pc[r] = "put" /\ HandlerOK(r) /\ LoneOK(r)
      /\ UNCHANGED <<instance, source, secret, projected>>
  BY NothingIssued, InputTypes DEF PutRecord, InFlight, HandlersOK
<1>1. CASE binding' = [binding EXCEPT ![b] = rec] /\ Goto(r, call, loc[r])
  <2>1. /\ pc'[r] = call /\ req'[r] = req[r] /\ loc'[r] = loc[r] /\ issued' = issued
        /\ \A q \in Requests \ {r} : pc'[q] = pc[q] /\ loc'[q] = loc[q] /\ req'[q] = req[q]
    BY <1>1, GotoFacts, InputTypes DEF Calls
  <2>2. binding'[b] = rec /\ \A c \in Bindings \ {b} : binding'[c] = binding[c]
    BY <1>0, <1>1 DEF IInv, TypeOK
  <2>3. HandlerOK(r)'
    BY <1>0, <2>1, <2>2 DEF HandlerOK, BindCalls, UnbindCalls, InFlight
  <2>4. LoneOK(r)'
    BY <1>0, <2>1, <2>2 DEF LoneOK
  <2> QED
    BY <1>0, <2>1, <2>2, <2>3, <2>4, WorksJ
<1>2. CASE Refuse(r, "error") /\ UNCHANGED binding
  BY <1>0, <1>2, RefuseFacts, EndsJ DEF Codes, state
<1> QED
  BY <1>1, <1>2 DEF PutRecord

LEMMA SecretOwnerJ ==
    ASSUME JInv, IInv', NEW r \in Requests, SecretOwner(r)
    PROVE  JInv'
<1> USE DEF JInv
<1> DEFINE l == [loc[r] EXCEPT !.owner = "live"]
<1>0. /\ InFlight(r) /\ issued[req[r].id] = NotIssued /\ UNCHANGED state
      /\ pc[r] = "putOwner" /\ HandlerOK(r) /\ LoneOK(r)
  BY NothingIssued DEF SecretOwner, InFlight, HandlersOK
<1>1. CASE Goto(r, "credentials", l)
  <2>1. /\ l \in Locals /\ l.ns = loc[r].ns /\ l.owner = "live" /\ l.creds = loc[r].creds
        /\ l.alone = loc[r].alone
    BY InputTypes DEF Locals, Owners
  <2>2. pc'[r] = "credentials" /\ req'[r] = req[r] /\ loc'[r] = l
    BY <1>1, <2>1, GotoFacts DEF Calls
  <2>3. HandlerOK(r)' /\ LoneOK(r)'
    BY <1>0, <2>1, <2>2 DEF HandlerOK, LoneOK, BindCalls, UnbindCalls, InFlight, state
  <2> QED
    BY <1>0, <1>1, <2>1, <2>3, MovesOnJ DEF Calls
<1>2. CASE Refuse(r, "error")
  BY <1>0, <1>2, RefuseFacts, EndsJ DEF Codes
<1> QED
  BY <1>1, <1>2 DEF SecretOwner

\* The step that answers 201: everything the client is promised stands.
LEMMA CreatedJ ==
    ASSUME JInv, IInv', NEW r \in Requests,
           pc[r] \in {"credentials", "dropCredentials"},
           UNCHANGED <<instance, source, binding, projected>>,
           NEW s, secret' = [secret EXCEPT ![req[r].id] = s],
           loc[r].alone => s = IF loc[r].creds = NoCreds THEN NoSecret
                               ELSE [creds |-> loc[r].creds, owner |-> "live"],
           AfterCredentials(r, FALSE)
    PROVE  JInv'
<1> USE DEF JInv
<1>0. /\ InFlight(r) /\ issued[req[r].id] = NotIssued /\ HandlerOK(r) /\ LoneOK(r)
      /\ Answer(r, "created", loc[r].creds)
  BY NothingIssued DEF InFlight, HandlersOK, AfterCredentials
<1>1. PICK b \in Bindings : b = req[r].id
  BY InputTypes
<1>2. /\ pc'[r] = "idle"
      /\ \A q \in Requests \ {r} : pc'[q] = pc[q] /\ loc'[q] = loc[q] /\ req'[q] = req[q]
      /\ \A c \in Bindings \ {b} : issued'[c] = issued[c]
      /\ issued'[b] = IF loc[r].alone THEN loc[r].creds ELSE issued[b]
  BY <1>0, <1>1, AnswerFacts, InputTypes DEF Codes
<1>3. secret'[b] = s /\ \A c \in Bindings \ {b} : secret'[c] = secret[c]
  BY <1>1 DEF IInv, TypeOK
<1>4. Standing(b)'
  <2> SUFFICES ASSUME issued'[b] # NotIssued PROVE Standing(b)'
    BY DEF Standing
  <2>1. issued'[b] = loc[r].creds /\ loc[r].alone
    BY <1>0, <1>1, <1>2
  <2>2. /\ binding[b] = [inst |-> req[r].inst, service |-> req[r].service,
                         secret |-> loc[r].creds # NoCreds]
        /\ instance[req[r].inst] = [ns |-> loc[r].ns, service |-> req[r].service]
        /\ req[r].service \in Projecting =>
              projected[<<b, loc[r].ns>>] =
                  [creds |-> loc[r].creds, owner |-> "live", inst |-> req[r].inst]
    BY <1>0, <1>1, <2>1 DEF HandlerOK, LoneOK, BindCalls
  <2>3. binding[b] # NoBinding /\ instance[req[r].inst] # NoInstance
    <3>1. binding[b] \in BindingRecords
      BY <2>2, InputTypes DEF BindingRecords
    <3>2. instance[req[r].inst] \in InstanceRecords
      BY <2>2, InputTypes DEF InstanceRecords
    <3> QED
      BY <3>1, <3>2, BindingAssumption
  <2>4. BindStands(b, issued[b])'
    <3>1. /\ binding'[b] = binding[b] /\ instance' = instance /\ projected' = projected
          /\ secret'[b] = IF issued'[b] = NoCreds THEN NoSecret
                          ELSE [creds |-> issued'[b], owner |-> "live"]
      BY <1>3, <2>1
    <3> QED
      BY <2>1, <2>2, <2>3, <3>1 DEF BindStands
  <2>5. ASSUME NEW q \in Requests, InFlight(q)', req'[q].id = b PROVE FALSE
    <3>1. q # r /\ InFlight(q) /\ req[q].id = req[r].id
      BY <1>1, <1>2, <2>5 DEF InFlight
    <3> QED
      BY <1>0, <2>1, <3>1, Zenon DEF AloneIsAlone
  <2> QED
    BY <2>4, <2>5 DEF Standing
<1> QED
  BY <1>0, <1>1, <1>2, <1>3, <1>4, OwnStep

LEMMA WriteCredentialsJ ==
    ASSUME JInv, IInv', NEW r \in Requests, WriteCredentials(r)
    PROVE  JInv'
<1> USE DEF JInv
<1>0. /\ InFlight(r) /\ issued[req[r].id] = NotIssued
      /\ pc[r] = "credentials" /\ loc[r].creds # NoCreds
      /\ loc[r].alone => loc[r].owner = "live"
      /\ UNCHANGED <<instance, source, binding, projected>>
  BY NothingIssued DEF WriteCredentials, InFlight, HandlersOK, LoneOK, IInv, WritersOK, WriterOK
<1>1. CASE /\ secret' = [secret EXCEPT ![req[r].id] =
                          [creds |-> loc[r].creds, owner |-> loc[r].owner]]
           /\ AfterCredentials(r, FALSE)
  BY <1>0, <1>1, CreatedJ
<1>2. CASE Refuse(r, "error") /\ UNCHANGED secret
  BY <1>0, <1>2, RefuseFacts, EndsJ DEF Codes, state
<1> QED
  BY <1>1, <1>2 DEF WriteCredentials, AfterCredentials

LEMMA DropCredentialsJ ==
    ASSUME JInv, IInv', NEW r \in Requests, DropCredentials(r)
    PROVE  JInv'
<1> USE DEF JInv
<1>0. /\ InFlight(r) /\ issued[req[r].id] = NotIssued
      /\ pc[r] = "dropCredentials" /\ loc[r].creds = NoCreds
      /\ UNCHANGED <<instance, source, binding, projected>>
  BY NothingIssued DEF DropCredentials, InFlight, HandlersOK, HandlerOK
<1>1. CASE secret' = [secret EXCEPT ![req[r].id] = NoSecret] /\ AfterCredentials(r, FALSE)
  BY <1>0, <1>1, CreatedJ
<1>2. CASE Refuse(r, "error") /\ UNCHANGED secret
  BY <1>0, <1>2, RefuseFacts, EndsJ DEF Codes, state
<1> QED
  BY <1>1, <1>2 DEF DropCredentials, AfterCredentials

\* An unbind has reset what was issued when it came in.
LEMMA DeleteProjectionJ ==
    ASSUME JInv, IInv', NEW r \in Requests, DeleteProjection(r)
    PROVE  JInv'
<1> USE DEF JInv
<1> DEFINE b == req[r].id
<1>0. /\ InFlight(r) /\ issued[b] = NotIssued /\ req[r].op = "unbind"
      /\ UNCHANGED <<instance, source, binding, secret>>
  BY NothingIssued DEF DeleteProjection, InFlight, HandlersOK, HandlerOK, UnbindCalls
<1>1. CASE /\ projected' = [projected EXCEPT ![<<b, loc[r].ns>>] = NoSecret]
           /\ Goto(r, "delete", loc[r])
  <2>1. /\ pc'[r] = "delete" /\ req'[r] = req[r] /\ issued' = issued /\ loc'[r] = loc[r]
        /\ \A q \in Requests \ {r} : pc'[q] = pc[q] /\ loc'[q] = loc[q] /\ req'[q] = req[q]
    BY <1>1, GotoFacts, InputTypes DEF Calls
  <2>2. \A c \in Bindings \ {b}, n \in Namespaces : projected'[<<c, n>>] = projected[<<c, n>>]
    BY <1>1 DEF IInv, TypeOK
  <2>3. HandlerOK(r)' /\ LoneOK(r)'
    BY <1>0, <2>1 DEF HandlerOK, LoneOK, BindCalls, UnbindCalls
  <2> QED
    BY <1>0, <2>1, <2>2, <2>3, WorksJ
<1>2. CASE Refuse(r, "error") /\ UNCHANGED projected
  BY <1>0, <1>2, RefuseFacts, EndsJ DEF Codes, state
<1> QED
  BY <1>1, <1>2 DEF DeleteProjection

LEMMA DeleteRecordJ ==
    ASSUME JInv, IInv', NEW r \in Requests, DeleteRecord(r)
    PROVE  JInv'
<1> USE DEF JInv
<1> DEFINE b == req[r].id
<1>0. /\ InFlight(r) /\ issued[b] = NotIssued /\ req[r].op = "unbind"
      /\ pc[r] = "delete" /\ UNCHANGED <<instance, source, projected>>
  BY NothingIssued DEF DeleteRecord, InFlight, HandlersOK, HandlerOK, UnbindCalls
<1>1. CASE /\ binding' = [binding EXCEPT ![b] = NoBinding]
           /\ secret' = [secret EXCEPT ![b] = OrphanSecret(b)]
           /\ pc' = [pc EXCEPT ![r] = "deleteCredentials"]
           /\ loc' = [q \in Requests |->
                 IF pc[q] = "credentials" /\ req[q].id = b
                 THEN [loc[q] EXCEPT !.owner = Orphaned(@)] ELSE loc[q]]
           /\ UNCHANGED <<req, issued>>
  <2>1. /\ pc'[r] = "deleteCredentials" /\ req' = req /\ issued' = issued /\ loc'[r] = loc[r]
        /\ \A q \in Requests \ {r} : pc'[q] = pc[q]
    BY <1>0, <1>1 DEF IInv, TypeOK
  <2>2. ASSUME NEW q \in Requests \ {r}
        PROVE  /\ loc'[q].ns = loc[q].ns /\ loc'[q].creds = loc[q].creds
               /\ loc'[q].alone = loc[q].alone
               /\ loc'[q].owner = loc[q].owner \/ (pc[q] = "credentials" /\ req[q].id = b)
    <3>1. loc[q] \in Locals
      BY InputTypes
    <3> QED
      BY <1>1, <3>1 DEF Locals
  <2>3. \A c \in Bindings \ {b} : binding'[c] = binding[c] /\ secret'[c] = secret[c]
    BY <1>1 DEF IInv, TypeOK
  <2>4. HandlerOK(r)' /\ LoneOK(r)'
    BY <1>0, <2>1 DEF HandlerOK, LoneOK, BindCalls, UnbindCalls
  <2>5. PICK c \in Bindings : c = b
    BY InputTypes
  <2>6. Standing(c)'
    BY <1>0, <2>1, <2>5 DEF Standing
  <2> QED
    BY <1>0, <2>1, <2>2, <2>3, <2>4, <2>5, <2>6, OwnStep
<1>2. CASE Refuse(r, "error") /\ UNCHANGED <<binding, secret>>
  BY <1>0, <1>2, RefuseFacts, EndsJ DEF Codes, state
<1> QED
  BY <1>1, <1>2 DEF DeleteRecord

LEMMA DeleteCredentialsJ ==
    ASSUME JInv, IInv', NEW r \in Requests, DeleteCredentials(r)
    PROVE  JInv'
<1> USE DEF JInv
<1> DEFINE b == req[r].id
<1>0. /\ InFlight(r) /\ issued[b] = NotIssued
      /\ UNCHANGED <<instance, source, binding, projected>>
  BY NothingIssued DEF DeleteCredentials, InFlight
<1>1. CASE secret' = [secret EXCEPT ![b] = NoSecret] /\ Refuse(r, "ok")
  <2>1. \A c \in Bindings \ {b} : secret'[c] = secret[c]
    BY <1>1 DEF IInv, TypeOK
  <2> QED
    BY <1>0, <1>1, <2>1, RefuseFacts, WorksJ DEF Codes
<1>2. CASE Refuse(r, "error") /\ UNCHANGED secret
  BY <1>0, <1>2, RefuseFacts, EndsJ DEF Codes, state
<1> QED
  BY <1>1, <1>2 DEF DeleteCredentials

LEMMA HandleJ ==
    ASSUME Readable, JInv, IInv', NEW r \in Requests, Handle(r)
    PROVE  JInv'
BY GetRecordJ, GetSecretJ, InstanceNamespaceJ, BindCredentialsJ, ProjectionOwnerJ,
   WriteProjectionJ, PutRecordJ, SecretOwnerJ, WriteCredentialsJ, DropCredentialsJ,
   DeleteProjectionJ, DeleteRecordJ, DeleteCredentialsJ DEF Handle

\* What comes in.
LEMMA Arrivals ==
    ASSUME NEW r \in Requests, ReceiveBind(r) \/ ReceiveUnbind(r)
    PROVE  \E input \in Inputs :
               /\ Receive(r, input) /\ input.op \in {"bind", "unbind"}
               /\ "wrongPath" \notin Adverse /\ input.op = "unbind" /\ binding[input.id] # NoBinding =>
                      /\ input.inst = binding[input.id].inst
                      /\ input.service = binding[input.id].service
<1>1. \A b \in Bindings, i \in Instances, s \in Services :
        /\ [op |-> "bind", id |-> b, inst |-> i, service |-> s] \in Inputs
        /\ [op |-> "unbind", id |-> b, inst |-> i, service |-> s] \in Inputs
  BY DEF Inputs
<1>2. CASE ReceiveBind(r)
  BY <1>1, <1>2 DEF ReceiveBind
<1>3. CASE ReceiveUnbind(r)
  BY <1>1, <1>3 DEF ReceiveUnbind
<1> QED
  BY <1>2, <1>3

\* A request that comes in takes alone from whom it meets, and is alone itself when
\* it meets nobody.
LEMMA ArrivalFacts ==
    ASSUME IInv, AloneIsAlone, NEW r \in Requests, NEW input \in Inputs, Receive(r, input)
    PROVE  /\ ~InFlight(r) /\ UNCHANGED state /\ pc'[r] = "record" /\ req'[r] = input
           /\ \A q \in Requests \ {r} :
                  /\ pc'[q] = pc[q] /\ req'[q] = req[q]
                  /\ loc'[q].ns = loc[q].ns /\ loc'[q].owner = loc[q].owner
                  /\ loc'[q].creds = loc[q].creds
                  /\ loc'[q].alone => loc[q].alone
           /\ AloneIsAlone'
<1>2. /\ ~InFlight(r) /\ UNCHANGED state
      /\ pc'[r] = "record" /\ req'[r] = input
      /\ \A q \in Requests \ {r} : pc'[q] = pc[q] /\ req'[q] = req[q]
  BY DEF Receive, IInv, TypeOK
<1>3. loc' = [q \in Requests |->
          IF q = r THEN [NoLocals EXCEPT !.alone = QuietBinding(input.id)]
          ELSE IF InFlight(q) /\ req[q].id = input.id THEN [loc[q] EXCEPT !.alone = FALSE]
          ELSE loc[q]]
  BY DEF Receive
<1>4. loc'[r].alone => QuietBinding(input.id)
  <2>1. ASSUME NEW a \in BOOLEAN, loc'[r] = [NoLocals EXCEPT !.alone = a] PROVE loc'[r].alone = a
    BY <2>1 DEF NoLocals
  <2>2. QuietBinding(input.id) \in BOOLEAN
    BY DEF QuietBinding
  <2>3. loc'[r] = [NoLocals EXCEPT !.alone = QuietBinding(input.id)]
    BY <1>3
  <2> QED
    BY <2>1, <2>2, <2>3, Zenon
<1>5. ASSUME NEW q \in Requests, q # r
      PROVE  /\ loc'[q].ns = loc[q].ns /\ loc'[q].owner = loc[q].owner
             /\ loc'[q].creds = loc[q].creds
             /\ loc'[q].alone => loc[q].alone
             /\ InFlight(q) /\ req[q].id = input.id => ~loc'[q].alone
  <2>0. loc[q] \in Locals
    BY InputTypes
  <2>1. CASE InFlight(q) /\ req[q].id = input.id
    <3>1. loc'[q] = [loc[q] EXCEPT !.alone = FALSE]
      BY <1>3, <1>5, <2>1
    <3> QED
      BY <2>0, <3>1 DEF Locals
  <2>2. CASE ~(InFlight(q) /\ req[q].id = input.id)
    <3>1. loc'[q] = loc[q]
      BY <1>3, <1>5, <2>2
    <3> QED
      BY <2>2, <3>1
  <2> QED
    BY <2>1, <2>2
<1>6. AloneIsAlone'
  <2> SUFFICES ASSUME NEW p \in Requests, NEW q \in Requests, p # q,
                      InFlight(p)', InFlight(q)', loc'[q].alone, req'[p].id = req'[q].id
               PROVE  FALSE
    BY DEF AloneIsAlone
  <2>1. CASE q = r
    <3>1. InFlight(p) /\ req[p].id = input.id
      BY <1>2, <2>1 DEF InFlight
    <3>2. QuietBinding(input.id)
      BY <1>4, <2>1
    <3> QED
      BY <3>1, <3>2 DEF QuietBinding
  <2>2. CASE p = r
    <3>1. InFlight(q) /\ req[q].id = input.id
      BY <1>2, <2>2 DEF InFlight
    <3> QED
      BY <1>5, <2>2, <3>1
  <2>3. CASE p # r /\ q # r
    <3>1. InFlight(p) /\ InFlight(q) /\ req[p].id = req[q].id
      BY <1>2, <2>3 DEF InFlight
    <3>2. loc[q].alone
      BY <1>5, <2>3
    <3> QED
      BY <3>1, <3>2, Zenon DEF AloneIsAlone
  <2> QED
    BY <2>1, <2>2, <2>3
<1>7. \A q \in Requests \ {r} :
          /\ loc'[q].ns = loc[q].ns /\ loc'[q].owner = loc[q].owner
          /\ loc'[q].creds = loc[q].creds
          /\ loc'[q].alone => loc[q].alone
  BY <1>5
<1> QED
  BY <1>2, <1>6, <1>7, Zenon

\* An unbind takes back what was issued when it comes in.
LEMMA ReceiveJ ==
    ASSUME JInv, IInv', NEW r \in Requests, ReceiveBind(r) \/ ReceiveUnbind(r)
    PROVE  JInv'
<1> USE DEF JInv
<1>1. PICK input \in Inputs : Receive(r, input) /\ input.op \in {"bind", "unbind"}
  BY Arrivals
<1>2. /\ ~InFlight(r) /\ UNCHANGED state
      /\ pc'[r] = "record" /\ req'[r] = input
      /\ \A q \in Requests \ {r} : pc'[q] = pc[q] /\ req'[q] = req[q]
      /\ AloneIsAlone'
  BY <1>1, ArrivalFacts
<1>5. HandlersOK'
  <2> SUFFICES ASSUME NEW q \in Requests PROVE HandlerOK(q)' /\ LoneOK(q)'
    BY DEF HandlersOK
  <2>1. CASE q = r
    BY <1>1, <1>2, <2>1 DEF HandlerOK, LoneOK, BindCalls, UnbindCalls
  <2>2. CASE q # r
    <3>1. /\ pc'[q] = pc[q] /\ req'[q] = req[q] /\ loc'[q].ns = loc[q].ns
          /\ loc'[q].owner = loc[q].owner /\ loc'[q].creds = loc[q].creds
          /\ HandlerOK(q) /\ LoneOK(q)
      BY <1>1, <2>2, ArrivalFacts DEF HandlersOK
    <3>2. loc'[q].alone => loc[q].alone
      BY <1>1, <2>2, ArrivalFacts
    <3>3. instance' = instance /\ binding' = binding /\ projected' = projected
      BY <1>2 DEF state
    <3>4. HandlerOK(q)'
      BY <3>1, <3>3 DEF HandlerOK, InFlight
    <3>5. LoneOK(q)'
      BY <3>1, <3>2, <3>3 DEF LoneOK
    <3> QED
      BY <3>4, <3>5
  <2> QED
    BY <2>1, <2>2
<1>6. AllStanding'
  <2> SUFFICES ASSUME NEW b \in Bindings, issued'[b] # NotIssued PROVE Standing(b)'
    BY DEF AllStanding, Standing
  <2>1. issued'[b] = issued[b] /\ (input.op = "unbind" => b # input.id)
    BY <1>1 DEF Receive, IInv, TypeOK
  <2>2. BindStands(b, issued[b])'
    <3>1. BindStands(b, issued[b])
      BY <2>1 DEF AllStanding, Standing
    <3> QED
      BY <1>2, <2>1, <3>1 DEF BindStands, state
  <2>3. ASSUME NEW q \in Requests, InFlight(q)', req'[q].id = b
        PROVE  req'[q].op = "bind" /\ pc'[q] \in {"record", "secret"}
    <3>1. CASE q = r
      BY <1>1, <1>2, <2>1, <2>3, <3>1
    <3>2. CASE q # r
      BY <1>2, <2>1, <2>3, <3>2 DEF AllStanding, Standing, InFlight
    <3> QED
      BY <3>1, <3>2
  <2> QED
    BY <2>1, <2>2, <2>3 DEF Standing
<1> QED
  BY <1>2, <1>5, <1>6

LEMMA InstanceAppearsJ ==
    ASSUME JInv, IInv', NEW i \in Instances, InstanceAppears(i)
    PROVE  JInv'
<1> USE DEF JInv
<1>1. /\ instance[i] = NoInstance
      /\ \A j \in Instances \ {i} : instance'[j] = instance[j]
      /\ UNCHANGED <<source, binding, secret, projected, issued, pc, req, loc>>
  BY DEF InstanceAppears, IInv, TypeOK
<1>2. AloneIsAlone'
  BY <1>1 DEF AloneIsAlone, InFlight
<1>3. HandlersOK'
  <2> SUFFICES ASSUME NEW r \in Requests PROVE HandlerOK(r)'
    BY <1>1 DEF HandlersOK, LoneOK
  <2>1. CASE pc[r] \in BindCalls \ {"source"}
    <3>1. instance[req[r].inst] = [ns |-> loc[r].ns, service |-> req[r].service]
      BY <2>1 DEF HandlersOK, HandlerOK
    <3>2. instance[req[r].inst] \in InstanceRecords
      BY <3>1, InputTypes DEF InstanceRecords
    <3>3. req[r].inst \in Instances \ {i}
      BY <1>1, <3>2, BindingAssumption, InputTypes
    <3>4. instance'[req[r].inst] = instance[req[r].inst]
      BY <1>1, <3>3
    <3> QED
      BY <1>1, <3>4 DEF HandlersOK, HandlerOK, InFlight
  <2>2. CASE pc[r] \notin BindCalls \ {"source"}
    BY <1>1, <2>2 DEF HandlersOK, HandlerOK, InFlight
  <2> QED
    BY <2>1, <2>2
<1>4. AllStanding'
  <2> SUFFICES ASSUME NEW b \in Bindings, issued[b] # NotIssued PROVE Standing(b)'
    BY <1>1 DEF AllStanding, Standing
  <2>1. Standing(b) /\ BindStands(b, issued[b])
    BY DEF AllStanding, Standing
  <2>2. binding[b].inst \in Instances /\ binding[b].inst # i
    BY <1>1, <2>1 DEF BindStands, IInv, TypeOK, BindingRecords
  <2>3. instance'[binding[b].inst] = instance[binding[b].inst]
    BY <1>1, <2>2
  <2>4. BindStands(b, issued[b])'
    BY <1>1, <2>1, <2>3 DEF BindStands
  <2> QED
    BY <1>1, <2>1, <2>4 DEF Standing, InFlight
<1> QED
  BY <1>2, <1>3, <1>4

LEMMA InstanceGoesJ ==
    ASSUME Readable, JInv, IInv', NEW i \in Instances, InstanceGoes(i)
    PROVE  JInv'
<1> USE DEF JInv
<1>1. /\ ~HasBindings(i) /\ QuietInstance(i)
      /\ \A j \in Instances \ {i} : instance'[j] = instance[j]
      /\ UNCHANGED <<binding, secret, issued, pc, req>>
  BY DEF InstanceGoes, Readable, IInv, TypeOK
<1>2. \A p \in Bindings \X Namespaces :
          projected'[p] = projected[p] \/ (projected[p] # NoSecret /\ projected[p].inst = i)
  BY DEF InstanceGoes
<1>3. \A r \in Requests : InFlight(r) => req[r].inst # i /\ loc'[r] = loc[r]
  BY <1>1 DEF InstanceGoes, QuietInstance, InFlight
<1>4. AloneIsAlone'
  BY <1>1, <1>3 DEF AloneIsAlone, InFlight
<1>5. HandlersOK'
  <2> SUFFICES ASSUME NEW r \in Requests PROVE HandlerOK(r)' /\ LoneOK(r)'
    BY DEF HandlersOK
  <2>1. CASE InFlight(r)
    <3> DEFINE k == <<req[r].id, loc[r].ns>>
               j == req[r].inst
    <3>1. k \in Bindings \X Namespaces /\ j \in Instances \ {i} /\ loc'[r] = loc[r]
      BY <1>3, <2>1, InputTypes
    <3>2. instance'[j] = instance[j]
      BY <1>1, <3>1
    <3>3. \A c : projected[k] = [creds |-> c, owner |-> "live", inst |-> j]
                 => projected'[k] = projected[k]
      BY <1>2, <3>1
    <3>4. HandlerOK(r) /\ LoneOK(r)
      BY DEF HandlersOK
    <3>5. HandlerOK(r)'
      BY <1>1, <3>1, <3>2, <3>4 DEF HandlerOK, InFlight
    <3>6. LoneOK(r)'
      BY <1>1, <3>1, <3>3, <3>4 DEF LoneOK
    <3> QED
      BY <3>5, <3>6
  <2>2. CASE ~InFlight(r)
    BY <1>1, <2>2 DEF HandlerOK, LoneOK, InFlight, BindCalls, UnbindCalls
  <2> QED
    BY <2>1, <2>2
<1>6. AllStanding'
  <2> SUFFICES ASSUME NEW b \in Bindings, issued[b] # NotIssued PROVE Standing(b)'
    BY <1>1 DEF AllStanding, Standing
  <2> DEFINE j == binding[b].inst
             k == <<b, instance[j].ns>>
  <2>1. Standing(b) /\ BindStands(b, issued[b])
    BY DEF AllStanding, Standing
  <2>2. j \in Instances /\ j # i
    BY <1>1, <2>1 DEF BindStands, IInv, TypeOK, BindingRecords, HasBindings
  <2>3. instance'[j] = instance[j] /\ k \in Bindings \X Namespaces
    <3>1. instance[j] \in InstanceRecords
      BY <2>1, <2>2 DEF BindStands, IInv, TypeOK
    <3> QED
      BY <1>1, <2>2, <3>1 DEF InstanceRecords
  <2>4. binding[b].service \in Projecting => projected'[k] = projected[k]
    BY <1>2, <2>1, <2>2, <2>3 DEF BindStands
  <2>5. BindStands(b, issued[b])'
    BY <1>1, <2>1, <2>3, <2>4 DEF BindStands
  <2> QED
    BY <1>1, <2>1, <2>5 DEF Standing, InFlight
<1> QED
  BY <1>4, <1>5, <1>6

LEMMA PublishJ ==
    ASSUME JInv, IInv', NEW i \in Instances, NEW creds \in Sources, Publish(i, creds)
    PROVE  JInv'
<1>1. UNCHANGED <<instance, binding, secret, projected, issued, pc, req, loc>>
  BY DEF Publish
<1>2. \A r \in Requests : HandlerOK(r) /\ LoneOK(r) => HandlerOK(r)' /\ LoneOK(r)'
  BY <1>1 DEF HandlerOK, LoneOK, InFlight
<1>3. \A b \in Bindings : Standing(b) => Standing(b)'
  BY <1>1 DEF Standing, BindStands, InFlight
<1> QED
  BY <1>1, <1>2, <1>3 DEF JInv, AloneIsAlone, InFlight, HandlersOK, AllStanding

\* The garbage collector takes what has lost its owner, and what an answered or
\* a running bind has written has not.
LEMMA CollectJ ==
    ASSUME JInv, IInv', Collect
    PROVE  JInv'
<1> USE DEF JInv
<1>1. /\ UNCHANGED <<instance, source, binding, issued, pc, req, loc>>
      /\ \A b \in Bindings : secret'[b] = secret[b]
                             \/ (secret[b] # NoSecret /\ secret[b].owner = "gone")
      /\ \A p \in Bindings \X Namespaces :
             projected'[p] = projected[p]
             \/ (projected[p] # NoSecret /\ projected[p].owner = "gone")
  BY DEF Collect, CollectSecret, CollectProjection, IInv, TypeOK
<1>2. AloneIsAlone'
  BY <1>1 DEF AloneIsAlone, InFlight
<1>3. HandlersOK'
  <2> SUFFICES ASSUME NEW r \in Requests PROVE HandlerOK(r)' /\ LoneOK(r)'
    BY DEF HandlersOK
  <2> DEFINE k == <<req[r].id, loc[r].ns>>
  <2>1. k \in Bindings \X Namespaces
    BY InputTypes
  <2>2. \A c, j : projected[k] = [creds |-> c, owner |-> "live", inst |-> j]
                 => projected'[k] = projected[k]
    BY <1>1, <2>1
  <2> QED
    BY <1>1, <2>2 DEF HandlersOK, HandlerOK, LoneOK, InFlight
<1>4. AllStanding'
  <2> SUFFICES ASSUME NEW b \in Bindings, issued[b] # NotIssued PROVE Standing(b)'
    BY <1>1 DEF AllStanding, Standing
  <2> DEFINE j == binding[b].inst
             k == <<b, instance[j].ns>>
  <2>1. Standing(b) /\ BindStands(b, issued[b])
    BY DEF AllStanding, Standing
  <2>2. k \in Bindings \X Namespaces
    <3>1. instance[j] \in InstanceRecords
      BY <2>1 DEF BindStands, IInv, TypeOK, BindingRecords
    <3> QED
      BY <3>1 DEF InstanceRecords
  <2>3. secret'[b] = secret[b]
    BY <1>1, <2>1 DEF BindStands
  <2>4. binding[b].service \in Projecting => projected'[k] = projected[k]
    BY <1>1, <2>1, <2>2 DEF BindStands
  <2>5. BindStands(b, issued[b])'
    BY <1>1, <2>1, <2>3, <2>4 DEF BindStands
  <2> QED
    BY <1>1, <2>1, <2>5 DEF Standing, InFlight
<1> QED
  BY <1>2, <1>3, <1>4

LEMMA CrashJ ==
    ASSUME JInv, IInv', Crash
    PROVE  JInv'
<1>1. (\A r \in Requests : pc'[r] = "idle") /\ UNCHANGED <<state, issued>>
  BY DEF Crash
<1>2. AloneIsAlone' /\ HandlersOK'
  BY <1>1 DEF AloneIsAlone, InFlight, HandlersOK, HandlerOK, LoneOK, BindCalls, UnbindCalls
<1>3. \A b \in Bindings : Standing(b) => Standing(b)'
  BY <1>1 DEF Standing, BindStands, InFlight, state
<1> QED
  BY <1>2, <1>3 DEF JInv, AllStanding

LEMMA InitJInv == Init => JInv
<1> SUFFICES ASSUME Init PROVE JInv
  OBVIOUS
<1>1. AloneIsAlone /\ HandlersOK /\ AllStanding
  BY DEF Init, AloneIsAlone, InFlight, HandlersOK, HandlerOK, LoneOK, BindCalls, UnbindCalls,
     AllStanding, Standing
<1> QED
  BY <1>1, InitIInv DEF JInv

LEMMA NextJInv ==
    ASSUME Readable, JInv, [Next]_vars
    PROVE  JInv'
<1>1. IInv'
  BY NextIInv DEF JInv
<1>2. CASE UNCHANGED vars
  <2>1. \A r \in Requests : HandlerOK(r) /\ LoneOK(r) => HandlerOK(r)' /\ LoneOK(r)'
    BY <1>2 DEF vars, HandlerOK, LoneOK, InFlight
  <2>2. \A b \in Bindings : Standing(b) => Standing(b)'
    BY <1>2 DEF vars, Standing, BindStands, InFlight
  <2> QED
    BY <1>1, <1>2, <2>1, <2>2 DEF vars, JInv, AloneIsAlone, InFlight, HandlersOK, AllStanding
<1>3. ASSUME NEW i \in Instances,
             InstanceAppears(i) \/ InstanceGoes(i) \/ \E creds \in Sources : Publish(i, creds)
      PROVE  JInv'
  BY <1>1, <1>3, InstanceAppearsJ, InstanceGoesJ, PublishJ
<1> QED
  BY <1>1, <1>2, <1>3, HandleJ, ReceiveJ, CollectJ, CrashJ DEF Next

LEMMA JInvHolds ==
    ASSUME Readable
    PROVE  Spec => []JInv
<1>1. JInv /\ [Next]_vars => JInv'
  BY NextJInv
<1> QED
  BY <1>1, InitJInv, PTL DEF Spec

\* With a readable store and no deprovision under a bind, what a 201 handed out stands
\* until the next unbind (AnsweredBindStands), whatever else fails or crashes and
\* whichever handlers overlap.
THEOREM AnsweredBindsStand ==
    ASSUME Readable
    PROVE  Spec => []AnsweredBindStands
<1>1. JInv => AnsweredBindStands
  BY DEF JInv, AllStanding, Standing, AnsweredBindStands
<1> QED
  BY <1>1, JInvHolds, PTL

-----------------------------------------------------------------------------
(* A platform that queues the requests of a binding besides.               *)

Orderly == Readable /\ "overlap" \notin Adverse

AllAlone == \A r \in Requests : InFlight(r) => loc[r].alone

QInv == JInv /\ AllAlone

\* The record of a binding is written where there is none, if nothing is issued for
\* it that this handler could be late for, and nobody overlaps.
LEMMA RecordStep ==
    ASSUME JInv, [Next]_vars, NEW b \in Bindings,
           AllAlone \/ issued[b] # NotIssued,
           binding[b] # NoBinding, binding'[b] # NoBinding
    PROVE  binding'[b] = binding[b]
<1> USE DEF JInv
<1>1. ASSUME NEW r \in Requests, ReceiveBind(r) \/ ReceiveUnbind(r) PROVE UNCHANGED binding
  BY <1>1 DEF ReceiveBind, ReceiveUnbind, Receive, state
<1>2. ASSUME NEW r \in Requests, Handle(r), ~PutRecord(r), ~DeleteRecord(r) PROVE UNCHANGED binding
  BY <1>2 DEF Handle, GetRecord, GetSecret, InstanceNamespace, BindCredentials, ProjectionOwner,
     WriteProjection, SecretOwner, WriteCredentials, DropCredentials, DeleteProjection,
     DeleteCredentials, state
<1>3. ASSUME NEW r \in Requests, PutRecord(r) PROVE binding'[b] = binding[b]
  <2>1. InFlight(r) /\ pc[r] = "put"
    BY <1>3 DEF PutRecord, InFlight
  <2>2. issued[req[r].id] = NotIssued
    BY <2>1, NothingIssued
  <2>3. CASE req[r].id = b
    <3>1. AllAlone
      BY <2>2, <2>3
    <3>2. loc[r].alone
      BY <2>1, <3>1 DEF AllAlone
    <3>3. binding[req[r].id] = NoBinding
      BY <2>1, <3>2 DEF HandlersOK, HandlerOK, LoneOK, BindCalls
    <3> QED
      BY <2>3, <3>3
  <2>4. CASE req[r].id # b
    BY <1>3, <2>4 DEF PutRecord, IInv, TypeOK
  <2> QED
    BY <2>3, <2>4
<1>4. ASSUME NEW r \in Requests, DeleteRecord(r) PROVE binding'[b] = binding[b]
  BY <1>4 DEF DeleteRecord, IInv, TypeOK
<1>5. ASSUME NEW i \in Instances,
             InstanceAppears(i) \/ InstanceGoes(i) \/ \E creds \in Sources : Publish(i, creds)
      PROVE  UNCHANGED binding
  BY <1>5 DEF InstanceAppears, InstanceGoes, Publish
<1>6. CASE Collect \/ Crash \/ UNCHANGED vars
  BY <1>6 DEF Collect, CollectSecret, CollectProjection, Crash, vars, state
<1> QED
  BY <1>1, <1>2, <1>3, <1>4, <1>5, <1>6 DEF Next

LEMMA AnswerSays ==
    ASSUME IInv, NEW r \in Requests, NEW code, NEW creds, Answer(r, code, creds)
    PROVE  /\ pc'[r] = "idle" /\ loc'[r].code = code /\ loc'[r].creds = creds
           /\ \A q \in Requests \ {r} : pc'[q] = pc[q] /\ loc'[q] = loc[q] /\ req'[q] = req[q]
           /\ code # "created" => \A b \in Bindings : issued'[b] = issued[b]
<1>1. loc' = [loc EXCEPT ![r] = [NoLocals EXCEPT !.code = code, !.creds = creds]]
  BY DEF Answer
<1>2. loc'[r].code = code /\ loc'[r].creds = creds
  BY <1>1 DEF IInv, TypeOK, NoLocals
<1>3. \A q \in Requests \ {r} : loc'[q] = loc[q]
  BY <1>1 DEF IInv, TypeOK
<1>4. pc'[r] = "idle" /\ \A q \in Requests \ {r} : pc'[q] = pc[q] /\ req'[q] = req[q]
  BY DEF Answer, IInv, TypeOK
<1>5. code # "created" => \A b \in Bindings : issued'[b] = issued[b]
  BY DEF Answer, IInv, TypeOK
<1> QED
  BY <1>2, <1>3, <1>4, <1>5

LEMMA RefuseSays ==
    ASSUME IInv, NEW r \in Requests, NEW code, Refuse(r, code)
    PROVE  /\ pc'[r] = "idle" /\ loc'[r].code = code
           /\ \A q \in Requests \ {r} : pc'[q] = pc[q] /\ loc'[q] = loc[q] /\ req'[q] = req[q]
           /\ code # "created" => \A b \in Bindings : issued'[b] = issued[b]
BY AnswerSays DEF Refuse

LEMMA GotoSays ==
    ASSUME IInv, NEW r \in Requests, NEW call, NEW l, Goto(r, call, l)
    PROVE  /\ pc'[r] = call /\ loc'[r] = l /\ req' = req /\ issued' = issued
           /\ \A q \in Requests \ {r} : pc'[q] = pc[q] /\ loc'[q] = loc[q]
BY DEF Goto, IInv, TypeOK

\* How the step of a handler that is not its last may look, and the answers a
\* handler gives: 200 is the answer to a bind the store knows, read from the record
\* or from the Secret, and to an unbind whose last call has succeeded.
HandsOut(r) ==
    \/ /\ pc[r] = "record" /\ binding[req[r].id] # NoBinding
       /\ ~binding[req[r].id].secret
       /\ Known(r, binding[req[r].id], NoCreds)
    \/ /\ pc[r] = "secret"
       /\ Known(r, loc[r].known, ReadCredentials(req[r].id))

Removes(r) ==
    /\ pc[r] = "deleteCredentials"
    /\ secret' = [secret EXCEPT ![req[r].id] = NoSecret]
    /\ Refuse(r, "ok")

Creates(r) ==
    /\ pc[r] \in {"credentials", "dropCredentials"}
    /\ UNCHANGED <<instance, binding, projected>>
    /\ Answer(r, "created", loc[r].creds)

LEMMA HandleAnswers ==
    ASSUME IInv, NEW r \in Requests, Handle(r)
    PROVE  \/ issued' = issued /\ pc'[r] # "idle"
           \/ \E code \in Codes \ {"ok", "created"} : Refuse(r, code)
           \/ HandsOut(r) /\ UNCHANGED state
           \/ Removes(r) /\ UNCHANGED <<instance, binding, projected>>
           \/ Creates(r)
<1> DEFINE Goal == \/ issued' = issued /\ pc'[r] # "idle"
                   \/ \E code \in Codes \ {"ok", "created"} : Refuse(r, code)
                   \/ HandsOut(r) /\ UNCHANGED state
                   \/ Removes(r) /\ UNCHANGED <<instance, binding, projected>>
                   \/ Creates(r)
<1> SUFFICES Goal
  OBVIOUS
<1>1. ASSUME NEW call, NEW l, Goto(r, call, l), call # "idle" PROVE Goal
  BY <1>1, GotoSays
<1>2. ASSUME Refuse(r, "gone") \/ Refuse(r, "conflict") \/ Refuse(r, "error") PROVE Goal
  BY <1>2 DEF Codes
<1>3. Unknown(r) => Goal
  <2>1. Unknown(r) => Goto(r, "namespace", loc[r]) \/ Refuse(r, "gone")
    BY DEF Unknown
  <2> QED
    BY <2>1, <1>1, <1>2
<1>4. GetRecord(r) => Goal
  <2> SUFFICES ASSUME GetRecord(r) PROVE Goal
    OBVIOUS
  <2> DEFINE rec == binding[req[r].id]
  <2>1. \/ Goto(r, "secret", [loc[r] EXCEPT !.known = rec])
        \/ rec # NoBinding /\ ~rec.secret /\ Known(r, rec, NoCreds)
        \/ Unknown(r)
    BY DEF GetRecord
  <2>2. pc[r] = "record" /\ UNCHANGED state
    BY DEF GetRecord
  <2>3. (rec # NoBinding /\ ~rec.secret /\ Known(r, rec, NoCreds)) => HandsOut(r)
    BY <2>2 DEF HandsOut
  <2> QED
    BY <2>1, <2>2, <2>3, <1>1, <1>3
<1>5. GetSecret(r) => Goal
  <2>1. GetSecret(r) => (HandsOut(r) /\ UNCHANGED state) \/ Unknown(r)
    BY DEF GetSecret, HandsOut
  <2> QED
    BY <2>1, <1>3
<1>6. InstanceNamespace(r) => Goal
  <2> DEFINE next == IF req[r].op = "bind" THEN "source"
                     ELSE IF req[r].service \in Projecting THEN "unproject" ELSE "delete"
  <2>1. InstanceNamespace(r) => \E l : Goto(r, next, l)
    BY DEF InstanceNamespace
  <2> QED
    BY <2>1, <1>1
<1>7. BindCredentials(r) => Goal
  <2>1. BindCredentials(r) => (\E l : Goto(r, IF req[r].service \in Projecting THEN "owner" ELSE "put", l))
                              \/ Refuse(r, "error")
    BY DEF BindCredentials
  <2> QED
    BY <2>1, <1>1, <1>2
<1>8. ProjectionOwner(r) => Goal
  <2>1. ProjectionOwner(r) => (\E l : Goto(r, "project", l)) \/ Refuse(r, "error")
    BY DEF ProjectionOwner
  <2> QED
    BY <2>1, <1>1, <1>2
<1>9. WriteProjection(r) => Goal
  <2>1. WriteProjection(r) => (\E l : Goto(r, "put", l)) \/ Refuse(r, "error")
    BY DEF WriteProjection
  <2> QED
    BY <2>1, <1>1, <1>2
<1>10. PutRecord(r) => Goal
  <2>1. PutRecord(r) => (\E l : Goto(r, "putOwner", l) \/ Goto(r, "dropCredentials", l)) \/ Refuse(r, "error")
    BY DEF PutRecord
  <2> QED
    BY <2>1, <1>1, <1>2
<1>11. SecretOwner(r) => Goal
  <2>1. SecretOwner(r) => (\E l : Goto(r, "credentials", l)) \/ Refuse(r, "error")
    BY DEF SecretOwner
  <2> QED
    BY <2>1, <1>1, <1>2
<1>12. WriteCredentials(r) \/ DropCredentials(r) => Goal
  <2>1. WriteCredentials(r) \/ DropCredentials(r) => Creates(r) \/ Refuse(r, "error")
    BY DEF WriteCredentials, DropCredentials, AfterCredentials, Creates
  <2> QED
    BY <2>1, <1>2
<1>13. DeleteProjection(r) => Goal
  <2>1. DeleteProjection(r) => (\E l : Goto(r, "delete", l)) \/ Refuse(r, "error")
    BY DEF DeleteProjection
  <2> QED
    BY <2>1, <1>1, <1>2
<1>14. DeleteRecord(r) => Goal
  <2>1. DeleteRecord(r) => (pc'[r] = "deleteCredentials" /\ issued' = issued) \/ Refuse(r, "error")
    BY DEF DeleteRecord, IInv, TypeOK
  <2> QED
    BY <2>1, <1>2
<1>15. DeleteCredentials(r) => Goal
  <2>1. DeleteCredentials(r) =>
            (Removes(r) /\ UNCHANGED <<instance, binding, projected>>) \/ Refuse(r, "error")
    BY DEF DeleteCredentials, Removes
  <2> QED
    BY <2>1, <1>2
<1> HIDE DEF Goal
<1> QED
  BY <1>4, <1>5, <1>6, <1>7, <1>8, <1>9, <1>10, <1>11, <1>12, <1>13, <1>14, <1>15 DEF Handle


\* The step of a handler moves no other.
LEMMA HandleWaits ==
    ASSUME IInv, NEW r \in Requests, Handle(r), NEW q \in Requests \ {r}
    PROVE  pc'[q] = pc[q]
<1>1. CASE \E call, l : Goto(r, call, l)
  BY <1>1, GotoSays
<1>2. CASE \E code, creds : Answer(r, code, creds)
  BY <1>2, AnswerSays
<1>3. CASE DeleteRecord(r)
  <2>1. CASE Refuse(r, "error")
    BY <1>2, <2>1 DEF Refuse
  <2> QED
    BY <1>3, <2>1 DEF DeleteRecord, IInv, TypeOK
<1>4. Handle(r) => \/ \E call, l : Goto(r, call, l)
                   \/ \E code, creds : Answer(r, code, creds)
                   \/ DeleteRecord(r)
  BY DEF Handle, GetRecord, GetSecret, InstanceNamespace, BindCredentials, ProjectionOwner,
     WriteProjection, PutRecord, SecretOwner, WriteCredentials, DropCredentials,
     DeleteProjection, DeleteCredentials, AfterCredentials, Known, Unknown, Refuse
<1> QED
  BY <1>1, <1>2, <1>3, <1>4

\* A 200 is a handler's own last step.
LEMMA OkAnswers ==
    ASSUME IInv, [Next]_vars, NEW r \in Requests,
           InFlight(r), ~InFlight(r)', loc'[r].code = "ok"
    PROVE  \/ HandsOut(r) /\ UNCHANGED state
           \/ Removes(r) /\ UNCHANGED <<instance, binding, projected>>
<1>1. pc[r] # "idle" /\ pc'[r] = "idle"
  BY DEF InFlight
<1>2. CASE Handle(r)
  <2>1. ASSUME NEW code, Refuse(r, code) PROVE code = "ok"
    BY <2>1, RefuseSays
  <2>2. ~Creates(r)
    BY AnswerSays DEF Creates
  <2> QED
    BY <1>1, <1>2, <2>1, <2>2, HandleAnswers
<1>3. ASSUME NEW q \in Requests, q # r, Handle(q) PROVE FALSE
  BY <1>1, <1>3, HandleWaits
<1>4. ASSUME NEW q \in Requests, ReceiveBind(q) \/ ReceiveUnbind(q) PROVE FALSE
  <2>1. PICK input : Receive(q, input)
    BY <1>4 DEF ReceiveBind, ReceiveUnbind
  <2>2. pc' = [pc EXCEPT ![q] = "record"]
    BY <2>1 DEF Receive
  <2>3. pc'[r] = pc[r] \/ pc'[r] = "record"
    BY <2>2 DEF IInv, TypeOK
  <2> QED
    BY <1>1, <2>3
<1>5. ASSUME UNCHANGED pc PROVE FALSE
  BY <1>1, <1>5
<1>6. \A i \in Instances, creds \in Sources :
          InstanceAppears(i) \/ InstanceGoes(i) \/ Publish(i, creds) => UNCHANGED pc
  BY DEF InstanceAppears, InstanceGoes, Publish
<1>7. Collect \/ UNCHANGED vars => UNCHANGED pc
  BY DEF Collect, CollectSecret, CollectProjection, vars
<1>8. Crash => FALSE
  <2> SUFFICES ASSUME Crash PROVE FALSE
    OBVIOUS
  <2>1. loc'[r] = [NoLocals EXCEPT !.code = "lost"]
    BY DEF Crash
  <2> QED
    BY <2>1 DEF NoLocals
<1> QED
  <2>1. ASSUME NEW q \in Requests, ReceiveBind(q) \/ ReceiveUnbind(q) \/ Handle(q)
        PROVE  q = r /\ Handle(r)
    BY <2>1, <1>3, <1>4
  <2>2. ASSUME NEW i \in Instances,
               InstanceAppears(i) \/ InstanceGoes(i) \/ \E creds \in Sources : Publish(i, creds)
        PROVE  FALSE
    <3>1. Sources # {}
      BY DEF Sources
    <3> QED
      BY <2>2, <3>1, <1>5, <1>6
  <2>3. Handle(r) \/ Collect \/ Crash \/ UNCHANGED vars
    BY <2>1, <2>2 DEF Next
  <2> QED
    BY <1>2, <1>5, <1>7, <1>8, <2>3

-----------------------------------------------------------------------------
(* A platform that queues.                                                 *)

\* A handler that goes on stays as alone as it was, and makes no other less so.
LEMMA HandleAlone ==
    ASSUME IInv, NEW r \in Requests, Handle(r), NEW q \in Requests, InFlight(q)'
    PROVE  InFlight(q) /\ loc'[q].alone = loc[q].alone
<1> DEFINE Stays == \E call, l : Goto(r, call, l) /\ l.alone = loc[r].alone
           Ends  == \E code, creds : Answer(r, code, creds)
<1>0. loc[r] \in Locals /\ pc[r] # "idle"
  BY InputTypes DEF Handle, GetRecord, GetSecret, InstanceNamespace, BindCredentials,
     ProjectionOwner, WriteProjection, PutRecord, SecretOwner, WriteCredentials,
     DropCredentials, DeleteProjection, DeleteRecord, DeleteCredentials
<1>1. CASE Stays
  BY <1>0, <1>1, GotoSays DEF InFlight
<1>2. CASE Ends
  BY <1>2, AnswerSays DEF InFlight
<1>3. CASE DeleteRecord(r)
  <2>1. CASE Refuse(r, "error")
    BY <1>2, <2>1 DEF Refuse
  <2>2. CASE ~Refuse(r, "error")
    <3>1. /\ pc' = [pc EXCEPT ![r] = "deleteCredentials"]
          /\ loc' = [p \in Requests |->
                IF pc[p] = "credentials" /\ req[p].id = req[r].id
                THEN [loc[p] EXCEPT !.owner = Orphaned(@)] ELSE loc[p]]
      BY <1>3, <2>2 DEF DeleteRecord
    <3>2. loc[q] \in Locals
      BY InputTypes
    <3> QED
      BY <1>0, <3>1, <3>2 DEF InFlight, IInv, TypeOK, Locals
  <2> QED
    BY <2>1, <2>2
<1>4. ASSUME NEW call, Goto(r, call, loc[r]) PROVE Stays
  BY <1>4
<1>5. ASSUME NEW call, NEW rec, Goto(r, call, [loc[r] EXCEPT !.known = rec]) PROVE Stays
  BY <1>0, <1>5 DEF Locals
<1>6. ASSUME NEW call, NEW n, Goto(r, call, [loc[r] EXCEPT !.ns = n, !.known = NoBinding]) PROVE Stays
  <2>1. [loc[r] EXCEPT !.ns = n, !.known = NoBinding].alone = loc[r].alone
    BY <1>0 DEF Locals
  <2> QED
    BY <1>6, <2>1
<1>7. ASSUME NEW call, NEW c, Goto(r, call, [loc[r] EXCEPT !.creds = c]) PROVE Stays
  BY <1>0, <1>7 DEF Locals
<1>8. ASSUME NEW call, NEW o, Goto(r, call, [loc[r] EXCEPT !.owner = o]) PROVE Stays
  BY <1>0, <1>8 DEF Locals
<1>9. ASSUME NEW code, Refuse(r, code) PROVE Ends
  BY <1>9 DEF Refuse
<1>10. ASSUME NEW rec, NEW creds, Known(r, rec, creds) \/ Unknown(r) PROVE Stays \/ Ends
  BY <1>4, <1>9, <1>10 DEF Known, Unknown
<1> HIDE DEF Stays, Ends
<1>11. GetRecord(r) \/ GetSecret(r) => Stays \/ Ends
  BY <1>5, <1>10 DEF GetRecord, GetSecret
<1>12. InstanceNamespace(r) => Stays \/ Ends
  BY <1>6 DEF InstanceNamespace
<1>13. BindCredentials(r) => Stays \/ Ends
  BY <1>7, <1>9 DEF BindCredentials
<1>14. ProjectionOwner(r) \/ SecretOwner(r) => Stays \/ Ends
  BY <1>8, <1>9 DEF ProjectionOwner, SecretOwner
<1>15. WriteProjection(r) \/ PutRecord(r) \/ DeleteProjection(r) => Stays \/ Ends
  BY <1>4, <1>9 DEF WriteProjection, PutRecord, DeleteProjection
<1>16. WriteCredentials(r) \/ DropCredentials(r) \/ DeleteCredentials(r) => Ends
  BY <1>9 DEF WriteCredentials, DropCredentials, DeleteCredentials, AfterCredentials, Ends
<1> QED
  BY <1>1, <1>2, <1>3, <1>11, <1>12, <1>13, <1>14, <1>15, <1>16 DEF Handle

LEMMA NextQInv ==
    ASSUME Orderly, QInv, [Next]_vars
    PROVE  QInv'
<1> USE DEF QInv
<1>1. JInv'
  BY NextJInv DEF Orderly
<1>2. IInv /\ AloneIsAlone
  BY DEF JInv
<1>3. ASSUME NEW r \in Requests, ReceiveBind(r) \/ ReceiveUnbind(r) PROVE AllAlone'
  <2>1. PICK input \in Inputs : Receive(r, input)
    BY <1>3, Arrivals
  <2>2. QuietBinding(input.id)
    BY <2>1 DEF Receive, Orderly
  <2>3. loc'[r].alone
    <3>1. loc'[r] = [NoLocals EXCEPT !.alone = QuietBinding(input.id)]
      BY <2>1 DEF Receive
    <3>2. QuietBinding(input.id) = TRUE
      BY <2>2 DEF QuietBinding
    <3>3. loc'[r] = [NoLocals EXCEPT !.alone = TRUE]
      BY <3>1, <3>2, Zenon
    <3> QED
      BY <3>3 DEF NoLocals
  <2>4. ASSUME NEW q \in Requests, q # r, InFlight(q)' PROVE loc'[q].alone
    <3>1. InFlight(q)
      BY <1>2, <2>1, <2>4, ArrivalFacts DEF InFlight
    <3>2. loc'[q] = loc[q]
      BY <2>1, <2>2, <2>4, <3>1 DEF Receive, QuietBinding
    <3> QED
      BY <3>1, <3>2 DEF AllAlone
  <2> QED
    BY <2>3, <2>4 DEF AllAlone
<1>4. ASSUME NEW r \in Requests, Handle(r) PROVE AllAlone'
  BY <1>2, <1>4, HandleAlone DEF AllAlone
<1>5. ASSUME NEW i \in Instances, InstanceGoes(i) PROVE AllAlone'
  <2>1. ASSUME NEW q \in Requests, InFlight(q)' PROVE loc'[q].alone
    <3>1. InFlight(q) /\ loc[q] \in Locals
      BY <1>2, <1>5, <2>1, InputTypes DEF InstanceGoes, InFlight
    <3>2. loc'[q] = IF pc[q] = "project" /\ req[q].inst = i
                    THEN [loc[q] EXCEPT !.owner = Orphaned(@)] ELSE loc[q]
      BY <1>5 DEF InstanceGoes
    <3>3. loc'[q].alone = loc[q].alone
      BY <3>1, <3>2 DEF Locals
    <3> QED
      BY <3>1, <3>3 DEF AllAlone
  <2> QED
    BY <2>1 DEF AllAlone
<1>6. UNCHANGED <<pc, loc>> => AllAlone'
  BY DEF AllAlone, InFlight
<1>7. Crash => AllAlone'
  BY DEF Crash, AllAlone, InFlight
<1>8. \A i \in Instances, creds \in Sources :
          InstanceAppears(i) \/ Publish(i, creds) => UNCHANGED <<pc, loc>>
  BY DEF InstanceAppears, Publish
<1>9. Collect \/ UNCHANGED vars => UNCHANGED <<pc, loc>>
  BY DEF Collect, CollectSecret, CollectProjection, vars
<1>10. ASSUME NEW i \in Instances, InstanceAppears(i) PROVE UNCHANGED <<pc, loc>>
  BY <1>10 DEF InstanceAppears
<1> QED
  BY <1>1, <1>3, <1>4, <1>5, <1>6, <1>7, <1>8, <1>9, <1>10 DEF Next

\* With an orderly platform and a readable store, a binding stays with its
\* instance and service from its bind to its unbind (OneInstancePerBinding).
THEOREM BindingsStayPut ==
    ASSUME Orderly
    PROVE  Spec => OneInstancePerBinding
<1>1. Init => QInv
  BY InitJInv DEF Init, QInv, AllAlone, InFlight
<1>2. QInv /\ [Next]_vars => QInv'
  BY NextQInv
<1>3. QInv /\ [Next]_vars =>
        [\A b \in Bindings : binding[b] # NoBinding /\ binding'[b] # NoBinding
           => /\ binding'[b].inst = binding[b].inst
              /\ binding'[b].service = binding[b].service]_vars
  BY RecordStep DEF QInv
<1> QED
  BY <1>1, <1>2, <1>3, PTL DEF Spec, OneInstancePerBinding

-----------------------------------------------------------------------------
(* A repeated bind.                                                        *)

\* The record of an answered bind tells whether there are credentials to read.
RecordTells ==
    \A b \in Bindings :
        issued[b] # NotIssued => binding[b].secret = (issued[b] # NoCreds)

RInv == JInv /\ RecordTells

\* What was issued for a binding changes when an unbind comes in, and when a bind
\* whose record says the same answers 201.
LEMMA IssuedStep ==
    ASSUME JInv, [Next]_vars, NEW b \in Bindings, issued'[b] # NotIssued
    PROVE  \/ issued'[b] = issued[b]
           \/ binding'[b].secret = (issued'[b] # NoCreds)
<1> USE DEF JInv
<1>1. ASSUME NEW r \in Requests, ReceiveBind(r) \/ ReceiveUnbind(r)
      PROVE  issued'[b] = issued[b]
  BY <1>1 DEF ReceiveBind, ReceiveUnbind, Receive, IInv, TypeOK
<1>2. ASSUME NEW r \in Requests, Handle(r)
      PROVE  \/ issued'[b] = issued[b]
             \/ binding'[b].secret = (issued'[b] # NoCreds)
  <2>1. CASE Creates(r)
    <3>1. binding' = binding /\ Answer(r, "created", loc[r].creds)
      BY <2>1 DEF Creates
    <3>0. SUFFICES ASSUME loc[r].alone
                   PROVE  \/ issued'[b] = issued[b]
                          \/ binding'[b].secret = (issued'[b] # NoCreds)
      BY <3>1, AnswerFacts, InputTypes DEF Codes
    <3>2. binding[req[r].id].secret = (loc[r].creds # NoCreds)
      <4>1. LoneOK(r) /\ pc[r] \in {"putOwner", "credentials", "dropCredentials"}
        BY <2>1 DEF Creates, HandlersOK
      <4>2. binding[req[r].id] = [inst |-> req[r].inst, service |-> req[r].service,
                                  secret |-> loc[r].creds # NoCreds]
        BY <3>0, <4>1 DEF LoneOK
      <4>3. ASSUME NEW some \in BOOLEAN,
                   binding[req[r].id] = [inst |-> req[r].inst, service |-> req[r].service,
                                         secret |-> some]
            PROVE  binding[req[r].id].secret = some
        BY <4>3
      <4> QED
        BY <4>2, <4>3, Zenon
    <3>3. b # req[r].id => issued'[b] = issued[b]
      BY <3>1, AnswerFacts, InputTypes DEF Codes
    <3>4. b = req[r].id => issued'[b] = loc[r].creds \/ issued'[b] = issued[b]
      BY <3>1, AnswerFacts, InputTypes DEF Codes
    <3> QED
      BY <3>1, <3>2, <3>3, <3>4
  <2>2. CASE HandsOut(r)
    <3>1. ASSUME NEW rec, NEW creds, Known(r, rec, creds) PROVE issued'[b] = issued[b]
      <4>1. \/ Goto(r, "namespace", loc[r])
            \/ Answer(r, "ok", creds)
            \/ Refuse(r, "conflict")
        BY <3>1 DEF Known
      <4> QED
        BY <4>1, GotoSays, AnswerSays, RefuseSays
    <3> QED
      BY <2>2, <3>1 DEF HandsOut
  <2>3. ASSUME NEW code, Refuse(r, code), code # "created" PROVE issued'[b] = issued[b]
    BY <2>3, RefuseSays
  <2>4. CASE Removes(r)
    BY <2>3, <2>4 DEF Removes
  <2> QED
    BY <1>2, <2>1, <2>2, <2>3, <2>4, HandleAnswers
<1>3. ASSUME NEW i \in Instances,
             InstanceAppears(i) \/ InstanceGoes(i) \/ \E creds \in Sources : Publish(i, creds)
      PROVE  issued' = issued
  BY <1>3 DEF InstanceAppears, InstanceGoes, Publish
<1>4. Collect \/ Crash \/ UNCHANGED vars => issued' = issued
  BY DEF Collect, CollectSecret, CollectProjection, Crash, vars
<1> QED
  BY <1>1, <1>2, <1>3, <1>4 DEF Next

LEMMA NextRInv ==
    ASSUME Readable, RInv, [Next]_vars
    PROVE  RInv'
<1>1. JInv /\ JInv'
  BY NextJInv DEF RInv
<1>2. RecordTells'
  <2> SUFFICES ASSUME NEW b \in Bindings, issued'[b] # NotIssued
               PROVE  binding'[b].secret = (issued'[b] # NoCreds)
    BY DEF RecordTells
  <2> SUFFICES ASSUME issued'[b] = issued[b]
               PROVE  binding'[b].secret = (issued'[b] # NoCreds)
    BY <1>1, IssuedStep
  <2>0. issued[b] # NotIssued
    OBVIOUS
  <2>1. binding[b] # NoBinding
    BY <1>1 DEF JInv, AllStanding, Standing, BindStands
  <2>2. binding'[b] # NoBinding
    BY <1>1 DEF JInv, AllStanding, Standing, BindStands
  <2>3. binding'[b] = binding[b]
    BY <1>1, <2>0, <2>1, <2>2, RecordStep
  <2> QED
    BY <2>3 DEF RInv, RecordTells
<1> QED
  BY <1>1, <1>2 DEF RInv

LEMMA RInvHolds ==
    ASSUME Readable
    PROVE  Spec => []RInv
<1>1. Init => RInv
  BY InitJInv DEF Init, RInv, RecordTells
<1>2. RInv /\ [Next]_vars => RInv'
  BY NextRInv
<1> QED
  BY <1>1, <1>2, PTL DEF Spec

\* With a readable store and no deprovision under a bind, a bind repeated after a 201
\* answers 200 with the credentials of that 201 (RepeatAnswersSame), also when the
\* operator has rotated its own since, and whichever handlers overlap.
THEOREM RepeatedBindAnswersSame ==
    ASSUME Readable
    PROVE  Spec => RepeatAnswersSame
<1>1. RInv /\ [Next]_vars =>
        [\A r \in Requests :
            (/\ InFlight(r) /\ ~InFlight(r)'
             /\ req[r].op = "bind" /\ loc'[r].code = "ok"
             /\ loc[r].alone /\ issued[req[r].id] # NotIssued)
            => loc'[r].creds = issued[req[r].id]]_vars
  <2> SUFFICES ASSUME RInv, [Next]_vars, NEW r \in Requests,
                      InFlight(r), ~InFlight(r)',
                      req[r].op = "bind", loc'[r].code = "ok",
                      issued[req[r].id] # NotIssued
               PROVE  loc'[r].creds = issued[req[r].id]
    OBVIOUS
  <2> USE DEF RInv
  <2>1. PICK b \in Bindings : b = req[r].id
    BY InputTypes DEF JInv
  <2>2. BindStands(b, issued[b])
    BY <2>1 DEF JInv, AllStanding, Standing
  <2>3. ASSUME NEW rec, NEW creds, Known(r, rec, creds) PROVE loc'[r].creds = creds
    <3>1. Answer(r, "ok", creds) \/ Refuse(r, "conflict")
      BY <2>3 DEF Known
    <3> QED
      BY <3>1, AnswerSays, RefuseSays DEF JInv
  <2>4. ~Removes(r)
    BY DEF Removes, JInv, HandlersOK, HandlerOK, UnbindCalls
  <2>5. HandsOut(r)
    BY <2>4, OkAnswers DEF JInv
  <2>6. CASE Known(r, binding[b], NoCreds) /\ ~binding[b].secret
    <3>1. issued[b] = NoCreds
      BY <2>1, <2>6 DEF RecordTells
    <3> QED
      BY <2>1, <2>3, <2>6, <3>1
  <2>7. CASE Known(r, loc[r].known, ReadCredentials(b))
    <3>1. secret[b] = IF issued[b] = NoCreds THEN NoSecret
                      ELSE [creds |-> issued[b], owner |-> "live"]
      BY <2>2 DEF BindStands
    <3>2. issued[b] # NoCreds => secret[b] # NoSecret
      BY <2>1, <3>1, BindingAssumption DEF JInv, IInv, TypeOK, StoreSecrets, Sources, Owners
    <3>3. ReadCredentials(b) = issued[b]
      BY <3>1, <3>2 DEF ReadCredentials
    <3> QED
      BY <2>1, <2>3, <2>7, <3>3
  <2> QED
    BY <2>1, <2>5, <2>6, <2>7 DEF HandsOut
<1> QED
  BY <1>1, RInvHolds, PTL DEF Spec, RepeatAnswersSame

-----------------------------------------------------------------------------
(* Unbinds.  Handlers may overlap and reads may fail here; the namespace of  *)
(* an instance is found, no instance goes under a handler of it, and an     *)
(* unbind names what the record names.                                      *)

Findable == Adverse \intersect {"namespace", "deprovision", "wrongPath"} = {}

\* No projected Secret of binding b and instance i is left that would stay.
Unbound(b, i) ==
    \A n \in Namespaces :
        LET left == projected[<<b, n>>]
        IN  left = NoSecret \/ left.owner = "gone" \/ left.inst # i

\* A projected Secret is owned by a CR that is there, in the Secret's namespace.
ProjectionsHoused ==
    \A b \in Bindings, n \in Namespaces :
        LET p == projected[<<b, n>>]
        IN  p # NoSecret /\ p.owner # "gone" =>
                /\ p.owner = "live"
                /\ instance[p.inst] # NoInstance
                /\ instance[p.inst].ns = n
                /\ instance[p.inst].service \in Projecting

\* A record names an instance that is there, and its service.
RecordsHoused ==
    \A b \in Bindings : binding[b] # NoBinding =>
        /\ instance[binding[b].inst] # NoInstance
        /\ instance[binding[b].inst].service = binding[b].service

\* What a bind past its source has found out, overlapped or not.
BindAt(r) ==
    LET i == req[r].inst
        s == req[r].service
    IN  /\ InFlight(r) => req[r].op \in {"bind", "unbind"}
        /\ pc[r] \in BindCalls => req[r].op = "bind"
        /\ pc[r] \in UnbindCalls => req[r].op = "unbind"
        /\ pc[r] \in BindCalls \ {"source"}
              => instance[i] = [ns |-> loc[r].ns, service |-> s]
        /\ pc[r] \in {"owner", "project"} => s \in Projecting
        /\ pc[r] = "project" => loc[r].owner = "live"

\* What an unbind that nobody has met has found out and done.
UnbindAt(r) ==
    LET b == req[r].id
        i == req[r].inst
        s == req[r].service
    IN  InFlight(r) /\ req[r].op = "unbind" /\ loc[r].alone =>
        /\ binding[b] # NoBinding => binding[b].inst = i /\ binding[b].service = s
        /\ pc[r] \in {"secret", "namespace", "unproject", "delete"} => binding[b] # NoBinding
        /\ pc[r] = "unproject" => instance[i].ns = loc[r].ns
        /\ pc[r] \in {"delete", "deleteCredentials"} => Unbound(b, i)
        /\ pc[r] = "deleteCredentials" => binding[b] = NoBinding

Housed == ProjectionsHoused /\ RecordsHoused

HandlersAt == \A r \in Requests : BindAt(r) /\ UnbindAt(r)

UInv == IInv /\ Housed /\ AloneIsAlone /\ HandlersAt

\* A step of r that writes objects of r's binding alone leaves what the other
\* handlers know true.
LEMMA OwnStepU ==
    ASSUME UInv, IInv', NEW r \in Requests, InFlight(r),
           UNCHANGED instance,
           \A q \in Requests \ {r} :
               /\ pc'[q] = pc[q] /\ req'[q] = req[q]
               /\ loc'[q].ns = loc[q].ns /\ loc'[q].alone = loc[q].alone
               /\ pc[q] = "project" => loc'[q].owner = loc[q].owner,
           \A c \in Bindings \ {req[r].id} :
               /\ binding'[c] = binding[c]
               /\ \A n \in Namespaces : projected'[<<c, n>>] = projected[<<c, n>>],
           \/ pc'[r] = "idle"
           \/ req'[r] = req[r] /\ loc'[r].alone = loc[r].alone /\ BindAt(r)' /\ UnbindAt(r)',
           Housed'
    PROVE  UInv'
<1> USE DEF UInv
<1>1. AloneIsAlone'
  BY DEF AloneIsAlone, InFlight
<1>2. ASSUME NEW q \in Requests, q # r PROVE BindAt(q)'
  <2>1. BindAt(q)
    BY DEF HandlersAt
  <2>2. pc'[q] = pc[q] /\ req'[q] = req[q] /\ loc'[q].ns = loc[q].ns
    BY <1>2
  <2>3. pc[q] = "project" => loc'[q].owner = loc[q].owner
    BY <1>2
  <2> QED
    BY <2>1, <2>2, <2>3 DEF BindAt, InFlight
<1>3. ASSUME NEW q \in Requests, q # r PROVE UnbindAt(q)'
  <2> SUFFICES ASSUME InFlight(q)', req'[q].op = "unbind", loc'[q].alone PROVE UnbindAt(q)'
    BY DEF UnbindAt
  <2>1. /\ pc'[q] = pc[q] /\ req'[q] = req[q] /\ loc'[q].ns = loc[q].ns
        /\ InFlight(q) /\ req[q].op = "unbind" /\ loc[q].alone
    BY <1>3 DEF InFlight
  <2>2. PICK c \in Bindings \ {req[r].id} : c = req[q].id
    <3>1. req[q].id # req[r].id
      BY <1>3, <2>1, Zenon DEF AloneIsAlone
    <3> QED
      BY <3>1, InputTypes
  <2>3. binding'[c] = binding[c] /\ (Unbound(c, req[q].inst) => Unbound(c, req[q].inst)')
    BY <2>1 DEF Unbound
  <2>4. UnbindAt(q)
    BY DEF HandlersAt
  <2> QED
    BY <2>1, <2>2, <2>3, <2>4 DEF UnbindAt
<1>4. BindAt(r)' /\ UnbindAt(r)'
  <2>1. pc'[r] = "idle" => BindAt(r)' /\ UnbindAt(r)'
    BY DEF BindAt, UnbindAt, InFlight, BindCalls, UnbindCalls
  <2> QED
    BY <2>1
<1>5. HandlersAt'
  BY <1>2, <1>3, <1>4 DEF HandlersAt
<1> QED
  BY <1>1, <1>5

\* A step of r on to its next call, and one that answers r, when they leave the
\* cluster alone.
LEMMA MovesOnU ==
    ASSUME UInv, IInv', NEW r \in Requests, InFlight(r), UNCHANGED state,
           NEW call, NEW l, Goto(r, call, l), l.alone = loc[r].alone,
           BindAt(r)', UnbindAt(r)'
    PROVE  UInv'
<1>1. /\ pc'[r] = call /\ loc'[r] = l /\ req' = req
      /\ \A q \in Requests \ {r} : pc'[q] = pc[q] /\ loc'[q] = loc[q]
  BY GotoSays DEF UInv
<1>2. Housed'
  BY DEF UInv, Housed, ProjectionsHoused, RecordsHoused, state
<1> QED
  BY <1>1, <1>2, OwnStepU DEF state

LEMMA EndsU ==
    ASSUME UInv, IInv', NEW r \in Requests, InFlight(r),
           UNCHANGED <<instance, binding, projected>>,
           pc'[r] = "idle",
           \A q \in Requests \ {r} : pc'[q] = pc[q] /\ loc'[q] = loc[q] /\ req'[q] = req[q]
    PROVE  UInv'
<1>1. Housed'
  BY DEF UInv, Housed, ProjectionsHoused, RecordsHoused
<1> QED
  BY <1>1, OwnStepU

LEMMA RefusedU ==
    ASSUME UInv, IInv', NEW r \in Requests, InFlight(r), NEW code, Refuse(r, code),
           UNCHANGED <<instance, binding, projected>>
    PROVE  UInv'
BY RefuseSays, EndsU DEF UInv


\* The answers of GetBinding: a record, for the handler that is at its first or
\* second call.
LEMMA UnknownU ==
    ASSUME UInv, IInv', NEW r \in Requests, InFlight(r), UNCHANGED state, Unknown(r)
    PROVE  UInv'
<1>1. CASE Goto(r, "namespace", loc[r]) /\ req[r].op = "bind"
  <2>1. pc'[r] = "namespace" /\ req'[r] = req[r] /\ loc'[r] = loc[r]
    BY <1>1, GotoSays DEF UInv
  <2>2. BindAt(r)' /\ UnbindAt(r)'
    BY <1>1, <2>1 DEF BindAt, UnbindAt, BindCalls, UnbindCalls
  <2> QED
    BY <1>1, <2>2, MovesOnU
<1>2. CASE Refuse(r, "gone")
  BY <1>2, RefusedU DEF state
<1> QED
  BY <1>1, <1>2 DEF Unknown

LEMMA KnownU ==
    ASSUME UInv, IInv', NEW r \in Requests, InFlight(r), UNCHANGED state,
           NEW rec, NEW creds, Known(r, rec, creds),
           binding[req[r].id] # NoBinding \/ pc[r] = "secret"
    PROVE  UInv'
<1>1. CASE Goto(r, "namespace", loc[r]) /\ req[r].op = "unbind"
  <2>1. pc'[r] = "namespace" /\ req'[r] = req[r] /\ loc'[r] = loc[r]
    BY <1>1, GotoSays DEF UInv
  <2>2. BindAt(r)'
    BY <1>1, <2>1 DEF BindAt, BindCalls, UnbindCalls
  <2>3. UnbindAt(r)'
    BY <1>1, <2>1 DEF UInv, HandlersAt, UnbindAt, InFlight, state
  <2> QED
    BY <1>1, <2>2, <2>3, MovesOnU
<1>2. CASE Answer(r, "ok", creds)
  BY <1>2, AnswerSays, EndsU DEF UInv, state
<1>3. CASE Refuse(r, "conflict")
  BY <1>3, RefusedU DEF state
<1> QED
  BY <1>1, <1>2, <1>3 DEF Known

LEMMA GetRecordU ==
    ASSUME UInv, IInv', NEW r \in Requests, GetRecord(r)
    PROVE  UInv'
<1> DEFINE rec == binding[req[r].id]
<1>0. UNCHANGED state /\ InFlight(r)
  BY DEF GetRecord, InFlight
<1>1. CASE rec # NoBinding /\ Goto(r, "secret", [loc[r] EXCEPT !.known = rec])
  <2> DEFINE l == [loc[r] EXCEPT !.known = rec]
  <2>1. l.alone = loc[r].alone
    BY InputTypes DEF UInv, Locals
  <2>2. pc'[r] = "secret" /\ req'[r] = req[r] /\ loc'[r] = l
    BY <1>1, GotoSays DEF UInv
  <2>3. BindAt(r) /\ UnbindAt(r)
    BY DEF UInv, HandlersAt
  <2>4. BindAt(r)'
    BY <1>0, <2>2, <2>3 DEF BindAt, InFlight, BindCalls, UnbindCalls
  <2>5. UnbindAt(r)'
    <3> HIDE DEF l
    <3> QED
      BY <1>0, <1>1, <2>1, <2>2, <2>3 DEF UnbindAt, InFlight, state
  <2> QED
    BY <1>0, <1>1, <2>1, <2>4, <2>5, MovesOnU
<1>2. CASE rec # NoBinding /\ Known(r, rec, NoCreds)
  BY <1>0, <1>2, KnownU
<1>3. CASE Unknown(r)
  BY <1>0, <1>3, UnknownU
<1> QED
  BY <1>0, <1>1, <1>2, <1>3 DEF GetRecord

LEMMA GetSecretU ==
    ASSUME UInv, IInv', NEW r \in Requests, GetSecret(r)
    PROVE  UInv'
BY KnownU, UnknownU DEF GetSecret, InFlight

\* The namespace is the one the instance is in; a lone unbind that has no projected
\* Secret to delete finds none.
LEMMA InstanceNamespaceU ==
    ASSUME Findable, UInv, IInv', NEW r \in Requests, InstanceNamespace(r)
    PROVE  UInv'
<1> USE DEF UInv
<1> DEFINE i    == req[r].inst
           b    == req[r].id
           next == IF req[r].op = "bind" THEN "source"
                   ELSE IF req[r].service \in Projecting THEN "unproject" ELSE "delete"
<1>0. UNCHANGED state /\ InFlight(r) /\ pc[r] = "namespace" /\ ~Fails("namespace")
  BY DEF InstanceNamespace, InFlight, Findable, Fails
<1>1. PICK n \in Namespaces :
          /\ Goto(r, next, [loc[r] EXCEPT !.ns = n, !.known = NoBinding])
          /\ instance[i] # NoInstance => n = instance[i].ns
  <2>1. instance[i] # NoInstance => instance[i].ns \in Namespaces
    BY InputTypes DEF IInv, TypeOK, InstanceRecords
  <2> QED
    BY <1>0, <2>1, BindingAssumption DEF InstanceNamespace
<1> DEFINE l == [loc[r] EXCEPT !.ns = n, !.known = NoBinding]
<1>2. l.alone = loc[r].alone /\ l.ns = n
  BY InputTypes DEF Locals
<1>3. pc'[r] = next /\ req'[r] = req[r] /\ loc'[r] = l
  BY <1>1, GotoSays
<1>4. BindAt(r) /\ UnbindAt(r)
  BY DEF HandlersAt
<1>5. BindAt(r)'
  BY <1>0, <1>3, <1>4 DEF BindAt, InFlight, BindCalls, UnbindCalls
<1>6. UnbindAt(r)'
  <2> SUFFICES ASSUME req[r].op = "unbind", loc[r].alone PROVE UnbindAt(r)'
    BY <1>2, <1>3 DEF UnbindAt
  <2>1. binding[b] # NoBinding /\ binding[b].inst = i /\ binding[b].service = req[r].service
    BY <1>0, <1>4 DEF UnbindAt
  <2>2. b \in Bindings
    BY InputTypes
  <2>3. instance[i] # NoInstance /\ instance[i].service = req[r].service
    BY <2>1, <2>2 DEF Housed, RecordsHoused
  <2>4. next \in {"unproject", "delete"}
    OBVIOUS
  <2>5. next = "delete" => Unbound(b, i)
    <3>1. next = "delete" => req[r].service \notin Projecting
      OBVIOUS
    <3> QED
      BY <2>2, <2>3, <3>1 DEF Unbound, Housed, ProjectionsHoused
  <2>6. Unbound(b, i) => Unbound(b, i)'
    BY <1>0, <1>3 DEF Unbound, state
  <2>7. binding' = binding /\ instance' = instance
    BY <1>0 DEF state
  <2> HIDE DEF next, l
  <2> QED
    BY <1>1, <1>2, <1>3, <2>1, <2>3, <2>4, <2>5, <2>6, <2>7 DEF UnbindAt
<1> HIDE DEF l, next
<1> QED
  BY <1>0, <1>1, <1>2, <1>5, <1>6, MovesOnU DEF l


LEMMA BindCredentialsU ==
    ASSUME UInv, IInv', NEW r \in Requests, BindCredentials(r)
    PROVE  UInv'
<1> USE DEF UInv
<1> DEFINE i    == req[r].inst
           next == IF req[r].service \in Projecting THEN "owner" ELSE "put"
           l    == [loc[r] EXCEPT !.creds = source[i]]
<1>0. UNCHANGED state /\ InFlight(r) /\ pc[r] = "source"
  BY DEF BindCredentials, InFlight
<1>1. CASE instance[i] = [ns |-> loc[r].ns, service |-> req[r].service] /\ Goto(r, next, l)
  <2>1. l.alone = loc[r].alone /\ l.ns = loc[r].ns
    BY InputTypes DEF Locals
  <2>2. pc'[r] = next /\ req'[r] = req[r] /\ loc'[r] = l
    BY <1>1, GotoSays
  <2>3. next \in {"owner", "put"} /\ (next = "owner" => req[r].service \in Projecting)
    OBVIOUS
  <2>4. req[r].op = "bind"
    BY <1>0 DEF HandlersAt, BindAt, BindCalls
  <2>5. instance'[i] = [ns |-> loc'[r].ns, service |-> req[r].service]
    BY <1>0, <1>1, <2>1, <2>2 DEF state
  <2> HIDE DEF next, l
  <2>6. BindAt(r)' /\ UnbindAt(r)'
    BY <2>2, <2>3, <2>4, <2>5 DEF BindAt, UnbindAt, BindCalls, UnbindCalls
  <2> QED
    BY <1>0, <1>1, <2>1, <2>6, MovesOnU
<1>2. CASE Refuse(r, "error")
  BY <1>0, <1>2, RefusedU DEF state
<1> QED
  BY <1>1, <1>2 DEF BindCredentials

LEMMA ProjectionOwnerU ==
    ASSUME UInv, IInv', NEW r \in Requests, ProjectionOwner(r)
    PROVE  UInv'
<1> USE DEF UInv
<1> DEFINE l == [loc[r] EXCEPT !.owner = "live"]
<1>0. UNCHANGED state /\ InFlight(r) /\ pc[r] = "owner" /\ BindAt(r)
  BY DEF ProjectionOwner, InFlight, HandlersAt
<1>1. /\ instance[req[r].inst] = [ns |-> loc[r].ns, service |-> req[r].service]
      /\ req[r].op = "bind" /\ req[r].service \in Projecting
  BY <1>0 DEF BindAt, BindCalls
<1>2. instance[req[r].inst] # NoInstance /\ instance[req[r].inst].ns = loc[r].ns
  BY <1>1, InputTypes, BindingAssumption DEF InstanceRecords
<1>3. CASE Goto(r, "project", l)
  <2>1. l.alone = loc[r].alone /\ l.ns = loc[r].ns /\ l.owner = "live"
    BY InputTypes DEF Locals
  <2>2. pc'[r] = "project" /\ req'[r] = req[r] /\ loc'[r] = l
    BY <1>3, GotoSays
  <2>3. instance' = instance
    BY <1>0 DEF state
  <2> HIDE DEF l
  <2>4. BindAt(r)' /\ UnbindAt(r)'
    BY <1>1, <2>1, <2>2, <2>3 DEF BindAt, UnbindAt, BindCalls, UnbindCalls
  <2> QED
    BY <1>0, <1>3, <2>1, <2>4, MovesOnU
<1>4. CASE Refuse(r, "error")
  BY <1>0, <1>4, RefusedU DEF state
<1> QED
  BY <1>2, <1>3, <1>4 DEF ProjectionOwner

\* A bind writes the projected Secret where its instance is.
LEMMA WriteProjectionU ==
    ASSUME UInv, IInv', NEW r \in Requests, WriteProjection(r)
    PROVE  UInv'
<1> USE DEF UInv
<1> DEFINE b == req[r].id
           k == <<b, loc[r].ns>>
           i == req[r].inst
<1>0. /\ InFlight(r) /\ pc[r] = "project" /\ BindAt(r)
      /\ b \in Bindings /\ k \in Bindings \X Namespaces
      /\ UNCHANGED <<instance, source, binding, secret>>
  BY InputTypes DEF WriteProjection, InFlight, HandlersAt
<1>1. /\ instance[i] = [ns |-> loc[r].ns, service |-> req[r].service]
      /\ req[r].op = "bind" /\ req[r].service \in Projecting /\ loc[r].owner = "live"
  BY <1>0 DEF BindAt, BindCalls
<1>2. CASE /\ Goto(r, "put", loc[r])
           /\ projected' = [projected EXCEPT ![k] =
                [creds |-> loc[r].creds, inst |-> i,
                 owner |-> IF loc[r].owner = "none" /\ @ # NoSecret
                           THEN @.owner ELSE loc[r].owner]]
  <2>1. /\ pc'[r] = "put" /\ req' = req /\ loc'[r] = loc[r]
        /\ \A q \in Requests \ {r} : pc'[q] = pc[q] /\ loc'[q] = loc[q]
    BY <1>2, GotoSays
  <2>2. projected \in [Bindings \X Namespaces -> Projections \union {NoSecret}]
    BY DEF IInv, TypeOK
  <2>3. projected'[k] = [creds |-> loc[r].creds, owner |-> "live", inst |-> i]
    BY <1>0, <1>1, <1>2, <2>2
  <2>4. \A p \in Bindings \X Namespaces : p # k => projected'[p] = projected[p]
    BY <1>2, <2>2
  <2>5. \A c \in Bindings \ {b}, n \in Namespaces : projected'[<<c, n>>] = projected[<<c, n>>]
    BY <2>4
  <2>6. BindAt(r)' /\ UnbindAt(r)'
    BY <1>0, <1>1, <2>1 DEF BindAt, UnbindAt, BindCalls, UnbindCalls
  <2>7. ProjectionsHoused'
    <3> SUFFICES ASSUME NEW c \in Bindings, NEW n \in Namespaces,
                        projected'[<<c, n>>] # NoSecret, projected'[<<c, n>>].owner # "gone"
                 PROVE  LET p == projected'[<<c, n>>]
                        IN  /\ p.owner = "live"
                            /\ instance[p.inst] # NoInstance
                            /\ instance[p.inst].ns = n
                            /\ instance[p.inst].service \in Projecting
      BY <1>0 DEF ProjectionsHoused
    <3>1. CASE <<c, n>> = k
      <4>1. instance[i] # NoInstance
        BY <1>1, InputTypes, BindingAssumption DEF InstanceRecords
      <4>2. n = loc[r].ns
        BY <3>1
      <4> QED
        BY <1>1, <2>3, <3>1, <4>1, <4>2
    <3>2. CASE <<c, n>> # k
      <4>1. projected'[<<c, n>>] = projected[<<c, n>>]
        BY <2>4, <3>2
      <4> QED
        BY <4>1 DEF Housed, ProjectionsHoused
    <3> QED
      BY <3>1, <3>2
  <2>8. Housed'
    BY <1>0, <2>7 DEF Housed, RecordsHoused
  <2> QED
    BY <1>0, <2>1, <2>5, <2>6, <2>8, OwnStepU
<1>3. CASE Refuse(r, "error") /\ UNCHANGED projected
  BY <1>0, <1>3, RefusedU
<1> QED
  BY <1>2, <1>3 DEF WriteProjection

LEMMA PutRecordU ==
    ASSUME UInv, IInv', NEW r \in Requests, PutRecord(r)
    PROVE  UInv'
<1> USE DEF UInv
<1> DEFINE b    == req[r].id
           some == loc[r].creds # NoCreds
           call == IF some THEN "putOwner" ELSE "dropCredentials"
           rec  == [inst |-> req[r].inst, service |-> req[r].service, secret |-> some]
<1>0. /\ InFlight(r) /\ pc[r] = "put" /\ BindAt(r) /\ b \in Bindings
      /\ UNCHANGED <<instance, source, secret, projected>>
  BY InputTypes DEF PutRecord, InFlight, HandlersAt
<1>1. /\ instance[req[r].inst] = [ns |-> loc[r].ns, service |-> req[r].service]
      /\ req[r].op = "bind"
  BY <1>0 DEF BindAt, BindCalls
<1>2. CASE binding' = [binding EXCEPT ![b] = rec] /\ Goto(r, call, loc[r])
  <2>1. /\ pc'[r] = call /\ req' = req /\ loc'[r] = loc[r]
        /\ \A q \in Requests \ {r} : pc'[q] = pc[q] /\ loc'[q] = loc[q]
    BY <1>2, GotoSays
  <2>2. binding'[b] = rec /\ \A c \in Bindings \ {b} : binding'[c] = binding[c]
    BY <1>0, <1>2 DEF IInv, TypeOK
  <2>3. call \in {"putOwner", "dropCredentials"}
    OBVIOUS
  <2>4. rec.inst = req[r].inst /\ rec.service = req[r].service
    OBVIOUS
  <2>5. instance[req[r].inst] # NoInstance /\ instance[req[r].inst].service = req[r].service
    BY <1>1, InputTypes, BindingAssumption DEF InstanceRecords
  <2> HIDE DEF rec, call, some
  <2>6. BindAt(r)' /\ UnbindAt(r)'
    BY <1>0, <1>1, <2>1, <2>3 DEF BindAt, UnbindAt, BindCalls, UnbindCalls
  <2>7. RecordsHoused'
    BY <1>0, <2>2, <2>4, <2>5 DEF Housed, RecordsHoused
  <2>8. Housed'
    BY <1>0, <2>7 DEF Housed, ProjectionsHoused
  <2> QED
    BY <1>0, <2>1, <2>2, <2>6, <2>8, OwnStepU
<1>3. CASE Refuse(r, "error") /\ UNCHANGED binding
  BY <1>0, <1>3, RefusedU
<1> QED
  BY <1>2, <1>3 DEF PutRecord

LEMMA SecretOwnerU ==
    ASSUME UInv, IInv', NEW r \in Requests, SecretOwner(r)
    PROVE  UInv'
<1> USE DEF UInv
<1> DEFINE l == [loc[r] EXCEPT !.owner = "live"]
<1>0. UNCHANGED state /\ InFlight(r) /\ pc[r] = "putOwner" /\ BindAt(r)
  BY DEF SecretOwner, InFlight, HandlersAt
<1>1. CASE Goto(r, "credentials", l)
  <2>1. l.alone = loc[r].alone /\ l.ns = loc[r].ns
    BY InputTypes DEF Locals
  <2>2. pc'[r] = "credentials" /\ req'[r] = req[r] /\ loc'[r] = l /\ instance' = instance
    BY <1>0, <1>1, GotoSays DEF state
  <2> HIDE DEF l
  <2>3. BindAt(r)' /\ UnbindAt(r)'
    BY <1>0, <2>1, <2>2 DEF BindAt, UnbindAt, InFlight, BindCalls, UnbindCalls
  <2> QED
    BY <1>0, <1>1, <2>1, <2>3, MovesOnU
<1>2. CASE Refuse(r, "error")
  BY <1>0, <1>2, RefusedU DEF state
<1> QED
  BY <1>1, <1>2 DEF SecretOwner

\* The last calls of both handlers answer and write the store's Secret alone.
LEMMA LastCallU ==
    ASSUME UInv, IInv', NEW r \in Requests,
           WriteCredentials(r) \/ DropCredentials(r) \/ DeleteCredentials(r)
    PROVE  UInv'
<1>1. InFlight(r) /\ UNCHANGED <<instance, binding, projected>>
  BY DEF WriteCredentials, DropCredentials, DeleteCredentials, InFlight
<1>2. \E code, creds : Answer(r, code, creds)
  BY DEF WriteCredentials, DropCredentials, DeleteCredentials, AfterCredentials, Refuse
<1> QED
  BY <1>1, <1>2, AnswerSays, EndsU DEF UInv


\* What a lone unbind deletes is where its instance is, and nowhere else.
LEMMA DeleteProjectionU ==
    ASSUME UInv, IInv', NEW r \in Requests, DeleteProjection(r)
    PROVE  UInv'
<1> USE DEF UInv
<1> DEFINE b == req[r].id
           k == <<b, loc[r].ns>>
           i == req[r].inst
<1>0. /\ InFlight(r) /\ pc[r] = "unproject" /\ BindAt(r) /\ UnbindAt(r) /\ b \in Bindings
      /\ UNCHANGED <<instance, source, binding, secret>>
  BY InputTypes DEF DeleteProjection, InFlight, HandlersAt
<1>1. CASE projected' = [projected EXCEPT ![k] = NoSecret] /\ Goto(r, "delete", loc[r])
  <2>1. /\ pc'[r] = "delete" /\ req' = req /\ loc'[r] = loc[r]
        /\ \A q \in Requests \ {r} : pc'[q] = pc[q] /\ loc'[q] = loc[q]
    BY <1>1, GotoSays
  <2>2. \A p \in Bindings \X Namespaces :
            IF p = k THEN projected'[p] = NoSecret ELSE projected'[p] = projected[p]
    BY <1>1 DEF IInv, TypeOK
  <2>3. \A c \in Bindings \ {b}, n \in Namespaces : projected'[<<c, n>>] = projected[<<c, n>>]
    BY <2>2
  <2>4. ProjectionsHoused'
    <3> SUFFICES ASSUME NEW c \in Bindings, NEW n \in Namespaces,
                        projected'[<<c, n>>] # NoSecret
                 PROVE  projected'[<<c, n>>] = projected[<<c, n>>]
      BY <1>0 DEF Housed, ProjectionsHoused
    <3> QED
      BY <2>2
  <2>5. Housed'
    BY <1>0, <2>4 DEF Housed, RecordsHoused
  <2>6. BindAt(r)'
    BY <1>0, <2>1 DEF BindAt, InFlight, BindCalls, UnbindCalls
  <2>7. UnbindAt(r)'
    <3> SUFFICES ASSUME req[r].op = "unbind", loc[r].alone PROVE UnbindAt(r)'
      BY <2>1 DEF UnbindAt
    <3>1. /\ binding[b] # NoBinding /\ binding[b].inst = i
          /\ binding[b].service = req[r].service /\ instance[i].ns = loc[r].ns
      BY <1>0 DEF UnbindAt
    <3>2. Unbound(b, i)'
      <4> SUFFICES ASSUME NEW n \in Namespaces, <<b, n>> # k, projected[<<b, n>>] # NoSecret,
                          projected[<<b, n>>].owner # "gone"
                   PROVE  projected[<<b, n>>].inst # i
        BY <1>0, <2>1, <2>2 DEF Unbound
      <4>1. n = instance[projected[<<b, n>>].inst].ns
        BY <1>0 DEF Housed, ProjectionsHoused
      <4> QED
        BY <3>1, <4>1
    <3> QED
      BY <1>0, <2>1, <3>1, <3>2 DEF UnbindAt
  <2> QED
    BY <1>0, <2>1, <2>3, <2>5, <2>6, <2>7, OwnStepU
<1>2. CASE Refuse(r, "error") /\ UNCHANGED projected
  BY <1>0, <1>2, RefusedU
<1> QED
  BY <1>1, <1>2 DEF DeleteProjection

LEMMA DeleteRecordU ==
    ASSUME UInv, IInv', NEW r \in Requests, DeleteRecord(r)
    PROVE  UInv'
<1> USE DEF UInv
<1> DEFINE b == req[r].id
<1>0. /\ InFlight(r) /\ pc[r] = "delete" /\ BindAt(r) /\ UnbindAt(r) /\ b \in Bindings
      /\ UNCHANGED <<instance, source, projected>>
  BY InputTypes DEF DeleteRecord, InFlight, HandlersAt
<1>1. CASE /\ binding' = [binding EXCEPT ![b] = NoBinding]
           /\ pc' = [pc EXCEPT ![r] = "deleteCredentials"]
           /\ loc' = [q \in Requests |->
                 IF pc[q] = "credentials" /\ req[q].id = b
                 THEN [loc[q] EXCEPT !.owner = Orphaned(@)] ELSE loc[q]]
           /\ UNCHANGED <<req, issued>>
  <2>1. /\ pc'[r] = "deleteCredentials" /\ loc'[r] = loc[r]
        /\ \A q \in Requests \ {r} : pc'[q] = pc[q]
    BY <1>0, <1>1 DEF IInv, TypeOK
  <2>2. ASSUME NEW q \in Requests \ {r}
        PROVE  /\ loc'[q].ns = loc[q].ns /\ loc'[q].alone = loc[q].alone
               /\ pc[q] = "project" => loc'[q].owner = loc[q].owner
    <3>1. loc[q] \in Locals
      BY InputTypes
    <3> QED
      BY <1>1, <3>1 DEF Locals
  <2>3. binding'[b] = NoBinding /\ \A c \in Bindings \ {b} : binding'[c] = binding[c]
    BY <1>0, <1>1 DEF IInv, TypeOK
  <2>4. Housed'
    BY <1>0, <2>3 DEF Housed, ProjectionsHoused, RecordsHoused
  <2>5. BindAt(r)'
    BY <1>0, <1>1, <2>1 DEF BindAt, InFlight, BindCalls, UnbindCalls
  <2>6. UnbindAt(r)'
    <3>1. Unbound(b, req[r].inst) => Unbound(b, req[r].inst)'
      BY <1>0, <1>1 DEF Unbound
    <3> QED
      BY <1>0, <1>1, <2>1, <2>3, <3>1 DEF UnbindAt, InFlight
  <2> QED
    BY <1>0, <1>1, <2>1, <2>2, <2>3, <2>4, <2>5, <2>6, OwnStepU
<1>2. CASE Refuse(r, "error") /\ UNCHANGED binding
  BY <1>0, <1>2, RefusedU
<1> QED
  BY <1>1, <1>2 DEF DeleteRecord

LEMMA HandleU ==
    ASSUME Findable, UInv, IInv', NEW r \in Requests, Handle(r)
    PROVE  UInv'
BY GetRecordU, GetSecretU, InstanceNamespaceU, BindCredentialsU, ProjectionOwnerU,
   WriteProjectionU, PutRecordU, SecretOwnerU, LastCallU, DeleteProjectionU, DeleteRecordU
   DEF Handle

\* An unbind that comes in names what the record names.
LEMMA ReceiveU ==
    ASSUME Findable, UInv, IInv', NEW r \in Requests, ReceiveBind(r) \/ ReceiveUnbind(r)
    PROVE  UInv'
<1> USE DEF UInv
<1>1. PICK input \in Inputs :
          /\ Receive(r, input) /\ input.op \in {"bind", "unbind"}
          /\ input.op = "unbind" /\ binding[input.id] # NoBinding =>
                 input.inst = binding[input.id].inst /\ input.service = binding[input.id].service
  BY Arrivals DEF Findable
<1>2. /\ ~InFlight(r) /\ UNCHANGED state
      /\ pc'[r] = "record" /\ req'[r] = input
      /\ \A q \in Requests \ {r} : pc'[q] = pc[q] /\ req'[q] = req[q]
      /\ AloneIsAlone'
  BY <1>1, ArrivalFacts
<1>7. HandlersAt'
  <2> SUFFICES ASSUME NEW q \in Requests PROVE BindAt(q)' /\ UnbindAt(q)'
    BY DEF HandlersAt
  <2>1. CASE q = r
    BY <1>1, <1>2, <2>1 DEF BindAt, UnbindAt, BindCalls, UnbindCalls, InFlight, state
  <2>2. CASE q # r
    <3>1. /\ pc'[q] = pc[q] /\ req'[q] = req[q] /\ loc'[q].ns = loc[q].ns
          /\ loc'[q].owner = loc[q].owner
      BY <1>1, <2>2, ArrivalFacts
    <3>2. loc'[q].alone => loc[q].alone
      BY <1>1, <2>2, ArrivalFacts
    <3>3. BindAt(q) /\ UnbindAt(q) /\ instance' = instance /\ binding' = binding
      BY <1>2 DEF HandlersAt, state
    <3>4. Unbound(req[q].id, req[q].inst) => Unbound(req[q].id, req[q].inst)'
      BY <1>2, <3>1 DEF Unbound, state
    <3>5. BindAt(q)'
      BY <3>1, <3>3 DEF BindAt, InFlight
    <3>6. UnbindAt(q)'
      BY <3>1, <3>2, <3>3, <3>4 DEF UnbindAt, InFlight
    <3> QED
      BY <3>5, <3>6
  <2> QED
    BY <2>1, <2>2
<1>8. Housed'
  BY <1>2 DEF Housed, ProjectionsHoused, RecordsHoused, state
<1> QED
  BY <1>2, <1>7, <1>8


\* What is housed, and what a handler has found, is no instance that appears only now.
LEMMA InstanceAppearsU ==
    ASSUME UInv, IInv', NEW i \in Instances, InstanceAppears(i)
    PROVE  UInv'
<1> USE DEF UInv
<1>1. /\ instance[i] = NoInstance
      /\ \A j \in Instances \ {i} : instance'[j] = instance[j]
      /\ UNCHANGED <<source, binding, secret, projected, issued, pc, req, loc>>
  BY DEF InstanceAppears, IInv, TypeOK
<1>2. ProjectionsHoused'
  <2> SUFFICES ASSUME NEW b \in Bindings, NEW n \in Namespaces,
                      projected[<<b, n>>] # NoSecret, projected[<<b, n>>].owner # "gone"
               PROVE  instance'[projected[<<b, n>>].inst] = instance[projected[<<b, n>>].inst]
    BY <1>1 DEF Housed, ProjectionsHoused
  <2>1. projected[<<b, n>>] \in Projections
    BY DEF IInv, TypeOK
  <2> QED
    BY <1>1, <2>1 DEF Housed, ProjectionsHoused, Projections
<1>3. RecordsHoused'
  <2> SUFFICES ASSUME NEW b \in Bindings, binding[b] # NoBinding
               PROVE  instance'[binding[b].inst] = instance[binding[b].inst]
    BY <1>1 DEF Housed, RecordsHoused
  <2>1. binding[b] \in BindingRecords
    BY DEF IInv, TypeOK
  <2> QED
    BY <1>1, <2>1 DEF Housed, RecordsHoused, BindingRecords
<1>4. ASSUME NEW r \in Requests PROVE BindAt(r)'
  <2>1. BindAt(r)
    BY DEF HandlersAt
  <2>2. pc[r] \in BindCalls \ {"source"} => instance'[req[r].inst] = instance[req[r].inst]
    <3>1. pc[r] \in BindCalls \ {"source"} => instance[req[r].inst] \in InstanceRecords
      BY <2>1, InputTypes DEF BindAt, InstanceRecords
    <3> QED
      BY <1>1, <3>1, BindingAssumption, InputTypes
  <2> QED
    BY <1>1, <2>1, <2>2 DEF BindAt, InFlight
<1>5. ASSUME NEW r \in Requests PROVE UnbindAt(r)'
  <2>1. UnbindAt(r)
    BY DEF HandlersAt
  <2>2. UnbindAt(r)' \/ (InFlight(r) /\ req[r].op = "unbind" /\ loc[r].alone)
    BY <1>1 DEF UnbindAt, InFlight
  <2>3. (InFlight(r) /\ req[r].op = "unbind" /\ loc[r].alone /\ pc[r] = "unproject")
            => instance'[req[r].inst] = instance[req[r].inst]
    <3>1. (InFlight(r) /\ req[r].op = "unbind" /\ loc[r].alone /\ pc[r] = "unproject")
            => instance[req[r].inst] # NoInstance
      BY <2>1, InputTypes DEF UnbindAt, Housed, RecordsHoused
    <3> QED
      BY <1>1, <3>1, InputTypes
  <2>4. Unbound(req[r].id, req[r].inst) => Unbound(req[r].id, req[r].inst)'
    BY <1>1 DEF Unbound
  <2> QED
    BY <1>1, <2>1, <2>2, <2>3, <2>4 DEF UnbindAt, InFlight
<1>6. AloneIsAlone'
  BY <1>1 DEF AloneIsAlone, InFlight
<1> QED
  BY <1>2, <1>3, <1>4, <1>5, <1>6 DEF Housed, HandlersAt

\* An instance goes when nobody is at work for it, and takes the owner of its
\* projected Secrets with it.
LEMMA InstanceGoesU ==
    ASSUME Findable, UInv, IInv', NEW i \in Instances, InstanceGoes(i)
    PROVE  UInv'
<1> USE DEF UInv
<1>1. /\ ~HasBindings(i) /\ QuietInstance(i)
      /\ \A j \in Instances \ {i} : instance'[j] = instance[j]
      /\ UNCHANGED <<binding, secret, issued, pc, req>>
  BY DEF InstanceGoes, Findable, IInv, TypeOK
<1>2. ASSUME NEW b \in Bindings, NEW n \in Namespaces
      PROVE  LET p == projected[<<b, n>>]
             IN  \/ projected'[<<b, n>>] = p /\ (p # NoSecret => p.inst # i)
                 \/ /\ p # NoSecret /\ p.inst = i
                    /\ projected'[<<b, n>>] = [p EXCEPT !.owner = Orphaned(@)]
  BY DEF InstanceGoes
<1>3. ASSUME NEW b \in Bindings, NEW n \in Namespaces,
             projected[<<b, n>>] # NoSecret, projected[<<b, n>>].inst = i
      PROVE  projected'[<<b, n>>].owner = "gone"
  <2>1. projected[<<b, n>>] \in Projections
    BY <1>3 DEF IInv, TypeOK
  <2>2. Orphaned(projected[<<b, n>>].owner) = "gone"
    BY <1>3 DEF Housed, ProjectionsHoused, Orphaned
  <2>3. projected'[<<b, n>>] = [projected[<<b, n>>] EXCEPT !.owner = Orphaned(@)]
    BY <1>2, <1>3
  <2> QED
    BY <2>1, <2>2, <2>3 DEF Projections
<1>4. \A r \in Requests : InFlight(r) => req[r].inst # i /\ loc'[r] = loc[r]
  BY <1>1 DEF InstanceGoes, QuietInstance, InFlight
<1>5. ProjectionsHoused'
  <2> SUFFICES ASSUME NEW b \in Bindings, NEW n \in Namespaces,
                      projected'[<<b, n>>] # NoSecret, projected'[<<b, n>>].owner # "gone"
               PROVE  LET p == projected'[<<b, n>>]
                      IN  /\ p.owner = "live"
                          /\ instance'[p.inst] # NoInstance
                          /\ instance'[p.inst].ns = n
                          /\ instance'[p.inst].service \in Projecting
    BY DEF ProjectionsHoused
  <2>1. projected'[<<b, n>>] = projected[<<b, n>>] /\ projected[<<b, n>>].inst # i
    BY <1>2, <1>3
  <2>2. projected[<<b, n>>] \in Projections
    BY <2>1 DEF IInv, TypeOK
  <2>3. instance'[projected[<<b, n>>].inst] = instance[projected[<<b, n>>].inst]
    BY <1>1, <2>1, <2>2 DEF Projections
  <2> QED
    BY <2>1, <2>3 DEF Housed, ProjectionsHoused
<1>6. RecordsHoused'
  <2> SUFFICES ASSUME NEW b \in Bindings, binding[b] # NoBinding
               PROVE  instance'[binding[b].inst] = instance[binding[b].inst]
    BY <1>1 DEF Housed, RecordsHoused
  <2>1. binding[b] \in BindingRecords
    BY DEF IInv, TypeOK
  <2> QED
    BY <1>1, <2>1 DEF HasBindings, BindingRecords
<1>7. ASSUME NEW b \in Bindings, NEW j \in Instances, Unbound(b, j)
      PROVE  \A n \in Namespaces : LET left == projected'[<<b, n>>]
                                   IN  left = NoSecret \/ left.owner = "gone" \/ left.inst # j
  <2> SUFFICES ASSUME NEW n \in Namespaces
               PROVE  LET left == projected'[<<b, n>>]
                      IN  left = NoSecret \/ left.owner = "gone" \/ left.inst # j
    OBVIOUS
  <2>1. CASE projected'[<<b, n>>] = projected[<<b, n>>]
    BY <1>7, <2>1 DEF Unbound
  <2>2. CASE projected'[<<b, n>>] # projected[<<b, n>>]
    BY <1>2, <1>3, <2>2
  <2> QED
    BY <2>1, <2>2
<1>8. ASSUME NEW r \in Requests PROVE BindAt(r)' /\ UnbindAt(r)'
  <2>1. CASE InFlight(r)
    <3>1. /\ instance'[req[r].inst] = instance[req[r].inst] /\ loc'[r] = loc[r]
          /\ pc' = pc /\ req' = req /\ binding' = binding
      BY <1>1, <1>4, <2>1, InputTypes
    <3>2. Unbound(req[r].id, req[r].inst) => Unbound(req[r].id, req[r].inst)'
      BY <1>7, <3>1, InputTypes DEF Unbound
    <3>3. BindAt(r) /\ UnbindAt(r)
      BY DEF HandlersAt
    <3> QED
      BY <3>1, <3>2, <3>3 DEF BindAt, UnbindAt, InFlight
  <2>2. CASE ~InFlight(r)
    BY <1>1, <2>2 DEF BindAt, UnbindAt, InFlight, BindCalls, UnbindCalls
  <2> QED
    BY <2>1, <2>2
<1>9. AloneIsAlone'
  BY <1>1, <1>4 DEF AloneIsAlone, InFlight
<1> QED
  BY <1>5, <1>6, <1>8, <1>9 DEF Housed, HandlersAt

\* The operator, the garbage collector and a crash.
LEMMA RestU ==
    ASSUME UInv, IInv',
           \/ \E i \in Instances, creds \in Sources : Publish(i, creds)
           \/ Collect
           \/ Crash
           \/ UNCHANGED vars
    PROVE  UInv'
<1> USE DEF UInv
<1>1. /\ UNCHANGED <<instance, binding>>
      /\ \A b \in Bindings, n \in Namespaces :
             projected'[<<b, n>>] = projected[<<b, n>>] \/ projected'[<<b, n>>] = NoSecret
  BY DEF Publish, Collect, CollectSecret, CollectProjection, Crash, vars, state, IInv, TypeOK
<1>2. Housed'
  BY <1>1 DEF Housed, ProjectionsHoused, RecordsHoused
<1>3. CASE UNCHANGED <<pc, req, loc>>
  <2>1. AloneIsAlone'
    BY <1>3 DEF AloneIsAlone, InFlight
  <2>2. ASSUME NEW r \in Requests PROVE BindAt(r)' /\ UnbindAt(r)'
    <3>1. BindAt(r) /\ UnbindAt(r)
      BY DEF HandlersAt
    <3>2. Unbound(req[r].id, req[r].inst) => Unbound(req[r].id, req[r].inst)'
      BY <1>1, <1>3, InputTypes DEF Unbound
    <3> QED
      BY <1>1, <1>3, <3>1, <3>2 DEF BindAt, UnbindAt, InFlight
  <2> QED
    BY <1>2, <2>1, <2>2 DEF HandlersAt
<1>4. CASE Crash
  <2>1. \A r \in Requests : pc'[r] = "idle"
    BY <1>4 DEF Crash
  <2>2. AloneIsAlone' /\ HandlersAt'
    BY <2>1 DEF AloneIsAlone, HandlersAt, BindAt, UnbindAt, InFlight, BindCalls, UnbindCalls
  <2> QED
    BY <1>2, <2>2
<1> QED
  BY <1>3, <1>4 DEF Publish, Collect, CollectSecret, CollectProjection, vars

LEMMA InitUInv == Init => UInv
<1> SUFFICES ASSUME Init PROVE UInv
  OBVIOUS
<1>1. Housed /\ AloneIsAlone /\ HandlersAt
  BY DEF Init, Housed, ProjectionsHoused, RecordsHoused, AloneIsAlone, HandlersAt, BindAt,
     UnbindAt, InFlight, BindCalls, UnbindCalls
<1> QED
  BY <1>1, InitIInv DEF UInv

LEMMA NextUInv ==
    ASSUME Findable, UInv, [Next]_vars
    PROVE  UInv'
<1>1. IInv'
  BY NextIInv DEF UInv
<1>2. ASSUME NEW i \in Instances, InstanceAppears(i) \/ InstanceGoes(i) PROVE UInv'
  BY <1>1, <1>2, InstanceAppearsU, InstanceGoesU
<1>3. ASSUME NEW r \in Requests, ReceiveBind(r) \/ ReceiveUnbind(r) \/ Handle(r) PROVE UInv'
  BY <1>1, <1>3, ReceiveU, HandleU
<1> QED
  BY <1>1, <1>2, <1>3, RestU DEF Next

\* Whichever handlers overlap and whichever other call fails, an unbind that answers
\* 200 and that nobody has met leaves neither record nor Secret, nor a projected
\* Secret that would stay (UnbindLeavesNothing): as long as the instance's namespace
\* is found, no instance goes under a handler of it, and an unbind names what the
\* record names.
THEOREM LoneUnbindLeavesNothing ==
    ASSUME Findable
    PROVE  Spec => UnbindLeavesNothing
<1>1. Spec => []UInv
  <2>1. UInv /\ [Next]_vars => UInv'
    BY NextUInv
  <2> QED
    BY <2>1, InitUInv, PTL DEF Spec
<1>2. UInv /\ [Next]_vars =>
        [\A r \in Requests :
            (/\ InFlight(r) /\ ~InFlight(r)'
             /\ req[r].op = "unbind" /\ loc'[r].code = "ok" /\ loc[r].alone)
            => LET b == req[r].id
               IN  /\ binding'[b] = NoBinding
                   /\ secret'[b] = NoSecret
                   /\ \A n \in Namespaces :
                          LET left == projected'[<<b, n>>]
                          IN  left = NoSecret \/ left.owner = "gone"
                              \/ left.inst # req[r].inst]_vars
  <2> SUFFICES ASSUME UInv, [Next]_vars, NEW r \in Requests, InFlight(r), ~InFlight(r)',
                      req[r].op = "unbind", loc'[r].code = "ok", loc[r].alone
               PROVE  /\ binding'[req[r].id] = NoBinding
                      /\ secret'[req[r].id] = NoSecret
                      /\ \A n \in Namespaces :
                             LET left == projected'[<<req[r].id, n>>]
                             IN  left = NoSecret \/ left.owner = "gone"
                                 \/ left.inst # req[r].inst
    OBVIOUS
  <2> USE DEF UInv
  <2>1. ASSUME HandsOut(r) PROVE FALSE
    <3>1. ASSUME NEW rec, NEW creds, Known(r, rec, creds) PROVE FALSE
      <4>1. Goto(r, "namespace", loc[r])
        BY <3>1 DEF Known
      <4> QED
        BY <4>1, GotoSays DEF InFlight
    <3> QED
      BY <2>1, <3>1 DEF HandsOut
  <2>2. Removes(r) /\ UNCHANGED <<instance, binding, projected>>
    BY <2>1, OkAnswers
  <2>3. UnbindAt(r) /\ pc[r] = "deleteCredentials"
    BY <2>2 DEF HandlersAt, Removes
  <2>4. binding[req[r].id] = NoBinding /\ Unbound(req[r].id, req[r].inst)
    BY <2>3 DEF UnbindAt, InFlight
  <2>5. secret'[req[r].id] = NoSecret
    BY <2>2, InputTypes DEF Removes, IInv, TypeOK
  <2> QED
    BY <2>2, <2>4, <2>5 DEF Unbound
<1> QED
  BY <1>1, <1>2, PTL DEF Spec, UnbindLeavesNothing
=============================================================================
