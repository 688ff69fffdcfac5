-------------------- MODULE InstanceLifecycle_serial_proofs --------------------
(***************************************************************************)
(* What InstanceLifecycle guarantees to a platform that queues operations  *)
(* per instance, as OSB asks of it: "overlap" is not in Adverse.  Then one *)
(* handler at most is at work on an instance, so that what it has read     *)
(* still holds when it writes.  Every theorem names the faults it excludes *)
(* besides; failing writes are never excluded, crashes and hang-ups only   *)
(* where orphans are counted (NothingIsOrphaned).                          *)
(***************************************************************************)
EXTENDS InstanceLifecycle_proofs

-----------------------------------------------------------------------------
(* The inductive invariant.                                                *)

\* The keys of a sequence belong to instance i, and are where its documents go
\* when ns is its namespace.
OwnedBy(seq, i) == \A n \in DOMAIN seq : seq[n][1] = i

Within(seq, i, ns) == \A n \in DOMAIN seq : seq[n] = KeyOf(i, ns, seq[n][3])

Reading == {"service", "lookup", "bindings", "nsRead", "namespace", "engineRead", "compare"}
Applying == {"applyGet", "applyPut"}
Recording == {"recGet", "recPut"}
TearingDown == {"nsRead", "engineRead", "label", "delete", "forget"}

\* What holds of a handler between its calls; rec is the record of its instance,
\* gone says that its client is, tied that its instance has a binding.
Placed(call, in, l) ==
    /\ call \in Reading => l.applied = <<>>
    /\ call \in Applying \union {"undo"} => Within(l.todo, in.inst, in.ns)
    /\ call \in Applying \union Recording => Within(l.applied, in.inst, in.ns)
    /\ call \in {"label", "delete"} => OwnedBy(l.todo, in.inst)

Provisions(call, in, rec, gone) ==
    /\ call = "namespace" => in.op = "provision"
    /\ in.op = "provision" /\ call \in {"namespace"} \union Applying \union Recording
       /\ "getInstance" \notin Adverse => rec = NoRecord \/ gone
    /\ call = "undo" /\ "getInstance" \notin Adverse /\ "lostReply" \notin Adverse
       => rec = NoRecord \/ gone

\* An update may move an instance from plan p to plan q.
Movable(p, q) == p \in Leavable /\ ServiceOf[p] = ServiceOf[q]

Updates(call, in, l, rec) ==
    /\ in.op = "update" /\ call \in {"engineRead", "compare"} \union Applying \union Recording
       => /\ rec # NoRecord /\ rec.ns = in.ns
          /\ in.plan = rec.plan \/ Movable(rec.plan, in.plan)
    /\ in.op = "update" /\ call \in {"compare"} \union Applying \union Recording
       /\ l.known # NoRecord
       => l.known = rec /\ l.merged = Overlay(rec.params, in.params)

Deprovisions(call, in, rec, gone, tied) ==
    /\ in.op = "deprovision" /\ call \in {"bindings"} \union TearingDown
       => in.service # NoService
    /\ in.op = "deprovision" /\ call \in {"service", "lookup", "bindings"} \union TearingDown
       /\ "wrongService" \notin Adverse /\ rec # NoRecord
       => in.service \in {NoService, ServiceOf[rec.plan]}
    /\ in.op = "deprovision" /\ call \in TearingDown /\ "listBindings" \notin Adverse
       => ~tied \/ gone
    /\ call = "delete" /\ "getInstance" \notin Adverse
       => ~PlanRetains(in.service, rec) \/ gone

Steady(call, in, l, rec, gone, tied) ==
    /\ Placed(call, in, l)
    /\ Provisions(call, in, rec, gone)
    /\ Updates(call, in, l, rec)
    /\ Deprovisions(call, in, rec, gone, tied)

SteadyAt(r) ==
    Steady(pc[r], req[r], loc[r], records[req[r].inst], r \in hung, req[r].inst \in bound)

\* One handler per instance.
Queued ==
    \A q, r \in Requests :
        InFlight(q) /\ InFlight(r) /\ req[q].inst = req[r].inst => q = r

RecordsPlaced ==
    \A i \in Instances : records[i] # NoRecord => Within(records[i].refs, i, records[i].ns)

SInv ==
    /\ Queued
    /\ RecordsPlaced
    /\ \A r \in Requests : SteadyAt(r)

-----------------------------------------------------------------------------
(* Keys and sequences of them.                                             *)

LEMMA WithinEmpty ==
    ASSUME NEW i, NEW ns
    PROVE  Within(<<>>, i, ns)
BY DEF Within

LEMMA WithinRest ==
    ASSUME NEW seq \in Seq(ObjectKeys), seq # <<>>, NEW i, NEW ns, Within(seq, i, ns)
    PROVE  /\ Within(Tail(seq), i, ns)
           /\ Head(seq) = KeyOf(i, ns, Head(seq)[3]) /\ Head(seq)[1] = i
<1>1. Head(seq) = seq[1] /\ 1 \in DOMAIN seq
  BY HeadTailProperties, LenProperties, EmptySeq
<1>2. ASSUME NEW n \in DOMAIN Tail(seq)
      PROVE  Tail(seq)[n] = seq[n + 1] /\ n + 1 \in DOMAIN seq
  BY HeadTailProperties, LenProperties
<1>3. Head(seq) = KeyOf(i, ns, Head(seq)[3]) /\ Within(Tail(seq), i, ns)
  BY <1>1, <1>2 DEF Within
<1>4. \A doc : KeyOf(i, ns, doc)[1] = i
  BY DEF KeyOf
<1> QED
  BY <1>3, <1>4

LEMMA OwnedRest ==
    ASSUME NEW seq \in Seq(ObjectKeys), seq # <<>>, NEW i, OwnedBy(seq, i)
    PROVE  OwnedBy(Tail(seq), i) /\ Head(seq)[1] = i
<1>1. Head(seq) = seq[1] /\ 1 \in DOMAIN seq
  BY HeadTailProperties, LenProperties, EmptySeq
<1>2. ASSUME NEW n \in DOMAIN Tail(seq)
      PROVE  Tail(seq)[n] = seq[n + 1] /\ n + 1 \in DOMAIN seq
  BY HeadTailProperties, LenProperties
<1> QED
  BY <1>1, <1>2 DEF OwnedBy

LEMMA WithinAppend ==
    ASSUME NEW seq \in Seq(ObjectKeys), NEW k \in ObjectKeys, NEW i, NEW ns,
           Within(seq, i, ns), k = KeyOf(i, ns, k[3])
    PROVE  Within(Append(seq, k), i, ns)
<1> SUFFICES ASSUME NEW n \in DOMAIN Append(seq, k)
             PROVE  Append(seq, k)[n] = KeyOf(i, ns, Append(seq, k)[n][3])
  BY DEF Within
<1>1. CASE n \in DOMAIN seq
  <2>1. Append(seq, k)[n] = seq[n]
    BY <1>1, AppendProperties, LenProperties
  <2> QED
    BY <1>1, <2>1 DEF Within
<1>2. CASE n \notin DOMAIN seq
  <2>1. Append(seq, k)[n] = k
    BY <1>2, AppendProperties, LenProperties
  <2> QED
    BY <2>1
<1> QED
  BY <1>1, <1>2

LEMMA ManifestKeysWithin ==
    ASSUME NEW i, NEW ns, NEW content
    PROVE  Within(ManifestKeys(i, ns, content), i, ns)
<1>1. \A doc : KeyOf(i, ns, doc)[3] = doc
  BY DEF KeyOf
<1> QED
  BY <1>1 DEF Within, ManifestKeys

LEMMA WithinIsOwned ==
    ASSUME NEW seq, NEW i, NEW ns, Within(seq, i, ns)
    PROVE  OwnedBy(seq, i)
<1>1. \A doc : KeyOf(i, ns, doc)[1] = i
  BY DEF KeyOf
<1> QED
  BY <1>1 DEF Within, OwnedBy

-----------------------------------------------------------------------------
(* What a handler does to its own state, and the others keep.              *)

LEMMA ContinueFacts ==
    ASSUME IInv, NEW r \in Requests, NEW call, NEW input, NEW l, Continue(r, call, input, l)
    PROVE  /\ pc'[r] = call /\ req'[r] = input /\ loc'[r] = l /\ hung' = hung
           /\ \A q \in Requests :
                 q # r => pc'[q] = pc[q] /\ req'[q] = req[q] /\ loc'[q] = loc[q]
<1>1. /\ pc \in [Requests -> Calls] /\ req \in [Requests -> Inputs]
      /\ loc \in [Requests -> Locals]
  BY DEF IInv, HandlersOK
<1> QED
  BY <1>1 DEF Continue

LEMMA AnswerFacts ==
    ASSUME IInv, NEW r \in Requests, NEW code, Answer(r, code)
    PROVE  /\ pc'[r] = "idle" /\ req'[r] = NoInput /\ hung' = hung \ {r}
           /\ loc'[r] = [NoLocals EXCEPT !.code = IF r \in hung THEN "lost" ELSE code]
           /\ \A q \in Requests :
                 q # r => pc'[q] = pc[q] /\ req'[q] = req[q] /\ loc'[q] = loc[q]
<1>1. /\ pc \in [Requests -> Calls] /\ req \in [Requests -> Inputs]
      /\ loc \in [Requests -> Locals]
  BY DEF IInv, HandlersOK
<1> QED
  BY <1>1 DEF Answer

LEMMA SteadyIdle ==
    ASSUME NEW in, NEW l, NEW rec, NEW gone, NEW tied
    PROVE  Steady("idle", in, l, rec, gone, tied)
BY DEF Steady, Placed, Provisions, Updates, Deprovisions, Reading, Applying, Recording,
       TearingDown

\* One handler moves; the records the others work on stay.
LEMMA HandlerMoves ==
    ASSUME SInv, NEW r \in Requests,
           \A q \in Requests : q # r => /\ pc'[q] = pc[q] /\ req'[q] = req[q]
                                        /\ loc'[q] = loc[q] /\ (q \in hung' <=> q \in hung),
           UNCHANGED bound,
           \A q \in Requests :
              q # r /\ InFlight(q) => records'[req[q].inst] = records[req[q].inst],
           RecordsPlaced',
           pc'[r] # "idle" => \/ InFlight(r) /\ req'[r].inst = req[r].inst
                              \/ Quiet(req'[r].inst),
           SteadyAt(r)'
    PROVE  SInv'
<1>1. Queued'
  BY DEF SInv, Queued, InFlight, Quiet
<1>2. ASSUME NEW q \in Requests, q # r PROVE SteadyAt(q)'
  <2>1. CASE InFlight(q)
    <3>1. /\ pc'[q] = pc[q] /\ req'[q] = req[q] /\ loc'[q] = loc[q]
          /\ (q \in hung') = (q \in hung)
          /\ records'[req'[q].inst] = records[req[q].inst]
          /\ (req'[q].inst \in bound') = (req[q].inst \in bound)
      BY <1>2, <2>1
    <3> QED
      BY <3>1 DEF SInv, SteadyAt
  <2>2. CASE ~InFlight(q)
    <3>1. pc'[q] = "idle"
      BY <1>2, <2>2 DEF InFlight
    <3> QED
      BY <3>1, SteadyIdle DEF SteadyAt
  <2> QED
    BY <2>1, <2>2
<1> QED
  BY <1>1, <1>2 DEF SInv

\* A step of r writes no record but its own instance's.
OwnRecordOnly(r) ==
    /\ UNCHANGED bound
    /\ \A i \in Instances : i # req[r].inst => records'[i] = records[i]

LEMMA OthersRecords ==
    ASSUME IInv, SInv, NEW r \in Requests, InFlight(r), OwnRecordOnly(r),
           NEW q \in Requests, q # r, InFlight(q)
    PROVE  records'[req[q].inst] = records[req[q].inst]
<1>1. req[q].inst \in Instances
  BY OwnState DEF IInv, Inputs
<1>2. req[q].inst # req[r].inst
  BY DEF SInv, Queued
<1> QED
  BY <1>1, <1>2 DEF OwnRecordOnly

LEMMA ContinueSteady ==
    ASSUME IInv, SInv, NEW r \in Requests, NEW call, NEW input, NEW l,
           InFlight(r), input.inst = req[r].inst,
           Continue(r, call, input, l), OwnRecordOnly(r), RecordsPlaced',
           Steady(call, input, l, records'[input.inst], r \in hung, input.inst \in bound)
    PROVE  SInv'
<1>1. /\ pc \in [Requests -> Calls] /\ req \in [Requests -> Inputs]
      /\ loc \in [Requests -> Locals]
  BY DEF IInv, HandlersOK
<1>2. /\ pc'[r] = call /\ req'[r] = input /\ loc'[r] = l /\ hung' = hung
      /\ \A q \in Requests : q # r => pc'[q] = pc[q] /\ req'[q] = req[q] /\ loc'[q] = loc[q]
  BY <1>1 DEF Continue
<1>3. bound' = bound
  BY DEF OwnRecordOnly
<1>4. SteadyAt(r)'
  BY <1>2, <1>3 DEF SteadyAt
<1>5. \A q \in Requests :
         q # r /\ InFlight(q) => records'[req[q].inst] = records[req[q].inst]
  BY OthersRecords
<1> QED
  BY <1>2, <1>3, <1>4, <1>5, HandlerMoves

LEMMA AnswerMoves ==
    ASSUME IInv, SInv, NEW r \in Requests, NEW code, Answer(r, code), UNCHANGED bound,
           \A q \in Requests :
              q # r /\ InFlight(q) => records'[req[q].inst] = records[req[q].inst],
           RecordsPlaced'
    PROVE  SInv'
<1>1. /\ pc \in [Requests -> Calls] /\ req \in [Requests -> Inputs]
      /\ loc \in [Requests -> Locals]
  BY DEF IInv, HandlersOK
<1>2. /\ pc'[r] = "idle" /\ hung' = hung \ {r}
      /\ \A q \in Requests : q # r => pc'[q] = pc[q] /\ req'[q] = req[q] /\ loc'[q] = loc[q]
  BY <1>1 DEF Answer
<1>3. SteadyAt(r)'
  BY <1>2, SteadyIdle DEF SteadyAt
<1> QED
  BY <1>2, <1>3, HandlerMoves

LEMMA AnswerSteady ==
    ASSUME IInv, SInv, NEW r \in Requests, NEW code, InFlight(r), Answer(r, code),
           OwnRecordOnly(r), RecordsPlaced'
    PROVE  SInv'
BY AnswerMoves, OthersRecords DEF OwnRecordOnly

\* Most steps leave the store alone.
LEMMA StoreKept ==
    ASSUME SInv, UNCHANGED store, NEW r
    PROVE  OwnRecordOnly(r) /\ RecordsPlaced' /\ records' = records
BY DEF OwnRecordOnly, RecordsPlaced, SInv, store

LEMMA GotoSteady ==
    ASSUME IInv, SInv, NEW r \in Requests, NEW call, NEW l, InFlight(r),
           Goto(r, call, l), UNCHANGED store,
           Steady(call, req[r], l, records[req[r].inst], r \in hung, req[r].inst \in bound)
    PROVE  SInv'
BY ContinueSteady, StoreKept DEF Goto

LEMMA AnswerOnly ==
    ASSUME IInv, SInv, NEW r \in Requests, NEW code, InFlight(r), Answer(r, code),
           UNCHANGED store
    PROVE  SInv'
BY AnswerSteady, StoreKept

\* What the invariant says of one handler.
LEMMA OwnSteady ==
    ASSUME IInv, SInv, NEW r \in Requests
    PROVE  /\ Placed(pc[r], req[r], loc[r])
           /\ Provisions(pc[r], req[r], records[req[r].inst], r \in hung)
           /\ Updates(pc[r], req[r], loc[r], records[req[r].inst])
           /\ Deprovisions(pc[r], req[r], records[req[r].inst], r \in hung,
                           req[r].inst \in bound)
           /\ req[r] \in Inputs /\ loc[r] \in Locals /\ Coherent(pc[r], req[r], loc[r])
BY OwnState DEF SInv, SteadyAt, Steady, IInv

-----------------------------------------------------------------------------
(* Every step keeps the invariant: arrivals.                               *)

LEMMA ReceiveSteady ==
    ASSUME IInv, SInv, "overlap" \notin Adverse, NEW r \in Requests, NEW input,
           NEW call \in {"lookup", "service"}, Receive(r, input, call),
           input.op = "deprovision" /\ "wrongService" \notin Adverse
           => RightService(input.inst, input.service)
    PROVE  SInv'
<1> DEFINE l == [NoLocals EXCEPT !.code = "ok", !.merged = input.params]
<1>1. /\ pc \in [Requests -> Calls] /\ req \in [Requests -> Inputs]
      /\ loc \in [Requests -> Locals]
  BY DEF IInv, HandlersOK
<1>2. l.applied = <<>>
  BY DEF NoLocals
<1>3. Quiet(input.inst) /\ UNCHANGED store /\ Continue(r, call, input, l)
  BY DEF Receive, MaySend
<1> HIDE DEF l
<1>4. /\ pc'[r] = call /\ req'[r] = input /\ loc'[r] = l /\ hung' = hung
      /\ \A q \in Requests : q # r => pc'[q] = pc[q] /\ req'[q] = req[q] /\ loc'[q] = loc[q]
  BY <1>1, <1>3 DEF Continue
<1>8. records' = records
  BY <1>3 DEF store
<1>9. Deprovisions(call, input, records'[input.inst], r \in hung', input.inst \in bound')
  BY <1>8 DEF Deprovisions, TearingDown, RightService
<1>5. Steady(call, input, l, records'[input.inst], r \in hung', input.inst \in bound')
  BY <1>2, <1>9 DEF Steady, Placed, Provisions, Updates, Reading, Applying, Recording
<1>6. SteadyAt(r)'
  BY <1>4, <1>5 DEF SteadyAt
<1>7. RecordsPlaced' /\ records' = records /\ bound' = bound
  BY <1>3, StoreKept DEF store
<1> QED
  BY <1>3, <1>4, <1>6, <1>7, HandlerMoves

LEMMA ArriveSteady ==
    ASSUME IInv, SInv, "overlap" \notin Adverse, NEW r \in Requests, Arrive(r)
    PROVE  SInv'
<1>1. ASSUME NEW input, NEW call \in {"lookup", "service"}, Receive(r, input, call),
             input.op # "deprovision"
      PROVE  SInv'
  BY <1>1, ReceiveSteady
<1>2. CASE Answer(r, "invalid") /\ UNCHANGED <<store, cluster>>
  <2>1. RecordsPlaced' /\ UNCHANGED <<records, bound>>
    BY <1>2, StoreKept DEF store
  <2> QED
    BY <1>2, <2>1, AnswerMoves
<1>3. \A op, i, s, p, params, ns, opt :
         /\ Input(op, i, s, p, params, ns, opt).op = op
         /\ Input(op, i, s, p, params, ns, opt).inst = i
         /\ Input(op, i, s, p, params, ns, opt).service = s
  BY DEF Input
<1>4. CASE ReceiveProvision(r) \/ ReceiveUpdate(r)
  BY <1>1, <1>2, <1>3, <1>4 DEF ReceiveProvision, ReceiveUpdate
<1>5. CASE ReceiveDeprovision(r)
  <2>1. PICK i \in Instances, s \in Services \union {NoService} :
           /\ "wrongService" \in Adverse \/ RightService(i, s)
           /\ Receive(r, Input("deprovision", i, s, NoPlan, NoParams, Default, FALSE),
                      IF s = NoService THEN "service" ELSE "lookup")
    BY <1>5 DEF ReceiveDeprovision
  <2> DEFINE input == Input("deprovision", i, s, NoPlan, NoParams, Default, FALSE)
             call  == IF s = NoService THEN "service" ELSE "lookup"
  <2>2. input.inst = i /\ input.service = s
    BY DEF Input
  <2>3. call \in {"lookup", "service"}
    OBVIOUS
  <2>4. "wrongService" \in Adverse \/ RightService(i, s)
    BY <2>1
  <2>5. Receive(r, input, call)
    BY <2>1, Zenon
  <2> HIDE DEF input, call
  <2> QED
    BY <2>2, <2>3, <2>4, <2>5, ReceiveSteady
<1> QED
  BY <1>4, <1>5 DEF Arrive

-----------------------------------------------------------------------------
(* Apply and record.                                                       *)

\* The clean-up of a provision, whether or not its record was written.
LEMMA AbandonSteady ==
    ASSUME IInv, SInv, NEW r \in Requests, NEW code,
           pc[r] \in Applying \union Recording, Abandon(r, code),
           OwnRecordOnly(r), RecordsPlaced',
           "lostReply" \in Adverse \/ records' = records
    PROVE  SInv'
<1> DEFINE l == [loc[r] EXCEPT !.todo = loc[r].applied, !.code = code]
<1>1. InFlight(r)
  BY DEF InFlight, Applying, Recording
<1>2. CASE Answer(r, code)
  BY <1>1, <1>2, AnswerSteady
<1>3. CASE req[r].op = "provision" /\ Goto(r, "undo", l)
  <2>1. l.todo = loc[r].applied /\ Within(l.todo, req[r].inst, req[r].ns)
    BY OwnSteady DEF Placed, Locals
  <2>2. Placed("undo", req[r], l)
    BY <2>1 DEF Placed, Reading, Applying, Recording
  <2>3. Provisions("undo", req[r], records'[req[r].inst], r \in hung)
    BY <1>3, OwnSteady DEF Provisions, Applying, Recording
  <2>4. /\ Updates("undo", req[r], l, records'[req[r].inst])
        /\ Deprovisions("undo", req[r], records'[req[r].inst], r \in hung,
                        req[r].inst \in bound)
    BY DEF Updates, Deprovisions, Applying, Recording, TearingDown
  <2> HIDE DEF l
  <2>5. Steady("undo", req[r], l, records'[req[r].inst], r \in hung, req[r].inst \in bound)
    BY <2>2, <2>3, <2>4 DEF Steady
  <2> QED
    BY <1>1, <1>3, <2>5, ContinueSteady DEF Goto
<1> QED
  BY <1>2, <1>3 DEF Abandon

LEMMA AbandonOnly ==
    ASSUME IInv, SInv, NEW r \in Requests, NEW code,
           pc[r] \in Applying \union Recording, Abandon(r, code), UNCHANGED store
    PROVE  SInv'
BY AbandonSteady, StoreKept

\* From one call of an update or a provision to the next.
LEMMA ProceedSteady ==
    ASSUME IInv, SInv, NEW r \in Requests, NEW call \in Applying \union Recording, NEW l,
           pc[r] \in {"compare", "namespace"} \union Applying \union Recording,
           l.known = loc[r].known, l.merged = loc[r].merged,
           Within(l.applied, req[r].inst, req[r].ns),
           call \in Applying => Within(l.todo, req[r].inst, req[r].ns),
           Goto(r, call, l), UNCHANGED store
    PROVE  SInv'
<1>1. InFlight(r)
  BY DEF InFlight, Applying, Recording
<1>2. Placed(call, req[r], l)
  BY DEF Placed, Reading, Applying, Recording
<1>3. pc[r] = "compare" => req[r].op = "update"
  BY OwnSteady DEF Coherent
<1>4. Provisions(call, req[r], records[req[r].inst], r \in hung)
  BY <1>3, OwnSteady DEF Provisions, Applying, Recording
<1>5. Updates(call, req[r], l, records[req[r].inst])
  BY OwnSteady DEF Provisions, Updates, Applying, Recording
<1>6. Deprovisions(call, req[r], records[req[r].inst], r \in hung, req[r].inst \in bound)
  BY DEF Deprovisions, Applying, Recording, TearingDown
<1> QED
  BY <1>1, <1>2, <1>4, <1>5, <1>6, GotoSteady DEF Steady

LEMMA AfterApplySteady ==
    ASSUME IInv, SInv, NEW r \in Requests, NEW l,
           pc[r] \in {"compare"} \union Applying,
           l.known = loc[r].known, l.merged = loc[r].merged,
           Within(l.applied, req[r].inst, req[r].ns),
           AfterApply(r, l), UNCHANGED store
    PROVE  SInv'
<1>1. InFlight(r)
  BY DEF InFlight, Applying
<1>2. Answer(r, "ok") \/ Goto(r, "recGet", l)
  BY DEF AfterApply
<1>3. CASE Answer(r, "ok")
  BY <1>1, <1>3, AnswerOnly
<1>4. CASE Goto(r, "recGet", l)
  BY <1>4, ProceedSteady DEF Applying, Recording
<1> QED
  BY <1>2, <1>3, <1>4

LEMMA NextDocumentSteady ==
    ASSUME IInv, SInv, NEW r \in Requests, pc[r] = "applyPut", NextDocument(r),
           UNCHANGED store
    PROVE  SInv'
<1> DEFINE l == [loc[r] EXCEPT !.applied = Append(@, Head(loc[r].todo)), !.todo = Tail(@)]
           i == req[r].inst
           ns == req[r].ns
<1>1. /\ loc[r] \in Locals /\ loc[r].todo # <<>>
      /\ loc[r].todo \in Seq(ObjectKeys) /\ loc[r].applied \in Seq(ObjectKeys)
      /\ Within(loc[r].todo, i, ns) /\ Within(loc[r].applied, i, ns)
  BY OwnSteady DEF Coherent, Locals, Placed, Applying
<1>2. /\ l.applied = Append(loc[r].applied, Head(loc[r].todo)) /\ l.todo = Tail(loc[r].todo)
      /\ l.known = loc[r].known /\ l.merged = loc[r].merged
  BY <1>1 DEF Locals
<1>3. Head(loc[r].todo) \in ObjectKeys
  BY <1>1, HeadTailProperties
<1>4. Within(l.todo, i, ns) /\ Within(l.applied, i, ns)
  BY <1>1, <1>2, <1>3, WithinRest, WithinAppend
<1>5. AfterApply(r, l) \/ Goto(r, "applyGet", l)
  BY DEF NextDocument
<1> HIDE DEF l
<1>6. CASE AfterApply(r, l)
  BY <1>2, <1>4, <1>6, AfterApplySteady DEF Applying
<1>7. CASE Goto(r, "applyGet", l)
  BY <1>2, <1>4, <1>7, ProceedSteady DEF Applying
<1> QED
  BY <1>5, <1>6, <1>7

LEMMA ApplySteady ==
    ASSUME IInv, SInv, NEW r \in Requests, Apply(r)
    PROVE  SInv'
<1>1. CASE ApplyGet(r)
  <2> DEFINE l == [loc[r] EXCEPT !.found = objects[Head(loc[r].todo)] # NoObject]
  <2>1. pc[r] = "applyGet" /\ UNCHANGED store /\ (Goto(r, "applyPut", l) \/ Abandon(r, "error"))
    BY <1>1 DEF ApplyGet
  <2>2. /\ l.todo = loc[r].todo /\ l.applied = loc[r].applied
        /\ l.known = loc[r].known /\ l.merged = loc[r].merged
    BY OwnSteady DEF Locals
  <2>3. Within(l.todo, req[r].inst, req[r].ns) /\ Within(l.applied, req[r].inst, req[r].ns)
    BY <2>1, <2>2, OwnSteady DEF Placed, Applying
  <2> HIDE DEF l
  <2>4. CASE Goto(r, "applyPut", l)
    BY <2>1, <2>2, <2>3, <2>4, ProceedSteady DEF Applying
  <2> QED
    BY <2>1, <2>4, AbandonOnly DEF Applying
<1>2. CASE ApplyPut(r)
  <2>1. /\ pc[r] = "applyPut" /\ UNCHANGED store
        /\ NextDocument(r) \/ \E code : Abandon(r, code)
    BY <1>2 DEF ApplyPut
  <2> QED
    BY <2>1, NextDocumentSteady, AbandonOnly DEF Applying
<1>3. CASE Undo(r)
  <2> DEFINE l == [loc[r] EXCEPT !.todo = Tail(loc[r].todo)]
  <2>1. /\ pc[r] = "undo" /\ UNCHANGED store /\ InFlight(r)
        /\ Answer(r, loc[r].code) \/ Goto(r, "undo", l)
    BY <1>3 DEF Undo, InFlight
  <2>2. loc[r].todo \in Seq(ObjectKeys) /\ loc[r].todo # <<>> /\ l.todo = Tail(loc[r].todo)
    BY <2>1, OwnSteady DEF Locals, Coherent
  <2>3. Within(l.todo, req[r].inst, req[r].ns)
    BY <2>1, <2>2, OwnSteady, WithinRest DEF Placed
  <2> HIDE DEF l
  <2>4. Steady("undo", req[r], l, records[req[r].inst], r \in hung, req[r].inst \in bound)
    BY <2>1, <2>3, OwnSteady DEF Steady, Placed, Provisions, Updates, Deprovisions, Reading,
       Applying, Recording, TearingDown
  <2> QED
    BY <2>1, <2>4, GotoSteady, AnswerOnly
<1> QED
  BY <1>1, <1>2, <1>3 DEF Apply

\* The record that is written refers to objects where it says they are.
LEMMA RecordOfPlaced ==
    ASSUME IInv, SInv, NEW r \in Requests, pc[r] = "recPut"
    PROVE  Within(RecordOf(r).refs, req[r].inst, RecordOf(r).ns)
<1> DEFINE i == req[r].inst
           rec == records[i]
<1>1. /\ i \in Instances /\ loc[r] \in Locals
      /\ Within(loc[r].applied, i, req[r].ns)
  BY OwnSteady DEF Placed, Recording, Inputs
<1>2. CASE req[r].op = "update"
  <2>1. loc[r].known # NoRecord
    BY <1>2, OwnSteady DEF Coherent
  <2>2. rec # NoRecord /\ rec.ns = req[r].ns /\ loc[r].known = rec
    BY <1>2, <2>1, OwnSteady DEF Updates, Recording
  <2>3. rec \in Records /\ Within(rec.refs, i, rec.ns)
    BY <1>1, <2>2 DEF IInv, RecordsOK, SInv, RecordsPlaced
  <2>4. /\ RecordOf(r).ns = rec.ns
        /\ RecordOf(r).refs \in {loc[r].applied, rec.refs}
    BY <1>2, <2>2, <2>3 DEF RecordOf, UpdatedRecord, Records
  <2> QED
    BY <1>1, <2>2, <2>3, <2>4
<1>3. CASE req[r].op # "update"
  BY <1>1, <1>3 DEF RecordOf, NewRecord
<1> QED
  BY <1>2, <1>3

LEMMA RecPutSteady ==
    ASSUME IInv, SInv, NEW r \in Requests, RecPut(r)
    PROVE  SInv'
<1> DEFINE i == req[r].inst
           write == records' = [records EXCEPT ![i] = RecordOf(r)]
<1>1. pc[r] = "recPut" /\ UNCHANGED bound /\ InFlight(r)
  BY DEF RecPut, InFlight
<1>2. CASE write
  <2>1. OwnRecordOnly(r)
    BY <1>1, <1>2 DEF OwnRecordOnly, IInv, RecordsOK
  <2>2. RecordsPlaced'
    <3> SUFFICES ASSUME NEW j \in Instances, records'[j] # NoRecord
                 PROVE  Within(records'[j].refs, j, records'[j].ns)
      BY DEF RecordsPlaced
    <3>1. CASE j = i
      <4>1. records'[j] = RecordOf(r)
        BY <1>2, <3>1 DEF IInv, RecordsOK
      <4> QED
        BY <1>1, <3>1, <4>1, RecordOfPlaced
    <3>2. CASE j # i
      BY <3>2, <2>1 DEF OwnRecordOnly, SInv, RecordsPlaced
    <3> QED
      BY <3>1, <3>2
  <2>3. \/ \E code : Answer(r, code)
        \/ "lostReply" \in Adverse /\ \E code : Abandon(r, code)
        \/ records' = records /\ \E code : Abandon(r, code)
    BY DEF RecPut
  <2> QED
    BY <1>1, <2>1, <2>2, <2>3, AnswerSteady, AbandonSteady DEF Recording
<1>3. CASE UNCHANGED store
  <2>1. \E code : Answer(r, code) \/ Abandon(r, code)
    BY DEF RecPut
  <2> QED
    BY <1>1, <1>3, <2>1, AnswerOnly, AbandonOnly DEF Recording
<1>4. write \/ UNCHANGED store
  BY DEF RecPut, store
<1> QED
  BY <1>2, <1>3, <1>4

LEMMA RecordSteady ==
    ASSUME IInv, SInv, NEW r \in Requests, Record(r)
    PROVE  SInv'
<1>1. CASE RecGet(r)
  <2> DEFINE l == [loc[r] EXCEPT !.found = records[req[r].inst] # NoRecord]
  <2>1. pc[r] = "recGet" /\ UNCHANGED store /\ (Goto(r, "recPut", l) \/ Abandon(r, "error"))
    BY <1>1 DEF RecGet
  <2>2. l.applied = loc[r].applied /\ l.known = loc[r].known /\ l.merged = loc[r].merged
    BY OwnSteady DEF Locals
  <2>3. Within(l.applied, req[r].inst, req[r].ns)
    BY <2>1, <2>2, OwnSteady DEF Placed, Recording
  <2> HIDE DEF l
  <2>4. CASE Goto(r, "recPut", l)
    BY <2>1, <2>2, <2>3, <2>4, ProceedSteady DEF Recording, Applying
  <2> QED
    BY <2>1, <2>4, AbandonOnly DEF Recording
<1> QED
  BY <1>1, RecPutSteady DEF Record

-----------------------------------------------------------------------------
(* The calls of the three handlers before that.                            *)

LEMMA ProvisionSteady ==
    ASSUME IInv, SInv, NEW r \in Requests, ProvisionStep(r)
    PROVE  SInv'
<1> DEFINE rec == records[req[r].inst]
           l   == [loc[r] EXCEPT !.todo = ManifestKeys(req[r].inst, req[r].ns, Content(r))]
<1>1. pc[r] \in {"lookup", "namespace"} /\ InFlight(r) /\ UNCHANGED store
  BY DEF ProvisionStep, LookupProvision, PrepareNamespace, InFlight
<1>2. \/ \E code : Answer(r, code)
      \/ /\ Goto(r, "namespace", loc[r]) /\ pc[r] = "lookup" /\ req[r].op = "provision"
         /\ rec = NoRecord \/ r \in hung \/ "getInstance" \in Adverse
      \/ Goto(r, "applyGet", l) /\ pc[r] = "namespace"
  BY DEF ProvisionStep, LookupProvision, PrepareNamespace, Fails
<1>3. loc[r].applied = <<>>
  BY <1>1, OwnSteady DEF Placed, Reading
<1>4. CASE /\ Goto(r, "namespace", loc[r]) /\ pc[r] = "lookup" /\ req[r].op = "provision"
           /\ rec = NoRecord \/ r \in hung \/ "getInstance" \in Adverse
  <2>1. Steady("namespace", req[r], loc[r], rec, r \in hung, req[r].inst \in bound)
    BY <1>3, <1>4 DEF Steady, Placed, Provisions, Updates, Deprovisions, Reading, Applying,
       Recording, TearingDown
  <2> QED
    BY <1>1, <1>4, <2>1, GotoSteady
<1>5. CASE Goto(r, "applyGet", l) /\ pc[r] = "namespace"
  <2>1. /\ l.todo = ManifestKeys(req[r].inst, req[r].ns, Content(r))
        /\ l.applied = <<>> /\ l.known = loc[r].known /\ l.merged = loc[r].merged
    BY <1>3, OwnSteady DEF Locals
  <2>2. Within(l.todo, req[r].inst, req[r].ns) /\ Within(l.applied, req[r].inst, req[r].ns)
    BY <2>1, ManifestKeysWithin, WithinEmpty
  <2> HIDE DEF l
  <2> QED
    BY <1>1, <1>5, <2>1, <2>2, ProceedSteady DEF Applying
<1> QED
  BY <1>1, <1>2, <1>4, <1>5, AnswerOnly

LEMMA LookupUpdateSteady ==
    ASSUME IInv, SInv, NEW r \in Requests, LookupUpdate(r)
    PROVE  SInv'
<1> DEFINE rec    == records[req[r].inst]
           svc    == IF req[r].service = NoService THEN ServiceOf[rec.plan] ELSE req[r].service
           target == IF req[r].plan = NoPlan THEN rec.plan ELSE req[r].plan
           input  == [req[r] EXCEPT !.service = svc, !.plan = target, !.ns = rec.ns]
<1>1. /\ pc[r] = "lookup" /\ req[r].op = "update" /\ InFlight(r) /\ UNCHANGED store
      /\ loc[r].applied = <<>> /\ req[r] \in Inputs
  BY OwnSteady DEF LookupUpdate, InFlight, Placed, Reading
<1>2. \/ \E code : Answer(r, code)
      \/ /\ Continue(r, "engineRead", input, loc[r])
         /\ rec # NoRecord /\ PlanChangeAllowed(svc, rec.plan, target)
         /\ PlanKnown(svc, target)
  BY DEF LookupUpdate
<1>3. /\ input.inst = req[r].inst /\ input.op = "update"
      /\ input.ns = rec.ns /\ input.plan = target
  BY <1>1 DEF Inputs
<1> HIDE DEF input
<1>4. CASE /\ Continue(r, "engineRead", input, loc[r])
           /\ rec # NoRecord /\ PlanChangeAllowed(svc, rec.plan, target)
           /\ PlanKnown(svc, target)
  <2>1. input.plan = rec.plan \/ Movable(rec.plan, input.plan)
    BY <1>3, <1>4 DEF PlanChangeAllowed, PlanKnown, Movable
  <2>2. Steady("engineRead", input, loc[r], rec, r \in hung, input.inst \in bound)
    BY <1>1, <1>3, <1>4, <2>1 DEF Steady, Placed, Provisions, Updates, Deprovisions, Reading,
       Applying, Recording, TearingDown
  <2>3. OwnRecordOnly(r) /\ RecordsPlaced' /\ rec = records'[input.inst]
    BY <1>1, <1>3, StoreKept
  <2> HIDE DEF rec
  <2> QED
    BY <1>1, <1>3, <1>4, <2>2, <2>3, ContinueSteady
<1> QED
  BY <1>1, <1>2, <1>4, AnswerOnly

LEMMA EngineReadUpdateSteady ==
    ASSUME IInv, SInv, NEW r \in Requests, EngineReadUpdate(r)
    PROVE  SInv'
<1> DEFINE rec  == records[req[r].inst]
           docs(merged) == ManifestKeys(req[r].inst, req[r].ns,
                                        [plan |-> req[r].plan, params |-> merged])
           over == Overlay(rec.params, req[r].params)
           l(known, merged) ==
               [loc[r] EXCEPT !.known = known, !.merged = merged, !.todo = docs(merged)]
<1>1. /\ pc[r] = "engineRead" /\ req[r].op = "update" /\ InFlight(r) /\ UNCHANGED store
      /\ loc[r].applied = <<>> /\ loc[r] \in Locals
  BY OwnSteady DEF EngineReadUpdate, InFlight, Placed, Reading
<1>2. \/ Answer(r, "invalid")
      \/ Goto(r, "compare", l(rec, over))
      \/ Goto(r, "compare", l(NoRecord, req[r].params))
  BY DEF EngineReadUpdate
<1>3. ASSUME NEW known, NEW merged, known # NoRecord => known = rec /\ merged = over,
             Goto(r, "compare", l(known, merged))
      PROVE  SInv'
  <2>1. /\ l(known, merged).applied = <<>>
        /\ l(known, merged).known = known /\ l(known, merged).merged = merged
    BY <1>1 DEF Locals
  <2> HIDE DEF l
  <2>2. Placed("compare", req[r], l(known, merged))
    BY <2>1 DEF Placed, Reading, Applying, Recording
  <2>3. Updates("compare", req[r], l(known, merged), rec)
    BY <1>1, <1>3, <2>1, OwnSteady DEF Updates, Applying, Recording
  <2>4. /\ Provisions("compare", req[r], rec, r \in hung)
        /\ Deprovisions("compare", req[r], rec, r \in hung, req[r].inst \in bound)
    BY <1>1 DEF Provisions, Deprovisions, Applying, Recording, TearingDown
  <2>5. Steady("compare", req[r], l(known, merged), rec, r \in hung, req[r].inst \in bound)
    BY <2>2, <2>3, <2>4 DEF Steady
  <2> QED
    BY <1>1, <1>3, <2>5, GotoSteady
<1> HIDE DEF l
<1> QED
  BY <1>1, <1>2, <1>3, AnswerOnly

LEMMA CompareSteady ==
    ASSUME IInv, SInv, NEW r \in Requests, Compare(r)
    PROVE  SInv'
<1> DEFINE all     == ManifestKeys(req[r].inst, req[r].ns, Content(r))
           with(t) == [loc[r] EXCEPT !.todo = t]
<1>1. /\ pc[r] = "compare" /\ req[r].op = "update" /\ InFlight(r) /\ UNCHANGED store
      /\ loc[r].applied = <<>> /\ loc[r] \in Locals
  BY OwnSteady DEF Compare, InFlight, Placed, Reading, Coherent
<1>2. \/ Goto(r, "applyGet", with(all))
      \/ AfterApply(r, with(<<>>))
      \/ \E t : Goto(r, "compare", with(t))
  BY DEF Compare
<1>3. ASSUME NEW t
      PROVE  /\ with(t).todo = t /\ with(t).applied = <<>>
             /\ with(t).known = loc[r].known /\ with(t).merged = loc[r].merged
  BY <1>1 DEF Locals
<1> HIDE DEF with
<1>4. \A t : Within(with(t).applied, req[r].inst, req[r].ns)
  BY <1>3, WithinEmpty
<1>5. CASE Goto(r, "applyGet", with(all))
  BY <1>1, <1>3, <1>4, <1>5, ManifestKeysWithin, ProceedSteady DEF Applying
<1>6. CASE AfterApply(r, with(<<>>))
  BY <1>1, <1>3, <1>4, <1>6, AfterApplySteady
<1>7. ASSUME NEW t, Goto(r, "compare", with(t)) PROVE SInv'
  <2>1. Placed("compare", req[r], with(t))
    BY <1>3 DEF Placed, Reading, Applying, Recording
  <2>2. Updates("compare", req[r], with(t), records[req[r].inst])
    BY <1>1, <1>3, OwnSteady DEF Updates
  <2>3. Steady("compare", req[r], with(t), records[req[r].inst], r \in hung,
               req[r].inst \in bound)
    BY <1>1, <2>1, <2>2, OwnSteady DEF Steady
  <2> QED
    BY <1>1, <1>7, <2>3, GotoSteady
<1> QED
  BY <1>2, <1>5, <1>6, <1>7

LEMMA UpdateSteady ==
    ASSUME IInv, SInv, NEW r \in Requests, UpdateStep(r)
    PROVE  SInv'
BY LookupUpdateSteady, EngineReadUpdateSteady, CompareSteady DEF UpdateStep

\* From one call of a deprovision to the next, as long as it applies nothing.
LEMMA TeardownSteady ==
    ASSUME IInv, SInv, NEW r \in Requests, NEW input, NEW l,
           NEW call \in {"lookup", "bindings"} \union TearingDown,
           InFlight(r), req[r].op = "deprovision",
           input.inst = req[r].inst, input.op = "deprovision",
           call \in Reading => l.applied = <<>>,
           call \in {"label", "delete"} => OwnedBy(l.todo, req[r].inst),
           Deprovisions(call, input, records[req[r].inst], r \in hung, req[r].inst \in bound),
           Continue(r, call, input, l), UNCHANGED store
    PROVE  SInv'
<1> DEFINE rec == records[req[r].inst]
<1>1. Placed(call, input, l)
  BY DEF Placed, Reading, Applying, Recording, TearingDown
<1>2. Provisions(call, input, rec, r \in hung) /\ Updates(call, input, l, rec)
  BY DEF Provisions, Updates, TearingDown
<1>3. Steady(call, input, l, rec, r \in hung, input.inst \in bound)
  BY <1>1, <1>2 DEF Steady
<1>4. OwnRecordOnly(r) /\ RecordsPlaced' /\ rec = records'[input.inst]
  BY StoreKept
<1> HIDE DEF rec
<1> QED
  BY <1>3, <1>4, ContinueSteady

\* The reads of a deprovision, up to what is to be deleted.
LEMMA TeardownReadsSteady ==
    ASSUME IInv, SInv, NEW r \in Requests,
           \/ FindService(r) \/ LookupDeprovision(r) \/ CheckBindings(r) \/ FindNamespace(r)
    PROVE  SInv'
<1> DEFINE i == req[r].inst
           rec == records[i]
           tied == i \in bound
           gone == r \in hung
<1>1. /\ pc[r] \in {"service", "lookup", "bindings", "nsRead"}
      /\ req[r].op = "deprovision" /\ InFlight(r) /\ UNCHANGED store
      /\ loc[r].applied = <<>> /\ req[r] \in Inputs
  BY OwnSteady DEF FindService, LookupDeprovision, CheckBindings, FindNamespace, InFlight,
     Placed, Reading, Coherent
<1>2. CASE \E code : Answer(r, code)
  BY <1>1, <1>2, AnswerOnly
<1>10. "wrongService" \notin Adverse /\ rec # NoRecord
       => req[r].service \in {NoService, ServiceOf[rec.plan]}
  BY <1>1, OwnSteady DEF Deprovisions, TearingDown
<1>3. ASSUME NEW input, Continue(r, "lookup", input, loc[r]), input.inst = i,
             input.op = "deprovision",
             "wrongService" \notin Adverse /\ rec # NoRecord
             => input.service \in {NoService, ServiceOf[rec.plan]}
      PROVE  SInv'
  <2>1. Deprovisions("lookup", input, rec, gone, tied)
    BY <1>3 DEF Deprovisions, TearingDown
  <2> QED
    BY <1>1, <1>3, <2>1, TeardownSteady DEF TearingDown
<1>4. CASE FindService(r)
  <2>1. \/ Continue(r, "lookup", [req[r] EXCEPT !.service = ServiceOf[rec.plan]], loc[r])
        \/ Continue(r, "lookup", req[r], loc[r])
    BY <1>4 DEF FindService, Goto
  <2> DEFINE input == [req[r] EXCEPT !.service = ServiceOf[rec.plan]]
  <2>2. /\ input.inst = i /\ input.op = "deprovision"
        /\ input.service = ServiceOf[rec.plan]
    BY <1>1 DEF Inputs
  <2> HIDE DEF input, rec, i
  <2>3. CASE Continue(r, "lookup", input, loc[r])
    BY <1>3, <2>2, <2>3
  <2>4. CASE Continue(r, "lookup", req[r], loc[r])
    BY <1>1, <1>3, <1>10, <2>4 DEF i
  <2> QED
    BY <2>1, <2>3, <2>4 DEF input
<1>5. CASE Goto(r, "bindings", loc[r]) /\ req[r].service # NoService
  <2>1. Deprovisions("bindings", req[r], rec, gone, tied)
    BY <1>5, <1>10 DEF Deprovisions, TearingDown
  <2> QED
    BY <1>1, <1>5, <2>1, TeardownSteady DEF Goto, TearingDown
<1>6. CASE /\ Goto(r, "nsRead", loc[r]) /\ pc[r] = "bindings"
           /\ ~tied \/ gone \/ "listBindings" \in Adverse
  <2>1. Deprovisions("nsRead", req[r], rec, gone, tied)
    BY <1>1, <1>6, <1>10, OwnSteady DEF Deprovisions, TearingDown
  <2> QED
    BY <1>1, <1>6, <2>1, TeardownSteady DEF Goto, TearingDown
<1>7. CASE FindNamespace(r)
  <2>1. /\ pc[r] = "nsRead"
        /\ \E ns : Continue(r, "engineRead", [req[r] EXCEPT !.ns = ns], loc[r])
    BY <1>7 DEF FindNamespace
  <2>2. PICK ns : Continue(r, "engineRead", [req[r] EXCEPT !.ns = ns], loc[r])
    BY <2>1
  <2> DEFINE input == [req[r] EXCEPT !.ns = ns]
  <2>3. input.inst = i /\ input.op = "deprovision" /\ input.service = req[r].service
    BY <1>1 DEF Inputs
  <2> HIDE DEF input
  <2>4. Deprovisions("engineRead", input, rec, gone, tied)
    BY <1>1, <2>1, <2>3, OwnSteady DEF Deprovisions, TearingDown
  <2> QED
    BY <1>1, <2>2, <2>3, <2>4, TeardownSteady DEF TearingDown, input
<1>8. CASE LookupDeprovision(r)
  <2>1. \/ \E code : Answer(r, code)
        \/ Goto(r, "bindings", loc[r]) /\ req[r].service # NoService
    BY <1>8 DEF LookupDeprovision
  <2> QED
    BY <2>1, <1>2, <1>5
<1>9. CASE CheckBindings(r)
  <2>1. \/ \E code : Answer(r, code)
        \/ /\ Goto(r, "nsRead", loc[r]) /\ pc[r] = "bindings"
           /\ ~tied \/ gone \/ "listBindings" \in Adverse
    BY <1>9 DEF CheckBindings, Fails
  <2> QED
    BY <2>1, <1>2, <1>6
<1> QED
  BY <1>4, <1>7, <1>8, <1>9

\* A plan that retains is not torn down, unless the engine's read failed.
LEMMA EngineReadDeprovisionSteady ==
    ASSUME IInv, SInv, NEW r \in Requests, EngineReadDeprovision(r)
    PROVE  SInv'
<1> DEFINE i == req[r].inst
           l(known) == [loc[r] EXCEPT !.known = known,
                                      !.todo = ToTearDown(i, req[r].ns, known)]
           call(known) == IF PlanRetains(req[r].service, known) THEN "label" ELSE "delete"
<1>1. /\ pc[r] = "engineRead" /\ req[r].op = "deprovision" /\ InFlight(r) /\ UNCHANGED store
      /\ loc[r] \in Locals /\ i \in Instances
  BY OwnSteady DEF EngineReadDeprovision, InFlight, Inputs
<1>2. PICK known :
         /\ Goto(r, call(known), l(known))
         /\ known = records[i] \/ (known = NoRecord /\ Fails(r, "getInstance"))
  BY DEF EngineReadDeprovision
<1>3. OwnedBy(ToTearDown(i, req[r].ns, known), i)
  <2>1. CASE known = NoRecord
    BY <2>1 DEF ToTearDown, SafeName, OwnedBy
  <2>2. CASE known # NoRecord
    <3>1. Within(known.refs, i, known.ns)
      BY <1>1, <1>2, <2>2 DEF SInv, RecordsPlaced
    <3> QED
      BY <2>2, <3>1, WithinIsOwned DEF ToTearDown
  <2> QED
    BY <2>1, <2>2
<1>4. l(known).todo = ToTearDown(i, req[r].ns, known)
  BY <1>1 DEF Locals
<1>5. Deprovisions(call(known), req[r], records[i], r \in hung, i \in bound)
  BY <1>1, <1>2, OwnSteady DEF Deprovisions, TearingDown, Fails
<1>6. call(known) \in {"label", "delete"}
  OBVIOUS
<1> HIDE DEF l, call
<1> QED
  BY <1>1, <1>2, <1>3, <1>4, <1>5, <1>6, TeardownSteady DEF Goto, Reading, TearingDown

\* Label and Delete work off their lists, then the record goes.
LEMMA WorkOffSteady ==
    ASSUME IInv, SInv, NEW r \in Requests, Label(r) \/ Delete(r)
    PROVE  SInv'
<1> DEFINE i == req[r].inst
           rest == Tail(loc[r].todo)
           l(code) == [loc[r] EXCEPT !.todo = rest, !.code = code]
           call == IF rest = <<>> THEN "forget" ELSE pc[r]
<1>1. /\ pc[r] \in {"label", "delete"} /\ req[r].op = "deprovision" /\ InFlight(r)
      /\ UNCHANGED store
      /\ loc[r] \in Locals /\ loc[r].todo \in Seq(ObjectKeys) /\ loc[r].todo # <<>>
  BY OwnSteady DEF Label, Delete, InFlight, Coherent, Locals
<1>2. [loc[r] EXCEPT !.todo = rest] = l(loc[r].code)
  BY <1>1 DEF Locals
<1>3. (\E code : Goto(r, call, l(code))) \/ \E code : Answer(r, code)
  BY <1>1, <1>2 DEF Label, Delete
<1>4. \A code : l(code).todo = rest
  BY <1>1 DEF Locals
<1>5. OwnedBy(rest, i)
  BY <1>1, OwnSteady, OwnedRest DEF Placed
<1>6. call \in {"forget", "label", "delete"} /\ (call = "delete" => pc[r] = "delete")
  BY <1>1
<1> HIDE DEF l, rest, call
<1>7. Deprovisions(call, req[r], records[i], r \in hung, i \in bound)
  BY <1>1, <1>6, OwnSteady DEF Deprovisions, TearingDown
<1>8. ASSUME NEW code, Goto(r, call, l(code)) PROVE SInv'
  BY <1>1, <1>4, <1>5, <1>6, <1>7, <1>8, TeardownSteady DEF Goto, Reading, TearingDown
<1> QED
  BY <1>1, <1>3, <1>8, AnswerOnly

LEMMA ForgetSteady ==
    ASSUME IInv, SInv, NEW r \in Requests, Forget(r)
    PROVE  SInv'
<1>1. InFlight(r) /\ UNCHANGED bound /\ \E code : Answer(r, code)
  BY DEF Forget, InFlight
<1>2. \/ records' = [records EXCEPT ![req[r].inst] = NoRecord]
      \/ records' = records
  BY DEF Forget
<1>3. OwnRecordOnly(r) /\ RecordsPlaced'
  BY <1>1, <1>2 DEF OwnRecordOnly, RecordsPlaced, SInv, IInv, RecordsOK
<1> QED
  BY <1>1, <1>3, AnswerSteady

LEMMA DeprovisionSteady ==
    ASSUME IInv, SInv, NEW r \in Requests, DeprovisionStep(r)
    PROVE  SInv'
BY TeardownReadsSteady, EngineReadDeprovisionSteady, WorkOffSteady, ForgetSteady
   DEF DeprovisionStep

-----------------------------------------------------------------------------
(* Bindings, the client and the process; and the invariant.                *)

LEMMA BindingSteady ==
    ASSUME IInv, SInv, "overlap" \notin Adverse, NEW i \in Instances,
           BindingAppears(i) \/ BindingDisappears(i)
    PROVE  SInv'
<1>1. /\ Quiet(i) /\ UNCHANGED <<records, pc, req, loc, hung>>
      /\ \A j : j # i => (j \in bound') = (j \in bound)
  BY DEF BindingAppears, BindingDisappears
<1>2. Queued' /\ RecordsPlaced'
  BY <1>1 DEF SInv, Queued, RecordsPlaced, InFlight
<1>3. ASSUME NEW q \in Requests PROVE SteadyAt(q)'
  <2>1. CASE InFlight(q)
    <3>1. req[q].inst # i
      BY <1>1, <2>1 DEF Quiet
    <3>2. (req[q].inst \in bound') = (req[q].inst \in bound)
      BY <1>1, <3>1
    <3>3. SteadyAt(q)
      BY DEF SInv
    <3> QED
      BY <1>1, <3>2, <3>3 DEF SteadyAt
  <2>2. CASE ~InFlight(q)
    BY <1>1, <2>2, SteadyIdle DEF SteadyAt, InFlight
  <2> QED
    BY <2>1, <2>2
<1> QED
  BY <1>2, <1>3 DEF SInv

LEMMA HangUpSteady ==
    ASSUME IInv, SInv, NEW r \in Requests, HangUp(r)
    PROVE  SInv'
<1>1. UNCHANGED <<records, bound, pc, req, loc>> /\ hung' = hung \union {r}
  BY DEF HangUp, store
<1>2. Queued' /\ RecordsPlaced'
  BY <1>1 DEF SInv, Queued, RecordsPlaced, InFlight
<1>3. ASSUME NEW q \in Requests PROVE SteadyAt(q)'
  <2>1. q \in hung => q \in hung'
    BY <1>1
  <2>2. /\ Placed(pc[q], req[q], loc[q])
        /\ Provisions(pc[q], req[q], records[req[q].inst], q \in hung')
        /\ Updates(pc[q], req[q], loc[q], records[req[q].inst])
        /\ Deprovisions(pc[q], req[q], records[req[q].inst], q \in hung',
                        req[q].inst \in bound)
    BY <2>1, OwnSteady DEF Provisions, Deprovisions
  <2> QED
    BY <1>1, <2>2 DEF SteadyAt, Steady
<1> QED
  BY <1>2, <1>3 DEF SInv

LEMMA CrashSteady ==
    ASSUME SInv, Crash
    PROVE  SInv'
<1>1. (\A q \in Requests : pc'[q] = "idle") /\ records' = records
  BY DEF Crash, store
<1>2. \A q \in Requests : SteadyAt(q)'
  BY <1>1, SteadyIdle DEF SteadyAt
<1> QED
  BY <1>1, <1>2 DEF SInv, Queued, InFlight, RecordsPlaced

LEMMA InitSInv == Init => SInv
<1> SUFFICES ASSUME Init PROVE SInv
  OBVIOUS
<1>1. (\A q \in Requests : pc[q] = "idle") /\ \A i \in Instances : records[i] = NoRecord
  BY DEF Init
<1> QED
  BY <1>1, SteadyIdle DEF SInv, Queued, InFlight, RecordsPlaced, SteadyAt

LEMMA NextSInv ==
    ASSUME "overlap" \notin Adverse
    PROVE  IInv /\ SInv /\ [Next]_vars => SInv'
<1> SUFFICES ASSUME IInv, SInv, [Next]_vars PROVE SInv'
  OBVIOUS
<1>1. ASSUME NEW r \in Requests, Handle(r) PROVE SInv'
  BY <1>1, ProvisionSteady, UpdateSteady, DeprovisionSteady, ApplySteady, RecordSteady
     DEF Handle
<1>2. CASE UNCHANGED vars
  BY <1>2 DEF vars, SInv, Queued, InFlight, RecordsPlaced, SteadyAt
<1> QED
  BY <1>1, <1>2, ArriveSteady, BindingSteady, HangUpSteady, CrashSteady DEF Next

LEMMA SInvHolds ==
    ASSUME "overlap" \notin Adverse
    PROVE  Spec => [](IInv /\ SInv)
<1>1. Init => IInv /\ SInv
  BY InitIInv, InitSInv
<1>2. IInv /\ SInv /\ [Next]_vars => (IInv /\ SInv)'
  BY NextIInv, NextSInv
<1> QED
  BY <1>1, <1>2, PTL DEF Spec

\* Every object a record refers to is this instance's and is where its document
\* goes for the namespace the record names, wherever requests failed, the broker
\* crashed or a client hung up: an update never moves objects away from where the
\* next one looks, and never refers to another instance's.
THEOREM RefsStayInNamespace ==
    ASSUME "overlap" \notin Adverse
    PROVE  Spec => []RefsInNamespace
<1>1. IInv /\ SInv => RefsInNamespace
  <2> SUFFICES ASSUME SInv, NEW i \in Instances, NEW k \in RefsOf(records[i])
               PROVE  k = KeyOf(i, records[i].ns, k[3])
    BY DEF RefsInNamespace
  <2>1. records[i] # NoRecord
    BY DEF RefsOf
  <2>2. PICK n \in DOMAIN records[i].refs : k = records[i].refs[n]
    BY <2>1 DEF RefsOf
  <2> QED
    BY <2>1, <2>2 DEF SInv, RecordsPlaced, Within
<1> QED
  BY <1>1, SInvHolds, PTL

-----------------------------------------------------------------------------
(* Which steps write, destroy and answer.                                  *)

\* A request that arrives is given to an idle handler, or refused at once.
LEMMA ArriveReceives ==
    ASSUME NEW r \in Requests, Arrive(r)
    PROVE  \/ \E input : \E call \in {"lookup", "service"} : Receive(r, input, call)
           \/ ~InFlight(r) /\ Answer(r, "invalid") /\ UNCHANGED <<store, cluster>>
<1>1. \A i : MaySend(r, i) => ~InFlight(r)
  BY DEF MaySend
<1>2. CASE ReceiveProvision(r)
  BY <1>1, <1>2 DEF ReceiveProvision
<1>3. CASE ReceiveUpdate(r)
  BY <1>3 DEF ReceiveUpdate
<1>4. CASE ReceiveDeprovision(r)
  BY <1>4 DEF ReceiveDeprovision
<1> QED
  BY <1>2, <1>3, <1>4 DEF Arrive

\* It changes nothing but its handler.
LEMMA ArriveWritesNothing ==
    ASSUME NEW r \in Requests, Arrive(r)
    PROVE  UNCHANGED <<store, cluster>>
<1>1. \A input : \A call : Receive(r, input, call) => UNCHANGED <<store, cluster>>
  BY DEF Receive
<1> QED
  BY <1>1, ArriveReceives, Zenon

LEMMA ArriveIsOwn ==
    ASSUME NEW r \in Requests, Arrive(r)
    PROVE  /\ ~InFlight(r)
           /\ \/ \E call \in {"lookup", "service"} : \E input, l : Continue(r, call, input, l)
              \/ Answer(r, "invalid")
<1>1. ASSUME NEW input, NEW call \in {"lookup", "service"}, Receive(r, input, call)
      PROVE  ~InFlight(r) /\ \E l : Continue(r, call, input, l)
  BY <1>1 DEF Receive, MaySend
<1> QED
  BY <1>1, ArriveReceives, Zenon

\* A record changes by a PutInstance that is carried out or by a DeleteInstance.
LEMMA RecordChanges ==
    ASSUME IInv, Next, NEW i \in Instances, records'[i] # records[i]
    PROVE  \E r \in Requests :
              /\ req[r].inst = i /\ r \notin hung
              /\ \/ pc[r] = "recPut" /\ records'[i] = RecordOf(r)
                 \/ pc[r] = "forget" /\ records'[i] = NoRecord
<1>1. ~UNCHANGED records
  OBVIOUS
<1>2. \A r \in Requests : ~Arrive(r) /\ ~HangUp(r)
  BY <1>1, ArriveWritesNothing DEF HangUp, store
<1>3. ~Crash /\ \A j \in Instances : ~BindingAppears(j) /\ ~BindingDisappears(j)
  BY <1>1 DEF Crash, BindingAppears, BindingDisappears, store
<1>4. PICK r \in Requests : Handle(r)
  BY <1>2, <1>3 DEF Next
<1>5. ~ProvisionStep(r) /\ ~UpdateStep(r) /\ ~Apply(r) /\ ~RecGet(r)
  BY <1>1 DEF ProvisionStep, LookupProvision, PrepareNamespace, UpdateStep, LookupUpdate,
     EngineReadUpdate, Compare, Apply, ApplyGet, ApplyPut, Undo, RecGet, store
<1>6. DeprovisionStep(r) => Forget(r)
  BY <1>1 DEF DeprovisionStep, FindService, LookupDeprovision, CheckBindings, FindNamespace,
     EngineReadDeprovision, Label, Delete, store
<1>7. RecPut(r) \/ Forget(r)
  BY <1>4, <1>5, <1>6 DEF Handle, Record
<1>8. CASE RecPut(r)
  <2>1. /\ pc[r] = "recPut" /\ r \notin hung
        /\ records' = [records EXCEPT ![req[r].inst] = RecordOf(r)]
    BY <1>1, <1>8 DEF RecPut, Succeeds
  <2> QED
    BY <2>1 DEF IInv, RecordsOK
<1>9. CASE Forget(r)
  <2>1. /\ pc[r] = "forget" /\ r \notin hung
        /\ records' = [records EXCEPT ![req[r].inst] = NoRecord]
    BY <1>1, <1>9 DEF Forget, Succeeds
  <2> QED
    BY <2>1 DEF IInv, RecordsOK
<1> QED
  BY <1>7, <1>8, <1>9

\* An object goes by the clean-up of a provision or by a deprovision.
LEMMA ObjectGoes ==
    ASSUME IInv, Next, NEW k \in ObjectKeys, Destroyed(k)
    PROVE  \E r \in Requests :
              pc[r] \in {"undo", "delete"} /\ r \notin hung /\ k = Head(loc[r].todo)
<1>1. ~UNCHANGED objects
  BY DEF Destroyed
<1>2. \A r \in Requests : ~Arrive(r) /\ ~HangUp(r)
  BY <1>1, ArriveWritesNothing DEF HangUp, cluster
<1>3. ~Crash /\ \A j \in Instances : ~BindingAppears(j) /\ ~BindingDisappears(j)
  BY <1>1 DEF Crash, BindingAppears, BindingDisappears, cluster
<1>4. PICK r \in Requests : Handle(r)
  BY <1>2, <1>3 DEF Next
<1>5. ~ProvisionStep(r) /\ ~UpdateStep(r) /\ ~ApplyGet(r) /\ ~Record(r)
  BY <1>1 DEF ProvisionStep, LookupProvision, PrepareNamespace, UpdateStep, LookupUpdate,
     EngineReadUpdate, Compare, ApplyGet, Record, RecGet, RecPut, cluster
<1>6. DeprovisionStep(r) => Delete(r)
  BY <1>1 DEF DeprovisionStep, FindService, LookupDeprovision, CheckBindings, FindNamespace,
     EngineReadDeprovision, Label, Forget, cluster
<1>7. ~ApplyPut(r)
  <2> SUFFICES ASSUME ApplyPut(r) PROVE FALSE
    OBVIOUS
  <2>1. pc[r] = "applyPut" /\ Put(r, Head(loc[r].todo))
    BY <1>1 DEF ApplyPut, cluster
  <2>2. Content(r) \in Contents
    BY <2>1, OwnState DEF IInv, Coherent, Content, Contents, Locals
  <2>3. objects'[k] \in {objects[k], Content(r)}
    BY <2>1 DEF Put, IInv, ObjectsOK
  <2> QED
    BY <2>2, <2>3, DistinctnessAssumption DEF Destroyed
<1>8. Undo(r) \/ Delete(r)
  BY <1>4, <1>5, <1>6, <1>7 DEF Handle, Apply
<1>9. /\ pc[r] \in {"undo", "delete"} /\ r \notin hung
      /\ Remove(r, Head(loc[r].todo))
  BY <1>1, <1>8 DEF Undo, Delete, Succeeds, cluster
<1>10. k = Head(loc[r].todo)
  BY <1>9 DEF Remove, Destroyed, IInv, ObjectsOK
<1> QED
  BY <1>9, <1>10

\* A handler changes no other handler's state.
LEMMA HandleIsOwn ==
    ASSUME NEW q \in Requests, Handle(q)
    PROVE  \/ \E call, input, l : Continue(q, call, input, l)
           \/ \E code : Answer(q, code)
BY DEF Handle, ProvisionStep, LookupProvision, PrepareNamespace, UpdateStep, LookupUpdate,
   EngineReadUpdate, Compare, DeprovisionStep, FindService, LookupDeprovision, CheckBindings,
   FindNamespace, EngineReadDeprovision, Label, Delete, Forget, Apply, ApplyGet, ApplyPut,
   Undo, Record, RecGet, RecPut, Abandon, AfterApply, NextDocument, Goto

\* An answer other than the loss of the connection is a step of the handler.
LEMMA AnsweredByHandler ==
    ASSUME IInv, Next, NEW r \in Requests, NEW code, code # "lost", Answers(r, code)
    PROVE  Handle(r)
<1>1. InFlight(r) /\ ~(pc'[r] = pc[r]) /\ loc'[r].code = code
  BY DEF Answers, InFlight
<1>2. pc \in [Requests -> Calls]
  BY DEF IInv, HandlersOK
<1>3. ~Crash
  <2>1. Crash => loc'[r] = [NoLocals EXCEPT !.code = "lost"]
    BY <1>1 DEF Crash
  <2> QED
    BY <1>1, <2>1 DEF NoLocals
<1>4. \A q \in Requests : ~HangUp(q)
  BY <1>1 DEF HangUp
<1>5. \A i \in Instances : ~BindingAppears(i) /\ ~BindingDisappears(i)
  BY <1>1 DEF BindingAppears, BindingDisappears
<1>6. PICK q \in Requests : Arrive(q) \/ Handle(q)
  BY <1>3, <1>4, <1>5 DEF Next
<1>7. CASE Arrive(q)
  <2>1. /\ ~InFlight(q)
        /\ (\E call, input, l : Continue(q, call, input, l)) \/ \E c : Answer(q, c)
    BY <1>7, ArriveIsOwn, Zenon
  <2>2. q # r
    BY <1>1, <2>1
  <2> QED
    BY <1>1, <1>2, <2>1, <2>2 DEF Continue, Answer
<1>8. CASE Handle(q)
  <2>1. (\E call, input, l : Continue(q, call, input, l)) \/ \E c : Answer(q, c)
    BY <1>8, HandleIsOwn
  <2>2. q = r
    BY <1>1, <1>2, <2>1 DEF Continue, Answer
  <2> QED
    BY <1>8, <2>2
<1> QED
  BY <1>6, <1>7, <1>8

-----------------------------------------------------------------------------
(* The action properties.                                                  *)

\* A key some record refers to belongs to that record's instance.
LEMMA RefIsOwn ==
    ASSUME IInv, SInv, NEW i \in Instances, NEW k \in RefsOf(records[i])
    PROVE  /\ records[i] \in Records
           /\ k \in ObjectKeys /\ k[1] = i
<1>1. records[i] # NoRecord
  BY DEF RefsOf
<1>2. records[i] \in Records /\ Within(records[i].refs, i, records[i].ns)
  BY <1>1 DEF IInv, RecordsOK, SInv, RecordsPlaced
<1>3. PICK n \in DOMAIN records[i].refs : k = records[i].refs[n]
  BY <1>1 DEF RefsOf
<1>4. records[i].refs \in Seq(ObjectKeys)
  BY <1>2 DEF Records
<1>5. k \in ObjectKeys
  BY <1>3, <1>4, LenProperties
<1>6. k = KeyOf(i, records[i].ns, k[3])
  BY <1>2, <1>3 DEF Within
<1> QED
  BY <1>2, <1>5, <1>6 DEF KeyOf

\* The one handler that destroys a recorded object is the instance's deprovision.
LEMMA RecordedObjectGoes ==
    ASSUME "getInstance" \notin Adverse, "lostReply" \notin Adverse,
           IInv, SInv, Next,
           NEW i \in Instances, NEW k \in RefsOf(records[i]), Destroyed(k)
    PROVE  \E r \in Requests : pc[r] = "delete" /\ req[r].inst = i /\ r \notin hung
<1>1. records[i] \in Records /\ k \in ObjectKeys /\ k[1] = i
  BY RefIsOwn
<1>2. PICK r \in Requests :
         pc[r] \in {"undo", "delete"} /\ r \notin hung /\ k = Head(loc[r].todo)
  BY <1>1, ObjectGoes
<1>3. loc[r].todo \in Seq(ObjectKeys) /\ loc[r].todo # <<>>
  BY <1>2, OwnSteady DEF Locals, Coherent
<1>4. CASE pc[r] = "delete"
  <2>1. OwnedBy(loc[r].todo, req[r].inst)
    BY <1>4, OwnSteady DEF Placed
  <2>2. k[1] = req[r].inst
    BY <1>2, <1>3, <2>1, OwnedRest
  <2> QED
    BY <1>1, <1>2, <1>4, <2>2
<1>5. CASE pc[r] = "undo"
  <2>1. Within(loc[r].todo, req[r].inst, req[r].ns)
    BY <1>5, OwnSteady DEF Placed
  <2>2. k[1] = req[r].inst
    BY <1>2, <1>3, <2>1, WithinRest
  <2>3. records[req[r].inst] = NoRecord
    BY <1>2, <1>5, OwnSteady DEF Provisions
  <2> QED
    BY <1>1, <2>2, <2>3, DistinctnessAssumption
<1> QED
  BY <1>2, <1>4, <1>5

\* The clean-up of a failed provision never reaches the objects of a recorded
\* instance; only the instance's own deprovision deletes them.  A read that
\* fails or a reply that is lost may let a provision run into a record.
THEOREM DestroyedByDeprovision ==
    ASSUME "overlap" \notin Adverse, "getInstance" \notin Adverse,
           "lostReply" \notin Adverse
    PROVE  Spec => OnlyDeprovisionDestroys
<1> DEFINE A == \A i \in Instances : \A k \in RefsOf(records[i]) :
                   Destroyed(k) => \E r \in Requests : pc[r] = "delete" /\ req[r].inst = i
<1>1. IInv /\ SInv /\ Next => A
  BY RecordedObjectGoes
<1>2. IInv /\ SInv /\ [Next]_vars => [A]_vars
  BY <1>1
<1> HIDE DEF A
<1>3. Spec => [][A]_vars
  BY <1>2, SInvHolds, PTL DEF Spec
<1> QED
  BY <1>3 DEF OnlyDeprovisionDestroys, A

LEMMA RetainedObjectStays ==
    ASSUME "getInstance" \notin Adverse, "lostReply" \notin Adverse,
           "wrongService" \notin Adverse,
           IInv, SInv, Next,
           NEW i \in Instances, NEW k \in RefsOf(records[i]), Destroyed(k)
    PROVE  records[i].plan \notin Retains
<1>1. PICK r \in Requests : pc[r] = "delete" /\ req[r].inst = i /\ r \notin hung
  BY RecordedObjectGoes
<1>2. records[i] # NoRecord /\ records[i].plan \in Plans
  BY RefIsOwn, DistinctnessAssumption DEF Records
<1>3. req[r].op = "deprovision" /\ req[r].service \in Services \union {NoService}
  BY <1>1, OwnSteady DEF Coherent, Inputs
<1>4. req[r].service # NoService /\ ~PlanRetains(req[r].service, records[i])
  BY <1>1, <1>3, OwnSteady DEF Deprovisions, TearingDown
<1>5. ServiceOf[records[i].plan] = req[r].service
  BY <1>1, <1>2, <1>3, <1>4, OwnSteady DEF Deprovisions, TearingDown
<1> QED
  BY <1>2, <1>4, <1>5 DEF PlanRetains, PlanKnown

\* retainOnDeprovision holds, for catalogs of any number of offerings: no step
\* deletes an object of an instance recorded under a retaining plan.  The plan is
\* looked up under the service of the request, so a DELETE that names another
\* service than the instance's ("wrongService") is excluded.
THEOREM RetainedStays ==
    ASSUME "overlap" \notin Adverse, "getInstance" \notin Adverse,
           "lostReply" \notin Adverse, "wrongService" \notin Adverse
    PROVE  Spec => RetainedDataSurvives
<1> DEFINE A == \A i \in Instances : \A k \in RefsOf(records[i]) :
                   Destroyed(k) => records[i].plan \notin Retains
<1>1. IInv /\ SInv /\ Next => A
  BY RetainedObjectStays
<1>2. IInv /\ SInv /\ [Next]_vars => [A]_vars
  BY <1>1
<1> HIDE DEF A
<1>3. Spec => [][A]_vars
  BY <1>2, SInvHolds, PTL DEF Spec
<1> QED
  BY <1>3 DEF RetainedDataSurvives, A

\* What a handler that is about to write knows of the record it replaces.
LEMMA RecordReplaced ==
    ASSUME IInv, SInv, Next, NEW i \in Instances,
           records'[i] # records[i], records'[i] # NoRecord
    PROVE  \E r \in Requests :
              /\ pc[r] = "recPut" /\ req[r].inst = i /\ r \notin hung
              /\ records'[i].plan = req[r].plan
              /\ req[r].op = "provision" \/ req[r].op = "update"
<1>1. PICK r \in Requests :
         /\ req[r].inst = i /\ r \notin hung
         /\ pc[r] = "recPut" /\ records'[i] = RecordOf(r)
  BY RecordChanges
<1>2. /\ req[r].op = "provision" \/ req[r].op = "update"
      /\ req[r].op = "update" => loc[r].known # NoRecord
  BY <1>1, OwnSteady DEF Coherent
<1>3. loc[r] \in Locals
  BY OwnSteady
<1>4. RecordOf(r).plan = req[r].plan
  BY <1>2, <1>3 DEF RecordOf, NewRecord, UpdatedRecord, Locals, Records
<1> QED
  BY <1>1, <1>2, <1>4

\* A record leaves its plan only if that plan may be left: the question is
\* asked before the update's own reads, and the answer still holds when it writes.
THEOREM LeavesOnlyLeavable ==
    ASSUME "overlap" \notin Adverse, "getInstance" \notin Adverse
    PROVE  Spec => PlanLeftOnlyIfLeavable
<1> DEFINE A == \A i \in Instances :
                   records[i] # NoRecord /\ records'[i] # NoRecord
                   /\ records'[i].plan # records[i].plan => records[i].plan \in Leavable
<1>1. ASSUME IInv, SInv, Next, NEW i \in Instances,
             records[i] # NoRecord, records'[i] # NoRecord,
             records'[i].plan # records[i].plan
      PROVE  records[i].plan \in Leavable
  <2>1. records'[i] # records[i]
    BY <1>1
  <2>2. PICK r \in Requests :
           /\ pc[r] = "recPut" /\ req[r].inst = i /\ r \notin hung
           /\ records'[i].plan = req[r].plan
           /\ req[r].op = "provision" \/ req[r].op = "update"
    BY <1>1, <2>1, RecordReplaced
  <2>3. req[r].op = "update"
    BY <1>1, <2>2, OwnSteady DEF Provisions, Recording
  <2> QED
    BY <1>1, <2>2, <2>3, OwnSteady DEF Updates, Recording, Movable
<1>2. IInv /\ SInv /\ [Next]_vars => [A]_vars
  BY <1>1
<1> HIDE DEF A
<1>3. Spec => [][A]_vars
  BY <1>2, SInvHolds, PTL DEF Spec
<1> QED
  BY <1>3 DEF PlanLeftOnlyIfLeavable, A

\* No update brings back an instance that is gone: a record appears by the
\* PutInstance of a provision, whatever fails.
THEOREM RecordsAreProvisioned ==
    ASSUME "overlap" \notin Adverse
    PROVE  Spec => OnlyProvisionCreates
<1> DEFINE A == \A i \in Instances :
                   records[i] = NoRecord /\ records'[i] # NoRecord
                   => \E r \in Requests :
                         pc[r] = "recPut" /\ req[r].op = "provision" /\ req[r].inst = i
<1>1. ASSUME IInv, SInv, Next, NEW i \in Instances,
             records[i] = NoRecord, records'[i] # NoRecord
      PROVE  \E r \in Requests :
                pc[r] = "recPut" /\ req[r].op = "provision" /\ req[r].inst = i
  <2>1. PICK r \in Requests :
           /\ pc[r] = "recPut" /\ req[r].inst = i
           /\ req[r].op = "provision" \/ req[r].op = "update"
    BY <1>1, RecordReplaced
  <2>2. req[r].op # "update"
    BY <1>1, <2>1, OwnSteady DEF Updates, Recording
  <2> QED
    BY <2>1, <2>2
<1>2. IInv /\ SInv /\ [Next]_vars => [A]_vars
  BY <1>1
<1> HIDE DEF A
<1>3. Spec => [][A]_vars
  BY <1>2, SInvHolds, PTL DEF Spec
<1> QED
  BY <1>3 DEF OnlyProvisionCreates, A

\* An instance with bindings keeps its record, although the deprovision looks
\* for them several calls before it forgets the instance.
THEOREM BoundStay ==
    ASSUME "overlap" \notin Adverse, "listBindings" \notin Adverse
    PROVE  Spec => BoundInstancesStay
<1> DEFINE A == \A i \in bound : records[i] # NoRecord => records'[i] # NoRecord
<1>1. ASSUME IInv, SInv, Next, NEW i \in bound, records[i] # NoRecord, records'[i] = NoRecord
      PROVE  FALSE
  <2>1. i \in Instances /\ records'[i] # records[i]
    BY <1>1 DEF IInv
  <2>2. PICK r \in Requests :
           /\ req[r].inst = i /\ r \notin hung
           /\ \/ pc[r] = "recPut" /\ records'[i] = RecordOf(r)
              \/ pc[r] = "forget" /\ records'[i] = NoRecord
    BY <1>1, <2>1, RecordChanges
  <2>3. pc[r] = "forget"
    BY <1>1, <2>2, RecordOfOK, DistinctnessAssumption DEF IInv
  <2> QED
    BY <1>1, <2>2, <2>3, OwnSteady DEF Deprovisions, TearingDown, Coherent
<1>2. IInv /\ SInv /\ [Next]_vars => [A]_vars
  BY <1>1
<1> HIDE DEF A
<1>3. Spec => [][A]_vars
  BY <1>2, SInvHolds, PTL DEF Spec
<1> QED
  BY <1>3 DEF BoundInstancesStay, A

LEMMA AnswerCode ==
    ASSUME IInv, NEW r \in Requests, NEW code, Answer(r, code)
    PROVE  loc'[r].code = code \/ (r \in hung /\ loc'[r].code = "lost")
BY DEF Answer, IInv, HandlersOK, NoLocals

\* An update that is answered 200 wrote the record it had read, with the
\* parameters the PATCH names and no others changed.
THEOREM PatchMerges ==
    ASSUME "overlap" \notin Adverse
    PROVE  Spec => PatchKeepsOtherKeys
<1> DEFINE A == \A r \in Requests :
                   LET i == req[r].inst
                   IN  /\ pc[r] = "recPut" /\ Answers(r, "ok")
                       /\ records[i] # NoRecord
                       => \A k \in Keys :
                             req[r].params[k] = Unset
                             => records'[i].params[k] = records[i].params[k]
<1>1. ASSUME IInv, SInv, Next, NEW r \in Requests,
             pc[r] = "recPut", Answers(r, "ok"), records[req[r].inst] # NoRecord,
             NEW k \in Keys, req[r].params[k] = Unset
      PROVE  records'[req[r].inst].params[k] = records[req[r].inst].params[k]
  <2> DEFINE rec == records[req[r].inst]
  <2>1. Handle(r)
    BY <1>1, AnsweredByHandler
  <2>2. RecPut(r)
    BY <1>1, <2>1 DEF Handle, ProvisionStep, LookupProvision, PrepareNamespace, UpdateStep,
       LookupUpdate, EngineReadUpdate, Compare, DeprovisionStep, FindService,
       LookupDeprovision, CheckBindings, FindNamespace, EngineReadDeprovision, Label, Delete,
       Forget, Apply, ApplyGet, ApplyPut, Undo, Record, RecGet
  <2>3. loc'[r].code = "ok" /\ pc'[r] = "idle"
    BY <1>1 DEF Answers, InFlight
  <2>4. \A code : Abandon(r, code) => Answer(r, code) \/ pc'[r] = "undo"
    BY <1>1 DEF Abandon, Goto, Continue, IInv, HandlersOK
  <2>5. /\ records' = [records EXCEPT ![req[r].inst] = RecordOf(r)]
        /\ req[r].op # "provision"
    BY <1>1, <2>2, <2>3, <2>4, AnswerCode DEF RecPut
  <2>6. /\ req[r].op = "update" /\ loc[r].known # NoRecord
        /\ loc[r] \in Locals /\ req[r].inst \in Instances
    BY <1>1, <2>5, OwnSteady DEF Coherent, Inputs
  <2>7. loc[r].known = rec /\ loc[r].merged = Overlay(rec.params, req[r].params)
    BY <1>1, <2>6, OwnSteady DEF Updates, Recording
  <2>8. rec \in Records
    BY <1>1, <2>6 DEF IInv, RecordsOK
  <2>9. records'[req[r].inst].params = Overlay(rec.params, req[r].params)
    BY <1>1, <2>5, <2>6, <2>7, <2>8 DEF RecordOf, UpdatedRecord, Records, IInv, RecordsOK
  <2> QED
    BY <1>1, <2>9 DEF Overlay
<1>2. IInv /\ SInv /\ [Next]_vars => [A]_vars
  BY <1>1
<1> HIDE DEF A
<1>3. Spec => [][A]_vars
  BY <1>2, SInvHolds, PTL DEF Spec
<1> QED
  BY <1>3 DEF PatchKeepsOtherKeys, A

\* 200 and 410 tell the truth: the record is gone when they are sent, also when
\* requests for the same instance overlap.  A read that fails is answered 410.
THEOREM GoneIsForgotten ==
    ASSUME "getInstance" \notin Adverse
    PROVE  Spec => GoneMeansForgotten
<1> DEFINE A == \A r \in Requests :
                   req[r].op = "deprovision" /\ (Answers(r, "ok") \/ Answers(r, "gone"))
                   => records'[req[r].inst] = NoRecord
<1>1. ASSUME IInv, Next, NEW r \in Requests, req[r].op = "deprovision",
             Answers(r, "ok") \/ Answers(r, "gone")
      PROVE  records'[req[r].inst] = NoRecord
  <2>1. Handle(r)
    BY <1>1, AnsweredByHandler
  <2>2. Coherent(pc[r], req[r], loc[r]) /\ req[r].inst \in Instances
    BY <1>1, OwnState DEF IInv, Inputs
  <2>3. DeprovisionStep(r)
    BY <1>1, <2>1, <2>2 DEF Handle, ProvisionStep, LookupProvision, PrepareNamespace,
       UpdateStep, LookupUpdate, EngineReadUpdate, Compare, Apply, ApplyGet, ApplyPut, Undo,
       Record, RecGet, RecPut, Coherent
  <2>4. loc'[r].code \in {"ok", "gone"} /\ pc'[r] = "idle"
    BY <1>1 DEF Answers, InFlight
  <2>5. \A call, input, l : call # "idle" => ~Continue(r, call, input, l)
    BY <1>1, <2>4 DEF Continue, IInv, HandlersOK
  <2>6. ~Answer(r, "error") /\ ~Answer(r, "conflict") /\ ~Answer(r, "invalid")
    BY <1>1, <2>4, AnswerCode
  <2>7. ~FindService(r) /\ ~CheckBindings(r) /\ ~FindNamespace(r) /\ ~EngineReadDeprovision(r)
        /\ ~Label(r) /\ ~Delete(r)
    BY <2>5, <2>6 DEF FindService, CheckBindings, FindNamespace, EngineReadDeprovision, Label,
       Delete, Goto
  <2>8. CASE LookupDeprovision(r)
    <3>1. Answer(r, "gone") /\ UNCHANGED store
      BY <2>5, <2>6, <2>8 DEF LookupDeprovision, Goto
    <3>2. r \notin hung
      BY <1>1, <2>4, <3>1 DEF Answer, IInv, HandlersOK, NoLocals
    <3>3. records[req[r].inst] = NoRecord
      BY <2>5, <2>6, <2>8, <3>2 DEF LookupDeprovision, Fails, Succeeds, Goto
    <3> QED
      BY <3>1, <3>3 DEF store
  <2>9. CASE Forget(r)
    <3>1. records' = [records EXCEPT ![req[r].inst] = NoRecord]
      BY <2>6, <2>9 DEF Forget
    <3> QED
      BY <1>1, <2>2, <3>1 DEF IInv, RecordsOK
  <2> QED
    BY <2>3, <2>7, <2>8, <2>9 DEF DeprovisionStep
<1>2. IInv /\ [Next]_vars => [A]_vars
  BY <1>1
<1> HIDE DEF A
<1>3. Spec => [][A]_vars
  BY <1>2, IInvHolds, PTL DEF Spec
<1> QED
  BY <1>3 DEF GoneMeansForgotten, A

-----------------------------------------------------------------------------
(* A deprovision tears down all that the record refers to.                 *)

\* What the record refers to is still on the list of the deprovision that works
\* it off, or gone, or labelled.
Torn(r) ==
    /\ pc[r] = "forget" => loc[r].todo = <<>>
    /\ pc[r] \in {"label", "delete", "forget"}
       => \/ r \in hung
          \/ \A k \in RefsOf(records[req[r].inst]) :
                \/ \E n \in DOMAIN loc[r].todo : loc[r].todo[n] = k
                \/ objects[k] = NoObject \/ k \in labelled

TInv == \A r \in Requests : Torn(r)

\* Only the handler at work on an instance touches the instance's objects, and
\* unless it applies a document it takes them away.
LEMMA KeyTouched ==
    ASSUME IInv, SInv, Next, NEW k \in ObjectKeys,
           objects'[k] # objects[k] \/ (k \in labelled /\ k \notin labelled')
    PROVE  \E q \in Requests :
              /\ InFlight(q) /\ req[q].inst = k[1]
              /\ pc[q] = "applyPut" \/ objects'[k] = NoObject
<1>1. ~UNCHANGED cluster
  BY DEF cluster
<1>2. \A q \in Requests : ~HangUp(q)
  BY <1>1 DEF HangUp
<1>3. ~Crash /\ \A j \in Instances : ~BindingAppears(j) /\ ~BindingDisappears(j)
  BY <1>1 DEF Crash, BindingAppears, BindingDisappears
<1>4. \A q \in Requests : ~Arrive(q)
  BY <1>1, ArriveWritesNothing
<1>5. PICK q \in Requests : Handle(q)
  BY <1>2, <1>3, <1>4 DEF Next
<1>6. ~ProvisionStep(q) /\ ~UpdateStep(q) /\ ~ApplyGet(q) /\ ~Record(q)
  BY <1>1 DEF ProvisionStep, LookupProvision, PrepareNamespace, UpdateStep, LookupUpdate,
     EngineReadUpdate, Compare, ApplyGet, Record, RecGet, RecPut
<1>7. DeprovisionStep(q) => Label(q) \/ Delete(q)
  BY <1>1 DEF DeprovisionStep, FindService, LookupDeprovision, CheckBindings, FindNamespace,
     EngineReadDeprovision, Forget
<1>8. ~Label(q)
  BY DEF Label
<1>9. Undo(q) \/ Delete(q) \/ ApplyPut(q)
  BY <1>5, <1>6, <1>7, <1>8 DEF Handle, Apply
<1>10. /\ pc[q] \in {"undo", "delete", "applyPut"}
       /\ IF pc[q] = "applyPut" THEN Put(q, Head(loc[q].todo)) ELSE Remove(q, Head(loc[q].todo))
  BY <1>1, <1>9 DEF Undo, Delete, ApplyPut
<1>11. /\ objects \in [ObjectKeys -> Contents \union {NoObject}]
       /\ loc[q].todo \in Seq(ObjectKeys) /\ loc[q].todo # <<>>
  BY <1>10, OwnSteady DEF IInv, ObjectsOK, Locals, Coherent
<1>12. k = Head(loc[q].todo) /\ (pc[q] = "applyPut" \/ objects'[k] = NoObject)
  BY <1>10, <1>11 DEF Put, Remove
<1>13. Head(loc[q].todo)[1] = req[q].inst
  BY <1>10, <1>11, OwnSteady, OwnedRest, WithinRest DEF Placed, Applying
<1> QED
  BY <1>10, <1>12, <1>13 DEF InFlight

\* A list is worked off by the steps of the deprovision alone.
LEMMA WorkedOffByOwner ==
    ASSUME IInv, SInv, Next, NEW r \in Requests, pc'[r] \in {"label", "delete", "forget"}
    PROVE  \/ EngineReadDeprovision(r) \/ Label(r) \/ Delete(r)
           \/ /\ pc'[r] = pc[r] /\ req'[r] = req[r] /\ loc'[r] = loc[r]
              /\ r \in hung => r \in hung'
<1>1. /\ pc \in [Requests -> Calls] /\ req \in [Requests -> Inputs]
      /\ loc \in [Requests -> Locals]
  BY DEF IInv, HandlersOK
<1>2. ASSUME NEW q \in Requests, q # r,
             \/ \E call, input, l : Continue(q, call, input, l)
             \/ \E code : Answer(q, code)
      PROVE  /\ pc'[r] = pc[r] /\ req'[r] = req[r] /\ loc'[r] = loc[r]
             /\ r \in hung => r \in hung'
  BY <1>1, <1>2 DEF Continue, Answer
<1>3. ASSUME NEW q \in Requests, Arrive(q)
      PROVE  \/ \E call \in {"lookup", "service"} : \E input, l : Continue(q, call, input, l)
             \/ \E code : Answer(q, code)
  BY <1>3, ArriveIsOwn, Zenon
<1>4. ~Arrive(r)
  BY <1>1, <1>3 DEF Continue, Answer
<1>5. \A code : ~Answer(r, code)
  BY <1>1 DEF Answer
<1>6. \A call, input, l : Continue(r, call, input, l) => call \in {"label", "delete", "forget"}
  BY <1>1 DEF Continue
<1>7. CASE Handle(r)
  <2>1. \A call, l : Goto(r, call, l) => call \in {"label", "delete", "forget"}
    BY <1>6 DEF Goto
  <2>2. \A code : ~Abandon(r, code)
    BY <1>5, <2>1 DEF Abandon
  <2>3. \A l : ~AfterApply(r, l)
    BY <1>5, <2>1 DEF AfterApply
  <2>4. ~Record(r)
    BY <1>5, <2>1, <2>2 DEF Record, RecGet, RecPut
  <2>5. ~Apply(r)
    <3>1. ~NextDocument(r)
      BY <2>1, <2>3 DEF NextDocument
    <3>2. ~ApplyGet(r) /\ ~ApplyPut(r)
      BY <2>1, <2>2, <3>1 DEF ApplyGet, ApplyPut
    <3>3. ~Undo(r)
      BY <1>5, <2>1 DEF Undo
    <3> QED
      BY <3>2, <3>3 DEF Apply
  <2>6. ~ProvisionStep(r)
    BY <1>5, <2>1 DEF ProvisionStep, LookupProvision, PrepareNamespace
  <2>7. ~UpdateStep(r)
    <3>1. ~LookupUpdate(r)
      BY <1>5, <1>6 DEF LookupUpdate
    <3>2. ~EngineReadUpdate(r)
      BY <1>5, <2>1 DEF EngineReadUpdate
    <3>3. ~Compare(r)
      BY <2>1, <2>3 DEF Compare
    <3> QED
      BY <3>1, <3>2, <3>3 DEF UpdateStep
  <2>8. ~FindService(r) /\ ~FindNamespace(r)
    BY <1>5, <1>6, <2>1 DEF FindService, FindNamespace
  <2>9. ~LookupDeprovision(r) /\ ~CheckBindings(r) /\ ~Forget(r)
    BY <1>5, <2>1 DEF LookupDeprovision, CheckBindings, Forget
  <2> QED
    BY <1>7, <2>4, <2>5, <2>6, <2>7, <2>8, <2>9 DEF Handle, DeprovisionStep
<1>8. CASE \E q \in Requests : q # r /\ (Arrive(q) \/ Handle(q))
  BY <1>2, <1>3, <1>8, HandleIsOwn
<1>9. CASE \/ \E q \in Requests : HangUp(q)
           \/ \E i \in Instances : BindingAppears(i) \/ BindingDisappears(i)
  BY <1>9 DEF HangUp, BindingAppears, BindingDisappears
<1>10. ~Crash
  BY DEF Crash
<1> QED
  BY <1>4, <1>7, <1>8, <1>9, <1>10 DEF Next

\* What is gone or labelled stays so as long as the deprovision is at work.
LEMMA GoneStaysGone ==
    ASSUME IInv, SInv, Next, NEW r \in Requests,
           pc[r] \in {"engineRead", "label", "delete", "forget"},
           NEW k \in ObjectKeys, k[1] = req[r].inst,
           objects[k] = NoObject \/ k \in labelled
    PROVE  objects'[k] = NoObject \/ k \in labelled'
<1>1. CASE objects'[k] # objects[k] \/ (k \in labelled /\ k \notin labelled')
  <2>1. PICK q \in Requests : /\ InFlight(q) /\ req[q].inst = k[1]
                              /\ pc[q] = "applyPut" \/ objects'[k] = NoObject
    BY <1>1, KeyTouched
  <2>2. q = r
    BY <2>1 DEF SInv, Queued, InFlight
  <2> QED
    BY <2>1, <2>2
<1>2. CASE objects'[k] = objects[k] /\ (k \in labelled => k \in labelled')
  BY <1>2
<1> QED
  BY <1>1, <1>2

\* The record of an instance stays until the deprovision forgets it.
LEMMA RecordAwaits ==
    ASSUME IInv, SInv, Next, NEW r \in Requests,
           pc[r] \in {"engineRead", "label", "delete", "forget"}
    PROVE  records'[req[r].inst] \in {records[req[r].inst], NoRecord}
<1>1. req[r].inst \in Instances
  BY OwnSteady DEF Inputs
<1>2. CASE records'[req[r].inst] # records[req[r].inst]
  <2>1. PICK q \in Requests :
           /\ req[q].inst = req[r].inst
           /\ \/ pc[q] = "recPut"
              \/ pc[q] = "forget" /\ records'[req[r].inst] = NoRecord
    BY <1>1, <1>2, RecordChanges
  <2>2. q = r
    BY <2>1 DEF SInv, Queued, InFlight
  <2> QED
    BY <2>1, <2>2
<1> QED
  BY <1>2

\* The first of the list is handled, the others stay on it.
LEMMA FirstOrRest ==
    ASSUME NEW seq \in Seq(ObjectKeys), seq # <<>>, NEW n \in DOMAIN seq
    PROVE  \/ seq[n] = Head(seq)
           \/ \E m \in DOMAIN Tail(seq) : Tail(seq)[m] = seq[n]
<1>1. Len(seq) \in Nat /\ Len(seq) # 0 /\ DOMAIN seq = 1..Len(seq)
  BY LenProperties, EmptySeq
<1>2. CASE n = 1
  BY <1>2, HeadTailProperties
<1>3. CASE n # 1
  <2>1. n - 1 \in 1..(Len(seq) - 1)
    BY <1>1, <1>3
  <2>2. Tail(seq) \in Seq(ObjectKeys) /\ Len(Tail(seq)) = Len(seq) - 1
    BY HeadTailProperties
  <2>3. n - 1 \in DOMAIN Tail(seq) /\ Tail(seq)[n - 1] = seq[n]
    BY <1>1, <2>1, <2>2, HeadTailProperties, LenProperties
  <2> QED
    BY <2>3
<1> QED
  BY <1>2, <1>3

LEMMA NextTInv ==
    ASSUME "getInstance" \notin Adverse, "label" \notin Adverse,
           IInv, SInv, TInv, Next, NEW r \in Requests
    PROVE  Torn(r)'
<1> DEFINE rec == records[req[r].inst]
           todo == loc[r].todo
<1> SUFFICES ASSUME pc'[r] \in {"label", "delete", "forget"} PROVE Torn(r)'
  BY DEF Torn
<1>1. req[r].inst \in Instances /\ loc[r] \in Locals
  BY OwnSteady DEF Inputs
<1>2. \A k \in RefsOf(rec) : rec \in Records /\ k \in ObjectKeys /\ k[1] = req[r].inst
  BY <1>1, RefIsOwn
<1>3. ASSUME pc[r] \in {"engineRead", "label", "delete", "forget"}, req'[r].inst = req[r].inst,
             pc'[r] = "forget" => loc'[r].todo = <<>>,
             r \notin hung' =>
                \A k \in RefsOf(rec) : \/ \E n \in DOMAIN loc'[r].todo : loc'[r].todo[n] = k
                                       \/ objects[k] = NoObject \/ k \in labelled
                                       \/ objects'[k] = NoObject \/ k \in labelled'
      PROVE  Torn(r)'
  <2>1. records'[req'[r].inst] \in {rec, NoRecord}
    BY <1>3, RecordAwaits
  <2>2. RefsOf(records'[req'[r].inst]) \subseteq RefsOf(rec)
    BY <2>1 DEF RefsOf
  <2>3. ASSUME NEW k \in RefsOf(rec), objects[k] = NoObject \/ k \in labelled
        PROVE  objects'[k] = NoObject \/ k \in labelled'
    BY <1>2, <1>3, <2>3, GoneStaysGone
  <2>4. r \notin hung' =>
           \A k \in RefsOf(records'[req'[r].inst]) :
              \/ \E n \in DOMAIN loc'[r].todo : loc'[r].todo[n] = k
              \/ objects'[k] = NoObject \/ k \in labelled'
    BY <1>3, <2>2, <2>3
  <2>5. RefsOf(records[req[r].inst])' = RefsOf(records'[req'[r].inst])
    BY DEF RefsOf
  <2> HIDE DEF rec
  <2> QED
    BY <1>3, <2>4, <2>5 DEF Torn
<1>4. CASE EngineReadDeprovision(r)
  <2>1. PICK known :
           /\ known = rec \/ (known = NoRecord /\ r \in hung)
           /\ Continue(r, IF PlanRetains(req[r].service, known) THEN "label" ELSE "delete",
                       req[r], [loc[r] EXCEPT !.known = known,
                                   !.todo = ToTearDown(req[r].inst, req[r].ns, known)])
    BY <1>4 DEF EngineReadDeprovision, Goto, Fails
  <2>2. /\ pc'[r] # "forget" /\ req'[r] = req[r] /\ hung' = hung
        /\ loc'[r].todo = ToTearDown(req[r].inst, req[r].ns, known)
    BY <1>1, <2>1 DEF Continue, IInv, HandlersOK, Locals
  <2>3. pc[r] = "engineRead"
    BY <1>4 DEF EngineReadDeprovision
  <2>4. ASSUME r \notin hung', NEW k \in RefsOf(rec)
        PROVE  \E n \in DOMAIN loc'[r].todo : loc'[r].todo[n] = k
    <3>1. rec # NoRecord /\ known = rec
      BY <2>1, <2>2, <2>4 DEF RefsOf
    <3>2. loc'[r].todo = rec.refs
      BY <2>2, <3>1 DEF ToTearDown
    <3> QED
      BY <2>4, <3>1, <3>2 DEF RefsOf
  <2> QED
    BY <1>3, <2>2, <2>3, <2>4
<1>5. CASE Label(r) \/ Delete(r)
  <2>1. /\ pc[r] \in {"label", "delete"} /\ todo \in Seq(ObjectKeys) /\ todo # <<>>
    BY <1>5, OwnSteady DEF Label, Delete, Coherent, Locals
  <2>2. \/ \E code : Answer(r, code)
        \/ \E call, code :
              /\ Continue(r, call, req[r], [loc[r] EXCEPT !.todo = Tail(todo), !.code = code])
              /\ call = "forget" => Tail(todo) = <<>>
    <3>1. [loc[r] EXCEPT !.todo = Tail(todo)]
            = [loc[r] EXCEPT !.todo = Tail(todo), !.code = loc[r].code]
      BY <1>1 DEF Locals
    <3> QED
      BY <1>5, <2>1, <3>1 DEF Label, Delete, Goto
  <2>3. \A code : ~Answer(r, code)
    BY DEF Answer, IInv, HandlersOK
  <2>4. /\ req'[r] = req[r] /\ loc'[r].todo = Tail(todo) /\ hung' = hung
        /\ pc'[r] = "forget" => Tail(todo) = <<>>
    <3>1. \A code : [loc[r] EXCEPT !.todo = Tail(todo), !.code = code].todo = Tail(todo)
      BY <1>1 DEF Locals
    <3>2. PICK call, l :
             /\ Continue(r, call, req[r], l) /\ l.todo = Tail(todo)
             /\ call = "forget" => Tail(todo) = <<>>
      BY <2>2, <2>3, <3>1, Zenon
    <3> QED
      BY <3>2, ContinueFacts
  <2>5. Head(todo) \in ObjectKeys
    BY <2>1, HeadTailProperties
  <2>6. r \notin hung => objects'[Head(todo)] = NoObject \/ Head(todo) \in labelled'
    <3>1. objects \in [ObjectKeys -> Contents \union {NoObject}]
      BY DEF IInv, ObjectsOK
    <3>2. CASE Label(r)
      <4>1. \/ labelled' = labelled \union {Head(todo)}
            \/ objects[Head(todo)] = NoObject \/ r \in hung
        BY <3>2 DEF Label, Fails
      <4>2. objects' = objects
        BY <3>2 DEF Label
      <4> QED
        BY <4>1, <4>2
    <3>3. CASE Delete(r)
      BY <2>3, <2>5, <3>1, <3>3 DEF Delete, Remove
    <3> QED
      BY <1>5, <3>2, <3>3
  <2>7. ASSUME r \notin hung', NEW k \in RefsOf(rec)
        PROVE  \/ \E n \in DOMAIN Tail(todo) : Tail(todo)[n] = k
               \/ objects[k] = NoObject \/ k \in labelled
               \/ objects'[k] = NoObject \/ k \in labelled'
    <3>1. \/ \E n \in DOMAIN todo : todo[n] = k
          \/ objects[k] = NoObject \/ k \in labelled
      BY <2>1, <2>4, <2>7 DEF TInv, Torn
    <3> QED
      BY <2>1, <2>4, <2>6, <2>7, <3>1, FirstOrRest
  <2> QED
    BY <1>3, <2>1, <2>4, <2>7
<1>6. CASE /\ pc'[r] = pc[r] /\ req'[r] = req[r] /\ loc'[r] = loc[r]
           /\ r \in hung => r \in hung'
  BY <1>3, <1>6 DEF TInv, Torn
<1> QED
  BY <1>4, <1>5, <1>6, WorkedOffByOwner

LEMMA ForgottenGoes ==
    ASSUME IInv, SInv, TInv, Next, NEW i \in Instances, records'[i] = NoRecord,
           NEW k \in RefsOf(records[i])
    PROVE  objects'[k] = NoObject \/ k \in labelled'
<1>1. records[i] \in Records /\ k \in ObjectKeys /\ k[1] = i
  BY RefIsOwn
<1>2. PICK r \in Requests :
         /\ req[r].inst = i /\ r \notin hung
         /\ \/ pc[r] = "recPut" /\ records'[i] = RecordOf(r)
            \/ pc[r] = "forget" /\ records'[i] = NoRecord
  BY <1>1, RecordChanges, DistinctnessAssumption
<1>3. pc[r] = "forget"
  BY <1>2, RecordOfOK, DistinctnessAssumption DEF IInv
<1>4. loc[r].todo = <<>>
  BY <1>3 DEF TInv, Torn
<1>5. objects[k] = NoObject \/ k \in labelled
  BY <1>2, <1>3, <1>4 DEF TInv, Torn
<1> QED
  BY <1>1, <1>2, <1>3, <1>5, GoneStaysGone

LEMMA TInvHolds ==
    ASSUME "overlap" \notin Adverse, "getInstance" \notin Adverse, "label" \notin Adverse
    PROVE  Spec => [](IInv /\ SInv /\ TInv)
<1>1. Init => TInv
  BY DEF Init, TInv, Torn
<1>2. IInv /\ SInv /\ TInv /\ [Next]_vars => TInv'
  <2>1. TInv /\ UNCHANGED vars => TInv'
    BY DEF TInv, Torn, vars, RefsOf
  <2>2. IInv /\ SInv /\ TInv /\ Next => TInv'
    BY NextTInv DEF TInv
  <2> QED
    BY <2>1, <2>2
<1> QED
  BY <1>1, <1>2, SInvHolds, PTL DEF Spec

\* The record is the only way to an instance's objects: when it goes they are
\* gone, or labelled for an operator to find, whatever the order of documents,
\* and however often the deprovision was interrupted and repeated.  A label
\* that fails is forgotten along with the record.
THEOREM ForgottenIsTornDown ==
    ASSUME "overlap" \notin Adverse, "getInstance" \notin Adverse, "label" \notin Adverse
    PROVE  Spec => ForgottenMeansTornDown
<1> DEFINE A == \A i \in Instances :
                   records'[i] = NoRecord
                   => \A k \in RefsOf(records[i]) : objects'[k] = NoObject \/ k \in labelled'
           J == IInv /\ SInv /\ TInv
<1>1. J /\ [Next]_vars => [A]_vars
  BY ForgottenGoes
<1>2. Spec => []J
  BY TInvHolds
<1> HIDE DEF A, J
<1>3. Spec => [][A]_vars
  BY <1>1, <1>2, PTL DEF Spec
<1> QED
  BY <1>3 DEF ForgottenMeansTornDown, A

-----------------------------------------------------------------------------
(* What one handler writes, and what the others see of it.                 *)

LEMMA HandleInFlight ==
    ASSUME NEW q \in Requests, Handle(q)
    PROVE  InFlight(q)
<1>1. CASE ProvisionStep(q) \/ UpdateStep(q)
  BY <1>1 DEF ProvisionStep, LookupProvision, PrepareNamespace, UpdateStep, LookupUpdate,
     EngineReadUpdate, Compare, InFlight
<1>2. CASE Apply(q) \/ Record(q)
  BY <1>2 DEF Apply, ApplyGet, ApplyPut, Undo, Record, RecGet, RecPut, InFlight
<1>3. CASE DeprovisionStep(q)
  BY <1>3 DEF DeprovisionStep, FindService, LookupDeprovision, CheckBindings, FindNamespace,
     EngineReadDeprovision, Label, Delete, Forget, InFlight
<1> QED
  BY <1>1, <1>2, <1>3 DEF Handle

\* Only the fourth and the last call of a chain write the store, only four kinds
\* of call write objects.
LEMMA HandleWrites ==
    ASSUME NEW q \in Requests, Handle(q)
    PROVE  /\ UNCHANGED bound
           /\ UNCHANGED records \/ \E rec : records' = [records EXCEPT ![req[q].inst] = rec]
           /\ \/ UNCHANGED cluster
              \/ pc[q] = "applyPut" /\ Put(q, Head(loc[q].todo))
              \/ pc[q] \in {"undo", "delete"} /\ Remove(q, Head(loc[q].todo))
              \/ /\ pc[q] = "label" /\ UNCHANGED objects
                 /\ labelled' = labelled \union {Head(loc[q].todo)}
<1>1. CASE ProvisionStep(q)
  BY <1>1 DEF ProvisionStep, LookupProvision, PrepareNamespace, store
<1>2. CASE UpdateStep(q)
  BY <1>2 DEF UpdateStep, LookupUpdate, EngineReadUpdate, Compare, store
<1>3. CASE Apply(q)
  <2>1. CASE ApplyGet(q)
    BY <2>1 DEF ApplyGet, store
  <2>2. CASE ApplyPut(q)
    BY <2>2 DEF ApplyPut, store
  <2>3. CASE Undo(q)
    BY <2>3 DEF Undo, store
  <2> QED
    BY <1>3, <2>1, <2>2, <2>3 DEF Apply
<1>4. CASE RecGet(q)
  BY <1>4 DEF RecGet, store
<1>5. CASE RecPut(q)
  BY <1>5 DEF RecPut
<1>6. CASE FindService(q) \/ LookupDeprovision(q) \/ CheckBindings(q) \/ FindNamespace(q)
  BY <1>6 DEF FindService, LookupDeprovision, CheckBindings, FindNamespace, store
<1>7. CASE EngineReadDeprovision(q)
  BY <1>7 DEF EngineReadDeprovision, store
<1>8. CASE Label(q)
  BY <1>8 DEF Label, store, cluster
<1>9. CASE Delete(q)
  BY <1>9 DEF Delete, store
<1>10. CASE Forget(q)
  BY <1>10 DEF Forget
<1> QED
  BY <1>1, <1>2, <1>3, <1>4, <1>5, <1>6, <1>7, <1>8, <1>9, <1>10
     DEF Handle, DeprovisionStep, Record

\* The record and the objects of an instance are as they were.
Kept(i) ==
    /\ records'[i] = records[i]
    /\ \A k \in ObjectKeys :
          k[1] = i => objects'[k] = objects[k] /\ (k \in labelled' <=> k \in labelled)

LEMMA UnchangedKept ==
    ASSUME UNCHANGED <<records, cluster>>
    PROVE  \A i : Kept(i)
BY DEF Kept, cluster

\* A handler writes the record and the objects of its own instance only.
LEMMA HandleKeepsOthers ==
    ASSUME IInv, SInv, NEW q \in Requests, Handle(q), NEW i \in Instances, i # req[q].inst
    PROVE  Kept(i)
<1> DEFINE h == Head(loc[q].todo)
<1>1. records'[i] = records[i]
  BY HandleWrites DEF IInv, RecordsOK
<1>2. CASE UNCHANGED cluster
  BY <1>1, <1>2 DEF Kept, cluster
<1>3. CASE pc[q] \in {"applyPut", "undo", "delete", "label"}
  <2>1. loc[q].todo \in Seq(ObjectKeys) /\ loc[q].todo # <<>>
    BY <1>3, OwnSteady DEF Coherent, Locals
  <2>2. h[1] = req[q].inst
    BY <1>3, <2>1, OwnSteady, WithinRest, OwnedRest DEF Placed, Applying
  <2>3. objects \in [ObjectKeys -> Contents \union {NoObject}]
    BY DEF IInv, ObjectsOK
  <2>4. ASSUME NEW k \in ObjectKeys, k[1] = i
        PROVE  objects'[k] = objects[k] /\ (k \in labelled' <=> k \in labelled)
    <3>1. k # h
      BY <2>2, <2>4
    <3> QED
      BY <2>3, <3>1, HandleWrites DEF Put, Remove, cluster
  <2> QED
    BY <1>1, <2>4 DEF Kept
<1> QED
  BY <1>2, <1>3, HandleWrites

\* A request in flight goes on, is cut off, or finds everything it has read as
\* it was.
Undisturbed(r) ==
    /\ pc'[r] = pc[r] /\ req'[r] = req[r] /\ loc'[r] = loc[r]
    /\ r \in hung => r \in hung'
    /\ Kept(req[r].inst)

LEMMA InFlightSteps ==
    ASSUME IInv, SInv, Next, NEW r \in Requests, InFlight(r)
    PROVE  Handle(r) \/ (Crash /\ pc'[r] = "idle") \/ Undisturbed(r)
<1>1. CASE Crash
  BY <1>1 DEF Crash
<1>2. CASE \/ \E q \in Requests : HangUp(q)
           \/ \E i \in Instances : BindingAppears(i) \/ BindingDisappears(i)
  <2>1. /\ UNCHANGED <<records, cluster, pc, req, loc>>
        /\ r \in hung => r \in hung'
    BY <1>2 DEF HangUp, BindingAppears, BindingDisappears, store
  <2> QED
    BY <2>1, UnchangedKept DEF Undisturbed
<1>3. ASSUME NEW q \in Requests, Arrive(q)
      PROVE  Undisturbed(r)
  <2>1. q # r
    BY <1>3, ArriveIsOwn
  <2>2. /\ pc'[r] = pc[r] /\ req'[r] = req[r] /\ loc'[r] = loc[r]
        /\ r \in hung => r \in hung'
    <3>1. CASE \E call, input, l : Continue(q, call, input, l)
      BY <2>1, <3>1, ContinueFacts
    <3>2. CASE Answer(q, "invalid")
      BY <2>1, <3>2, AnswerFacts
    <3> QED
      BY <1>3, <3>1, <3>2, ArriveIsOwn, Zenon
  <2>3. UNCHANGED <<records, cluster>>
    BY <1>3, ArriveWritesNothing DEF store
  <2> QED
    BY <2>2, <2>3, UnchangedKept DEF Undisturbed
<1>4. ASSUME NEW q \in Requests, Handle(q), q # r
      PROVE  Undisturbed(r)
  <2>1. /\ pc'[r] = pc[r] /\ req'[r] = req[r] /\ loc'[r] = loc[r]
        /\ r \in hung => r \in hung'
    <3>1. CASE \E call, input, l : Continue(q, call, input, l)
      BY <1>4, <3>1, ContinueFacts
    <3>2. CASE \E code : Answer(q, code)
      BY <1>4, <3>2, AnswerFacts
    <3> QED
      BY <1>4, <3>1, <3>2, HandleIsOwn
  <2>2. InFlight(q)
    BY <1>4, HandleInFlight
  <2>3. req[q].inst # req[r].inst /\ req[r].inst \in Instances
    BY <1>4, <2>2, OwnSteady DEF SInv, Queued, Inputs
  <2> QED
    BY <1>4, <2>1, <2>3, HandleKeepsOthers DEF Undisturbed
<1> QED
  BY <1>1, <1>2, <1>3, <1>4 DEF Next

\* A request that is not in flight arrives, or nothing happens to it.
LEMMA IdleSteps ==
    ASSUME IInv, Next, NEW r \in Requests, ~InFlight(r)
    PROVE  Arrive(r) \/ pc'[r] = "idle"
<1>1. /\ ~InFlight(r) /\ pc[r] = "idle"
      /\ \A q \in Requests : Handle(q) => q # r
  BY HandleInFlight DEF InFlight
<1>2. ASSUME NEW q \in Requests, q # r, Arrive(q) \/ Handle(q)
      PROVE  pc'[r] = pc[r]
  <2>1. CASE \E call, input, l : Continue(q, call, input, l)
    BY <1>2, <2>1, ContinueFacts
  <2>2. CASE \E code : Answer(q, code)
    BY <1>2, <2>2, AnswerFacts
  <2>3. CASE Arrive(q)
    BY <2>1, <2>2, <2>3, ArriveIsOwn, Zenon
  <2> QED
    BY <1>2, <2>1, <2>2, <2>3, HandleIsOwn
<1> QED
  BY <1>1, <1>2 DEF Next, HangUp, BindingAppears, BindingDisappears, Crash

-----------------------------------------------------------------------------
(* What a provision or an update leaves behind.  Its documents are written  *)
(* one by one, and an update that finds all of them up to date writes none. *)

\* A template renders the same documents for all parameters of a plan, and for
\* the plans an update can move between.  Where it does not, an update that
\* writes nothing keeps the references of what was rendered before, one that
\* renders fewer documents drops the rest without deleting it, and one that
\* renders more and cannot write its record leaves the new ones unreferenced.
UpdatesKeepDocuments ==
    \A c, d \in Contents : c.plan = d.plan \/ Movable(c.plan, d.plan) => Docs[c] = Docs[d]

\* What is rendered for a request once its parameters are known.
DocumentsOf(in, params) ==
    ManifestKeys(in.inst, in.ns, [plan |-> in.plan, params |-> params])

\* The object k is what the handler renders, and carries no label.
Rendered(k, in, l, objs, labels) ==
    objs[k] = [plan |-> in.plan, params |-> l.merged] /\ k \notin labels

\* How far a handler has got; gone says that its client is.
Carries(call, in, l, objs, labels, gone) ==
    /\ call # "idle" => l.code # "accepted"
    /\ call = "undo" => in.op = "provision"
    /\ in.op = "provision" /\ call \in {"namespace"} \union Applying \union Recording
       => l.merged = in.params
    /\ in.op = "update" /\ call \in {"compare"} \union Applying /\ l.known = NoRecord
       => gone
    /\ call \in Applying => l.applied \o l.todo = DocumentsOf(in, l.merged)
    /\ call = "applyPut" => l.found = (objs[Head(l.todo)] # NoObject)
    /\ call \in Recording => l.applied \in {<<>>, DocumentsOf(in, l.merged)}
    /\ call \in {"compare"} \union Applying
       => \A k \in Range(DocumentsOf(in, l.merged)) :
             Rendered(k, in, l, objs, labels) \/ k \in Range(l.todo)
    /\ call \in Recording
       => \A k \in Range(DocumentsOf(in, l.merged)) : Rendered(k, in, l, objs, labels)

CarriesAt(r) == Carries(pc[r], req[r], loc[r], objects, labelled, r \in hung)

ContentOf(rec) == [plan |-> rec.plan, params |-> rec.params]

\* A record refers to the documents of its plan and parameters, in order.
RecordsRender ==
    \A i \in Instances :
       records[i] # NoRecord
       => records[i].refs = ManifestKeys(i, records[i].ns, ContentOf(records[i]))

CInv == RecordsRender /\ \A r \in Requests : CarriesAt(r)

-----------------------------------------------------------------------------
(* The documents of a request.                                             *)

LEMMA DocumentsType ==
    ASSUME NEW in \in Inputs, in.plan \in Plans, NEW params \in ParamSets
    PROVE  /\ DocumentsOf(in, params) \in Seq(ObjectKeys) /\ DocumentsOf(in, params) # <<>>
           /\ Within(DocumentsOf(in, params), in.inst, in.ns)
           /\ \A k \in Range(DocumentsOf(in, params)) : k \in ObjectKeys /\ k[1] = in.inst
<1>1. in.inst \in Instances /\ in.ns \in Namespaces
  BY DEF Inputs
<1>2. /\ DocumentsOf(in, params) \in Seq(ObjectKeys) /\ DocumentsOf(in, params) # <<>>
      /\ Within(DocumentsOf(in, params), in.inst, in.ns)
  BY <1>1, ContentType, ManifestKeysType, ManifestKeysWithin DEF DocumentsOf
<1>3. Range(DocumentsOf(in, params)) \subseteq ObjectKeys
  BY <1>2, RangeOfSeq
<1>4. \A k \in Range(DocumentsOf(in, params)) : k[1] = in.inst
  BY <1>2, WithinIsOwned DEF OwnedBy, Range
<1> QED
  BY <1>2, <1>3, <1>4

\* One document moves from what is to be done to what is done.
LEMMA MoveOne ==
    ASSUME NEW s \in Seq(ObjectKeys), NEW t \in Seq(ObjectKeys), t # <<>>
    PROVE  /\ Append(s, Head(t)) \o Tail(t) = s \o t
           /\ Tail(t) = <<>> => Append(s, Head(t)) = s \o t
           /\ \A k \in Range(t) : k = Head(t) \/ k \in Range(Tail(t))
<1>1. Head(t) \in ObjectKeys /\ Tail(t) \in Seq(ObjectKeys)
  BY HeadTailProperties
<1>2. <<Head(t)>> \in Seq(ObjectKeys) /\ <<Head(t)>> \o Tail(t) = t
  <2>1. Len(t) \in Nat /\ Len(t) # 0 /\ t = [n \in 1..Len(t) |-> t[n]]
    BY LenProperties, EmptySeq
  <2>2. <<Head(t)>> \in Seq(ObjectKeys) /\ Len(<<Head(t)>>) = 1 /\ <<Head(t)>>[1] = t[1]
    BY <1>1, HeadTailProperties
  <2>3. /\ Len(Tail(t)) = Len(t) - 1
        /\ \A n \in 1..Len(Tail(t)) : Tail(t)[n] = t[n + 1]
    BY HeadTailProperties
  <2> DEFINE u == <<Head(t)>> \o Tail(t)
  <2>4. /\ u \in Seq(ObjectKeys) /\ Len(u) = Len(t)
        /\ \A n \in 1..Len(t) : u[n] = IF n <= 1 THEN t[1] ELSE Tail(t)[n - 1]
    BY <1>1, <2>1, <2>2, <2>3, ConcatProperties
  <2>5. ASSUME NEW n \in 1..Len(t) PROVE u[n] = t[n]
    <3>1. CASE n = 1
      BY <2>4, <2>5, <3>1
    <3>2. CASE n # 1
      <4>1. n - 1 \in 1..Len(Tail(t)) /\ ~(n <= 1) /\ (n - 1) + 1 = n
        BY <2>1, <2>3, <3>2
      <4> QED
        BY <2>3, <2>4, <4>1
    <3> QED
      BY <3>1, <3>2
  <2> HIDE DEF u
  <2>6. u = t
    BY <2>4, <2>5, SeqEqual
  <2> QED
    BY <2>2, <2>6 DEF u
<1>3. Append(s, Head(t)) = s \o <<Head(t)>> /\ Append(s, Head(t)) \in Seq(ObjectKeys)
  BY <1>1, AppendIsConcat, AppendProperties
<1>4. Append(s, Head(t)) \o Tail(t) = s \o t
  BY <1>1, <1>2, <1>3, ConcatAssociative
<1>5. Tail(t) = <<>> => Append(s, Head(t)) = s \o t
  BY <1>3, <1>4, ConcatEmptySeq
<1>6. \A k \in Range(t) : k = Head(t) \/ k \in Range(Tail(t))
  BY FirstOrRest DEF Range
<1> QED
  BY <1>4, <1>5, <1>6

-----------------------------------------------------------------------------
(* Every step of a handler keeps what it carries.                          *)

LEMMA CarriesIdle ==
    ASSUME NEW r, pc'[r] = "idle"
    PROVE  CarriesAt(r)'
BY DEF CarriesAt, Carries, Applying, Recording

LEMMA ContinueCarries ==
    ASSUME IInv, NEW r \in Requests, NEW call, NEW input, NEW l, Continue(r, call, input, l),
           Carries(call, input, l, objects', labelled', r \in hung)
    PROVE  CarriesAt(r)'
BY ContinueFacts DEF CarriesAt

LEMMA AnswerCarries ==
    ASSUME IInv, NEW r \in Requests, NEW code, Answer(r, code)
    PROVE  CarriesAt(r)'
BY AnswerFacts, CarriesIdle

LEMMA AbandonCarries ==
    ASSUME IInv, NEW r \in Requests, NEW code, code # "accepted", Abandon(r, code)
    PROVE  CarriesAt(r)'
<1> DEFINE l == [loc[r] EXCEPT !.todo = loc[r].applied, !.code = code]
<1>1. Answer(r, code) \/ (req[r].op = "provision" /\ Continue(r, "undo", req[r], l))
  BY DEF Abandon, Goto
<1>2. l.code = code
  BY OwnState DEF IInv, Locals
<1> HIDE DEF l
<1>3. req[r].op = "provision" => Carries("undo", req[r], l, objects', labelled', r \in hung)
  BY <1>2 DEF Carries, Applying, Recording
<1> QED
  BY <1>1, <1>3, AnswerCarries, ContinueCarries

\* The reads of an update, and all of a deprovision, carry no documents.
LEMMA ReadingCarries ==
    ASSUME IInv, NEW r \in Requests, NEW call, NEW input, NEW l, Continue(r, call, input, l),
           call \in {"service", "lookup", "bindings", "nsRead", "engineRead", "label",
                     "delete", "forget"},
           l.code # "accepted"
    PROVE  CarriesAt(r)'
<1>1. Carries(call, input, l, objects', labelled', r \in hung)
  BY DEF Carries, Applying, Recording
<1> QED
  BY <1>1, ContinueCarries

LEMMA ArriveCarries ==
    ASSUME IInv, NEW r \in Requests, Arrive(r)
    PROVE  CarriesAt(r)'
<1>1. ASSUME NEW input, NEW call \in {"lookup", "service"}, Receive(r, input, call)
      PROVE  CarriesAt(r)'
  <2>1. PICK l : Continue(r, call, input, l) /\ l.code = "ok"
    <3>1. [NoLocals EXCEPT !.code = "ok", !.merged = input.params].code = "ok"
      BY DEF NoLocals
    <3> QED
      BY <1>1, <3>1 DEF Receive
  <2> QED
    BY <2>1, ReadingCarries
<1> QED
  BY <1>1, ArriveReceives, AnswerCarries

LEMMA DeprovisionCarries ==
    ASSUME IInv, NEW r \in Requests, CarriesAt(r), DeprovisionStep(r)
    PROVE  CarriesAt(r)'
<1>1. loc[r] \in Locals
  BY OwnState DEF IInv
<1>2. loc[r].code # "accepted"
  BY DEF CarriesAt, Carries, DeprovisionStep, FindService, LookupDeprovision, CheckBindings,
     FindNamespace, EngineReadDeprovision, Label, Delete, Forget
<1>3. \A t, known, code :
         /\ [loc[r] EXCEPT !.known = known, !.todo = t].code = loc[r].code
         /\ [loc[r] EXCEPT !.todo = t, !.code = code].code = code
         /\ [loc[r] EXCEPT !.todo = t].code = loc[r].code
  BY <1>1 DEF Locals
<1>4. CASE FindService(r) \/ FindNamespace(r) \/ LookupDeprovision(r) \/ CheckBindings(r)
  <2>1. \/ \E code : Answer(r, code)
        \/ \E call \in {"lookup", "engineRead", "bindings", "nsRead"} :
              \E input : Continue(r, call, input, loc[r])
    BY <1>4 DEF FindService, FindNamespace, LookupDeprovision, CheckBindings, Goto
  <2> QED
    BY <1>2, <2>1, AnswerCarries, ReadingCarries
<1>5. CASE EngineReadDeprovision(r) \/ Label(r) \/ Delete(r)
  <2>1. \/ \E code : Answer(r, code)
        \/ \E call \in {"label", "delete", "forget"} : \E l :
              Continue(r, call, req[r], l) /\ l.code \in {loc[r].code, "error"}
    <3>1. CASE EngineReadDeprovision(r)
      <4>1. PICK known :
               Goto(r, IF PlanRetains(req[r].service, known) THEN "label" ELSE "delete",
                    [loc[r] EXCEPT !.known = known,
                        !.todo = ToTearDown(req[r].inst, req[r].ns, known)])
        BY <3>1 DEF EngineReadDeprovision
      <4> DEFINE l == [loc[r] EXCEPT !.known = known,
                                     !.todo = ToTearDown(req[r].inst, req[r].ns, known)]
                 call == IF PlanRetains(req[r].service, known) THEN "label" ELSE "delete"
      <4>2. call \in {"label", "delete"} /\ l.code = loc[r].code
        BY <1>3
      <4>3. Continue(r, call, req[r], l)
        BY <4>1 DEF Goto
      <4> HIDE DEF l, call
      <4> QED
        BY <4>2, <4>3
    <3>2. CASE Label(r) \/ Delete(r)
      <4> DEFINE rest == Tail(loc[r].todo)
                 l(code) == [loc[r] EXCEPT !.todo = rest, !.code = code]
                 call == IF rest = <<>> THEN "forget" ELSE pc[r]
      <4>1. [loc[r] EXCEPT !.todo = rest] = l(loc[r].code)
        BY <1>1 DEF Locals
      <4>2. \/ \E code \in {loc[r].code, "error"} : Goto(r, call, l(code))
            \/ \E code : Answer(r, code)
        BY <3>2, <4>1 DEF Label, Delete
      <4>3. \A code : l(code).code = code
        BY <1>3
      <4>4. call \in {"forget", "label", "delete"}
        BY <3>2 DEF Label, Delete
      <4> HIDE DEF l, call
      <4> QED
        BY <4>2, <4>3, <4>4 DEF Goto
    <3> QED
      BY <1>5, <3>1, <3>2
  <2> QED
    BY <1>2, <2>1, AnswerCarries, ReadingCarries
<1>6. CASE Forget(r)
  BY <1>6, AnswerCarries DEF Forget
<1> QED
  BY <1>4, <1>5, <1>6 DEF DeprovisionStep

LEMMA ProvisionCarries ==
    ASSUME IInv, SInv, NEW r \in Requests, CarriesAt(r), ProvisionStep(r)
    PROVE  CarriesAt(r)'
<1> DEFINE docs == DocumentsOf(req[r], loc[r].merged)
<1>1. /\ loc[r] \in Locals /\ req[r] \in Inputs /\ loc[r].code # "accepted"
      /\ Coherent(pc[r], req[r], loc[r])
  BY OwnSteady DEF CarriesAt, Carries, ProvisionStep, LookupProvision, PrepareNamespace
<1>2. CASE LookupProvision(r)
  <2>1. /\ req[r].op = "provision" /\ loc[r].merged = req[r].params
        /\ (\E code : Answer(r, code)) \/ Continue(r, "namespace", req[r], loc[r])
    BY <1>1, <1>2 DEF LookupProvision, Goto, Coherent
  <2>2. Carries("namespace", req[r], loc[r], objects', labelled', r \in hung)
    BY <1>1, <2>1 DEF Carries, Applying, Recording
  <2> QED
    BY <2>1, <2>2, AnswerCarries, ContinueCarries
<1>3. CASE PrepareNamespace(r)
  <2> DEFINE l == [loc[r] EXCEPT !.todo = docs]
  <2>1. /\ pc[r] = "namespace" /\ req[r].op = "provision"
        /\ Answer(r, "error") \/ Continue(r, "applyGet", req[r], l)
    BY <1>3, OwnSteady DEF PrepareNamespace, Provisions, Goto, DocumentsOf, Content
  <2>2. /\ l.code # "accepted" /\ l.todo = docs /\ l.applied = <<>>
        /\ l.merged = loc[r].merged
    BY <1>1, <2>1, OwnSteady DEF Placed, Reading, Locals
  <2>3. docs \in Seq(ObjectKeys) /\ l.applied \o l.todo = docs
    BY <1>1, <2>1, <2>2, DocumentsType, ConcatEmptySeq DEF Coherent, Locals
  <2>4. loc[r].merged = req[r].params
    BY <2>1 DEF CarriesAt, Carries
  <2> HIDE DEF l
  <2>5. Carries("applyGet", req[r], l, objects', labelled', r \in hung)
    BY <2>1, <2>2, <2>3, <2>4 DEF Carries, Applying, Recording
  <2> QED
    BY <2>1, <2>5, AnswerCarries, ContinueCarries
<1> QED
  BY <1>2, <1>3 DEF ProvisionStep

\* An update that is through with its documents records them.
LEMMA AfterApplyCarries ==
    ASSUME IInv, NEW r \in Requests, NEW l, AfterApply(r, l),
           l.code # "accepted", l.applied \in {<<>>, DocumentsOf(req[r], l.merged)},
           req[r].op = "provision" => l.merged = req[r].params,
           \A k \in Range(DocumentsOf(req[r], l.merged)) :
              Rendered(k, req[r], l, objects', labelled')
    PROVE  CarriesAt(r)'
<1>1. Carries("recGet", req[r], l, objects', labelled', r \in hung)
  BY DEF Carries, Applying, Recording
<1> QED
  BY <1>1, AnswerCarries, ContinueCarries DEF AfterApply, Goto

LEMMA LookupUpdateCarries ==
    ASSUME IInv, NEW r \in Requests, CarriesAt(r), LookupUpdate(r)
    PROVE  CarriesAt(r)'
<1>1. loc[r].code # "accepted"
  BY DEF CarriesAt, Carries, LookupUpdate
<1>2. (\E code : Answer(r, code)) \/ \E input : Continue(r, "engineRead", input, loc[r])
  BY DEF LookupUpdate
<1> QED
  BY <1>1, <1>2, AnswerCarries, ReadingCarries

\* An update has the record it was sent for, unless its client is gone.
LEMMA EngineReadUpdateCarries ==
    ASSUME IInv, SInv, "getInstance" \notin Adverse,
           NEW r \in Requests, CarriesAt(r), EngineReadUpdate(r)
    PROVE  CarriesAt(r)'
<1> DEFINE l(known, merged) ==
               [loc[r] EXCEPT !.known = known, !.merged = merged,
                              !.todo = DocumentsOf(req[r], merged)]
<1>1. /\ loc[r] \in Locals /\ loc[r].code # "accepted"
      /\ pc[r] = "engineRead" /\ req[r].op = "update"
      /\ records[req[r].inst] # NoRecord
  BY OwnSteady DEF CarriesAt, Carries, EngineReadUpdate, Updates
<1>2. \/ Answer(r, "invalid")
      \/ \E known, merged :
            /\ Continue(r, "compare", req[r], l(known, merged))
            /\ known = NoRecord => r \in hung
  BY <1>1 DEF EngineReadUpdate, Fails, Goto, DocumentsOf
<1>3. ASSUME NEW known, NEW merged
      PROVE  /\ l(known, merged).code # "accepted" /\ l(known, merged).known = known
             /\ l(known, merged).todo = DocumentsOf(req[r], merged)
             /\ l(known, merged).merged = merged
  BY <1>1 DEF Locals
<1> HIDE DEF l
<1>4. ASSUME NEW known, NEW merged, known = NoRecord => r \in hung
      PROVE  Carries("compare", req[r], l(known, merged), objects', labelled', r \in hung)
  BY <1>1, <1>3, <1>4 DEF Carries, Applying, Recording
<1> QED
  BY <1>2, <1>4, AnswerCarries, ContinueCarries

\* What has been compared is as rendered, the rest is still on the list.
LEMMA CompareCarries ==
    ASSUME IInv, SInv, NEW r \in Requests, CarriesAt(r), Compare(r)
    PROVE  CarriesAt(r)'
<1> DEFINE docs == DocumentsOf(req[r], loc[r].merged)
           t    == loc[r].todo
           with(u) == [loc[r] EXCEPT !.todo = u]
<1>1. /\ pc[r] = "compare" /\ req[r].op = "update" /\ UNCHANGED <<store, cluster>>
      /\ loc[r] \in Locals /\ req[r] \in Inputs /\ req[r].plan \in Plans
      /\ t \in Seq(ObjectKeys) /\ t # <<>> /\ loc[r].applied = <<>>
  BY OwnSteady DEF Compare, Coherent, Locals, Placed, Reading
<1>2. /\ loc[r].code # "accepted"
      /\ loc[r].known = NoRecord => r \in hung
      /\ \A k \in Range(docs) : Rendered(k, req[r], loc[r], objects, labelled) \/ k \in Range(t)
  BY <1>1 DEF CarriesAt, Carries
<1>3. /\ docs \in Seq(ObjectKeys) /\ docs # <<>> /\ <<>> \o docs = docs
  BY <1>1, DocumentsType, ConcatEmptySeq DEF Locals
<1>4. \A u : /\ with(u).code # "accepted" /\ with(u).known = loc[r].known
             /\ with(u).todo = u /\ with(u).applied = <<>>
             /\ with(u).merged = loc[r].merged
  BY <1>1, <1>2 DEF Locals
<1>5. \/ /\ Rendered(Head(t), req[r], loc[r], objects, labelled)
         /\ \/ Tail(t) = <<>> /\ AfterApply(r, with(<<>>))
            \/ Continue(r, "compare", req[r], with(Tail(t)))
      \/ Continue(r, "applyGet", req[r], with(docs))
  BY <1>1 DEF Compare, Rendered, Content, Goto, DocumentsOf
<1> HIDE DEF with
<1>6. ASSUME NEW k, NEW u
      PROVE  Rendered(k, req[r], with(u), objects', labelled')
             <=> Rendered(k, req[r], loc[r], objects, labelled)
  BY <1>1, <1>4 DEF Rendered, cluster
<1>7. CASE Continue(r, "applyGet", req[r], with(docs))
  <2>1. Carries("applyGet", req[r], with(docs), objects', labelled', r \in hung)
    BY <1>1, <1>2, <1>3, <1>4 DEF Carries, Applying, Recording
  <2> QED
    BY <1>7, <2>1, ContinueCarries
<1>8. CASE Rendered(Head(t), req[r], loc[r], objects, labelled)
  <2>1. \A k \in Range(docs) :
           Rendered(k, req[r], loc[r], objects, labelled) \/ k \in Range(Tail(t))
    BY <1>1, <1>2, <1>8, MoveOne
  <2>2. CASE Tail(t) = <<>> /\ AfterApply(r, with(<<>>))
    <3>1. \A k \in Range(docs) : Rendered(k, req[r], with(<<>>), objects', labelled')
      BY <1>6, <2>1, <2>2 DEF Range
    <3> QED
      BY <1>1, <1>4, <2>2, <3>1, AfterApplyCarries
  <2>3. CASE Continue(r, "compare", req[r], with(Tail(t)))
    <3>1. Carries("compare", req[r], with(Tail(t)), objects', labelled', r \in hung)
      BY <1>1, <1>2, <1>4, <1>6, <2>1 DEF Carries, Applying, Recording
    <3> QED
      BY <2>3, <3>1, ContinueCarries
  <2> QED
    BY <1>5, <1>7, <2>2, <2>3
<1> QED
  BY <1>5, <1>7, <1>8

LEMMA ApplyGetCarries ==
    ASSUME IInv, SInv, NEW r \in Requests, CarriesAt(r), ApplyGet(r)
    PROVE  CarriesAt(r)'
<1> DEFINE l == [loc[r] EXCEPT !.found = objects[Head(loc[r].todo)] # NoObject]
<1>1. /\ pc[r] = "applyGet" /\ UNCHANGED <<objects, labelled>> /\ loc[r] \in Locals
      /\ Carries("applyGet", req[r], loc[r], objects, labelled, r \in hung)
      /\ Continue(r, "applyPut", req[r], l) \/ Abandon(r, "error")
  BY OwnSteady DEF ApplyGet, CarriesAt, Goto, cluster
<1>2. /\ l.code = loc[r].code /\ l.known = loc[r].known /\ l.merged = loc[r].merged
      /\ l.todo = loc[r].todo /\ l.applied = loc[r].applied
      /\ l.found = (objects[Head(loc[r].todo)] # NoObject)
  BY <1>1 DEF Locals
<1> HIDE DEF l
<1>3. Carries("applyPut", req[r], l, objects', labelled', r \in hung)
  BY <1>1, <1>2 DEF Carries, Rendered, Applying, Recording
<1> QED
  BY <1>1, <1>3, AbandonCarries, ContinueCarries

\* The first document of the list has been written.
LEMMA NextDocumentCarries ==
    ASSUME IInv, SInv, NEW r \in Requests, CarriesAt(r), pc[r] = "applyPut",
           NextDocument(r), Put(r, Head(loc[r].todo))
    PROVE  CarriesAt(r)'
<1> DEFINE docs == DocumentsOf(req[r], loc[r].merged)
           t    == loc[r].todo
           s    == loc[r].applied
           l    == [loc[r] EXCEPT !.applied = Append(@, Head(loc[r].todo)), !.todo = Tail(@)]
<1>1. /\ loc[r] \in Locals /\ req[r] \in Inputs /\ req[r].plan \in Plans
      /\ s \in Seq(ObjectKeys) /\ t \in Seq(ObjectKeys) /\ t # <<>>
      /\ objects \in [ObjectKeys -> Contents \union {NoObject}]
  BY OwnSteady DEF Coherent, Locals, IInv, ObjectsOK
<1>2. /\ loc[r].code # "accepted"
      /\ req[r].op = "provision" => loc[r].merged = req[r].params
      /\ req[r].op = "update" /\ loc[r].known = NoRecord => r \in hung
      /\ s \o t = docs
      /\ \A k \in Range(docs) : Rendered(k, req[r], loc[r], objects, labelled) \/ k \in Range(t)
  BY DEF CarriesAt, Carries, Applying
<1>3. /\ l.applied = Append(s, Head(t)) /\ l.todo = Tail(t)
      /\ l.known = loc[r].known /\ l.merged = loc[r].merged /\ l.code = loc[r].code
  BY <1>1 DEF Locals
<1>4. Continue(r, "applyGet", req[r], l) \/ (Tail(t) = <<>> /\ AfterApply(r, l))
  BY <1>3 DEF NextDocument, Goto
<1> HIDE DEF l
<1>5. ASSUME NEW k \in Range(docs), k \notin Range(Tail(t))
      PROVE  Rendered(k, req[r], l, objects', labelled')
  <2>1. k \in ObjectKeys
    BY <1>1, DocumentsType DEF Locals
  <2>2. CASE k = Head(t)
    <3>1. objects'[k] = Content(r) /\ k \notin labelled'
      BY <1>1, <2>1, <2>2 DEF Put
    <3> QED
      BY <1>3, <3>1 DEF Rendered, Content
  <2>3. CASE k # Head(t)
    <3>1. Rendered(k, req[r], loc[r], objects, labelled)
      BY <1>1, <1>2, <1>5, <2>3, MoveOne
    <3>2. objects'[k] = objects[k] /\ (k \in labelled' => k \in labelled)
      BY <1>1, <2>1, <2>3 DEF Put
    <3> QED
      BY <1>3, <3>1, <3>2 DEF Rendered
  <2> QED
    BY <2>2, <2>3
<1>6. l.applied \o l.todo = docs /\ (Tail(t) = <<>> => l.applied = docs)
  BY <1>1, <1>2, <1>3, MoveOne
<1>7. CASE Continue(r, "applyGet", req[r], l)
  <2>1. Carries("applyGet", req[r], l, objects', labelled', r \in hung)
    BY <1>2, <1>3, <1>5, <1>6 DEF Carries, Applying, Recording
  <2> QED
    BY <1>7, <2>1, ContinueCarries
<1>8. CASE Tail(t) = <<>> /\ AfterApply(r, l)
  <2>1. \A k \in Range(docs) : Rendered(k, req[r], l, objects', labelled')
    BY <1>5, <1>8 DEF Range
  <2> QED
    BY <1>2, <1>3, <1>6, <1>8, <2>1, AfterApplyCarries
<1> QED
  BY <1>4, <1>7, <1>8

LEMMA ApplyCarries ==
    ASSUME IInv, SInv, NEW r \in Requests, CarriesAt(r), Apply(r)
    PROVE  CarriesAt(r)'
<1>1. CASE ApplyPut(r)
  <2>1. pc[r] = "applyPut" /\ loc[r].found = (objects[Head(loc[r].todo)] # NoObject)
    BY <1>1 DEF ApplyPut, CarriesAt, Carries
  <2>2. \/ NextDocument(r) /\ Put(r, Head(loc[r].todo))
        \/ Abandon(r, "notFound") \/ Abandon(r, "error")
    BY <1>1, <2>1 DEF ApplyPut
  <2> QED
    BY <2>1, <2>2, NextDocumentCarries, AbandonCarries
<1>2. CASE Undo(r)
  <2> DEFINE l == [loc[r] EXCEPT !.todo = Tail(loc[r].todo)]
  <2>1. /\ loc[r] \in Locals /\ loc[r].code # "accepted" /\ req[r].op = "provision"
        /\ Answer(r, loc[r].code) \/ Continue(r, "undo", req[r], l)
    BY <1>2, OwnSteady DEF Undo, CarriesAt, Carries, Goto
  <2>2. l.code = loc[r].code
    BY <2>1 DEF Locals
  <2> HIDE DEF l
  <2>3. Carries("undo", req[r], l, objects', labelled', r \in hung)
    BY <2>1, <2>2 DEF Carries, Applying, Recording
  <2> QED
    BY <2>1, <2>3, AnswerCarries, ContinueCarries
<1> QED
  BY <1>1, <1>2, ApplyGetCarries DEF Apply

LEMMA RecordCarries ==
    ASSUME IInv, SInv, NEW r \in Requests, CarriesAt(r), Record(r)
    PROVE  CarriesAt(r)'
<1>1. CASE RecGet(r)
  <2> DEFINE l == [loc[r] EXCEPT !.found = records[req[r].inst] # NoRecord]
  <2>1. /\ pc[r] = "recGet" /\ UNCHANGED <<objects, labelled>> /\ loc[r] \in Locals
        /\ Carries("recGet", req[r], loc[r], objects, labelled, r \in hung)
        /\ Continue(r, "recPut", req[r], l) \/ Abandon(r, "error")
    BY <1>1, OwnSteady DEF RecGet, CarriesAt, Goto, cluster
  <2>2. /\ l.code = loc[r].code /\ l.known = loc[r].known /\ l.merged = loc[r].merged
        /\ l.todo = loc[r].todo /\ l.applied = loc[r].applied
    BY <2>1 DEF Locals
  <2> HIDE DEF l
  <2>3. Carries("recPut", req[r], l, objects', labelled', r \in hung)
    BY <2>1, <2>2 DEF Carries, Rendered, Applying, Recording
  <2> QED
    BY <2>1, <2>3, AbandonCarries, ContinueCarries
<1>2. CASE RecPut(r)
  <2>1. \/ \E code : Answer(r, code)
        \/ \E code \in {"conflict", "notFound", "error"} : Abandon(r, code)
    BY <1>2 DEF RecPut
  <2> QED
    BY <2>1, AnswerCarries, AbandonCarries
<1> QED
  BY <1>1, <1>2 DEF Record

\* Nobody else disturbs it.
LEMMA UndisturbedCarries ==
    ASSUME IInv, SInv, NEW r \in Requests, CarriesAt(r), Undisturbed(r)
    PROVE  CarriesAt(r)'
<1> DEFINE docs == DocumentsOf(req[r], loc[r].merged)
           t    == loc[r].todo
<1>1. /\ Coherent(pc[r], req[r], loc[r]) /\ req[r] \in Inputs /\ loc[r] \in Locals
      /\ t \in Seq(ObjectKeys)
      /\ Carries(pc[r], req[r], loc[r], objects, labelled, r \in hung)
  BY OwnSteady DEF CarriesAt, Locals
<1>2. ASSUME pc[r] \in {"compare"} \union Applying \union Recording, NEW k \in Range(docs)
      PROVE  Rendered(k, req[r], loc[r], objects, labelled)
             => Rendered(k, req[r], loc[r], objects', labelled')
  <2>1. k \in ObjectKeys /\ k[1] = req[r].inst
    BY <1>1, <1>2, DocumentsType DEF Coherent, Locals, Applying, Recording
  <2> QED
    BY <2>1 DEF Undisturbed, Kept, Rendered
<1>3. pc[r] = "applyPut" => objects'[Head(t)] = objects[Head(t)]
  <2> SUFFICES ASSUME pc[r] = "applyPut" PROVE objects'[Head(t)] = objects[Head(t)]
    OBVIOUS
  <2>1. t # <<>> /\ Within(t, req[r].inst, req[r].ns)
    BY <1>1, OwnSteady DEF Coherent, Placed, Applying
  <2>2. Head(t) \in ObjectKeys /\ Head(t)[1] = req[r].inst
    BY <1>1, <2>1, HeadTailProperties, WithinRest
  <2> QED
    BY <2>2 DEF Undisturbed, Kept
<1>4. Carries(pc[r], req[r], loc[r], objects', labelled', r \in hung')
  BY <1>1, <1>2, <1>3 DEF Carries, Undisturbed
<1> QED
  BY <1>4 DEF CarriesAt, Undisturbed

LEMMA NextCarries ==
    ASSUME IInv, SInv, "getInstance" \notin Adverse, Next,
           NEW r \in Requests, CarriesAt(r)
    PROVE  CarriesAt(r)'
<1>1. CASE Handle(r)
  BY <1>1, ProvisionCarries, LookupUpdateCarries, EngineReadUpdateCarries, CompareCarries,
     DeprovisionCarries, ApplyCarries, RecordCarries DEF Handle, UpdateStep
<1>2. CASE InFlight(r)
  BY <1>1, <1>2, InFlightSteps, CarriesIdle, UndisturbedCarries
<1>3. CASE ~InFlight(r)
  BY <1>3, IdleSteps, ArriveCarries, CarriesIdle
<1> QED
  BY <1>2, <1>3

\* An update renders the documents its record refers to.
LEMMA SameDocuments ==
    ASSUME UpdatesKeepDocuments, NEW rec \in Records, NEW r \in Requests,
           loc[r] \in Locals, req[r].plan \in Plans,
           req[r].plan = rec.plan \/ Movable(rec.plan, req[r].plan)
    PROVE  Docs[ContentOf(rec)] = Docs[Content(r)]
<1>1. /\ ContentOf(rec) \in Contents /\ ContentOf(rec).plan = rec.plan
      /\ Content(r) \in Contents /\ Content(r).plan = req[r].plan
  BY DEF ContentOf, Content, Contents, Records, Locals
<1> QED
  BY <1>1 DEF UpdatesKeepDocuments

LEMMA RecordOfRenders ==
    ASSUME IInv, SInv, UpdatesKeepDocuments, RecordsRender, NEW r \in Requests, CarriesAt(r),
           pc[r] = "recPut"
    PROVE  /\ RecordOf(r).plan = req[r].plan /\ RecordOf(r).ns = req[r].ns
           /\ RecordOf(r).params = loc[r].merged
           /\ RecordOf(r).refs = DocumentsOf(req[r], loc[r].merged)
<1> DEFINE i   == req[r].inst
           rec == records[i]
           docs == DocumentsOf(req[r], loc[r].merged)
<1>1. /\ i \in Instances /\ loc[r] \in Locals /\ loc[r].applied \in {<<>>, docs}
      /\ Coherent("recPut", req[r], loc[r]) /\ req[r].plan \in Plans
  BY OwnSteady DEF CarriesAt, Carries, Recording, Inputs, Coherent
<1>2. CASE req[r].op = "update"
  <2>1. loc[r].known # NoRecord /\ rec # NoRecord /\ loc[r].known = rec /\ rec.ns = req[r].ns
    BY <1>1, <1>2, OwnSteady DEF Coherent, Updates, Recording
  <2>2. rec \in Records /\ rec.refs = ManifestKeys(i, rec.ns, ContentOf(rec))
    BY <1>1, <2>1 DEF IInv, RecordsOK, RecordsRender
  <2>3. ManifestKeys(i, rec.ns, ContentOf(rec)) = docs
    <3>1. req[r].plan = rec.plan \/ Movable(rec.plan, req[r].plan)
      BY <1>1, <1>2, <2>2, OwnSteady DEF Updates, Recording
    <3>2. Docs[ContentOf(rec)] = Docs[Content(r)]
      BY <1>1, <2>2, <3>1, SameDocuments
    <3> QED
      BY <2>1, <3>2 DEF ManifestKeys, DocumentsOf, Content
  <2>4. /\ RecordOf(r).plan = req[r].plan /\ RecordOf(r).ns = rec.ns
        /\ RecordOf(r).params = loc[r].merged
        /\ RecordOf(r).refs = IF loc[r].applied # <<>> THEN loc[r].applied ELSE rec.refs
    BY <1>2, <2>1, <2>2 DEF RecordOf, UpdatedRecord, Records
  <2> QED
    BY <1>1, <2>1, <2>2, <2>3, <2>4
<1>3. CASE req[r].op # "update"
  <2>1. loc[r].applied # <<>>
    BY <1>1, <1>3 DEF Coherent
  <2> QED
    BY <1>1, <1>3, <2>1 DEF RecordOf, NewRecord
<1> QED
  BY <1>2, <1>3

LEMMA NextCInv ==
    ASSUME "getInstance" \notin Adverse, UpdatesKeepDocuments, IInv, SInv, CInv, [Next]_vars
    PROVE  CInv'
<1>1. CASE Next
  <2>1. ASSUME NEW i \in Instances, records'[i] # NoRecord
        PROVE  records'[i].refs = ManifestKeys(i, records'[i].ns, ContentOf(records'[i]))
    <3>1. CASE records'[i] = records[i]
      BY <2>1, <3>1 DEF CInv, RecordsRender
    <3>2. CASE records'[i] # records[i]
      <4>1. PICK r \in Requests :
               req[r].inst = i /\ pc[r] = "recPut" /\ records'[i] = RecordOf(r)
        BY <1>1, <2>1, <3>2, RecordChanges
      <4> QED
        BY <4>1, RecordOfRenders DEF CInv, DocumentsOf, ContentOf
    <3> QED
      BY <3>1, <3>2
  <2> QED
    BY <1>1, <2>1, NextCarries DEF CInv, RecordsRender
<1>2. CASE UNCHANGED vars
  BY <1>2 DEF vars, CInv, RecordsRender, CarriesAt
<1> QED
  BY <1>1, <1>2

LEMMA InitCInv == Init => CInv
<1> SUFFICES ASSUME Init PROVE CInv
  OBVIOUS
<1>1. (\A r \in Requests : pc[r] = "idle") /\ \A i \in Instances : records[i] = NoRecord
  BY DEF Init
<1> QED
  BY <1>1 DEF CInv, RecordsRender, CarriesAt, Carries, Applying, Recording

LEMMA CInvHolds ==
    ASSUME "overlap" \notin Adverse, "getInstance" \notin Adverse, UpdatesKeepDocuments
    PROVE  Spec => [](IInv /\ SInv /\ CInv)
<1>1. Init => CInv
  BY InitCInv
<1>2. IInv /\ SInv /\ CInv /\ [Next]_vars => CInv'
  BY NextCInv
<1> QED
  BY <1>1, <1>2, SInvHolds, PTL DEF Spec

\* An operation is reported as done by the write of its record and by nothing else.
LEMMA ReportedByRecord ==
    ASSUME IInv, SInv, Next, NEW r \in Requests, CarriesAt(r),
           Answers(r, "accepted") \/ (Answers(r, "ok") /\ req[r].op = "update")
    PROVE  /\ pc[r] = "recPut" /\ UNCHANGED cluster
           /\ records' = [records EXCEPT ![req[r].inst] = RecordOf(r)]
<1>1. Handle(r) /\ pc'[r] = "idle" /\ loc'[r].code \in {"accepted", "ok"}
  BY AnsweredByHandler DEF Answers, InFlight
<1>2. loc'[r].code = "ok" => req[r].op = "update"
  BY DEF Answers
<1>3. \A call, input, l : call # "idle" => ~Continue(r, call, input, l)
  BY <1>1, ContinueFacts
<1>4. \A code : Answer(r, code) => r \notin hung /\ loc'[r].code = code
  <2>1. ASSUME NEW code, Answer(r, code) PROVE r \notin hung /\ loc'[r].code = code
    <3>1. r \in hung => loc'[r].code = "lost"
      BY <2>1 DEF Answer, IInv, HandlersOK, NoLocals
    <3> QED
      BY <1>1, <2>1, <3>1, AnswerCode
  <2> QED
    BY <2>1
<1>5. ~Answer(r, "error") /\ ~Answer(r, "conflict") /\ ~Answer(r, "invalid")
      /\ ~Answer(r, "notFound") /\ ~Answer(r, "gone")
  BY <1>1, <1>4
<1>6. InFlight(r) /\ Coherent(pc[r], req[r], loc[r])
      /\ Carries(pc[r], req[r], loc[r], objects, labelled, r \in hung)
  BY <1>1, HandleInFlight, OwnSteady DEF CarriesAt
<1>7. loc[r].code # "accepted"
  BY <1>6 DEF Carries, InFlight
<1>8. \A code : code \in {"error", "conflict", "notFound"} => ~Abandon(r, code)
  BY <1>3, <1>5 DEF Abandon, Goto
<1>9. ASSUME NEW l, pc[r] \in {"compare"} \union Applying, l.known = loc[r].known
      PROVE  ~AfterApply(r, l)
  BY <1>3, <1>4, <1>6, <1>9 DEF AfterApply, Goto, Carries
<1>10. ~ProvisionStep(r)
  BY <1>2, <1>3, <1>4, <1>5 DEF ProvisionStep, LookupProvision, PrepareNamespace, Goto
<1>11. ~UpdateStep(r)
  <2>1. ~LookupUpdate(r) /\ ~EngineReadUpdate(r)
    BY <1>3, <1>5 DEF LookupUpdate, EngineReadUpdate, Goto
  <2>2. ~Compare(r)
    <3>1. [loc[r] EXCEPT !.todo = <<>>].known = loc[r].known
      BY OwnSteady DEF Locals
    <3> QED
      BY <1>3, <1>9, <3>1 DEF Compare, Goto
  <2> QED
    BY <2>1, <2>2 DEF UpdateStep
<1>12. ~DeprovisionStep(r)
  <2>1. ~FindService(r) /\ ~LookupDeprovision(r) /\ ~CheckBindings(r) /\ ~FindNamespace(r)
        /\ ~EngineReadDeprovision(r) /\ ~Label(r) /\ ~Delete(r)
    BY <1>3, <1>5 DEF FindService, LookupDeprovision, CheckBindings, FindNamespace,
       EngineReadDeprovision, Label, Delete, Goto
  <2>2. ~Forget(r)
    BY <1>1, <1>2, <1>4, <1>5, <1>6, <1>7 DEF Forget, Coherent
  <2> QED
    BY <2>1, <2>2 DEF DeprovisionStep
<1>13. ~Apply(r)
  <2>1. ~ApplyGet(r)
    BY <1>3, <1>8 DEF ApplyGet, Goto
  <2>2. ~ApplyPut(r)
    <3>1. [loc[r] EXCEPT !.applied = Append(@, Head(loc[r].todo)), !.todo = Tail(@)].known
            = loc[r].known
      BY OwnSteady DEF Locals
    <3>2. pc[r] = "applyPut" => ~NextDocument(r)
      BY <1>3, <1>9, <3>1 DEF NextDocument, Goto, Applying
    <3> QED
      BY <1>8, <3>2 DEF ApplyPut
  <2>3. ~Undo(r)
    BY <1>1, <1>2, <1>3, <1>4, <1>6, <1>7 DEF Undo, Carries, Goto
  <2> QED
    BY <2>1, <2>2, <2>3 DEF Apply
<1>14. ~RecGet(r)
  BY <1>3, <1>8 DEF RecGet, Goto
<1>15. RecPut(r)
  BY <1>1, <1>10, <1>11, <1>12, <1>13, <1>14 DEF Handle, Record
<1> QED
  BY <1>8, <1>15 DEF RecPut

LEMMA OverlayAgain ==
    ASSUME NEW base \in ParamSets, NEW patch \in ParamSets
    PROVE  /\ Overlay(patch, patch) = patch
           /\ Overlay(Overlay(base, patch), patch) = Overlay(base, patch)
BY DEF Overlay, ParamSets

\* 202 on a provision and 200 on an update mean that the operation is done: the
\* record has the plan and the parameters asked for, and all documents of that
\* plan exist with that configuration, whichever call failed before, whoever
\* crashed or hung up.  It takes that reads of the record do not fail, and that an
\* update does not change which documents there are.
THEOREM AcceptedIsConfigured ==
    ASSUME "overlap" \notin Adverse, "getInstance" \notin Adverse, UpdatesKeepDocuments
    PROVE  Spec => AcceptedMeansConfigured
<1> DEFINE A == \A r \in Requests :
                   Answers(r, "accepted") \/ (Answers(r, "ok") /\ req[r].op = "update")
                   => LET i   == req[r].inst
                          rec == records'[i]
                      IN  /\ rec # NoRecord
                          /\ rec.plan = req[r].plan
                          /\ Overlay(rec.params, req[r].params) = rec.params
                          /\ rec.refs = ManifestKeys(i, rec.ns, ContentOf(rec))
                          /\ \A k \in RefsOf(rec) :
                                /\ objects'[k] = [plan |-> rec.plan, params |-> rec.params]
                                /\ k \notin labelled'
<1>1. ASSUME IInv, SInv, CInv, Next, NEW r \in Requests,
             Answers(r, "accepted") \/ (Answers(r, "ok") /\ req[r].op = "update")
      PROVE  LET i   == req[r].inst
                 rec == records'[i]
             IN  /\ rec # NoRecord
                 /\ rec.plan = req[r].plan
                 /\ Overlay(rec.params, req[r].params) = rec.params
                 /\ rec.refs = ManifestKeys(i, rec.ns, ContentOf(rec))
                 /\ \A k \in RefsOf(rec) :
                       /\ objects'[k] = [plan |-> rec.plan, params |-> rec.params]
                       /\ k \notin labelled'
  <2> DEFINE i == req[r].inst
             rec == RecordOf(r)
  <2>1. /\ CarriesAt(r) /\ pc[r] = "recPut" /\ UNCHANGED cluster
        /\ records' = [records EXCEPT ![i] = rec]
    BY <1>1, ReportedByRecord DEF CInv
  <2>2. /\ i \in Instances /\ req[r] \in Inputs /\ loc[r] \in Locals
        /\ Coherent("recPut", req[r], loc[r])
    BY <1>1, <2>1, OwnSteady DEF Inputs
  <2>3. records'[i] = rec /\ rec \in Records /\ rec # NoRecord
    BY <1>1, <2>1, <2>2, RecordOfOK, DistinctnessAssumption DEF IInv, RecordsOK
  <2>4. /\ rec.plan = req[r].plan /\ rec.ns = req[r].ns /\ rec.params = loc[r].merged
        /\ rec.refs = DocumentsOf(req[r], loc[r].merged)
    BY <1>1, <2>1, RecordOfRenders DEF CInv
  <2>5. Overlay(rec.params, req[r].params) = rec.params
    <3>1. req[r].params \in ParamSets
      BY <2>2 DEF Inputs
    <3>2. CASE req[r].op = "provision"
      <4>1. loc[r].merged = req[r].params
        BY <2>1, <3>2 DEF CarriesAt, Carries, Recording
      <4> QED
        BY <2>4, <3>1, <4>1, OverlayAgain
    <3>3. CASE req[r].op = "update"
      <4>1. /\ records[i] # NoRecord
            /\ loc[r].merged = Overlay(records[i].params, req[r].params)
        BY <1>1, <2>1, <2>2, <3>3, OwnSteady DEF Coherent, Updates, Recording
      <4>2. records[i].params \in ParamSets
        BY <1>1, <2>2, <4>1 DEF IInv, RecordsOK, Records
      <4> QED
        BY <2>4, <3>1, <4>1, <4>2, OverlayAgain
    <3> QED
      BY <2>2, <3>2, <3>3 DEF Coherent
  <2>6. ASSUME NEW k \in RefsOf(rec)
        PROVE  objects'[k] = [plan |-> rec.plan, params |-> rec.params] /\ k \notin labelled'
    <3>1. k \in Range(DocumentsOf(req[r], loc[r].merged))
      BY <2>3, <2>4, <2>6 DEF RefsOf, Range
    <3>2. Rendered(k, req[r], loc[r], objects, labelled)
      BY <2>1, <3>1 DEF CarriesAt, Carries, Recording
    <3> QED
      BY <2>1, <2>4, <3>2 DEF Rendered, cluster
  <2> HIDE DEF rec
  <2> QED
    BY <2>3, <2>4, <2>5, <2>6 DEF DocumentsOf, ContentOf
<1>2. IInv /\ SInv /\ CInv /\ [Next]_vars => [A]_vars
  BY <1>1
<1> HIDE DEF A
<1>3. Spec => [][A]_vars
  BY <1>2, CInvHolds, PTL DEF Spec
<1> QED
  BY <1>3 DEF AcceptedMeansConfigured, A, ContentOf

-----------------------------------------------------------------------------
(* A deprovision that fails leaves the record.                              *)

Repeatable(call, in, l, rec, gone) ==
    /\ in.op = "deprovision" /\ call \in {"bindings"} \union TearingDown => rec # NoRecord
    /\ in.op = "deprovision" /\ call # "idle" => l.code = "ok" \/ gone
    /\ call = "label"
       => gone \/ (rec.plan \in Retains /\ Range(l.todo) \subseteq RefsOf(rec))

RepeatableAt(r) ==
    Repeatable(pc[r], req[r], loc[r], records[req[r].inst], r \in hung)

\* A retaining plan has all its objects.
RetainedLive ==
    \A i \in Instances :
       records[i] # NoRecord /\ records[i].plan \in Retains
       => \A k \in RefsOf(records[i]) : objects[k] # NoObject

FInv == RetainedLive /\ \A r \in Requests : RepeatableAt(r)

\* A handler never mistakes its operation or its instance.
LEMMA OperationStays ==
    ASSUME IInv, NEW r \in Requests, Handle(r)
    PROVE  pc'[r] = "idle" \/ (req'[r].op = req[r].op /\ req'[r].inst = req[r].inst)
<1> DEFINE Fine == pc'[r] = "idle" \/ (req'[r].op = req[r].op /\ req'[r].inst = req[r].inst)
<1>1. \A call, l : Goto(r, call, l) => Fine
  BY ContinueFacts DEF Goto
<1>2. \A code : Answer(r, code) => Fine
  BY AnswerFacts
<1>3. ASSUME NEW call, NEW s, NEW p, NEW ns, NEW l,
             \/ Continue(r, call, [req[r] EXCEPT !.service = s, !.plan = p, !.ns = ns], l)
             \/ Continue(r, call, [req[r] EXCEPT !.service = s], l)
             \/ Continue(r, call, [req[r] EXCEPT !.ns = ns], l)
      PROVE  Fine
  <2>1. req[r] \in Inputs
    BY OwnState DEF IInv
  <2>2. /\ [req[r] EXCEPT !.service = s, !.plan = p, !.ns = ns].op = req[r].op
        /\ [req[r] EXCEPT !.service = s, !.plan = p, !.ns = ns].inst = req[r].inst
        /\ [req[r] EXCEPT !.service = s].op = req[r].op
        /\ [req[r] EXCEPT !.service = s].inst = req[r].inst
        /\ [req[r] EXCEPT !.ns = ns].op = req[r].op
        /\ [req[r] EXCEPT !.ns = ns].inst = req[r].inst
    BY <2>1 DEF Inputs
  <2>3. PICK input : Continue(r, call, input, l) /\ input.op = req[r].op /\ input.inst = req[r].inst
    BY <1>3, <2>2, Zenon
  <2> QED
    BY <2>3, ContinueFacts
<1> HIDE DEF Fine
<1>4. \A code : Abandon(r, code) => Fine
  BY <1>1, <1>2 DEF Abandon
<1>5. \A l : AfterApply(r, l) => Fine
  BY <1>1, <1>2 DEF AfterApply
<1>6. NextDocument(r) => Fine
  BY <1>1, <1>5 DEF NextDocument
<1>7. ProvisionStep(r) => Fine
  BY <1>1, <1>2 DEF ProvisionStep, LookupProvision, PrepareNamespace
<1>8. UpdateStep(r) => Fine
  <2>1. LookupUpdate(r) => Fine
    <3>1. ASSUME LookupUpdate(r)
          PROVE  \/ \E code : Answer(r, code)
                 \/ \E s, p, ns : Continue(r, "engineRead",
                       [req[r] EXCEPT !.service = s, !.plan = p, !.ns = ns], loc[r])
      BY <3>1 DEF LookupUpdate
    <3> QED
      BY <1>2, <1>3, <3>1
  <2>2. EngineReadUpdate(r) => Fine
    BY <1>1, <1>2 DEF EngineReadUpdate
  <2>3. Compare(r) => Fine
    BY <1>1, <1>5 DEF Compare
  <2> QED
    BY <2>1, <2>2, <2>3 DEF UpdateStep
<1>9. Apply(r) => Fine
  <2>1. ApplyGet(r) \/ ApplyPut(r) => Fine
    BY <1>1, <1>4, <1>6 DEF ApplyGet, ApplyPut
  <2>2. Undo(r) => Fine
    BY <1>1, <1>2 DEF Undo
  <2> QED
    BY <2>1, <2>2 DEF Apply
<1>10. Record(r) => Fine
  BY <1>1, <1>2, <1>4 DEF Record, RecGet, RecPut
<1>11. DeprovisionStep(r) => Fine
  <2>1. FindService(r) => Fine
    BY <1>1, <1>3 DEF FindService
  <2>2. FindNamespace(r) => Fine
    BY <1>3 DEF FindNamespace
  <2>3. LookupDeprovision(r) \/ CheckBindings(r) \/ EngineReadDeprovision(r) => Fine
    BY <1>1, <1>2 DEF LookupDeprovision, CheckBindings, EngineReadDeprovision
  <2>4. Label(r) \/ Delete(r) \/ Forget(r) => Fine
    BY <1>1, <1>2 DEF Label, Delete, Forget
  <2> QED
    BY <2>1, <2>2, <2>3, <2>4 DEF DeprovisionStep
<1> QED
  BY <1>7, <1>8, <1>9, <1>10, <1>11 DEF Handle, Fine

LEMMA RepeatableIdle ==
    ASSUME NEW r, pc'[r] = "idle"
    PROVE  RepeatableAt(r)'
BY DEF RepeatableAt, Repeatable, TearingDown

LEMMA ContinueRepeatable ==
    ASSUME IInv, NEW r \in Requests, NEW call, NEW input, NEW l, Continue(r, call, input, l),
           Repeatable(call, input, l, records'[input.inst], r \in hung)
    PROVE  RepeatableAt(r)'
BY ContinueFacts DEF RepeatableAt

LEMMA AnswerRepeatable ==
    ASSUME IInv, NEW r \in Requests, NEW code, Answer(r, code)
    PROVE  RepeatableAt(r)'
BY AnswerFacts, RepeatableIdle

\* Only a deprovision has anything to repeat.
LEMMA OtherRepeatable ==
    ASSUME IInv, SInv, Next, NEW r \in Requests, Handle(r), req[r].op # "deprovision"
    PROVE  RepeatableAt(r)'
<1>1. CASE pc'[r] = "idle"
  BY <1>1, RepeatableIdle
<1>2. CASE pc'[r] # "idle"
  <2>1. req'[r].op # "deprovision"
    BY <1>2, OperationStays
  <2>2. pc'[r] # "label"
    <3>1. Coherent(pc[r], req[r], loc[r])
      BY OwnSteady
    <3>2. ~EngineReadDeprovision(r) /\ ~Label(r) /\ ~Delete(r) /\ pc[r] # "label"
      BY <3>1 DEF EngineReadDeprovision, Label, Delete, Coherent
    <3> QED
      BY <3>2, WorkedOffByOwner
  <2> QED
    BY <2>1, <2>2 DEF RepeatableAt, Repeatable
<1> QED
  BY <1>1, <1>2

LEMMA ArriveRepeatable ==
    ASSUME IInv, NEW r \in Requests, Arrive(r)
    PROVE  RepeatableAt(r)'
<1>1. ASSUME NEW input, NEW call \in {"lookup", "service"}, Receive(r, input, call)
      PROVE  RepeatableAt(r)'
  <2>1. PICK l : Continue(r, call, input, l) /\ l.code = "ok"
    <3>1. [NoLocals EXCEPT !.code = "ok", !.merged = input.params].code = "ok"
      BY DEF NoLocals
    <3> QED
      BY <1>1, <3>1 DEF Receive
  <2>2. Repeatable(call, input, l, records'[input.inst], r \in hung)
    BY <2>1 DEF Repeatable, TearingDown
  <2> QED
    BY <2>1, <2>2, ContinueRepeatable
<1> QED
  BY <1>1, ArriveReceives, AnswerRepeatable

LEMMA TeardownReadsRepeatable ==
    ASSUME IInv, NEW r \in Requests, RepeatableAt(r), req[r].op = "deprovision",
           FindService(r) \/ LookupDeprovision(r) \/ CheckBindings(r) \/ FindNamespace(r)
    PROVE  RepeatableAt(r)'
<1> DEFINE rec == records[req[r].inst]
<1>1. UNCHANGED records /\ req[r] \in Inputs
  BY OwnState DEF FindService, LookupDeprovision, CheckBindings, FindNamespace, store, IInv
<1>2. /\ loc[r].code = "ok" \/ r \in hung
      /\ pc[r] \in {"bindings", "nsRead"} => rec # NoRecord
  BY DEF RepeatableAt, Repeatable, FindService, LookupDeprovision, CheckBindings,
     FindNamespace, TearingDown
<1>3. CASE FindService(r)
  <2>1. \/ Continue(r, "lookup", [req[r] EXCEPT !.service = ServiceOf[rec.plan]], loc[r])
        \/ Continue(r, "lookup", req[r], loc[r])
    BY <1>3 DEF FindService, Goto
  <2>2. ASSUME NEW input PROVE Repeatable("lookup", input, loc[r], records'[input.inst], r \in hung)
    BY <1>2 DEF Repeatable, TearingDown
  <2> QED
    BY <2>1, <2>2, ContinueRepeatable
<1>4. CASE LookupDeprovision(r) \/ CheckBindings(r)
  <2>1. \/ \E code : Answer(r, code)
        \/ \E call \in {"bindings", "nsRead"} : Continue(r, call, req[r], loc[r]) /\ rec # NoRecord
    BY <1>2, <1>4 DEF LookupDeprovision, CheckBindings, Goto
  <2>2. ASSUME NEW call \in {"bindings", "nsRead"}, rec # NoRecord
        PROVE  Repeatable(call, req[r], loc[r], records'[req[r].inst], r \in hung)
    BY <1>1, <1>2, <2>2 DEF Repeatable
  <2> QED
    BY <2>1, <2>2, AnswerRepeatable, ContinueRepeatable
<1>5. CASE FindNamespace(r)
  <2>1. pc[r] = "nsRead" /\ \E ns : Continue(r, "engineRead", [req[r] EXCEPT !.ns = ns], loc[r])
    BY <1>5 DEF FindNamespace
  <2>2. PICK input : Continue(r, "engineRead", input, loc[r]) /\ input.inst = req[r].inst
    BY <1>1, <2>1 DEF Inputs
  <2>3. Repeatable("engineRead", input, loc[r], records'[input.inst], r \in hung)
    BY <1>1, <1>2, <2>1, <2>2 DEF Repeatable
  <2> QED
    BY <2>2, <2>3, ContinueRepeatable
<1> QED
  BY <1>3, <1>4, <1>5

LEMMA RangeOfRest ==
    ASSUME NEW seq \in Seq(ObjectKeys), seq # <<>>
    PROVE  Head(seq) \in Range(seq) /\ Range(Tail(seq)) \subseteq Range(seq)
<1>1. Head(seq) = seq[1] /\ 1 \in DOMAIN seq
  BY HeadTailProperties, LenProperties, EmptySeq
<1>2. ASSUME NEW n \in DOMAIN Tail(seq)
      PROVE  Tail(seq)[n] = seq[n + 1] /\ n + 1 \in DOMAIN seq
  BY HeadTailProperties, LenProperties
<1> QED
  BY <1>1, <1>2 DEF Range

LEMMA EngineReadRepeatable ==
    ASSUME "getInstance" \notin Adverse, IInv, NEW r \in Requests, RepeatableAt(r),
           req[r].op = "deprovision", EngineReadDeprovision(r)
    PROVE  RepeatableAt(r)'
<1> DEFINE rec == records[req[r].inst]
<1>1. /\ pc[r] = "engineRead" /\ UNCHANGED records /\ loc[r] \in Locals
      /\ rec # NoRecord /\ (loc[r].code = "ok" \/ r \in hung)
  BY OwnState DEF EngineReadDeprovision, store, IInv, RepeatableAt, Repeatable, TearingDown
<1>2. PICK known :
         /\ known = rec \/ (known = NoRecord /\ r \in hung)
         /\ Goto(r, IF PlanRetains(req[r].service, known) THEN "label" ELSE "delete",
                 [loc[r] EXCEPT !.known = known,
                     !.todo = ToTearDown(req[r].inst, req[r].ns, known)])
  BY DEF EngineReadDeprovision, Fails
<1> DEFINE l == [loc[r] EXCEPT !.known = known,
                               !.todo = ToTearDown(req[r].inst, req[r].ns, known)]
           call == IF PlanRetains(req[r].service, known) THEN "label" ELSE "delete"
<1>3. /\ l.code = loc[r].code /\ l.todo = ToTearDown(req[r].inst, req[r].ns, known)
      /\ call \in {"label", "delete"} /\ (call = "label" => PlanRetains(req[r].service, known))
  BY <1>1 DEF Locals
<1>4. Continue(r, call, req[r], l)
  BY <1>2 DEF Goto
<1> HIDE DEF l, call
<1>5. ASSUME call = "label", r \notin hung
      PROVE  rec.plan \in Retains /\ Range(l.todo) \subseteq RefsOf(rec)
  BY <1>1, <1>2, <1>3, <1>5 DEF PlanRetains, ToTearDown, RefsOf, Range
<1>6. Repeatable(call, req[r], l, rec, r \in hung)
  BY <1>1, <1>3, <1>5 DEF Repeatable
<1> QED
  BY <1>1, <1>4, <1>6, ContinueRepeatable

\* No label fails: the plan retains its objects, so they are there.
LEMMA WorkOffRepeatable ==
    ASSUME "label" \notin Adverse, IInv, SInv, FInv, NEW r \in Requests,
           Label(r) \/ Delete(r)
    PROVE  RepeatableAt(r)'
<1> DEFINE rec == records[req[r].inst]
           t == loc[r].todo
           l(code) == [loc[r] EXCEPT !.todo = Tail(t), !.code = code]
           call == IF Tail(t) = <<>> THEN "forget" ELSE pc[r]
<1>1. /\ pc[r] \in {"label", "delete"} /\ req[r].op = "deprovision" /\ UNCHANGED records
      /\ loc[r] \in Locals /\ t \in Seq(ObjectKeys) /\ t # <<>> /\ req[r].inst \in Instances
  BY OwnSteady DEF Label, Delete, store, Coherent, Locals, Inputs
<1>2. /\ rec # NoRecord /\ (loc[r].code = "ok" \/ r \in hung)
      /\ pc[r] = "label"
         => r \in hung \/ (rec.plan \in Retains /\ Range(t) \subseteq RefsOf(rec))
  BY <1>1 DEF FInv, RepeatableAt, Repeatable, TearingDown
<1>3. pc[r] = "label" /\ r \notin hung => objects[Head(t)] # NoObject
  BY <1>1, <1>2, RangeOfRest DEF FInv, RetainedLive
<1>4. [loc[r] EXCEPT !.todo = Tail(t)] = l(loc[r].code)
  BY <1>1 DEF Locals
<1>5. \/ \E code : Answer(r, code)
      \/ \E code : Goto(r, call, l(code)) /\ (code = "ok" \/ r \in hung)
  <2>1. CASE Label(r)
    BY <1>2, <1>3, <2>1 DEF Label, Fails
  <2>2. CASE Delete(r)
    BY <1>2, <1>4, <2>2 DEF Delete
  <2> QED
    BY <2>1, <2>2
<1>6. \A code : l(code).code = code /\ l(code).todo = Tail(t)
  BY <1>1 DEF Locals
<1>7. call \in {"forget", pc[r]}
  OBVIOUS
<1> HIDE DEF l, call
<1>8. ASSUME NEW code, code = "ok" \/ r \in hung
      PROVE  Repeatable(call, req[r], l(code), rec, r \in hung)
  BY <1>1, <1>2, <1>6, <1>7, <1>8, RangeOfRest DEF Repeatable
<1> QED
  BY <1>1, <1>5, <1>8, AnswerRepeatable, ContinueRepeatable DEF Goto

LEMMA NextRepeatable ==
    ASSUME "getInstance" \notin Adverse, "label" \notin Adverse,
           IInv, SInv, FInv, Next, NEW r \in Requests
    PROVE  RepeatableAt(r)'
<1>1. RepeatableAt(r)
  BY DEF FInv
<1>2. CASE DeprovisionStep(r)
  <2>1. req[r].op = "deprovision"
    <3>1. Coherent(pc[r], req[r], loc[r])
      BY OwnSteady
    <3> QED
      BY <1>2, <3>1 DEF Coherent, DeprovisionStep, FindService, LookupDeprovision,
         CheckBindings, FindNamespace, EngineReadDeprovision, Label, Delete, Forget
  <2>2. Forget(r) => \E code : Answer(r, code)
    BY DEF Forget
  <2> QED
    BY <1>1, <1>2, <2>1, <2>2, TeardownReadsRepeatable, EngineReadRepeatable,
       WorkOffRepeatable, AnswerRepeatable DEF DeprovisionStep
<1>3. CASE Handle(r) /\ ~DeprovisionStep(r)
  <2>1. req[r].op # "deprovision"
    <3>1. Coherent(pc[r], req[r], loc[r])
      BY OwnSteady
    <3> QED
      BY <1>3, <3>1 DEF Coherent, Handle, ProvisionStep, LookupProvision, PrepareNamespace,
         UpdateStep, LookupUpdate, EngineReadUpdate, Compare, Apply, ApplyGet, ApplyPut, Undo,
         Record, RecGet, RecPut
  <2> QED
    BY <1>3, <2>1, OtherRepeatable
<1>4. CASE Undisturbed(r)
  <2>1. Repeatable(pc[r], req[r], loc[r], records[req[r].inst], r \in hung')
    BY <1>1, <1>4 DEF RepeatableAt, Repeatable, Undisturbed
  <2> QED
    BY <1>4, <2>1 DEF RepeatableAt, Undisturbed, Kept
<1>5. CASE InFlight(r)
  BY <1>2, <1>3, <1>4, <1>5, InFlightSteps, RepeatableIdle
<1>6. CASE ~InFlight(r)
  BY <1>6, IdleSteps, ArriveRepeatable, RepeatableIdle
<1> QED
  BY <1>5, <1>6

\* What a record that is written refers to is there.
LEMMA RecordedIsLive ==
    ASSUME IInv, SInv, UpdatesKeepDocuments, CInv, NEW r \in Requests, pc[r] = "recPut",
           NEW k \in RefsOf(RecordOf(r))
    PROVE  k \in ObjectKeys /\ objects[k] # NoObject /\ k \notin labelled
<1>1. /\ req[r] \in Inputs /\ loc[r] \in Locals /\ req[r].plan \in Plans
      /\ CarriesAt(r) /\ RecordOf(r) \in Records
  BY OwnSteady, RecordOfOK DEF Coherent, CInv, IInv
<1>2. RecordOf(r) # NoRecord /\ RecordOf(r).refs = DocumentsOf(req[r], loc[r].merged)
  BY <1>1, RecordOfRenders, DistinctnessAssumption DEF CInv
<1>3. k \in Range(DocumentsOf(req[r], loc[r].merged))
  BY <1>2 DEF RefsOf, Range
<1>4. k \in ObjectKeys /\ Rendered(k, req[r], loc[r], objects, labelled)
  BY <1>1, <1>3, DocumentsType DEF CarriesAt, Carries, Recording, Locals
<1>5. [plan |-> req[r].plan, params |-> loc[r].merged] \in Contents
  BY <1>1 DEF Locals, Contents
<1> QED
  BY <1>4, <1>5, DistinctnessAssumption DEF Rendered

LEMMA NextFInv ==
    ASSUME "getInstance" \notin Adverse, "label" \notin Adverse, "lostReply" \notin Adverse,
           "wrongService" \notin Adverse, UpdatesKeepDocuments,
           IInv, SInv, CInv, FInv, [Next]_vars
    PROVE  FInv'
<1>1. CASE Next
  <2>1. ASSUME NEW i \in Instances, records'[i] # NoRecord, records'[i].plan \in Retains,
               NEW k \in RefsOf(records'[i])
        PROVE  objects'[k] # NoObject
    <3>1. CASE records'[i] = records[i]
      <4>1. objects[k] # NoObject
        BY <2>1, <3>1 DEF FInv, RetainedLive
      <4> QED
        BY <1>1, <2>1, <3>1, <4>1, RetainedObjectStays DEF Destroyed
    <3>2. CASE records'[i] # records[i]
      <4>1. PICK r \in Requests :
               req[r].inst = i /\ pc[r] = "recPut" /\ records'[i] = RecordOf(r)
        BY <1>1, <2>1, <3>2, RecordChanges
      <4>2. k \in ObjectKeys /\ objects[k] # NoObject
        BY <2>1, <4>1, RecordedIsLive
      <4>3. ~Destroyed(k)
        <5> SUFFICES ASSUME Destroyed(k) PROVE FALSE
          OBVIOUS
        <5>1. PICK q \in Requests : InFlight(q) /\ req[q].inst = k[1] /\ pc[q] # "recPut"
          <6>1. PICK q \in Requests :
                   pc[q] \in {"undo", "delete"} /\ k = Head(loc[q].todo)
            BY <1>1, <4>2, ObjectGoes
          <6>2. loc[q].todo \in Seq(ObjectKeys) /\ loc[q].todo # <<>>
            BY <6>1, OwnSteady DEF Locals, Coherent
          <6>3. k[1] = req[q].inst
            BY <6>1, <6>2, OwnSteady, OwnedRest, WithinRest DEF Placed
          <6> QED
            BY <6>1, <6>3 DEF InFlight
        <5>2. k[1] = i
          <6>1. Within(RecordOf(r).refs, i, RecordOf(r).ns)
            BY <4>1, RecordOfPlaced
          <6> QED
            BY <2>1, <4>1, <6>1, WithinIsOwned DEF RefsOf, OwnedBy
        <5> QED
          BY <4>1, <5>1, <5>2 DEF SInv, Queued, InFlight
      <4> QED
        BY <4>2, <4>3 DEF Destroyed
    <3> QED
      BY <3>1, <3>2
  <2>2. RetainedLive'
    BY <2>1 DEF RetainedLive, RefsOf
  <2> QED
    BY <1>1, <2>2, NextRepeatable DEF FInv
<1>2. CASE UNCHANGED vars
  BY <1>2 DEF vars, FInv, RetainedLive, RepeatableAt, RefsOf
<1> QED
  BY <1>1, <1>2

\* What an error at the end of a deprovision leaves.
LEMMA ErrorLeavesRecord ==
    ASSUME "lostReply" \notin Adverse, IInv, SInv, FInv, Next, NEW r \in Requests,
           pc[r] \in {"delete", "label", "forget"}, Answers(r, "error")
    PROVE  records'[req[r].inst] # NoRecord
<1>1. /\ Handle(r) /\ pc'[r] = "idle" /\ loc'[r].code = "error"
      /\ req[r].op = "deprovision" /\ Coherent(pc[r], req[r], loc[r])
  BY AnsweredByHandler, OwnSteady DEF Answers, InFlight, Coherent
<1>2. records[req[r].inst] # NoRecord /\ (loc[r].code = "ok" \/ r \in hung)
  BY <1>1 DEF FInv, RepeatableAt, Repeatable, TearingDown
<1>3. \A call, input, l : call # "idle" => ~Continue(r, call, input, l)
  BY <1>1, ContinueFacts
<1>4. Label(r) \/ Delete(r) \/ Forget(r)
  BY <1>1 DEF Handle, ProvisionStep, LookupProvision, PrepareNamespace, UpdateStep,
     LookupUpdate, EngineReadUpdate, Compare, DeprovisionStep, FindService,
     LookupDeprovision, CheckBindings, FindNamespace, EngineReadDeprovision, Apply, ApplyGet,
     ApplyPut, Undo, Record, RecGet, RecPut
<1>5. CASE Label(r) \/ Delete(r)
  BY <1>2, <1>5 DEF Label, Delete, store
<1>6. CASE Forget(r)
  <2>1. ~Answer(r, loc[r].code)
    <3> SUFFICES ASSUME Answer(r, loc[r].code) PROVE FALSE
      OBVIOUS
    <3>1. loc'[r] = [NoLocals EXCEPT !.code = IF r \in hung THEN "lost" ELSE loc[r].code]
      BY AnswerFacts
    <3> QED
      BY <1>1, <1>2, <3>1 DEF NoLocals
  <2>2. UNCHANGED records
    BY <1>6, <2>1 DEF Forget
  <2> QED
    BY <1>2, <2>2
<1> QED
  BY <1>4, <1>5, <1>6

\* A DELETE answered with an error can be repeated: the record is still there.
\* It takes a label not to fail: the engine forgets the record all the same and
\* reports the label afterwards.  And it takes a DELETE that names the instance's
\* own service: under another one the objects of a retaining plan are deleted,
\* so that the next deprovision finds nothing to label.
THEOREM FailureIsRepeatable ==
    ASSUME "overlap" \notin Adverse, "getInstance" \notin Adverse, "label" \notin Adverse,
           "lostReply" \notin Adverse, "wrongService" \notin Adverse, UpdatesKeepDocuments
    PROVE  Spec => FailedDeprovisionIsRepeatable
<1> DEFINE A == \A r \in Requests :
                   pc[r] \in {"delete", "label", "forget"} /\ Answers(r, "error")
                   => records'[req[r].inst] # NoRecord
           J == IInv /\ SInv /\ CInv
<1>1. Init => FInv
  BY DEF Init, FInv, RetainedLive, RepeatableAt, Repeatable, TearingDown
<1>2. J /\ FInv /\ [Next]_vars => FInv'
  BY NextFInv
<1>3. J /\ FInv /\ [Next]_vars => [A]_vars
  BY ErrorLeavesRecord
<1>4. Spec => []J
  BY CInvHolds
<1> HIDE DEF A, J
<1>5. Spec => [][A]_vars
  BY <1>1, <1>2, <1>3, <1>4, PTL DEF Spec
<1> QED
  BY <1>5 DEF FailedDeprovisionIsRepeatable, A

-----------------------------------------------------------------------------
(* Nothing is left over. *)

\* Provision r will take k into its record, or take it down.
Answerable(r, k) ==
    /\ InFlight(r) /\ req[r].inst = k[1] /\ req[r].op = "provision"
    /\ \/ pc[r] \in Applying \union Recording /\ k \in Range(loc[r].applied)
       \/ pc[r] = "undo" /\ k \in Range(loc[r].todo)

OInv ==
    /\ hung = {}
    /\ \A k \in ObjectKeys :
          objects[k] # NoObject
          => k \in RefsOf(records[k[1]]) \union labelled \/ \E r \in Requests : Answerable(r, k)

LEMMA NobodyHangs ==
    ASSUME "hangup" \notin Adverse, IInv, hung = {}, [Next]_vars
    PROVE  hung' = {}
<1>1. ASSUME NEW q \in Requests, Arrive(q) \/ Handle(q)
      PROVE  hung' = {}
  <2>1. CASE \E call, input, l : Continue(q, call, input, l)
    BY <2>1 DEF Continue
  <2>2. CASE \E code : Answer(q, code)
    BY <2>2 DEF Answer
  <2> QED
    BY <1>1, <2>1, <2>2, ArriveIsOwn, HandleIsOwn, Zenon
<1> QED
  BY <1>1 DEF Next, HangUp, BindingAppears, BindingDisappears, Crash, vars

\* A document that appears has been applied by the handler at work on its instance.
LEMMA DocumentAppears ==
    ASSUME "crash" \notin Adverse, "lostReply" \notin Adverse,
           IInv, SInv, Next, NEW k \in ObjectKeys, objects'[k] # NoObject,
           objects'[k] # objects[k] \/ (k \in labelled /\ k \notin labelled')
    PROVE  \E q \in Requests :
              /\ pc[q] = "applyPut" /\ req[q].inst = k[1] /\ k = Head(loc[q].todo)
              /\ NextDocument(q) /\ UNCHANGED store
<1>1. PICK q \in Requests : InFlight(q) /\ req[q].inst = k[1] /\ pc[q] = "applyPut"
  BY KeyTouched
<1>2. Handle(q)
  <2>1. ~Undisturbed(q)
    BY <1>1 DEF Undisturbed, Kept
  <2> QED
    BY <1>1, <2>1, InFlightSteps DEF Crash
<1>3. ApplyPut(q)
  BY <1>1, <1>2 DEF Handle, ProvisionStep, LookupProvision, PrepareNamespace, UpdateStep,
     LookupUpdate, EngineReadUpdate, Compare, DeprovisionStep, FindService,
     LookupDeprovision, CheckBindings, FindNamespace, EngineReadDeprovision, Label, Delete,
     Forget, Apply, ApplyGet, Undo, Record, RecGet, RecPut
<1>4. ~UNCHANGED cluster
  BY DEF cluster
<1>5. Put(q, Head(loc[q].todo)) /\ NextDocument(q) /\ UNCHANGED store
  BY <1>3, <1>4 DEF ApplyPut
<1>6. objects \in [ObjectKeys -> Contents \union {NoObject}]
  BY DEF IInv, ObjectsOK
<1>7. k = Head(loc[q].todo)
  BY <1>5, <1>6 DEF Put
<1> QED
  BY <1>1, <1>5, <1>7

\* What an update applies its record already refers to.
LEMMA UpdatedIsRecorded ==
    ASSUME IInv, SInv, CInv, UpdatesKeepDocuments, NEW q \in Requests,
           req[q].op = "update", pc[q] \in Applying \union Recording
    PROVE  /\ records[req[q].inst] # NoRecord
           /\ RefsOf(records[req[q].inst]) = Range(DocumentsOf(req[q], loc[q].merged))
<1> DEFINE i   == req[q].inst
           rec == records[i]
<1>1. /\ rec # NoRecord /\ rec.ns = req[q].ns
      /\ req[q].plan = rec.plan \/ Movable(rec.plan, req[q].plan)
      /\ i \in Instances /\ req[q].plan \in Plans /\ loc[q] \in Locals
  BY OwnSteady DEF Updates, Inputs, Coherent, Applying, Recording
<1>2. rec \in Records /\ rec.refs = ManifestKeys(i, rec.ns, ContentOf(rec))
  BY <1>1 DEF IInv, RecordsOK, CInv, RecordsRender
<1>3. Docs[ContentOf(rec)] = Docs[Content(q)]
  BY <1>1, <1>2, SameDocuments
<1>4. rec.refs = DocumentsOf(req[q], loc[q].merged)
  BY <1>1, <1>2, <1>3 DEF ManifestKeys, DocumentsOf, Content
<1> QED
  BY <1>1, <1>4 DEF RefsOf, Range

LEMMA HeadOfSecond ==
    ASSUME NEW s \in Seq(ObjectKeys), NEW t \in Seq(ObjectKeys), t # <<>>
    PROVE  Head(t) \in Range(s \o t)
<1>1. Len(s) \in Nat /\ Len(t) \in Nat /\ Len(t) # 0 /\ Head(t) = t[1]
  BY LenProperties, EmptySeq, HeadTailProperties
<1>2. /\ s \o t \in Seq(ObjectKeys) /\ Len(s \o t) = Len(s) + Len(t)
      /\ \A n \in 1..(Len(s) + Len(t)) :
            (s \o t)[n] = IF n <= Len(s) THEN s[n] ELSE t[n - Len(s)]
  BY ConcatProperties
<1>3. /\ Len(s) + 1 \in 1..(Len(s) + Len(t)) /\ ~(Len(s) + 1 <= Len(s))
      /\ (Len(s) + 1) - Len(s) = 1
  BY <1>1
<1>4. (s \o t)[Len(s) + 1] = Head(t) /\ Len(s) + 1 \in DOMAIN (s \o t)
  BY <1>1, <1>2, <1>3, LenProperties
<1> QED
  BY <1>4 DEF Range

\* The handler that applies a document knows of it.
LEMMA AppearsAnswerable ==
    ASSUME IInv, SInv, CInv, UpdatesKeepDocuments, NEW q \in Requests, pc[q] = "applyPut",
           NextDocument(q), UNCHANGED store,
           NEW k \in ObjectKeys, req[q].inst = k[1], k = Head(loc[q].todo)
    PROVE  k \in RefsOf(records'[k[1]]) \/ Answerable(q, k)'
<1> DEFINE t == loc[q].todo
           s == loc[q].applied
           l == [loc[q] EXCEPT !.applied = Append(@, Head(loc[q].todo)), !.todo = Tail(@)]
<1>1. /\ loc[q] \in Locals /\ s \in Seq(ObjectKeys) /\ t \in Seq(ObjectKeys) /\ t # <<>>
      /\ req[q] \in Inputs /\ Coherent("applyPut", req[q], loc[q])
      /\ s \o t = DocumentsOf(req[q], loc[q].merged)
  BY OwnSteady DEF Coherent, Locals, CInv, CarriesAt, Carries, Applying
<1>2. CASE req[q].op = "update"
  <2>1. k \in Range(DocumentsOf(req[q], loc[q].merged))
    <3>1. Head(t) \in Range(s \o t)
      BY <1>1, HeadOfSecond
    <3> QED
      BY <1>1, <3>1
  <2>2. k \in RefsOf(records[k[1]])
    BY <1>2, <2>1, UpdatedIsRecorded DEF Applying
  <2> QED
    BY <2>2 DEF store
<1>3. CASE req[q].op = "provision"
  <2>1. l.applied = Append(s, k)
    BY <1>1 DEF Locals
  <2>2. k \in Range(l.applied)
    <3>1. Len(s) \in Nat /\ Len(Append(s, k)) = Len(s) + 1 /\ Append(s, k)[Len(s) + 1] = k
          /\ Append(s, k) \in Seq(ObjectKeys)
      BY <1>1, AppendProperties, LenProperties
    <3>2. Len(s) + 1 \in DOMAIN Append(s, k)
      BY <3>1, LenProperties
    <3> QED
      BY <2>1, <3>1, <3>2 DEF Range
  <2>3. \E call \in {"applyGet", "recGet"} : Continue(q, call, req[q], l)
    BY <1>3 DEF NextDocument, AfterApply, Goto
  <2> HIDE DEF l
  <2>4. pc'[q] \in {"applyGet", "recGet"} /\ req'[q] = req[q] /\ loc'[q] = l
    BY <2>3, ContinueFacts
  <2> QED
    BY <1>3, <2>2, <2>4 DEF Answerable, InFlight, Applying, Recording
<1> QED
  BY <1>1, <1>2, <1>3 DEF Coherent

\* A provision that fails takes down what it has applied.
LEMMA AbandonAnswerable ==
    ASSUME IInv, NEW r \in Requests, NEW code, Abandon(r, code),
           req[r].op = "provision", NEW k, k \in Range(loc[r].applied), req[r].inst = k[1]
    PROVE  Answerable(r, k)'
<1> DEFINE l == [loc[r] EXCEPT !.todo = loc[r].applied, !.code = code]
<1>1. loc[r].applied # <<>> /\ l.todo = loc[r].applied
  BY OwnState DEF IInv, Locals, Range
<1>2. Continue(r, "undo", req[r], l)
  BY <1>1 DEF Abandon, Goto
<1> HIDE DEF l
<1>3. pc'[r] = "undo" /\ req'[r] = req[r] /\ loc'[r] = l
  BY <1>2, ContinueFacts
<1> QED
  BY <1>1, <1>3 DEF Answerable, InFlight

\* It answers for them until they are recorded or gone.
LEMMA AnswerableMoves ==
    ASSUME "delete" \notin Adverse, "lostReply" \notin Adverse,
           IInv, SInv, CInv, OInv, UpdatesKeepDocuments,
           NEW r \in Requests, Handle(r), NEW k \in ObjectKeys, Answerable(r, k),
           objects'[k] # NoObject
    PROVE  Answerable(r, k)' \/ k \in RefsOf(records'[k[1]])
<1>1. /\ req[r].op = "provision" /\ req[r].inst = k[1] /\ k[1] \in Instances /\ r \notin hung
      /\ loc[r] \in Locals /\ Coherent(pc[r], req[r], loc[r])
  BY OwnSteady DEF Answerable, OInv, Inputs
<1>2. ASSUME NEW call \in Applying \union Recording, NEW l, Continue(r, call, req[r], l),
             k \in Range(l.applied)
      PROVE  Answerable(r, k)'
  <2>1. pc'[r] = call /\ req'[r] = req[r] /\ loc'[r] = l
    BY <1>2, ContinueFacts
  <2> QED
    BY <1>1, <1>2, <2>1 DEF Answerable, InFlight, Applying, Recording
<1>3. CASE pc[r] \in Applying \union Recording
  <2>1. k \in Range(loc[r].applied)
    BY <1>3 DEF Answerable, Applying, Recording
  <2>2. \A code : Abandon(r, code) => Answerable(r, k)'
    BY <1>1, <2>1, AbandonAnswerable
  <2>3. CASE ApplyGet(r)
    <3> DEFINE l == [loc[r] EXCEPT !.found = objects[Head(loc[r].todo)] # NoObject]
    <3>1. l.applied = loc[r].applied
      BY <1>1 DEF Locals
    <3>2. Continue(r, "applyPut", req[r], l) \/ Abandon(r, "error")
      BY <2>3 DEF ApplyGet, Goto
    <3> HIDE DEF l
    <3> QED
      BY <1>2, <2>1, <2>2, <3>1, <3>2 DEF Applying
  <2>4. CASE ApplyPut(r)
    <3> DEFINE l == [loc[r] EXCEPT !.applied = Append(@, Head(loc[r].todo)), !.todo = Tail(@)]
    <3>1. l.applied = Append(loc[r].applied, Head(loc[r].todo))
      BY <1>1 DEF Locals
    <3>2. k \in Range(l.applied)
      <4>1. /\ loc[r].applied \in Seq(ObjectKeys) /\ Head(loc[r].todo) \in ObjectKeys
        BY <1>1, <2>4, HeadTailProperties DEF Locals, Coherent, ApplyPut
      <4>2. PICK n \in DOMAIN loc[r].applied : loc[r].applied[n] = k
        BY <2>1 DEF Range
      <4>3. n \in DOMAIN l.applied /\ l.applied[n] = k
        BY <3>1, <4>1, <4>2, AppendProperties, LenProperties
      <4> QED
        BY <4>3 DEF Range
    <3>3. \/ \E code : Abandon(r, code)
          \/ \E call \in {"applyGet", "recGet"} : Continue(r, call, req[r], l)
      BY <1>1, <2>4 DEF ApplyPut, NextDocument, AfterApply, Goto
    <3> HIDE DEF l
    <3> QED
      BY <1>2, <2>2, <3>2, <3>3 DEF Applying, Recording
  <2>5. CASE RecGet(r)
    <3> DEFINE l == [loc[r] EXCEPT !.found = records[req[r].inst] # NoRecord]
    <3>1. l.applied = loc[r].applied
      BY <1>1 DEF Locals
    <3>2. Continue(r, "recPut", req[r], l) \/ Abandon(r, "error")
      BY <2>5 DEF RecGet, Goto
    <3> HIDE DEF l
    <3> QED
      BY <1>2, <2>1, <2>2, <3>1, <3>2 DEF Recording
  <2>6. CASE RecPut(r)
    <3>1. CASE records' = [records EXCEPT ![req[r].inst] = RecordOf(r)]
      <4>1. /\ pc[r] = "recPut" /\ CarriesAt(r) /\ loc[r].applied # <<>>
        BY <1>1, <2>6 DEF RecPut, CInv, Coherent
      <4>2. loc[r].applied = DocumentsOf(req[r], loc[r].merged)
        BY <4>1 DEF CarriesAt, Carries, Recording
      <4>3. RecordOf(r).refs = loc[r].applied /\ RecordOf(r) # NoRecord
        BY <4>1, <4>2, RecordOfRenders, RecordOfOK, DistinctnessAssumption DEF CInv, IInv
      <4>4. records'[k[1]] = RecordOf(r)
        BY <1>1, <3>1 DEF IInv, RecordsOK
      <4> QED
        BY <2>1, <4>3, <4>4 DEF RefsOf, Range
    <3>2. CASE \E code : Abandon(r, code)
      BY <2>2, <3>2
    <3> QED
      BY <2>6, <3>1, <3>2 DEF RecPut
  <2> QED
    BY <1>3, <2>3, <2>4, <2>5, <2>6 DEF Applying, Recording, Handle, ProvisionStep,
       LookupProvision, PrepareNamespace, UpdateStep, LookupUpdate, EngineReadUpdate, Compare,
       DeprovisionStep, FindService, LookupDeprovision, CheckBindings, FindNamespace,
       EngineReadDeprovision, Label, Delete, Forget, Apply, Undo, Record
<1>4. CASE pc[r] = "undo"
  <2> DEFINE t == loc[r].todo
             l == [loc[r] EXCEPT !.todo = Tail(t)]
  <2>1. /\ k \in Range(t) /\ t \in Seq(ObjectKeys) /\ t # <<>>
        /\ objects \in [ObjectKeys -> Contents \union {NoObject}]
    BY <1>1, <1>4 DEF Answerable, Applying, Recording, Locals, Coherent, IInv, ObjectsOK
  <2>2. Undo(r)
    BY <1>4 DEF Handle, ProvisionStep, LookupProvision, PrepareNamespace, UpdateStep,
       LookupUpdate, EngineReadUpdate, Compare, DeprovisionStep, FindService,
       LookupDeprovision, CheckBindings, FindNamespace, EngineReadDeprovision, Label, Delete,
       Forget, Apply, ApplyGet, ApplyPut, Record, RecGet, RecPut
  <2>3. /\ Remove(r, Head(t))
        /\ Tail(t) # <<>> => Continue(r, "undo", req[r], l)
    BY <1>1, <2>2 DEF Undo, Fails, Goto
  <2>4. k # Head(t)
    BY <2>1, <2>3 DEF Remove
  <2>5. k \in Range(Tail(t)) /\ Tail(t) # <<>>
    <3>1. k \in Range(Tail(t))
      BY <2>1, <2>4, MoveOne
    <3>2. Range(<<>>) = {}
      BY DEF Range
    <3> QED
      BY <3>1, <3>2
  <2>6. l.todo = Tail(t)
    BY <1>1 DEF Locals
  <2> HIDE DEF l
  <2>7. pc'[r] = "undo" /\ req'[r] = req[r] /\ loc'[r] = l
    BY <2>3, <2>5, ContinueFacts
  <2> QED
    BY <1>1, <2>5, <2>6, <2>7 DEF Answerable, InFlight
<1> QED
  BY <1>3, <1>4 DEF Answerable

\* A record keeps what it refers to until it goes.
LEMMA ReferencesStay ==
    ASSUME "getInstance" \notin Adverse, IInv, SInv, CInv, TInv, OInv, UpdatesKeepDocuments, Next,
           NEW i \in Instances, NEW k \in RefsOf(records[i])
    PROVE  k \in RefsOf(records'[i]) \/ objects'[k] = NoObject \/ k \in labelled'
<1>1. CASE records'[i] = NoRecord
  BY <1>1, ForgottenGoes
<1>2. CASE records'[i] # NoRecord /\ records'[i] # records[i]
  <2>1. PICK r \in Requests : /\ req[r].inst = i /\ r \notin hung
                              /\ pc[r] = "recPut" /\ records'[i] = RecordOf(r)
    BY <1>2, RecordChanges
  <2>2. records[i] # NoRecord
    BY DEF RefsOf
  <2>3. req[r].op = "update"
    BY <2>1, <2>2, OwnSteady DEF Provisions, Coherent, Recording
  <2>4. RefsOf(records[i]) = Range(DocumentsOf(req[r], loc[r].merged))
    BY <2>1, <2>3, UpdatedIsRecorded DEF Recording
  <2>5. RefsOf(RecordOf(r)) = Range(DocumentsOf(req[r], loc[r].merged))
    BY <1>2, <2>1, RecordOfRenders DEF CInv, RefsOf, Range
  <2> QED
    BY <2>1, <2>4, <2>5
<1> QED
  BY <1>1, <1>2

LEMMA NextOInv ==
    ASSUME "getInstance" \notin Adverse, "delete" \notin Adverse, "lostReply" \notin Adverse,
           "crash" \notin Adverse, "hangup" \notin Adverse, UpdatesKeepDocuments,
           IInv, SInv, CInv, TInv, OInv, [Next]_vars
    PROVE  OInv'
<1>1. hung' = {}
  BY NobodyHangs DEF OInv
<1>2. ASSUME Next, NEW k \in ObjectKeys, objects'[k] # NoObject
      PROVE  k \in RefsOf(records'[k[1]]) \union labelled' \/ \E r \in Requests : Answerable(r, k)'
  <2>1. CASE objects'[k] # objects[k] \/ (k \in labelled /\ k \notin labelled')
    <3>1. PICK q \in Requests :
             /\ pc[q] = "applyPut" /\ req[q].inst = k[1] /\ k = Head(loc[q].todo)
             /\ NextDocument(q) /\ UNCHANGED store
      BY <1>2, <2>1, DocumentAppears
    <3> QED
      BY <3>1, AppearsAnswerable
  <2>2. CASE objects'[k] = objects[k] /\ (k \in labelled => k \in labelled')
    <3>1. \/ k \in RefsOf(records[k[1]]) \/ k \in labelled
          \/ \E r \in Requests : Answerable(r, k)
      BY <1>2, <2>2 DEF OInv
    <3>2. CASE k \in RefsOf(records[k[1]])
      <4>1. k[1] \in Instances
        BY DEF ObjectKeys
      <4> QED
        BY <1>2, <3>2, <4>1, ReferencesStay
    <3>3. ASSUME NEW r \in Requests, Answerable(r, k)
          PROVE  Answerable(r, k)' \/ k \in RefsOf(records'[k[1]])
      <4>1. CASE Handle(r)
        BY <1>2, <3>3, <4>1, AnswerableMoves
      <4>2. CASE Undisturbed(r)
        BY <3>3, <4>2 DEF Answerable, Undisturbed, InFlight
      <4> QED
        BY <1>2, <3>3, <4>1, <4>2, InFlightSteps DEF Answerable, Crash
    <3> QED
      BY <2>2, <3>1, <3>2, <3>3
  <2> QED
    BY <2>1, <2>2
<1>3. CASE Next
  <2>1. ASSUME NEW k \in ObjectKeys
        PROVE  /\ RefsOf(records[k[1]])' = RefsOf(records'[k[1]])
    BY DEF RefsOf
  <2> QED
    BY <1>1, <1>2, <1>3, <2>1 DEF OInv
<1>4. CASE UNCHANGED vars
  BY <1>4 DEF vars, OInv, Answerable, InFlight, RefsOf
<1> QED
  BY <1>3, <1>4

\* Nothing runs that no record leads to: once no handler is at work on an
\* instance, its objects are in its record or were retained, whichever document
\* or record could not be written.  A handler that is cut off, a delete that
\* fails, a label that is not set or a write whose reply is lost leave orphans
\* behind: TLC has a counterexample for each of them.
THEOREM NothingIsOrphaned ==
    ASSUME "overlap" \notin Adverse, "getInstance" \notin Adverse, "label" \notin Adverse,
           "delete" \notin Adverse, "lostReply" \notin Adverse,
           "crash" \notin Adverse, "hangup" \notin Adverse, UpdatesKeepDocuments
    PROVE  Spec => []NoOrphans
<1> DEFINE J == IInv /\ SInv /\ CInv /\ TInv
<1>1. Init => OInv
  BY DEF Init, OInv
<1>2. J /\ OInv /\ [Next]_vars => OInv'
  BY NextOInv
<1>3. Spec => []J
  BY CInvHolds, TInvHolds, PTL
<1>4. OInv => NoOrphans
  BY DEF OInv, NoOrphans, LiveObjects, Answerable, Quiet
<1> HIDE DEF J
<1> QED
  BY <1>1, <1>2, <1>3, <1>4, PTL DEF Spec
=============================================================================
