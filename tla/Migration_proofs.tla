-------------------------- MODULE Migration_proofs --------------------------
(***************************************************************************)
(* The safety of the migration for any ConfigMap and any number of aborted *)
(* runs.  Both properties rest on what a run in progress has behind it     *)
(* (Progress): the entries it has come past have arrived.                  *)
(***************************************************************************)
EXTENDS Migration, TLAPS

\* What a run that writes has come past, it has written.
Progress ==
    /\ phase \in {"copying", "transferred"} /\ ~dryRun
       => \A k \in Entries : k \notin left => Arrived(k)
    /\ phase = "transferred" => left = {}

\* The ConfigMap is deleted only after a transfer.
Deleted == source = "deleted" => \A k \in Entries : Arrived(k)

IInv == TypeOK /\ Progress /\ Deleted /\ BindingsFollowInstances

\* The id of an entry is an id.
LEMMA EntryIds == \A k \in Entries : IdOf(k) \in Ids
  BY MigrationAssumption, LegacyAssumption DEF IdOf, Entries, Keys

\* IInv holds before the first run.
LEMMA InitIInv == Init => IInv
<1> SUFFICES ASSUME Init PROVE IInv OBVIOUS
<1>0. faults \in 0..MaxFaults /\ counted \in Nat
  BY MigrationAssumption DEF Init
<1>1. TypeOK BY <1>0 DEF Init, TypeOK, Over
<1>2. Progress /\ Deleted BY DEF Init, Progress, Deleted
<1>3. BindingsFollowInstances
  BY MigrationAssumption DEF Init, BindingsFollowInstances, Ids
<1> QED BY <1>1, <1>2, <1>3 DEF IInv

\* A record that is written and none that is removed keeps what has arrived.
LEMMA ArrivedKept ==
    ASSUME TypeOK, NEW x \in Ids, NEW v \in {"legacy", "current"},
           records' \in {records, [records EXCEPT ![x] = v]}, gone' = gone
    PROVE  /\ records' \in [Ids -> {"none", "legacy", "current"}]
           /\ \A y \in Ids : records[y] # "none" => records'[y] # "none"
           /\ \A k \in Entries : Arrived(k) => Arrived(k)'
  BY EntryIds DEF TypeOK, Arrived, IdOf

\* The same, if the id of x's kind is written in its turn: its instance is there.
LEMMA CopyKeepsOrder ==
    ASSUME IInv, NEW k \in Entries, phase = "copying", ~dryRun, InOrder(k),
           k \in left,
           records' \in {records, [records EXCEPT ![IdOf(k)] = "legacy"]},
           gone' = gone
    PROVE  BindingsFollowInstances'
<1>1. IdOf(k) \in Ids BY EntryIds
<1>2. \A y \in Ids : records[y] # "none" => records'[y] # "none"
  BY <1>1, ArrivedKept DEF IInv
<1>3. ASSUME NEW b \in BindingIds, records'[b] # "none", InstanceOf[b] \notin gone
      PROVE  records'[InstanceOf[b]] # "none"
  <2>1. InstanceOf[b] \in Ids /\ b \in Ids BY MigrationAssumption DEF Ids
  <2>2. CASE records[b] # "none"
    BY <2>1, <2>2, <1>2, <1>3 DEF IInv, BindingsFollowInstances
  <2>3. CASE records[b] = "none"
    <3>1. b = IdOf(k) BY <2>1, <2>3, <1>1, <1>3 DEF IInv, TypeOK
    <3>2. k \in BindingIds
      BY <3>1, LegacyAssumption, MigrationAssumption DEF Entries, Ids, Keys
    <3>3. left \cap InstanceIds = {} BY <3>2 DEF InOrder
    <3>4. PICK l \in Entries : IdOf(l) = InstanceOf[b]
      BY <3>1, <3>2, LegacyAssumption
    <3>5. l \in InstanceIds BY <3>4, LegacyAssumption, MigrationAssumption
    <3>6. Arrived(l) BY <3>3, <3>5 DEF IInv, Progress
    <3> QED BY <3>4, <3>6, <1>2, <1>3, <2>1 DEF Arrived
  <2> QED BY <2>2, <2>3
<1> QED BY <1>3 DEF BindingsFollowInstances

\* One step keeps IInv.
LEMMA NextIInv == IInv /\ [Next]_vars => IInv'
<1> SUFFICES ASSUME IInv, [Next]_vars PROVE IInv' OBVIOUS
<1>1. CASE Start
  <2>1. UNCHANGED <<source, records, gone>> BY <1>1 DEF Start
  <2>2. TypeOK' BY <1>1 DEF Start, IInv, TypeOK, Over
  <2>3. Progress' BY <1>1 DEF Start, Progress
  <2>4. Deleted' BY <2>1 DEF IInv, Deleted, Arrived
  <2>5. BindingsFollowInstances' BY <2>1 DEF IInv, BindingsFollowInstances
  <2> QED BY <2>2, <2>3, <2>4, <2>5 DEF IInv
<1>2. CASE Read
  <2>1. UNCHANGED <<source, records, gone>> BY <1>2 DEF Read
  <2>2. TypeOK' BY <1>2, MigrationAssumption DEF Read, Fault, IInv, TypeOK, Over
  <2>3. Progress' BY <1>2 DEF Read, Progress, Entries
  <2>4. Deleted' BY <2>1 DEF IInv, Deleted, Arrived
  <2>5. BindingsFollowInstances' BY <2>1 DEF IInv, BindingsFollowInstances
  <2> QED BY <2>2, <2>3, <2>4, <2>5 DEF IInv
<1>3. ASSUME NEW k \in Keys, Copy(k) PROVE IInv'
  <2>0. phase = "copying" /\ k \in left /\ InOrder(k) BY <1>3 DEF Copy
  <2>1. CASE Entry[k] = Nil \/ dryRun
    <3>1. UNCHANGED <<source, records, gone, phase, dryRun>> /\ left' = left \ {k}
      BY <1>3, <2>1 DEF Copy
    <3>2. TypeOK' BY <1>3, <2>1, <3>1 DEF Copy, IInv, TypeOK
    <3>3. Progress'
      BY <2>0, <2>1, <3>1 DEF IInv, Progress, Arrived, Entries
    <3>4. Deleted' BY <3>1 DEF IInv, Deleted, Arrived
    <3>5. BindingsFollowInstances' BY <3>1 DEF IInv, BindingsFollowInstances
    <3> QED BY <3>2, <3>3, <3>4, <3>5 DEF IInv
  <2>2. CASE Entry[k] # Nil /\ ~dryRun
    <3>1. k \in Entries BY <2>2 DEF Entries
    <3>2. IdOf(k) \in Ids BY <3>1, EntryIds
    <3>3. /\ records' \in {records, [records EXCEPT ![IdOf(k)] = "legacy"]}
          /\ UNCHANGED <<source, gone, dryRun>>
      BY <1>3, <2>2 DEF Copy
    <3>4. /\ records' \in [Ids -> {"none", "legacy", "current"}]
          /\ \A y \in Ids : records[y] # "none" => records'[y] # "none"
          /\ \A l \in Entries : Arrived(l) => Arrived(l)'
      BY <3>2, <3>3, ArrivedKept DEF IInv
    <3>5. TypeOK'
      BY <1>3, <2>2, <3>3, <3>4, MigrationAssumption
      DEF Copy, AfterError, Fault, IInv, TypeOK, Over
    <3>6. Progress'
      <4>1. CASE /\ records' = [records EXCEPT ![IdOf(k)] = "legacy"]
                 /\ left' = left \ {k} /\ phase' = phase
        <5>1. Arrived(k)' BY <4>1, <3>2 DEF IInv, TypeOK, Arrived, IdOf
        <5> QED BY <4>1, <5>1, <2>0, <3>3, <3>4 DEF IInv, Progress
      <4>2. CASE phase' = "failed" BY <4>2 DEF Progress
      <4> QED BY <1>3, <2>2, <4>1, <4>2 DEF Copy, AfterError
    <3>7. Deleted' BY <3>3, <3>4 DEF IInv, Deleted
    <3>8. BindingsFollowInstances'
      BY <2>0, <2>2, <3>1, <3>3, CopyKeepsOrder
    <3> QED BY <3>5, <3>6, <3>7, <3>8 DEF IInv
  <2> QED BY <1>3, <2>1, <2>2 DEF Copy
<1>4. CASE Finish
  <2>1. UNCHANGED <<source, records, gone, dryRun, left>> BY <1>4 DEF Finish
  <2>2. TypeOK' BY <1>4 DEF Finish, IInv, TypeOK, Over
  <2>3. Progress' BY <1>4, <2>1 DEF Finish, IInv, Progress, Arrived
  <2>4. Deleted' BY <2>1 DEF IInv, Deleted, Arrived
  <2>5. BindingsFollowInstances' BY <2>1 DEF IInv, BindingsFollowInstances
  <2> QED BY <2>2, <2>3, <2>4, <2>5 DEF IInv
<1>5. CASE Crash
  <2>1. UNCHANGED <<source, records, gone>> /\ phase' = "failed"
    BY <1>5 DEF Crash
  <2>2. TypeOK' BY <1>5, MigrationAssumption DEF Crash, Fault, IInv, TypeOK, Over
  <2>3. Progress' BY <2>1 DEF Progress
  <2>4. Deleted' BY <2>1 DEF IInv, Deleted, Arrived
  <2>5. BindingsFollowInstances' BY <2>1 DEF IInv, BindingsFollowInstances
  <2> QED BY <2>2, <2>3, <2>4, <2>5 DEF IInv
<1>6. CASE DeleteConfigMap
  <2>1. UNCHANGED <<records, gone, phase, dryRun, left>>
    BY <1>6 DEF DeleteConfigMap, run
  <2>2. TypeOK' BY <1>6 DEF DeleteConfigMap, run, IInv, TypeOK
  <2>3. Progress' BY <2>1 DEF IInv, Progress, Arrived
  <2>4. Deleted' BY <1>6, <2>1 DEF DeleteConfigMap, IInv, Progress, Deleted, Arrived
  <2>5. BindingsFollowInstances' BY <2>1 DEF IInv, BindingsFollowInstances
  <2> QED BY <2>2, <2>3, <2>4, <2>5 DEF IInv
<1>7. ASSUME NEW i \in Ids, BrokerUpdates(i) PROVE IInv'
  <2>1. /\ records' = [records EXCEPT ![i] = "current"]
        /\ UNCHANGED <<source, gone, phase, dryRun, left, counted, faults>>
    BY <1>7 DEF BrokerUpdates, run
  <2>2. /\ records' \in [Ids -> {"none", "legacy", "current"}]
        /\ \A y \in Ids : records[y] # "none" => records'[y] # "none"
        /\ \A k \in Entries : Arrived(k) => Arrived(k)'
    BY <2>1, ArrivedKept DEF IInv
  <2>3. TypeOK' BY <2>1, <2>2 DEF IInv, TypeOK
  <2>4. Progress' BY <2>1, <2>2 DEF IInv, Progress
  <2>5. Deleted' BY <2>1, <2>2 DEF IInv, Deleted
  <2>6. \A b \in BindingIds : records'[b] # "none" => records[b] # "none"
    BY <1>7, <2>1, MigrationAssumption DEF BrokerUpdates, IInv, TypeOK, Ids
  <2>7. \A b \in BindingIds : InstanceOf[b] \in Ids
    BY MigrationAssumption DEF Ids
  <2>8. BindingsFollowInstances'
    BY <2>1, <2>2, <2>6, <2>7 DEF IInv, BindingsFollowInstances
  <2> QED BY <2>3, <2>4, <2>5, <2>8 DEF IInv
<1>8. ASSUME NEW i \in Ids, BrokerDeletes(i) PROVE IInv'
  <2>1. /\ records' = [records EXCEPT ![i] = "none"]
        /\ gone' = gone \union {i}
        /\ UNCHANGED <<source, phase, dryRun, left, counted, faults>>
    BY <1>8 DEF BrokerDeletes, run
  <2>2. TypeOK' BY <2>1 DEF IInv, TypeOK
  <2>3. \A k \in Entries : Arrived(k) => Arrived(k)'
    BY <2>1, EntryIds DEF IInv, TypeOK, Arrived, IdOf
  <2>4. Progress' BY <2>1, <2>3 DEF IInv, Progress
  <2>5. Deleted' BY <2>1, <2>3 DEF IInv, Deleted
  <2>6. \A b \in BindingIds : InstanceOf[b] \in Ids /\ b \in Ids
    BY MigrationAssumption DEF Ids
  <2>7. BindingsFollowInstances'
    BY <2>1, <2>6 DEF IInv, TypeOK, BindingsFollowInstances
  <2> QED BY <2>2, <2>4, <2>5, <2>7 DEF IInv
<1>9. CASE UNCHANGED vars
  BY <1>9 DEF vars, IInv, TypeOK, Progress, Deleted, BindingsFollowInstances, Arrived
<1> QED
  BY <1>1, <1>2, <1>3, <1>4, <1>5, <1>6, <1>7, <1>8, <1>9 DEF Next, Step

LEMMA AlwaysIInv == Spec => []IInv
  BY InitIInv, NextIInv, PTL DEF Spec

\* Whatever was aborted and repeated, a run that reports a transfer leaves every
\* record of the ConfigMap in the store.
THEOREM TransferComplete == Spec => []NothingLost
<1>1. IInv => NothingLost
  BY DEF IInv, Progress, Deleted, NothingLost
<1> QED BY <1>1, AlwaysIInv, PTL

\* No interruption leaves a binding whose instance is still to come.
THEOREM InstancesFirst == Spec => []BindingsFollowInstances
<1>1. IInv => BindingsFollowInstances BY DEF IInv
<1> QED BY <1>1, AlwaysIInv, PTL
=============================================================================
