------------------------------ MODULE Migration ------------------------------
(***************************************************************************)
(* osb-state-migrate: it copies the records of the old state ConfigMap to  *)
(* the CRD store, one put per record, and aborts at the first error; the   *)
(* operator then runs it again.  A broker on the same store may already be *)
(* answering requests, and the operator deletes the ConfigMap in the end.  *)
(***************************************************************************)
EXTENDS Naturals, FiniteSets

CONSTANTS
    InstanceIds, BindingIds,
    InstanceOf,         \* [BindingIds -> InstanceIds]
    Entry,              \* the ConfigMap: [keys -> the ID field, NoId or Nil]
    NoId,               \* the ID field is empty
    Nil,                \* the key's value is null
    MaxFaults           \* bound: calls that fail, replies lost and crashes

Ids == InstanceIds \union BindingIds

Keys == DOMAIN Entry

\* A key is what its record is found by if the record does not name itself.
IdOf(k) == IF Entry[k] = NoId THEN k ELSE Entry[k]

\* The records to be transferred.
Entries == {k \in Keys : Entry[k] # Nil}

ASSUME MigrationAssumption ==
    /\ Keys \subseteq Ids
    /\ InstanceIds \cap BindingIds = {}
    /\ InstanceOf \in [BindingIds -> InstanceIds]
    /\ NoId \notin Ids /\ Nil \notin Ids /\ NoId # Nil
    /\ MaxFaults \in Nat

\* What the old store wrote: an entry's id is that of its key's kind, no two
\* entries have the same, and a binding's instance is there.
ASSUME LegacyAssumption ==
    /\ \A k \in Entries : Entry[k] \in Ids \union {NoId}
    /\ \A k \in Entries : IdOf(k) \in InstanceIds <=> k \in InstanceIds
    /\ \A k, l \in Entries : IdOf(k) = IdOf(l) => k = l
    /\ \A k \in Entries \cap BindingIds :
          \E l \in Entries : IdOf(l) = InstanceOf[IdOf(k)]

VARIABLES
    source,     \* the ConfigMap: "present", "absent", "garbled" or "deleted"
    records,    \* [Ids -> "none", "legacy" (as migrated) or "current"]
    gone,       \* history: ids whose record the broker has deleted
    phase,      \* "idle", "reading", "copying", or how the run ended:
                \*   "transferred", "nothing" (no source), "failed"
    dryRun,     \* the run only counts
    left,       \* keys the run has not come to
    counted,    \* report.Instances + report.Bindings
    faults      \* faults so far

vars == <<source, records, gone, phase, dryRun, left, counted, faults>>

run == <<phase, dryRun, left, counted>>

Over == {"transferred", "nothing", "failed"}

Init ==
    /\ source \in {"present", "absent", "garbled"}
    /\ records = [i \in Ids |-> "none"]
    /\ gone = {}
    /\ phase = "idle" /\ dryRun = FALSE
    /\ left = {} /\ counted = 0
    /\ faults = 0

Fault == faults < MaxFaults /\ faults' = faults + 1

-----------------------------------------------------------------------------
(* One run.                                                                *)

Start ==
    /\ phase \in Over \union {"idle"}
    /\ phase' = "reading"
    /\ dryRun' \in BOOLEAN
    /\ left' = {} /\ counted' = 0
    /\ UNCHANGED <<source, records, gone, faults>>

\* NotFound, no such key in it, or an empty value.
NotThere == source \in {"absent", "deleted"}

Read ==
    /\ phase = "reading"
    /\ \/ /\ source = "present"
          /\ phase' = "copying" /\ left' = Keys
          /\ UNCHANGED faults
       \/ /\ NotThere
          /\ phase' = "nothing"
          /\ UNCHANGED <<left, faults>>
       \/ /\ source = "garbled"
          /\ phase' = "failed"
          /\ UNCHANGED <<left, faults>>
       \/ Fault /\ phase' = "failed" /\ UNCHANGED left
    /\ UNCHANGED <<source, records, gone, dryRun, counted>>

\* Mutant of InOrder: one loop over all entries.
AnyOrder(k) == TRUE

\* Map order, but the bindings' loop comes after the instances'.
InOrder(k) == k \in BindingIds => left \cap InstanceIds = {}

\* Mutant of Stored: the record is created and an existing one refused.
CreatedOnly(k) == records[IdOf(k)] = "none"

\* PutInstance and PutBinding create the object or update it.
Stored(k) == TRUE

\* Mutant of AfterError: the run goes on with the next record.
GoOn(k) == phase' = phase /\ left' = left \ {k} /\ counted' = counted + 1

\* return report, err
AfterError(k) == phase' = "failed" /\ counted' = counted + 1 /\ UNCHANGED left

Copy(k) ==
    /\ phase = "copying"
    /\ k \in left /\ InOrder(k)
    /\ \/ /\ Entry[k] = Nil \/ dryRun
          /\ left' = left \ {k}
          /\ counted' = counted + (IF Entry[k] = Nil THEN 0 ELSE 1)
          /\ UNCHANGED <<records, phase, faults>>
       \/ /\ Entry[k] # Nil /\ ~dryRun
          /\ \/ /\ Stored(k)
                /\ records' = [records EXCEPT ![IdOf(k)] = "legacy"]
                /\ left' = left \ {k} /\ counted' = counted + 1
                /\ UNCHANGED <<phase, faults>>
             \/ /\ IF Stored(k)                     \* with or without effect
                   THEN /\ Fault
                        /\ records' \in {records, [records EXCEPT ![IdOf(k)] = "legacy"]}
                   ELSE UNCHANGED <<records, faults>>
                /\ AfterError(k)
    /\ UNCHANGED <<source, gone, dryRun>>

Finish ==
    /\ phase = "copying" /\ left = {}
    /\ phase' = "transferred"
    /\ UNCHANGED <<source, records, gone, dryRun, left, counted, faults>>

\* The process is killed; nobody reads a report.
Crash ==
    /\ phase \in {"reading", "copying"}
    /\ Fault
    /\ phase' = "failed"
    /\ UNCHANGED <<source, records, gone, dryRun, left, counted>>

-----------------------------------------------------------------------------
(* The operator and a broker that already runs.                            *)

\* "Nach einer erfolgreichen Pruefung loeschen": after a report of transfer.
DeleteConfigMap ==
    /\ phase = "transferred" /\ ~dryRun
    /\ source = "present"
    /\ source' = "deleted"
    /\ UNCHANGED <<records, gone, run, faults>>

BrokerUpdates(i) ==
    /\ i \in InstanceIds /\ records[i] = "legacy"
    /\ records' = [records EXCEPT ![i] = "current"]
    /\ UNCHANGED <<source, gone, run, faults>>

\* An unbind, or the deprovision of an instance that has no bindings.
BrokerDeletes(i) ==
    /\ records[i] # "none"
    /\ \A b \in BindingIds : InstanceOf[b] = i => records[b] = "none"
    /\ records' = [records EXCEPT ![i] = "none"]
    /\ gone' = gone \union {i}
    /\ UNCHANGED <<source, run, faults>>

Step == Start \/ Read \/ (\E k \in Keys : Copy(k)) \/ Finish

Next ==
    \/ Step
    \/ Crash
    \/ DeleteConfigMap
    \/ \E i \in Ids : BrokerUpdates(i) \/ BrokerDeletes(i)

Spec == Init /\ [][Next]_vars

\* A run goes on, and one that failed is repeated.
FairSpec ==
    /\ Spec
    /\ WF_vars(Read) /\ WF_vars(\E k \in Keys : Copy(k)) /\ WF_vars(Finish)
    /\ WF_vars(phase \in {"idle", "failed"} /\ Start)

-----------------------------------------------------------------------------
(* Properties.                                                             *)

\* The variables have the types their comments give.
TypeOK ==
    /\ source \in {"present", "absent", "garbled", "deleted"}
    /\ records \in [Ids -> {"none", "legacy", "current"}]
    /\ gone \subseteq Ids
    /\ phase \in Over \union {"idle", "reading", "copying"}
    /\ dryRun \in BOOLEAN
    /\ left \subseteq Keys
    /\ counted \in Nat
    /\ faults \in 0..MaxFaults

\* The record of k has arrived, and only the broker has removed one since.
Arrived(k) == records[IdOf(k)] # "none" \/ IdOf(k) \in gone

\* Once a run has reported a transfer, and when the ConfigMap, "die einzige
\* Rueckfallebene", is deleted on the strength of it, every record of the
\* ConfigMap is in the store, whatever was aborted and repeated before.
NothingLost ==
    (phase = "transferred" /\ ~dryRun) \/ source = "deleted"
    => \A k \in Entries : Arrived(k)

\* Wherever a run is interrupted, the store holds no binding whose instance is
\* still to come: the broker could not look its namespace up.
BindingsFollowInstances ==
    \A b \in BindingIds :
        records[b] # "none" /\ InstanceOf[b] \notin gone
        => records[InstanceOf[b]] # "none"

\* A run that failed anywhere can be repeated until one reaches the end: what
\* an earlier run has written does not stand in the way.
RunsComplete ==
    source = "present" /\ phase = "failed" ~> phase \in {"transferred", "nothing"}
=============================================================================
