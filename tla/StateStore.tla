----------------------------- MODULE StateStore -----------------------------
(***************************************************************************)
(* What a StateStore promises its callers about one kind of record: every  *)
(* call takes effect at one instant between its start and its return.  It  *)
(* is the contract of statestore_contract_test.go, stated for callers that *)
(* run at the same time, and what the memory store does under its mutex.   *)
(* A store that reaches across a network may also report an error, after   *)
(* having done what was asked or without.                                  *)
(***************************************************************************)
CONSTANTS
    Clients,            \* goroutines that call the store
    Ids,                \* OSB ids
    Values,             \* what a record says
    NoValue,            \* "there is no such record"
    NoJob

VARIABLES
    stored,     \* [Ids -> the record's value or NoValue]
    phase,      \* [Clients -> "idle", "called" or "done"]
    job,        \* [Clients -> the operation asked for]
    reply       \* [Clients -> the answer, once the call is done]

vars == <<stored, phase, job, reply>>

\* value is what a put writes.
Operations == [op : {"put", "get", "delete"}, id : Ids, value : Values]

Ok(v) == [status |-> "ok", value |-> v]

Error == [status |-> "error", value |-> NoValue]

Init ==
    /\ stored = [i \in Ids |-> NoValue]
    /\ phase = [c \in Clients |-> "idle"]
    /\ job = [c \in Clients |-> NoJob]
    /\ reply = [c \in Clients |-> Error]

Call(c) ==
    /\ phase[c] = "idle"
    /\ phase' = [phase EXCEPT ![c] = "called"]
    /\ \E o \in Operations : job' = [job EXCEPT ![c] = o]
    /\ UNCHANGED <<stored, reply>>

\* What an operation leaves behind and what it reports.
Effect(o) ==
    IF o.op = "get" THEN stored
    ELSE [stored EXCEPT ![o.id] = IF o.op = "put" THEN o.value ELSE NoValue]

Report(o) == Ok(IF o.op = "get" THEN stored[o.id] ELSE NoValue)

Finish(c, answer) ==
    /\ phase' = [phase EXCEPT ![c] = "done"]
    /\ reply' = [reply EXCEPT ![c] = answer]
    /\ UNCHANGED job

\* The instant at which the call takes effect, or at which it is given up.
Perform(c) ==
    /\ phase[c] = "called"
    /\ \/ stored' = Effect(job[c]) /\ Finish(c, Report(job[c]))
       \/ stored' = Effect(job[c]) /\ Finish(c, Error)
       \/ UNCHANGED stored /\ Finish(c, Error)

Return(c) ==
    /\ phase[c] = "done"
    /\ phase' = [phase EXCEPT ![c] = "idle"]
    /\ job' = [job EXCEPT ![c] = NoJob]
    /\ reply' = [reply EXCEPT ![c] = Error]
    /\ UNCHANGED stored

\* The process dies with its callers; what was stored stays.
Crash ==
    /\ phase' = [c \in Clients |-> "idle"]
    /\ job' = [c \in Clients |-> NoJob]
    /\ reply' = [c \in Clients |-> Error]
    /\ UNCHANGED stored

Next ==
    \/ \E c \in Clients : Call(c) \/ Perform(c) \/ Return(c)
    \/ Crash

Spec == Init /\ [][Next]_vars
=============================================================================
