---------------------------- MODULE CRDStateStore ----------------------------
(***************************************************************************)
(* The instance records of CRDStateStore: each an object of its own on the *)
(* API server, written by a Get and a Create or Update that RetryOnConflict *)
(* repeats.  Several goroutines and replicas call it at once, and people   *)
(* annotate its objects with kubectl.                                      *)
(*                                                                         *)
(* An Update carries the resourceVersion of the object it was made from.   *)
(* All the protocol uses of a version is whether anybody has written since *)
(* the read; stale is that, and keeps the model finite.                    *)
(***************************************************************************)
EXTENDS Naturals

CONSTANTS
    Clients, Ids, Values, NoValue, NoJob,
    Names, NameOf,      \* resourceName: [Ids -> Names]
    Notes, NoNote,      \* what somebody else wrote on an object
    NoObject,
    MaxTries,           \* attempts of RetryOnConflict (retry.DefaultRetry)
    Adverse             \* what may go wrong: see AdverseKinds

AdverseKinds == {"callFails", "lostReply", "crash", "annotate"}

ASSUME NameAssumption ==
    /\ NameOf \in [Ids -> Names]
    /\ \A i, j \in Ids : NameOf[i] = NameOf[j] => i = j

Objects == [id : Ids, value : Values, note : Notes \union {NoNote}]

Operations == [op : {"put", "get", "delete"}, id : Ids, value : Values]

ASSUME CRDAssumption ==
    /\ NoValue \notin Values
    /\ NoObject \notin Objects
    /\ NoJob \notin Operations
    /\ NoNote \notin Notes
    /\ MaxTries \in Nat \ {0}
    /\ Adverse \subseteq AdverseKinds

VARIABLES
    object,     \* [Names -> object on the API server or NoObject]
    pc,         \* [Clients -> "idle", the next API call or "done"]
    job,        \* [Clients -> the operation asked for]
    seen,       \* [Clients -> what the Get of a put returned]
    stale,      \* clients whose seen is no longer the latest version
    tries,      \* [Clients -> attempts of the put so far]
    reply       \* [Clients -> the answer, once the call is done]

vars == <<object, pc, job, seen, stale, tries, reply>>

Ok(v) == [status |-> "ok", value |-> v]

Error == [status |-> "error", value |-> NoValue]

Init ==
    /\ object = [n \in Names |-> NoObject]
    /\ pc = [c \in Clients |-> "idle"]
    /\ job = [c \in Clients |-> NoJob]
    /\ seen = [c \in Clients |-> NoObject]
    /\ stale = {}
    /\ tries = [c \in Clients |-> 0]
    /\ reply = [c \in Clients |-> Error]

Key(c) == NameOf[job[c].id]

\* Object n has a new version: the copies others made of it are out of date.
Outdate(n, writers) ==
    stale' = (stale \union {c \in Clients : pc[c] = "write" /\ Key(c) = n}) \ writers

Finish(c, answer) ==
    /\ pc' = [pc EXCEPT ![c] = "done"]
    /\ reply' = [reply EXCEPT ![c] = answer]
    /\ seen' = [seen EXCEPT ![c] = NoObject]
    /\ tries' = [tries EXCEPT ![c] = 0]
    /\ UNCHANGED job

Call(c) ==
    /\ pc[c] = "idle"
    /\ \E o \in Operations :
          /\ job' = [job EXCEPT ![c] = o]
          /\ pc' = [pc EXCEPT ![c] = IF o.op = "delete" THEN "remove" ELSE "read"]
    /\ UNCHANGED <<object, seen, stale, tries, reply>>

Return(c) ==
    /\ pc[c] = "done"
    /\ pc' = [pc EXCEPT ![c] = "idle"]
    /\ job' = [job EXCEPT ![c] = NoJob]
    /\ reply' = [reply EXCEPT ![c] = Error]
    /\ UNCHANGED <<object, seen, stale, tries>>

-----------------------------------------------------------------------------
\* The object's name is derived; an object of another id is not this record.
RecordAt(n, id) ==
    IF object[n] # NoObject /\ object[n].id = id THEN object[n].value ELSE NoValue

GetInstance(c) ==
    /\ pc[c] = "read" /\ job[c].op = "get"
    /\ \/ Finish(c, Ok(RecordAt(Key(c), job[c].id)))
       \/ "callFails" \in Adverse /\ Finish(c, Error)
    /\ UNCHANGED <<object, stale>>

DeleteInstance(c) ==
    /\ pc[c] = "remove"
    /\ \/ /\ object' = [object EXCEPT ![Key(c)] = NoObject]
          /\ Outdate(Key(c), {c})
          /\ \/ Finish(c, Ok(NoValue))
             \/ "lostReply" \in Adverse /\ Finish(c, Error)
       \/ /\ "callFails" \in Adverse
          /\ Finish(c, Error)
          /\ UNCHANGED <<object, stale>>

-----------------------------------------------------------------------------
(* PutInstance.                                                            *)

\* Mutant of NextTry: every attempt counts as the first.
FirstTry(c) == 1

NextTry(c) == tries[c] + 1

ReadForPut(c) ==
    /\ pc[c] = "read" /\ job[c].op = "put"
    /\ \/ /\ pc' = [pc EXCEPT ![c] = "write"]
          /\ seen' = [seen EXCEPT ![c] = object[Key(c)]]
          /\ tries' = [tries EXCEPT ![c] = NextTry(c)]
          /\ UNCHANGED <<job, reply>>
       \/ "callFails" \in Adverse /\ Finish(c, Error)
    /\ UNCHANGED <<object, stale>>

\* Only the spec is replaced: what others wrote on the object stays.
Written(c) ==
    [id |-> job[c].id, value |-> job[c].value,
     note |-> IF seen[c] = NoObject THEN NoNote ELSE seen[c].note]

\* Mutant of Accepted: an Update is sent without a resourceVersion.
AcceptedBlind(c) == (seen[c] = NoObject) <=> (object[Key(c)] = NoObject)

\* A Create needs a free name, an Update the version that was read.
Accepted(c) ==
    IF seen[c] = NoObject THEN object[Key(c)] = NoObject
    ELSE object[Key(c)] # NoObject /\ c \notin stale

\* Mutant of MayRetry: one attempt too many.
OneMoreTry(c) == tries[c] <= MaxTries

\* Another attempt after a conflict, as often as RetryOnConflict grants.
MayRetry(c) == tries[c] < MaxTries

Conflict(c) == seen[c] # NoObject /\ object[Key(c)] # NoObject /\ c \in stale

\* Mutant of Refused: a put that is out of attempts reports nothing.
RefusedQuietly(c) == Ok(NoValue)

\* The error of the last attempt is the error of the put.
Refused(c) == Error

Write(c) ==
    /\ pc[c] = "write"
    /\ \/ /\ Accepted(c)
          /\ object' = [object EXCEPT ![Key(c)] = Written(c)]
          /\ Outdate(Key(c), {c})
          /\ \/ Finish(c, Ok(NoValue))
             \/ "lostReply" \in Adverse /\ Finish(c, Error)
       \/ /\ Conflict(c) /\ MayRetry(c)
          /\ pc' = [pc EXCEPT ![c] = "read"]
          /\ seen' = [seen EXCEPT ![c] = NoObject]
          /\ stale' = stale \ {c}
          /\ UNCHANGED <<object, job, tries, reply>>
       \/ /\ \/ Conflict(c) /\ ~MayRetry(c)
             \/ ~Accepted(c) /\ ~Conflict(c)        \* AlreadyExists, NotFound
             \/ "callFails" \in Adverse
          /\ Finish(c, Refused(c))
          /\ stale' = stale \ {c}
          /\ UNCHANGED object

-----------------------------------------------------------------------------
(* Around the store.                                                       *)

\* Somebody annotates a record's object.
Annotate(n) ==
    /\ "annotate" \in Adverse
    /\ object[n] # NoObject
    /\ \E note \in Notes :
          /\ note # object[n].note
          /\ object' = [object EXCEPT ![n].note = note]
    /\ Outdate(n, {})
    /\ UNCHANGED <<pc, job, seen, tries, reply>>

Crash ==
    /\ "crash" \in Adverse
    /\ \E c \in Clients : pc[c] # "idle"
    /\ pc' = [c \in Clients |-> "idle"]
    /\ job' = [c \in Clients |-> NoJob]
    /\ seen' = [c \in Clients |-> NoObject]
    /\ stale' = {}
    /\ tries' = [c \in Clients |-> 0]
    /\ reply' = [c \in Clients |-> Error]
    /\ UNCHANGED object

Work(c) == GetInstance(c) \/ DeleteInstance(c) \/ ReadForPut(c) \/ Write(c)

Next ==
    \/ \E c \in Clients : Call(c) \/ Return(c) \/ Work(c)
    \/ \E n \in Names : Annotate(n)
    \/ Crash

Spec == Init /\ [][Next]_vars

FairSpec == Spec /\ \A c \in Clients : WF_vars(Work(c))

-----------------------------------------------------------------------------
(* Properties.                                                             *)

\* The variables have the types their comments give.
TypeOK ==
    /\ object \in [Names -> Objects \union {NoObject}]
    /\ pc \in [Clients -> {"idle", "read", "write", "remove", "done"}]
    /\ job \in [Clients -> Operations \union {NoJob}]
    /\ seen \in [Clients -> Objects \union {NoObject}]
    /\ stale \subseteq Clients
    /\ tries \in [Clients -> 0..MaxTries]
    /\ reply \in [Clients -> [status : {"ok", "error"}, value : Values \union {NoValue}]]

\* The records as a caller sees them, and its call as one step.
Stored == [i \in Ids |-> RecordAt(NameOf[i], i)]

Phase == [c \in Clients |-> IF pc[c] \in {"idle", "done"} THEN pc[c] ELSE "called"]

Contract == INSTANCE StateStore WITH stored <- Stored, phase <- Phase

\* The store keeps the contract the memory store keeps under its mutex: a put
\* of several API calls and several attempts takes effect at one instant, or
\* answers an error, whoever writes, annotates or crashes in between.
KeepsContract == Contract!Spec

\* "alles, was jemand sonst am Objekt annotiert hat" survives: no write of the
\* store changes a note, also not one made between its Get and its Update.
NotesKept ==
    [][\A n \in Names :
          object[n] # NoObject /\ object'[n] # NoObject /\ pc' # pc
          => object'[n].note = object[n].note]_vars

\* Every call returns, also when others write the object all the time.
CallsReturn == \A c \in Clients : pc[c] # "idle" ~> pc[c] \in {"idle", "done"}
=============================================================================
