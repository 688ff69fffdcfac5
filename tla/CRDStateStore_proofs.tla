------------------------- MODULE CRDStateStore_proofs -------------------------
(***************************************************************************)
(* CRDStateStore implements StateStore, for any number of clients and ids, *)
(* any MaxTries and whatever goes wrong: each action is one step of the    *)
(* contract or none.  The argument needs that an object's name determines  *)
(* the id in it, which is what the inductive invariant adds to the types.  *)
(***************************************************************************)
EXTENDS CRDStateStore, TLAPS

PCs == {"idle", "read", "write", "remove", "done"}

Answers == [status : {"ok", "error"}, value : Values \union {NoValue}]

\* An object carries the id its name was derived from.
NamesOK == \A n \in Names : object[n] # NoObject => NameOf[object[n].id] = n

\* A client that is not idle has been asked for something, and does just that.
JobsOK ==
    \A c \in Clients :
        /\ pc[c] # "idle" => job[c] \in Operations
        /\ pc[c] = "remove" => job[c].op = "delete"
        /\ pc[c] = "write" => job[c].op = "put"

\* Attempts are counted up to MaxTries, and only read with one to spare.
TriesOK ==
    \A c \in Clients :
        /\ pc[c] = "read" => tries[c] < MaxTries
        /\ pc[c] \notin {"read", "write"} => tries[c] = 0

IInv == TypeOK /\ NamesOK /\ JobsOK /\ TriesOK

-----------------------------------------------------------------------------
LEMMA KeyType ==
    ASSUME IInv, NEW c \in Clients, pc[c] # "idle"
    PROVE  /\ job[c] \in Operations /\ job[c].id \in Ids /\ Key(c) \in Names
           /\ NameOf[job[c].id] = Key(c)
BY NameAssumption DEF IInv, JobsOK, Operations, Key

LEMMA RecordAtType ==
    ASSUME IInv, NEW n \in Names, NEW i \in Ids
    PROVE  RecordAt(n, i) \in Values \union {NoValue}
BY DEF IInv, TypeOK, RecordAt, Objects

\* Finishing a call keeps the clients' part of the invariant.
LEMMA FinishKeeps ==
    ASSUME IInv, NEW c \in Clients, pc[c] # "idle", NEW answer \in Answers,
           Finish(c, answer), stale' \subseteq Clients,
           object' \in [Names -> Objects \union {NoObject}], NamesOK'
    PROVE  IInv'
<1>1. TypeOK'
  BY CRDAssumption DEF IInv, TypeOK, Finish, Answers
<1>2. JobsOK' /\ TriesOK'
  BY DEF IInv, TypeOK, JobsOK, TriesOK, Finish
<1> QED
  BY <1>1, <1>2 DEF IInv

LEMMA AnswerTypes ==
    /\ Error \in Answers
    /\ \A v \in Values \union {NoValue} : Ok(v) \in Answers
BY DEF Error, Ok, Answers

LEMMA WrittenType ==
    ASSUME IInv, NEW c \in Clients, pc[c] = "write"
    PROVE  Written(c) \in Objects /\ Written(c).id = job[c].id
           /\ Written(c).value = job[c].value
<1>1. job[c] \in Operations /\ seen[c] \in Objects \union {NoObject}
  BY KeyType DEF IInv, TypeOK
<1> QED
  BY <1>1 DEF Written, Operations, Objects

\* What a write or a delete does to the objects keeps names and ids together.
LEMMA ObjectStep ==
    ASSUME IInv, NEW c \in Clients, pc[c] # "idle",
           NEW x \in Objects \union {NoObject}, x # NoObject => x.id = job[c].id,
           object' = [object EXCEPT ![Key(c)] = x]
    PROVE  object' \in [Names -> Objects \union {NoObject}] /\ NamesOK'
<1>1. Key(c) \in Names /\ NameOf[job[c].id] = Key(c)
  BY KeyType
<1>2. object' \in [Names -> Objects \union {NoObject}]
  BY <1>1 DEF IInv, TypeOK
<1>3. ASSUME NEW n \in Names, object'[n] # NoObject
      PROVE  NameOf[object'[n].id] = n
  <2>1. CASE n = Key(c)
    BY <1>1, <1>3, <2>1 DEF IInv, TypeOK
  <2>2. CASE n # Key(c)
    BY <1>3, <2>2 DEF IInv, TypeOK, NamesOK
  <2> QED
    BY <2>1, <2>2
<1> QED
  BY <1>2, <1>3 DEF NamesOK

-----------------------------------------------------------------------------
(* The invariant is inductive.                                             *)

LEMMA InitIInv == Init => IInv
BY CRDAssumption DEF Init, IInv, TypeOK, NamesOK, JobsOK, TriesOK, Error

LEMMA CallStep ==
    ASSUME IInv, NEW c \in Clients, Call(c) \/ Return(c)
    PROVE  IInv'
<1>1. CASE Call(c)
  <2>1. TypeOK' /\ NamesOK'
    BY <1>1 DEF Call, IInv, TypeOK, NamesOK
  <2>2. PICK o \in Operations :
           /\ job' = [job EXCEPT ![c] = o]
           /\ pc' = [pc EXCEPT ![c] = IF o.op = "delete" THEN "remove" ELSE "read"]
    BY <1>1 DEF Call
  <2>3. pc[c] = "idle" /\ UNCHANGED tries
    BY <1>1 DEF Call
  <2>4. JobsOK'
    BY <2>2 DEF IInv, TypeOK, JobsOK
  <2>5. TriesOK'
    BY <2>2, <2>3, CRDAssumption DEF IInv, TypeOK, TriesOK
  <2> QED
    BY <2>1, <2>4, <2>5 DEF IInv
<1>2. CASE Return(c)
  <2>1. TypeOK' /\ NamesOK'
    BY <1>2 DEF Return, IInv, TypeOK, NamesOK, Error
  <2>2. JobsOK' /\ TriesOK'
    BY <1>2 DEF Return, IInv, TypeOK, JobsOK, TriesOK
  <2> QED
    BY <2>1, <2>2 DEF IInv
<1> QED
  BY <1>1, <1>2

LEMMA SameObjects ==
    ASSUME IInv, UNCHANGED object
    PROVE  object' \in [Names -> Objects \union {NoObject}] /\ NamesOK'
BY DEF IInv, TypeOK, NamesOK

LEMMA GetStep ==
    ASSUME IInv, NEW c \in Clients, GetInstance(c)
    PROVE  IInv'
<1>1. pc[c] # "idle" /\ stale' \subseteq Clients /\ UNCHANGED object
  BY DEF GetInstance, IInv, TypeOK
<1>2. RecordAt(Key(c), job[c].id) \in Values \union {NoValue}
  BY <1>1, KeyType, RecordAtType
<1>3. \E answer \in Answers : Finish(c, answer)
  BY <1>2, AnswerTypes DEF GetInstance
<1> QED
  BY <1>1, <1>3, FinishKeeps, SameObjects

LEMMA DeleteStep ==
    ASSUME IInv, NEW c \in Clients, DeleteInstance(c)
    PROVE  IInv'
<1>1. pc[c] # "idle" /\ stale' \subseteq Clients
  BY DEF DeleteInstance, Outdate, IInv, TypeOK
<1>2. \E answer \in Answers : Finish(c, answer)
  BY AnswerTypes DEF DeleteInstance
<1>3. UNCHANGED object \/ object' = [object EXCEPT ![Key(c)] = NoObject]
  BY DEF DeleteInstance
<1>4. object' \in [Names -> Objects \union {NoObject}] /\ NamesOK'
  BY <1>1, <1>3, SameObjects, ObjectStep
<1> QED
  BY <1>1, <1>2, <1>4, FinishKeeps

LEMMA ReadStep ==
    ASSUME IInv, NEW c \in Clients, ReadForPut(c)
    PROVE  IInv'
<1>1. pc[c] = "read" /\ job[c].op = "put" /\ UNCHANGED <<object, stale>>
  BY DEF ReadForPut
<1>2. CASE Finish(c, Error)
  BY <1>1, <1>2, AnswerTypes, FinishKeeps, SameObjects DEF IInv, TypeOK
<1>3. CASE /\ pc' = [pc EXCEPT ![c] = "write"]
           /\ seen' = [seen EXCEPT ![c] = object[Key(c)]]
           /\ tries' = [tries EXCEPT ![c] = NextTry(c)]
           /\ UNCHANGED <<job, reply>>
  <2>1. object[Key(c)] \in Objects \union {NoObject}
    BY <1>1, KeyType DEF IInv, TypeOK
  <2>2. tries[c] \in Nat /\ tries[c] < MaxTries
    BY <1>1 DEF IInv, TypeOK, TriesOK
  <2>3. TypeOK' /\ NamesOK'
    BY <1>1, <1>3, <2>1, <2>2, CRDAssumption DEF IInv, TypeOK, NamesOK, NextTry
  <2>4. JobsOK' /\ TriesOK'
    BY <1>1, <1>3 DEF IInv, TypeOK, JobsOK, TriesOK
  <2> QED
    BY <2>3, <2>4 DEF IInv
<1> QED
  BY <1>2, <1>3 DEF ReadForPut

LEMMA WriteStep ==
    ASSUME IInv, NEW c \in Clients, Write(c)
    PROVE  IInv'
<1>1. pc[c] = "write" /\ stale' \subseteq Clients
  BY DEF Write, Outdate, IInv, TypeOK
<1>2. CASE /\ object' = [object EXCEPT ![Key(c)] = Written(c)]
           /\ Finish(c, Ok(NoValue)) \/ Finish(c, Error)
  BY <1>1, <1>2, WrittenType, ObjectStep, AnswerTypes, FinishKeeps
<1>3. CASE UNCHANGED object /\ Finish(c, Refused(c))
  BY <1>1, <1>3, SameObjects, AnswerTypes, FinishKeeps DEF Refused
<1>4. CASE /\ MayRetry(c)
           /\ pc' = [pc EXCEPT ![c] = "read"]
           /\ seen' = [seen EXCEPT ![c] = NoObject]
           /\ UNCHANGED <<object, job, tries, reply>>
  <2>1. TypeOK' /\ NamesOK'
    BY <1>1, <1>4 DEF IInv, TypeOK, NamesOK
  <2>2. JobsOK' /\ TriesOK'
    BY <1>1, <1>4 DEF IInv, TypeOK, JobsOK, TriesOK, MayRetry
  <2> QED
    BY <2>1, <2>2 DEF IInv
<1> QED
  BY <1>2, <1>3, <1>4 DEF Write

LEMMA SurroundingsStep ==
    ASSUME IInv, Crash \/ \E n \in Names : Annotate(n)
    PROVE  IInv'
<1>1. CASE Crash
  BY <1>1, CRDAssumption DEF Crash, IInv, TypeOK, NamesOK, JobsOK, TriesOK, Error
<1>2. ASSUME NEW n \in Names, Annotate(n)
      PROVE  IInv'
  <2>1. PICK note \in Notes : object' = [object EXCEPT ![n].note = note]
    BY <1>2 DEF Annotate
  <2>2. object[n] \in Objects
    BY <1>2 DEF Annotate, IInv, TypeOK
  <2>3. /\ [object[n] EXCEPT !.note = note] \in Objects
        /\ [object[n] EXCEPT !.note = note].id = object[n].id
    BY <2>2 DEF Objects
  <2>4. object' \in [Names -> Objects \union {NoObject}]
    BY <2>1, <2>3 DEF IInv, TypeOK
  <2>5. NamesOK'
    BY <1>2, <2>1, <2>3, <2>4 DEF IInv, TypeOK, NamesOK, Annotate
  <2>6. stale' \subseteq Clients /\ UNCHANGED <<pc, job, seen, tries, reply>>
    BY <1>2 DEF Annotate, Outdate, IInv, TypeOK
  <2> QED
    BY <2>4, <2>5, <2>6 DEF IInv, TypeOK, JobsOK, TriesOK
<1> QED
  BY <1>1, <1>2

LEMMA NextIInv == IInv /\ [Next]_vars => IInv'
<1> SUFFICES ASSUME IInv, [Next]_vars PROVE IInv'
  OBVIOUS
<1>1. CASE UNCHANGED vars
  BY <1>1 DEF vars, IInv, TypeOK, NamesOK, JobsOK, TriesOK
<1>2. CASE Next
  BY <1>2, CallStep, GetStep, DeleteStep, ReadStep, WriteStep, SurroundingsStep DEF Next, Work
<1> QED
  BY <1>1, <1>2

LEMMA IInvHolds == Spec => []IInv
BY InitIInv, NextIInv, PTL DEF Spec

\* The variables keep their types; in particular no put makes more than
\* MaxTries attempts.
THEOREM StoreTypeCorrect == Spec => []TypeOK
<1>1. IInv => TypeOK
  BY DEF IInv
<1> QED
  BY <1>1, IInvHolds, PTL

-----------------------------------------------------------------------------
(* Every step is a step of the contract or leaves what callers see alone.  *)

\* A record depends on the object of its own name only.
LEMMA OtherRecords ==
    ASSUME IInv, NEW i \in Ids, NEW j \in Ids, i # j, NEW x,
           object' = [object EXCEPT ![NameOf[i]] = x]
    PROVE  Stored'[j] = Stored[j]
<1>1. NameOf[j] # NameOf[i] /\ NameOf[j] \in Names
  BY NameAssumption
<1>2. object'[NameOf[j]] = object[NameOf[j]]
  BY <1>1 DEF IInv, TypeOK
<1> QED
  BY <1>2 DEF Stored, RecordAt

\* Finishing a call, as the contract sees it.
LEMMA FinishMaps ==
    ASSUME IInv, NEW c \in Clients, pc[c] \in {"read", "write", "remove"},
           NEW answer, Finish(c, answer)
    PROVE  Phase[c] = "called" /\ Contract!Finish(c, answer)
<1>1. Phase' = [Phase EXCEPT ![c] = "done"]
  BY DEF Finish, Phase, IInv, TypeOK
<1>2. Phase[c] = "called"
  BY DEF Phase
<1> QED
  BY <1>1, <1>2 DEF Finish, Contract!Finish

LEMMA SameRecords ==
    ASSUME UNCHANGED object
    PROVE  UNCHANGED Stored
BY DEF Stored, RecordAt

\* The put and the delete of the contract.
LEMMA EffectMaps ==
    ASSUME IInv, NEW c \in Clients, pc[c] # "idle", job[c].op # "get",
           NEW x \in Objects \union {NoObject},
           object' = [object EXCEPT ![Key(c)] = x],
           IF job[c].op = "put" THEN x # NoObject /\ x.id = job[c].id /\ x.value = job[c].value
           ELSE x = NoObject
    PROVE  Stored' = Contract!Effect(job[c])
<1> DEFINE id == job[c].id
           v  == IF job[c].op = "put" THEN job[c].value ELSE NoValue
<1>1. id \in Ids /\ Key(c) \in Names /\ NameOf[id] = Key(c)
  BY KeyType
<1>2. Stored'[id] = v
  <2>1. object'[NameOf[id]] = x
    BY <1>1 DEF IInv, TypeOK
  <2> QED
    BY <1>1, <2>1 DEF Stored, RecordAt
<1>3. \A j \in Ids : j # id => Stored'[j] = Stored[j]
  BY <1>1, OtherRecords
<1>4. Stored' = [Stored EXCEPT ![id] = v]
  BY <1>1, <1>2, <1>3 DEF Stored
<1> QED
  BY <1>4 DEF Contract!Effect

LEMMA CallMaps ==
    ASSUME IInv, NEW c \in Clients, Call(c) \/ Return(c)
    PROVE  Contract!Call(c) \/ Contract!Return(c)
<1>1. CASE Call(c)
  <2>1. PICK o \in Operations : /\ job' = [job EXCEPT ![c] = o]
                                /\ pc' = [pc EXCEPT ![c] = IF o.op = "delete" THEN "remove" ELSE "read"]
    BY <1>1 DEF Call
  <2>2. Phase[c] = "idle" /\ Phase' = [Phase EXCEPT ![c] = "called"]
    BY <1>1, <2>1 DEF Call, Phase, IInv, TypeOK
  <2>3. UNCHANGED <<Stored, reply>>
    BY <1>1, SameRecords DEF Call
  <2> QED
    BY <2>1, <2>2, <2>3 DEF Contract!Call, Contract!Operations, Operations
<1>2. CASE Return(c)
  <2>1. Phase[c] = "done" /\ Phase' = [Phase EXCEPT ![c] = "idle"]
    BY <1>2 DEF Return, Phase, IInv, TypeOK
  <2>2. UNCHANGED Stored
    BY <1>2, SameRecords DEF Return
  <2> QED
    BY <1>2, <2>1, <2>2 DEF Return, Contract!Return, Error, Contract!Error
<1> QED
  BY <1>1, <1>2

LEMMA GetMaps ==
    ASSUME IInv, NEW c \in Clients, GetInstance(c)
    PROVE  Contract!Perform(c)
<1>1. pc[c] = "read" /\ job[c].op = "get" /\ UNCHANGED Stored
  BY SameRecords DEF GetInstance
<1>2. job[c].id \in Ids /\ NameOf[job[c].id] = Key(c)
  BY <1>1, KeyType
<1>3. RecordAt(Key(c), job[c].id) = Stored[job[c].id]
  BY <1>2 DEF Stored
<1>4. CASE Finish(c, Ok(Stored[job[c].id]))
  <2>1. Phase[c] = "called" /\ Contract!Finish(c, Ok(Stored[job[c].id]))
    BY <1>1, <1>4, FinishMaps
  <2> QED
    BY <1>1, <2>1 DEF Contract!Perform, Contract!Effect, Contract!Report, Ok, Contract!Ok
<1>5. CASE Finish(c, Error)
  <2>1. Phase[c] = "called" /\ Contract!Finish(c, Error)
    BY <1>1, <1>5, FinishMaps
  <2> QED
    BY <1>1, <2>1 DEF Contract!Perform, Error, Contract!Error
<1> QED
  BY <1>3, <1>4, <1>5 DEF GetInstance

\* A write or a delete that goes through, its reply delivered or lost.
LEMMA PerformMaps ==
    ASSUME IInv, NEW c \in Clients, pc[c] \in {"read", "write", "remove"},
           job[c].op # "get",
           Stored' = Contract!Effect(job[c]),
           Finish(c, Ok(NoValue)) \/ Finish(c, Error)
    PROVE  Contract!Perform(c)
<1>1. CASE Finish(c, Ok(NoValue))
  <2>1. Phase[c] = "called" /\ Contract!Finish(c, Ok(NoValue))
    BY <1>1, FinishMaps
  <2> QED
    BY <2>1 DEF Contract!Perform, Contract!Report, Ok, Contract!Ok
<1>2. CASE Finish(c, Error)
  <2>1. Phase[c] = "called" /\ Contract!Finish(c, Error)
    BY <1>2, FinishMaps
  <2> QED
    BY <2>1 DEF Contract!Perform, Error, Contract!Error
<1> QED
  BY <1>1, <1>2

\* A call that is given up.
LEMMA GiveUpMaps ==
    ASSUME IInv, NEW c \in Clients, pc[c] \in {"read", "write", "remove"},
           UNCHANGED object, Finish(c, Error)
    PROVE  Contract!Perform(c)
<1>1. Phase[c] = "called" /\ Contract!Finish(c, Error) /\ UNCHANGED Stored
  BY FinishMaps, SameRecords
<1> QED
  BY <1>1 DEF Contract!Perform, Error, Contract!Error

LEMMA DeleteMaps ==
    ASSUME IInv, NEW c \in Clients, DeleteInstance(c), job[c].op = "delete"
    PROVE  Contract!Perform(c)
<1>1. pc[c] = "remove"
  BY DEF DeleteInstance
<1>2. CASE /\ object' = [object EXCEPT ![Key(c)] = NoObject]
           /\ Finish(c, Ok(NoValue)) \/ Finish(c, Error)
  BY <1>1, <1>2, EffectMaps, PerformMaps
<1>3. CASE UNCHANGED object /\ Finish(c, Error)
  BY <1>1, <1>3, GiveUpMaps
<1> QED
  BY <1>2, <1>3 DEF DeleteInstance

\* The phase does not change while a put goes from one API call to the next.
LEMMA StutterMaps ==
    ASSUME IInv, NEW c \in Clients, NEW next \in {"read", "write"},
           pc[c] \in {"read", "write"}, pc' = [pc EXCEPT ![c] = next],
           UNCHANGED <<object, job, reply>>
    PROVE  UNCHANGED Contract!vars
<1>1. Phase' = Phase
  BY DEF Phase, IInv, TypeOK
<1> QED
  BY <1>1, SameRecords DEF Contract!vars

LEMMA PutMaps ==
    ASSUME IInv, NEW c \in Clients, job[c].op = "put", ReadForPut(c) \/ Write(c)
    PROVE  Contract!Perform(c) \/ UNCHANGED Contract!vars
<1>1. CASE ReadForPut(c)
  BY <1>1, GiveUpMaps, StutterMaps DEF ReadForPut
<1>2. CASE Write(c)
  <2>1. pc[c] = "write"
    BY <1>2 DEF Write
  <2>2. CASE /\ object' = [object EXCEPT ![Key(c)] = Written(c)]
             /\ Finish(c, Ok(NoValue)) \/ Finish(c, Error)
    <3>1. /\ Written(c) \in Objects /\ Written(c).id = job[c].id
          /\ Written(c).value = job[c].value /\ Written(c) # NoObject
      BY <2>1, WrittenType, CRDAssumption
    <3>2. Stored' = Contract!Effect(job[c])
      BY <2>1, <2>2, <3>1, EffectMaps
    <3> QED
      BY <2>1, <2>2, <3>2, PerformMaps
  <2>3. CASE UNCHANGED object /\ Finish(c, Error)
    BY <2>1, <2>3, GiveUpMaps
  <2>4. CASE /\ pc' = [pc EXCEPT ![c] = "read"]
             /\ UNCHANGED <<object, job, reply>>
    BY <2>1, <2>4, StutterMaps
  <2> QED
    BY <1>2, <2>2, <2>3, <2>4 DEF Write, Refused
<1> QED
  BY <1>1, <1>2

LEMMA SurroundingsMap ==
    ASSUME IInv, Crash \/ \E n \in Names : Annotate(n)
    PROVE  Contract!Crash \/ UNCHANGED Contract!vars
<1>1. CASE Crash
  <2>1. Phase' = [c \in Clients |-> "idle"] /\ UNCHANGED Stored
    BY <1>1, SameRecords DEF Crash, Phase
  <2> QED
    BY <1>1, <2>1 DEF Crash, Contract!Crash, Error, Contract!Error
<1>2. ASSUME NEW n \in Names, Annotate(n)
      PROVE  UNCHANGED Contract!vars
  <2>1. PICK note \in Notes : object' = [object EXCEPT ![n].note = note]
    BY <1>2 DEF Annotate
  <2>2. object[n] \in Objects
    BY <1>2 DEF Annotate, IInv, TypeOK
  <2>3. [object[n] EXCEPT !.note = note] \in Objects
    BY <2>2 DEF Objects
  <2>4. ASSUME NEW m \in Names, NEW i \in Ids
        PROVE  RecordAt(m, i)' = RecordAt(m, i)
    BY <2>1, <2>2, <2>3, CRDAssumption DEF RecordAt, IInv, TypeOK, Objects
  <2>5. UNCHANGED Stored
    BY <2>4, NameAssumption DEF Stored
  <2>6. UNCHANGED <<Phase, job, reply>>
    BY <1>2 DEF Annotate, Phase
  <2> QED
    BY <2>5, <2>6 DEF Contract!vars
<1> QED
  BY <1>1, <1>2

LEMMA InitMaps == Init => Contract!Init
<1> SUFFICES ASSUME Init PROVE Contract!Init
  OBVIOUS
<1>1. Stored = [i \in Ids |-> NoValue]
  BY NameAssumption DEF Init, Stored, RecordAt
<1>2. Phase = [c \in Clients |-> "idle"]
  BY DEF Init, Phase
<1> QED
  BY <1>1, <1>2 DEF Init, Contract!Init, Error, Contract!Error

LEMMA NextMaps == IInv /\ [Next]_vars => [Contract!Next]_(Contract!vars)
<1> SUFFICES ASSUME IInv, [Next]_vars PROVE [Contract!Next]_(Contract!vars)
  OBVIOUS
<1>1. CASE UNCHANGED vars
  <2>1. UNCHANGED <<Stored, Phase, job, reply>>
    BY <1>1, SameRecords DEF vars, Phase
  <2> QED
    BY <2>1 DEF Contract!vars
<1>2. ASSUME NEW c \in Clients, Call(c) \/ Return(c)
      PROVE  Contract!Next
  BY <1>2, CallMaps DEF Contract!Next
<1>3. ASSUME NEW c \in Clients, Work(c)
      PROVE  [Contract!Next]_(Contract!vars)
  <2>1. CASE GetInstance(c)
    BY <2>1, GetMaps DEF Contract!Next
  <2>2. CASE DeleteInstance(c)
    <3>1. job[c].op = "delete"
      BY <2>2 DEF DeleteInstance, IInv, JobsOK
    <3> QED
      BY <2>2, <3>1, DeleteMaps DEF Contract!Next
  <2>3. CASE ReadForPut(c) \/ Write(c)
    <3>1. job[c].op = "put"
      BY <2>3 DEF ReadForPut, Write, IInv, JobsOK
    <3> QED
      BY <2>3, <3>1, PutMaps DEF Contract!Next
  <2> QED
    BY <1>3, <2>1, <2>2, <2>3 DEF Work
<1>4. CASE Crash \/ \E n \in Names : Annotate(n)
  BY <1>4, SurroundingsMap DEF Contract!Next
<1> QED
  BY <1>1, <1>2, <1>3, <1>4 DEF Next

\* Put, Get and Delete of the CRD store are the atomic operations of the
\* contract, or report an error.
THEOREM StoreKeepsContract == Spec => KeepsContract
BY InitMaps, NextMaps, IInvHolds, PTL DEF Spec, KeepsContract, Contract!Spec

-----------------------------------------------------------------------------
(* Notes.                                                                  *)

\* A copy that is not out of date is the object.
FreshOK ==
    \A c \in Clients :
        pc[c] = "write" /\ c \notin stale /\ seen[c] # NoObject => object[Key(c)] = seen[c]

\* What the others' copies are worth after c has finished a call and changed at
\* most its own object.
LEMMA FreshKept ==
    ASSUME IInv, FreshOK, NEW c \in Clients, pc[c] # "idle",
           NEW answer, Finish(c, answer),
           \/ UNCHANGED object /\ stale' \in {stale, stale \ {c}}
           \/ Outdate(Key(c), {c}) /\ \E x : object' = [object EXCEPT ![Key(c)] = x]
    PROVE  FreshOK'
<1> SUFFICES ASSUME NEW d \in Clients, pc'[d] = "write", d \notin stale', seen'[d] # NoObject
             PROVE  object'[Key(d)'] = seen'[d]
  BY DEF FreshOK
<1>1. d # c /\ pc[d] = "write" /\ seen'[d] = seen[d] /\ Key(d)' = Key(d)
  BY DEF Finish, IInv, TypeOK, Key
<1>2. d \notin stale
  BY <1>1 DEF Outdate
<1>3. object[Key(d)] = seen[d]
  BY <1>1, <1>2 DEF FreshOK
<1>4. CASE UNCHANGED object
  BY <1>1, <1>3, <1>4
<1>5. CASE Outdate(Key(c), {c}) /\ \E x : object' = [object EXCEPT ![Key(c)] = x]
  <2>1. Key(d) # Key(c)
    BY <1>1, <1>5 DEF Outdate
  <2>2. Key(d) \in Names
    BY <1>1, KeyType
  <2>3. object'[Key(d)] = object[Key(d)]
    BY <1>5, <2>1, <2>2 DEF IInv, TypeOK
  <2> QED
    BY <1>1, <1>3, <2>3
<1> QED
  BY <1>4, <1>5

LEMMA NextFreshOK == IInv /\ FreshOK /\ [Next]_vars => FreshOK'
<1> SUFFICES ASSUME IInv, FreshOK, [Next]_vars PROVE FreshOK'
  OBVIOUS
<1>1. CASE UNCHANGED vars
  BY <1>1 DEF vars, FreshOK, Key
<1>2. ASSUME NEW c \in Clients, Call(c) \/ Return(c)
      PROVE  FreshOK'
  <2>1. /\ UNCHANGED <<object, seen, stale>>
        /\ \A d \in Clients : pc'[d] = "write" => pc[d] = "write" /\ job'[d] = job[d]
    BY <1>2 DEF Call, Return, IInv, TypeOK
  <2> QED
    BY <2>1 DEF FreshOK, Key
<1>3. ASSUME NEW c \in Clients, GetInstance(c)
      PROVE  FreshOK'
  BY <1>3, FreshKept DEF GetInstance
<1>4. ASSUME NEW c \in Clients, DeleteInstance(c)
      PROVE  FreshOK'
  <2>1. pc[c] # "idle" /\ \E answer : Finish(c, answer)
    BY <1>4 DEF DeleteInstance
  <2>2. \/ UNCHANGED <<object, stale>>
        \/ Outdate(Key(c), {c}) /\ \E x : object' = [object EXCEPT ![Key(c)] = x]
    BY <1>4 DEF DeleteInstance
  <2> QED
    BY <2>1, <2>2, FreshKept
<1>5. ASSUME NEW c \in Clients, ReadForPut(c)
      PROVE  FreshOK'
  <2>1. pc[c] = "read" /\ UNCHANGED <<object, stale>>
    BY <1>5 DEF ReadForPut
  <2>2. CASE Finish(c, Error)
    BY <2>1, <2>2, FreshKept
  <2>3. CASE /\ pc' = [pc EXCEPT ![c] = "write"]
             /\ seen' = [seen EXCEPT ![c] = object[Key(c)]]
             /\ UNCHANGED job
    <3> SUFFICES ASSUME NEW d \in Clients, pc'[d] = "write", d \notin stale', seen'[d] # NoObject
                 PROVE  object'[Key(d)'] = seen'[d]
      BY DEF FreshOK
    <3>1. Key(d)' = Key(d)
      BY <2>3 DEF Key
    <3>2. CASE d = c
      BY <2>1, <2>3, <3>1, <3>2 DEF IInv, TypeOK
    <3>3. CASE d # c
      BY <2>1, <2>3, <3>1, <3>3 DEF IInv, TypeOK, FreshOK
    <3> QED
      BY <3>2, <3>3
  <2> QED
    BY <1>5, <2>2, <2>3 DEF ReadForPut
<1>6. ASSUME NEW c \in Clients, Write(c)
      PROVE  FreshOK'
  <2>1. pc[c] = "write"
    BY <1>6 DEF Write
  <2>2. CASE \E answer : Finish(c, answer)
    <3>1. \/ UNCHANGED object /\ stale' \in {stale, stale \ {c}}
          \/ Outdate(Key(c), {c}) /\ \E x : object' = [object EXCEPT ![Key(c)] = x]
      BY <1>6, <2>1, <2>2 DEF Write
    <3> QED
      BY <2>1, <2>2, <3>1, FreshKept
  <2>3. CASE /\ pc' = [pc EXCEPT ![c] = "read"]
             /\ seen' = [seen EXCEPT ![c] = NoObject]
             /\ stale' = stale \ {c}
             /\ UNCHANGED <<object, job, tries, reply>>
    BY <2>3 DEF FreshOK, Key, IInv, TypeOK
  <2> QED
    BY <1>6, <2>2, <2>3 DEF Write
<1>7. CASE Crash
  BY <1>7 DEF Crash, FreshOK
<1>8. ASSUME NEW n \in Names, Annotate(n)
      PROVE  FreshOK'
  <2> SUFFICES ASSUME NEW d \in Clients, pc'[d] = "write", d \notin stale', seen'[d] # NoObject
               PROVE  object'[Key(d)'] = seen'[d]
    BY DEF FreshOK
  <2>1. pc[d] = "write" /\ seen'[d] = seen[d] /\ Key(d)' = Key(d)
    BY <1>8 DEF Annotate, Key
  <2>2. d \notin stale /\ Key(d) # n
    BY <1>8, <2>1 DEF Annotate, Outdate
  <2>3. object'[Key(d)] = object[Key(d)]
    BY <1>8, <2>1, <2>2, KeyType DEF Annotate, IInv, TypeOK
  <2> QED
    BY <2>1, <2>2, <2>3 DEF FreshOK
<1> QED
  BY <1>1, <1>2, <1>3, <1>4, <1>5, <1>6, <1>7, <1>8 DEF Next, Work

LEMMA NotesStep ==
    ASSUME IInv, FreshOK, [Next]_vars,
           NEW n \in Names, object[n] # NoObject, object'[n] # NoObject, pc' # pc
    PROVE  object'[n].note = object[n].note
<1> DEFINE ObjectsWritten ==
             \/ UNCHANGED object
             \/ \E c \in Clients :
                   DeleteInstance(c) /\ object' = [object EXCEPT ![Key(c)] = NoObject]
             \/ \E c \in Clients :
                   Write(c) /\ Accepted(c) /\ object' = [object EXCEPT ![Key(c)] = Written(c)]
<1>1. CASE UNCHANGED object
  BY <1>1
<1>2. ASSUME NEW c \in Clients, DeleteInstance(c), object' = [object EXCEPT ![Key(c)] = NoObject]
      PROVE  object'[n].note = object[n].note
  BY <1>2 DEF IInv, TypeOK
<1>3. ASSUME NEW c \in Clients, Write(c), Accepted(c),
             object' = [object EXCEPT ![Key(c)] = Written(c)]
      PROVE  object'[n].note = object[n].note
  <2>1. CASE n = Key(c)
    <3>1. pc[c] = "write"
      BY <1>3 DEF Write
    <3>2. seen[c] # NoObject /\ c \notin stale
      BY <1>3, <2>1 DEF Accepted
    <3>3. seen[c] = object[n]
      BY <2>1, <3>1, <3>2 DEF FreshOK
    <3>4. object'[n] = Written(c)
      BY <1>3, <2>1 DEF IInv, TypeOK
    <3> QED
      BY <3>2, <3>3, <3>4 DEF Written
  <2>2. CASE n # Key(c)
    BY <1>3, <2>2 DEF IInv, TypeOK
  <2> QED
    BY <2>1, <2>2
<1>4. ObjectsWritten
  <2>1. CASE \E m \in Names : Annotate(m)
    BY <2>1 DEF Annotate
  <2>2. ASSUME NEW c \in Clients, Work(c)
        PROVE  ObjectsWritten
    BY <2>2 DEF Work, GetInstance, DeleteInstance, ReadForPut, Write
  <2> QED
    BY <2>1, <2>2 DEF Next, vars, Call, Return, Crash
<1> QED
  BY <1>1, <1>2, <1>3, <1>4

\* No write of the store ever takes back what somebody else wrote on an object.
THEOREM NotesAreKept == Spec => NotesKept
<1> DEFINE Kept == \A n \in Names :
                     object[n] # NoObject /\ object'[n] # NoObject /\ pc' # pc
                     => object'[n].note = object[n].note
<1>1. Init => FreshOK
  BY DEF Init, FreshOK
<1>2. IInv /\ FreshOK /\ [Next]_vars => [Kept]_vars
  BY NotesStep
<1>3. Spec => []FreshOK
  BY <1>1, IInvHolds, NextFreshOK, PTL DEF Spec
<1> QED
  BY <1>2, <1>3, IInvHolds, PTL DEF Spec, NotesKept
=============================================================================
