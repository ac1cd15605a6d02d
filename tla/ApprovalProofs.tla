----------------------------- MODULE ApprovalProofs -----------------------------
(***************************************************************************)
(* Proofs about ApprovalStore, for any number of agents, deciders and      *)
(* requests and any number of crashes.                                     *)
(***************************************************************************)
EXTENDS ApprovalStore, TLAPS

--------------------------------------------------------------------------------
(* Stores stay stores under the updates the calls make. *)

\* A missing approvals file is a store without requests.
LEMMA EmptyIsStore == IsStore(EmptyStore) /\ DOMAIN EmptyStore = {}
  BY DEF IsStore, EmptyStore

\* store[approval_id] = record adds one pending request and changes no other.
LEMMA PutRequest ==
    ASSUME NEW s, IsStore(s), NEW a \in ApprovalId, NEW q \in Quote
    PROVE  LET r == Put(s, a, NewRecord(q))
           IN  /\ IsStore(r)
               /\ DOMAIN r = DOMAIN s \cup {a}
               /\ r[a].status = "PENDING"
               /\ \A b \in DOMAIN s \ {a} : r[b] = s[b]
  BY DEF IsStore, Put, NewRecord, Record, Status

\* Writing a decision into a record changes that record's status only.
LEMMA DecideRequest ==
    ASSUME NEW s, IsStore(s), NEW a \in DOMAIN s, NEW d \in Decision
    PROVE  LET r == [s EXCEPT ![a].status = d]
           IN  /\ IsStore(r)
               /\ DOMAIN r = DOMAIN s
               /\ r[a].status = d
               /\ \A b \in DOMAIN s \ {a} : r[b] = s[b]
  BY DEF IsStore, Record, Status

\* The empty sequence is a sequence over any set.
LEMMA EmptySeq == \A S : <<>> \in Seq(S)
  OBVIOUS

\* Appending keeps what is in a sequence and adds one element at the end.
LEMMA AppendSeq ==
    ASSUME NEW S, NEW s \in Seq(S), NEW e \in S
    PROVE  /\ Append(s, e) \in Seq(S)
           /\ Len(Append(s, e)) = Len(s) + 1 /\ Len(s) \in Nat
           /\ Append(s, e)[Len(s) + 1] = e
           /\ \A i \in 1..Len(s) : Append(s, e)[i] = s[i]
  OBVIOUS

\* An element of a sequence over S is in S.
LEMMA ElementOf ==
    ASSUME NEW S, NEW s \in Seq(S), NEW i \in 1..Len(s)
    PROVE  s[i] \in S
  OBVIOUS

--------------------------------------------------------------------------------
(* Type correctness, with any number of processes. *)

\* The service starts well typed.
LEMMA InitTypeOK == Init => TypeOK
  BY EmptyIsStore, EmptySeq DEF Init, TypeOK

\* What a client sets out to write is typed if it was typed when decided.
LEMMA WillWriteTypeOK ==
    ASSUME TypeOK, NEW c \in Client, NEW s, IsStore(s), NEW k \in Call \cup {NoCall},
           WillWrite(c, s, k), UNCHANGED <<file, seen, history>>
    PROVE  TypeOK'
  BY DEF TypeOK, WillWrite, file, history

\* A request and a decision keep the types.
LEMMA BeginTypeOK ==
    ASSUME TypeOK, NEW c \in Client,
           \/ \E q \in Quote : RequestDiscountApproval(c, q)
           \/ \E a \in ApprovalId, d \in Decision : DecideApproval(c, a, d)
    PROVE  TypeOK'
  <1>1. ASSUME NEW q \in Quote, RequestDiscountApproval(c, q)
        PROVE  TypeOK'
    <2>1. PICK a \in ApprovalId : WillWrite(c, Put(store, a, NewRecord(q)), NoCall)
      BY <1>1 DEF RequestDiscountApproval
    <2>2. IsStore(Put(store, a, NewRecord(q)))
      BY PutRequest DEF TypeOK
    <2> QED
      BY <1>1, <2>1, <2>2, WillWriteTypeOK DEF RequestDiscountApproval
  <1>2. ASSUME NEW a \in ApprovalId, NEW d \in Decision, DecideApproval(c, a, d)
        PROVE  TypeOK'
    <2>1. IsStore([store EXCEPT ![a].status = d])
      BY <1>2, DecideRequest DEF DecideApproval, MayDecide, TypeOK
    <2>2. [id |-> a, decision |-> d] \in Call
      BY DEF Call
    <2> QED
      BY <1>2, <2>1, <2>2, WillWriteTypeOK DEF DecideApproval
  <1> QED
    BY <1>1, <1>2

\* Writing the file and answering keep the types.
LEMMA WriteTypeOK ==
    ASSUME TypeOK, NEW c \in Client, WriteStore(c)
    PROVE  TypeOK'
  <1>1. IsStore(store') /\ whole' \in BOOLEAN
    BY DEF WriteStore, TypeOK
  <1>2. /\ pc' \in [Client -> {"idle", "write"}]
        /\ call' \in [Client -> Call \cup {NoCall}]
    BY DEF WriteStore, TypeOK
  <1>3. DOMAIN next' = Client /\ \A d \in Client : IsStore(next'[d])
    BY EmptyIsStore DEF WriteStore, TypeOK
  <1>4. stored' \subseteq ApprovalId
    BY DEF WriteStore, TypeOK, IsStore
  <1>5. accepted' \in Seq(Call)
    <2>1. CASE call[c] = NoCall
      BY <2>1 DEF WriteStore, TypeOK
    <2>2. CASE call[c] # NoCall
      <3>1. call[c] \in Call
        BY <2>2 DEF TypeOK
      <3> QED
        BY <2>2, <3>1, AppendSeq DEF WriteStore, TypeOK
    <2> QED
      BY <2>1, <2>2
  <1>6. seen' \in [Agent -> SUBSET (ApprovalId \X Decision)] /\ crashes' \in Nat
    BY DEF WriteStore, TypeOK
  <1> QED
    BY <1>1, <1>2, <1>3, <1>4, <1>5, <1>6 DEF TypeOK

\* A poll keeps the types.
LEMMA ReadTypeOK ==
    ASSUME TypeOK, NEW c \in Agent, NEW a \in ApprovalId, GetApprovalStatus(c, a)
    PROVE  TypeOK'
  <1>1. <<a, store[a].status>> \in ApprovalId \X Decision
    BY DEF GetApprovalStatus
  <1>2. seen' \in [Agent -> SUBSET (ApprovalId \X Decision)]
    BY <1>1 DEF GetApprovalStatus, TypeOK
  <1> QED
    BY <1>2 DEF GetApprovalStatus, TypeOK, file, work, history

\* A crash or a container restart leaves well-typed files and idle clients.
LEMMA ForgetTypeOK ==
    ASSUME TypeOK, NEW C, Forget(C), UNCHANGED <<seen, stored, accepted>>,
           crashes' = crashes + 1,
           \/ UNCHANGED file
           \/ store' = EmptyStore /\ whole' \in BOOLEAN
    PROVE  TypeOK'
  <1>1. IsStore(store') /\ whole' \in BOOLEAN
    BY EmptyIsStore DEF TypeOK, file
  <1>2. /\ pc' \in [Client -> {"idle", "write"}]
        /\ call' \in [Client -> Call \cup {NoCall}]
    BY DEF TypeOK, Forget
  <1>3. DOMAIN next' = Client /\ \A c \in Client : IsStore(next'[c])
    BY EmptyIsStore DEF TypeOK, Forget
  <1> QED
    BY <1>1, <1>2, <1>3 DEF TypeOK

\* Every step of the service keeps the types.
LEMMA NextTypeOK ==
    ASSUME TypeOK, [Next]_vars
    PROVE  TypeOK'
  <1>1. ASSUME NEW c \in Agent, NEW q \in Quote, RequestDiscountApproval(c, q)
        PROVE  TypeOK'
    BY <1>1, BeginTypeOK DEF Client
  <1>2. ASSUME NEW c \in Agent, NEW a \in ApprovalId, GetApprovalStatus(c, a)
        PROVE  TypeOK'
    BY <1>2, ReadTypeOK
  <1>3. ASSUME NEW c \in Decider, NEW a \in ApprovalId, NEW d \in Decision,
               DecideApproval(c, a, d)
        PROVE  TypeOK'
    BY <1>3, BeginTypeOK DEF Client
  <1>4. ASSUME NEW c \in Client, WriteStore(c)
        PROVE  TypeOK'
    BY <1>4, WriteTypeOK
  <1>5. ASSUME NEW p, Crash(p)
        PROVE  TypeOK'
    BY <1>5, ForgetTypeOK DEF Crash
  <1>6. CASE ContainerRestart
    BY <1>6, ForgetTypeOK DEF ContainerRestart
  <1>7. CASE UNCHANGED vars
    BY <1>7 DEF vars, file, work, history, TypeOK
  <1> QED
    BY <1>1, <1>2, <1>3, <1>4, <1>5, <1>6, <1>7 DEF Next

\* Every variable of the service keeps its type in every reachable state.
THEOREM TypeCorrect == Spec => []TypeOK
  <1>1. TypeOK /\ [Next]_vars => TypeOK'
    BY NextTypeOK
  <1> QED
    BY <1>1, InitTypeOK, PTL DEF Spec

--------------------------------------------------------------------------------
(* A decision is final when all clients share one lock.  DecisionIsFinal   *)
(* is not inductive: a client about to write must still be right about     *)
(* the store it read.  So the invariant says that the writer is alone with *)
(* the file, that it adds one request never stored before or decides one   *)
(* that is pending, and that every id ever answered for has been stored.   *)

SingleLock == \A c, d \in Client : ProcessOf[c] = ProcessOf[d]

Exclusive == \A c, d \in Client : pc[c] = "write" /\ pc[d] = "write" => c = d

Resting == \A c \in Client : pc[c] = "idle" => next[c] = EmptyStore /\ call[c] = NoCall

WritesRequest(c) ==
    /\ call[c] = NoCall
    /\ \E a \in ApprovalId \ stored, q \in Quote : next[c] = Put(store, a, NewRecord(q))

WritesDecision(c) ==
    /\ call[c] \in Call
    /\ MayDecide(call[c].id)
    /\ next[c] = [store EXCEPT ![call[c].id].status = call[c].decision]

WriterIsCurrent ==
    \A c \in Client : pc[c] = "write" => WritesRequest(c) \/ WritesDecision(c)

StoredIsKnown ==
    /\ DOMAIN store \subseteq stored
    /\ \A i \in 1..Len(accepted) : accepted[i].id \in stored

DecisionInv ==
    /\ Exclusive
    /\ Resting
    /\ WriterIsCurrent
    /\ StoredIsKnown
    /\ DecisionIsFinal

\* The service starts with the invariant behind DecisionIsFinal.
LEMMA InitDecisionInv == Init => DecisionInv
  BY EmptyIsStore DEF Init, DecisionInv, Exclusive, Resting, WriterIsCurrent,
     StoredIsKnown, DecisionIsFinal

\* A client that finds the lock free finds everybody idle; what it sets out
\* to write is the store with one request more, or with one decided.
LEMMA BeginDecisionInv ==
    ASSUME SingleLock, TypeOK, DecisionInv, NEW c \in Client,
           \/ \E q \in Quote : RequestDiscountApproval(c, q)
           \/ \E a \in ApprovalId, d \in Decision : DecideApproval(c, a, d)
    PROVE  DecisionInv'
  <1> USE DEF DecisionInv
  <1>1. ASSUME NEW s, NEW k, WillWrite(c, s, k), LockFree(c),
               UNCHANGED <<file, seen, history>>,
               \/ k = NoCall /\ \E a \in ApprovalId \ stored, q \in Quote :
                                    s = Put(store, a, NewRecord(q))
               \/ k \in Call /\ MayDecide(k.id)
                             /\ s = [store EXCEPT ![k.id].status = k.decision]
        PROVE  DecisionInv'
    <2>1. \A d \in Client : pc[d] = "idle"
      BY <1>1 DEF LockFree, SingleLock
    <2>2. /\ pc'[c] = "write" /\ next'[c] = s /\ call'[c] = k
          /\ \A d \in Client \ {c} : /\ pc'[d] = "idle" /\ next'[d] = next[d]
                                     /\ call'[d] = call[d]
      BY <1>1, <2>1 DEF WillWrite, TypeOK
    <2>3. UNCHANGED <<store, stored, accepted>>
      BY <1>1 DEF file, history
    <2>4. Exclusive' /\ Resting'
      BY <2>1, <2>2 DEF Exclusive, Resting
    <2>5. WriterIsCurrent'
      BY <1>1, <2>2, <2>3
         DEF WriterIsCurrent, WritesRequest, WritesDecision, MayDecide
    <2>6. StoredIsKnown' /\ DecisionIsFinal'
      BY <2>3 DEF StoredIsKnown, DecisionIsFinal
    <2> QED
      BY <2>4, <2>5, <2>6
  <1>2. ASSUME NEW q \in Quote, RequestDiscountApproval(c, q)
        PROVE  DecisionInv'
    <2>1. PICK a \in ApprovalId \ stored :
              WillWrite(c, Put(store, a, NewRecord(q)), NoCall)
      BY <1>2 DEF RequestDiscountApproval, Fresh
    <2> QED
      BY <1>1, <1>2, <2>1 DEF RequestDiscountApproval
  <1>3. ASSUME NEW a \in ApprovalId, NEW d \in Decision, DecideApproval(c, a, d)
        PROVE  DecisionInv'
    <2> DEFINE k == [id |-> a, decision |-> d]
    <2>1. k \in Call /\ k.id = a /\ k.decision = d
      BY DEF Call
    <2>2. WillWrite(c, [store EXCEPT ![k.id].status = k.decision], k)
      BY <1>3 DEF DecideApproval
    <2> HIDE DEF k
    <2> QED
      BY <1>1, <1>3, <2>1, <2>2 DEF DecideApproval
  <1> QED
    BY <1>2, <1>3

\* The writer alone changes the file: a new request has never been answered
\* for, and a decision is the first for a request that was still pending.
LEMMA WriteDecisionInv ==
    ASSUME TypeOK, DecisionInv, NEW c \in Client, WriteStore(c)
    PROVE  DecisionInv'
  <1> USE DEF DecisionInv
  <1>1. /\ pc[c] = "write" /\ store' = next[c]
        /\ stored' = stored \cup DOMAIN next[c]
        /\ pc'[c] = "idle" /\ next'[c] = EmptyStore /\ call'[c] = NoCall
        /\ \A d \in Client \ {c} : /\ pc'[d] = pc[d] /\ next'[d] = next[d]
                                   /\ call'[d] = call[d]
    BY DEF WriteStore, TypeOK
  <1>2. \A d \in Client : pc'[d] # "write"
    BY <1>1 DEF Exclusive
  <1>3. Exclusive' /\ Resting' /\ WriterIsCurrent'
    BY <1>1, <1>2 DEF Exclusive, Resting, WriterIsCurrent
  <1>4. StoredIsKnown' /\ DecisionIsFinal'
    <2>1. CASE WritesRequest(c)
      <3>1. PICK a \in ApprovalId \ stored, q \in Quote :
                next[c] = Put(store, a, NewRecord(q))
        BY <2>1 DEF WritesRequest
      <3>2. /\ DOMAIN next[c] = DOMAIN store \cup {a}
            /\ \A b \in DOMAIN store \ {a} : next[c][b] = store[b]
        <4>1. IsStore(store) /\ a \in ApprovalId
          BY DEF TypeOK
        <4>2. /\ DOMAIN Put(store, a, NewRecord(q)) = DOMAIN store \cup {a}
              /\ \A b \in DOMAIN store \ {a} : Put(store, a, NewRecord(q))[b] = store[b]
          BY <4>1, PutRequest
        <4> QED
          BY <3>1, <4>2
      <3>3. accepted' = accepted
        BY <2>1 DEF WriteStore, WritesRequest
      <3>4. \A i \in 1..Len(accepted) : accepted[i].id # a
        BY DEF StoredIsKnown
      <3> QED
        BY <1>1, <3>2, <3>3, <3>4 DEF StoredIsKnown, DecisionIsFinal
    <2>2. CASE WritesDecision(c)
      <3> DEFINE a == call[c].id
                 d == call[c].decision
      <3>1. /\ call[c] \in Call /\ a \in DOMAIN store /\ d \in Decision
            /\ store[a].status = "PENDING"
        BY <2>2 DEF WritesDecision, MayDecide, Call
      <3>2. /\ DOMAIN next[c] = DOMAIN store
            /\ next[c][a].status = d
            /\ \A b \in DOMAIN store \ {a} : next[c][b] = store[b]
        BY <2>2, <3>1, DecideRequest DEF WritesDecision, TypeOK
      <3>3. accepted' = Append(accepted, call[c])
        BY <3>1, ApprovalAssumption DEF WriteStore
      <3>4. /\ Len(accepted') = Len(accepted) + 1 /\ Len(accepted) \in Nat
            /\ accepted'[Len(accepted) + 1] = call[c]
            /\ \A i \in 1..Len(accepted) : accepted'[i] = accepted[i]
        BY <3>1, <3>3, AppendSeq DEF TypeOK
      <3>5. \A i \in 1..Len(accepted) : accepted[i].id # a
        <4>1. \A i \in 1..Len(accepted) : accepted[i].decision \in Decision
          <5>1. \A i \in 1..Len(accepted) : accepted[i] \in Call
            BY ElementOf DEF TypeOK
          <5> QED
            BY <5>1 DEF Call
        <4> QED
          BY <3>1, <4>1 DEF DecisionIsFinal, Decision
      <3>6. \A i \in 1..Len(accepted') :
               i \in 1..Len(accepted) \/ i = Len(accepted) + 1
        BY <3>4
      <3>7. StoredIsKnown'
        BY <1>1, <3>1, <3>2, <3>4, <3>6 DEF StoredIsKnown
      <3>8. DecisionIsFinal'
        BY <1>1, <3>1, <3>2, <3>4, <3>5, <3>6 DEF DecisionIsFinal
      <3> QED
        BY <3>7, <3>8
    <2> QED
      BY <1>1, <2>1, <2>2 DEF WriterIsCurrent
  <1> QED
    BY <1>3, <1>4

\* A crash takes every client of the one process with it; what is left of the
\* file is what was there, or nothing.
LEMMA ForgetDecisionInv ==
    ASSUME TypeOK, DecisionInv, Forget(Client), UNCHANGED <<stored, accepted>>,
           store' \in {store, EmptyStore}
    PROVE  DecisionInv'
  <1> USE DEF DecisionInv
  <1>1. \A c \in Client : pc'[c] = "idle" /\ next'[c] = EmptyStore /\ call'[c] = NoCall
    BY DEF Forget
  <1>2. Exclusive' /\ Resting' /\ WriterIsCurrent'
    BY <1>1 DEF Exclusive, Resting, WriterIsCurrent
  <1>3. StoredIsKnown' /\ DecisionIsFinal'
    BY EmptyIsStore DEF StoredIsKnown, DecisionIsFinal
  <1> QED
    BY <1>2, <1>3

\* Under a single lock every step keeps the invariant.
LEMMA NextDecisionInv ==
    ASSUME SingleLock, TypeOK, DecisionInv, [Next]_vars
    PROVE  DecisionInv'
  <1>1. ASSUME NEW c \in Agent, NEW q \in Quote, RequestDiscountApproval(c, q)
        PROVE  DecisionInv'
    BY <1>1, BeginDecisionInv DEF Client
  <1>2. ASSUME NEW c \in Agent, NEW a \in ApprovalId, GetApprovalStatus(c, a)
        PROVE  DecisionInv'
    <2>1. UNCHANGED <<pc, next, call, store, stored, accepted>>
      BY <1>2 DEF GetApprovalStatus, file, work, history
    <2> QED
      BY <2>1 DEF DecisionInv, Exclusive, Resting, WriterIsCurrent, WritesRequest,
         WritesDecision, MayDecide, StoredIsKnown, DecisionIsFinal
  <1>3. ASSUME NEW c \in Decider, NEW a \in ApprovalId, NEW d \in Decision,
               DecideApproval(c, a, d)
        PROVE  DecisionInv'
    BY <1>3, BeginDecisionInv DEF Client
  <1>4. ASSUME NEW c \in Client, WriteStore(c)
        PROVE  DecisionInv'
    BY <1>4, WriteDecisionInv
  <1>5. ASSUME NEW c \in Client, Crash(ProcessOf[c])
        PROVE  DecisionInv'
    <2>1. {d \in Client : ProcessOf[d] = ProcessOf[c]} = Client
      BY DEF SingleLock
    <2> QED
      BY <1>5, <2>1, ForgetDecisionInv DEF Crash, file
  <1>6. CASE ContainerRestart
    BY <1>6, ForgetDecisionInv DEF ContainerRestart
  <1>7. CASE UNCHANGED vars
    <2>1. UNCHANGED <<pc, next, call, store, stored, accepted>>
      BY <1>7 DEF vars, file, work, history
    <2> QED
      BY <2>1 DEF DecisionInv, Exclusive, Resting, WriterIsCurrent, WritesRequest,
         WritesDecision, MayDecide, StoredIsKnown, DecisionIsFinal
  <1> QED
    BY <1>1, <1>2, <1>3, <1>4, <1>5, <1>6, <1>7 DEF Next

\* With one lock over the file the invariant holds in every reachable state.
THEOREM DecisionInvariant ==
    ASSUME SingleLock
    PROVE  Spec => [](TypeOK /\ DecisionInv)
  <1>1. Init => TypeOK /\ DecisionInv
    BY InitTypeOK, InitDecisionInv
  <1>2. TypeOK /\ DecisionInv /\ [Next]_vars => TypeOK' /\ DecisionInv'
    BY SingleLock, NextTypeOK, NextDecisionInv
  <1> QED
    BY <1>1, <1>2, PTL DEF Spec

\* A decided request never flips again, for any number of agents, deciders,
\* requests and crashes, as long as they share one lock.
THEOREM DecisionIsFinalTheorem ==
    ASSUME SingleLock
    PROVE  Spec => []DecisionIsFinal
  <1>1. DecisionInv => DecisionIsFinal
    BY DEF DecisionInv
  <1> QED
    BY <1>1, DecisionInvariant, PTL

--------------------------------------------------------------------------------
(* The service implements ApprovalDecision: the life of a request is read  *)
(* off the file and off the ids stored so far.  Only WriteStore, a poll    *)
(* and a loss of the file move it; every other step is a stutter.          *)

\* One request's status moves and no other: a step of the abstract service.
LEMMA OneBecomes ==
    ASSUME NEW a \in ApprovalId, NEW from, NEW to,
           StatusOf(a) = from, StatusOf(a)' = to,
           \A b \in ApprovalId \ {a} : StatusOf(b)' = StatusOf(b),
           UNCHANGED seen
    PROVE  Decided!Become(a, from, to)
  BY DEF Decided!Become

\* Steps that leave the file, the stored ids and the readers alone stutter.
LEMMA FileUnchanged ==
    ASSUME UNCHANGED <<store, stored, seen>>
    PROVE  UNCHANGED Decided!vars
  BY DEF Decided!vars, StatusOf

\* Losing the file loses every request that was ever in it, and no other.
LEMMA FileLost ==
    ASSUME TypeOK, StoredIsKnown, store' = EmptyStore, UNCHANGED <<stored, seen>>
    PROVE  Decided!Lose
  <1>1. \A a \in ApprovalId :
           StatusOf(a)' = IF a \in stored THEN "lost" ELSE "none"
    BY EmptyIsStore DEF StatusOf
  <1>2. \A a \in ApprovalId : StatusOf(a) = "none" <=> a \notin stored
    BY DEF StatusOf, StoredIsKnown, TypeOK, IsStore, Record, Status, Decision
  <1> QED
    BY <1>1, <1>2 DEF Decided!Lose

\* The service starts as the abstract service does, knowing no request.
LEMMA InitMaps == Init => Decided!Init
  BY EmptyIsStore DEF Init, Decided!Init, StatusOf

\* Writing the file is the abstract request, or the abstract decision, that
\* the writer set out to make.
LEMMA WriteMaps ==
    ASSUME TypeOK, DecisionInv, NEW c \in Client, WriteStore(c)
    PROVE  Decided!Next
  <1>1. /\ pc[c] = "write" /\ store' = next[c]
        /\ stored' = stored \cup DOMAIN next[c]
        /\ UNCHANGED seen
    BY DEF WriteStore
  <1>2. DOMAIN store \subseteq stored /\ IsStore(store)
    BY DEF DecisionInv, StoredIsKnown, TypeOK
  <1>3. CASE WritesRequest(c)
    <2>1. PICK a \in ApprovalId \ stored, q \in Quote :
              next[c] = Put(store, a, NewRecord(q))
      BY <1>3 DEF WritesRequest
    <2>2. /\ DOMAIN store' = DOMAIN store \cup {a} /\ stored' = stored \cup {a}
          /\ store'[a].status = "PENDING"
          /\ \A b \in DOMAIN store \ {a} : store'[b] = store[b]
      <3>1. /\ DOMAIN Put(store, a, NewRecord(q)) = DOMAIN store \cup {a}
            /\ Put(store, a, NewRecord(q))[a].status = "PENDING"
            /\ \A b \in DOMAIN store \ {a} : Put(store, a, NewRecord(q))[b] = store[b]
        BY <1>2, PutRequest
      <3> QED
        BY <1>1, <1>2, <2>1, <3>1
    <2>3. StatusOf(a) = "none" /\ StatusOf(a)' = "PENDING"
      BY <1>2, <2>2 DEF StatusOf
    <2>4. \A b \in ApprovalId \ {a} : StatusOf(b)' = StatusOf(b)
      BY <2>2 DEF StatusOf
    <2>5. Decided!Request(a)
      BY <1>1, <2>3, <2>4, OneBecomes DEF Decided!Request
    <2> QED
      BY <2>5 DEF Decided!Next
  <1>4. CASE WritesDecision(c)
    <2>1. PICK a \in ApprovalId, d \in Decision : a = call[c].id /\ d = call[c].decision
      BY <1>4 DEF WritesDecision, Call
    <2>2. /\ a \in DOMAIN store /\ store[a].status = "PENDING"
          /\ next[c] = [store EXCEPT ![a].status = d]
      BY <1>4, <2>1 DEF WritesDecision, MayDecide
    <2>3. /\ DOMAIN store' = DOMAIN store /\ stored' = stored
          /\ store'[a].status = d
          /\ \A b \in DOMAIN store \ {a} : store'[b] = store[b]
      <3> DEFINE r == [store EXCEPT ![a].status = d]
      <3>1. /\ DOMAIN r = DOMAIN store /\ r[a].status = d
            /\ \A b \in DOMAIN store \ {a} : r[b] = store[b]
        BY <1>2, <2>2, DecideRequest
      <3>2. store' = r
        BY <1>1, <2>2
      <3> QED
        BY <1>1, <1>2, <3>1, <3>2
    <2>4. StatusOf(a) = "PENDING" /\ StatusOf(a)' = d
      BY <2>2, <2>3 DEF StatusOf
    <2>5. \A u \in ApprovalId \ {a} : StatusOf(u)' = StatusOf(u)
      BY <2>3 DEF StatusOf
    <2>6. Decided!Decide(a, d)
      BY <1>1, <2>4, <2>5, OneBecomes DEF Decided!Decide
    <2> QED
      BY <2>6 DEF Decided!Next
  <1> QED
    BY <1>1, <1>3, <1>4 DEF DecisionInv, WriterIsCurrent

\* An agent that is told a decision reads it off the abstract service.
LEMMA ReadMaps ==
    ASSUME NEW c \in Agent, NEW a \in ApprovalId, GetApprovalStatus(c, a)
    PROVE  Decided!Next
  <1>1. StatusOf(a) = store[a].status /\ StatusOf(a) \in Decision
    BY DEF GetApprovalStatus, StatusOf
  <1>2. UNCHANGED <<store, stored>>
    BY DEF GetApprovalStatus, file, history
  <1>3. \A b \in ApprovalId : StatusOf(b)' = StatusOf(b)
    BY <1>2 DEF StatusOf
  <1>4. seen' = [seen EXCEPT ![c] = @ \cup {<<a, StatusOf(a)>>}]
    BY <1>1 DEF GetApprovalStatus
  <1>5. Decided!Read(c, a)
    BY <1>1, <1>3, <1>4 DEF Decided!Read
  <1> QED
    BY <1>5 DEF Decided!Next

\* Every step of the service is a step of the abstract service or none.
LEMMA NextMaps ==
    ASSUME TypeOK, DecisionInv, [Next]_vars
    PROVE  [Decided!Next]_(Decided!vars)
  <1>1. ASSUME NEW c \in Agent, NEW q \in Quote, RequestDiscountApproval(c, q)
        PROVE  UNCHANGED Decided!vars
    BY <1>1, FileUnchanged DEF RequestDiscountApproval, file, history
  <1>2. ASSUME NEW c \in Agent, NEW a \in ApprovalId, GetApprovalStatus(c, a)
        PROVE  Decided!Next
    BY <1>2, ReadMaps
  <1>3. ASSUME NEW c \in Decider, NEW a \in ApprovalId, NEW d \in Decision,
               DecideApproval(c, a, d)
        PROVE  UNCHANGED Decided!vars
    BY <1>3, FileUnchanged DEF DecideApproval, file, history
  <1>4. ASSUME NEW c \in Client, WriteStore(c)
        PROVE  Decided!Next
    BY <1>4, WriteMaps
  <1>5. ASSUME store' = EmptyStore, UNCHANGED <<stored, seen>>
        PROVE  Decided!Next
    BY <1>5, FileLost DEF DecisionInv, Decided!Next
  <1>6. ASSUME NEW c \in Client, Crash(ProcessOf[c])
        PROVE  [Decided!Next]_(Decided!vars)
    BY <1>5, <1>6, FileUnchanged DEF Crash, file
  <1>7. CASE ContainerRestart
    BY <1>5, <1>7 DEF ContainerRestart
  <1>8. CASE UNCHANGED vars
    BY <1>8, FileUnchanged DEF vars, file, history
  <1> QED
    BY <1>1, <1>2, <1>3, <1>4, <1>6, <1>7, <1>8 DEF Next

\* With one lock the service over its file, crashes included, behaves as the
\* abstract one: a request waits, is decided once, or is lost.
THEOREM StoreImplementsDecisionTheorem ==
    ASSUME SingleLock
    PROVE  Spec => StoreImplementsDecision
  <1>1. Init => Decided!Init
    BY InitMaps
  <1>2. TypeOK /\ DecisionInv /\ [Next]_vars => [Decided!Next]_(Decided!vars)
    BY NextMaps
  <1> QED
    BY <1>1, <1>2, DecisionInvariant, PTL
       DEF Spec, StoreImplementsDecision, Decided!Spec

================================================================================
