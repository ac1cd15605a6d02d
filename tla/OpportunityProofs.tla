---------------------------- MODULE OpportunityProofs ----------------------------
(***************************************************************************)
(* Proofs about OpportunityStore, for any number of callers, opportunities *)
(* and fields, any version bound and any number of crashes.                *)
(***************************************************************************)
EXTENDS OpportunityStore, TLAPS

--------------------------------------------------------------------------------
(* The operators of the store. *)

\* The empty sequence is a sequence over any set.
LEMMA EmptySeq == \A S : <<>> \in Seq(S)
  OBVIOUS

\* Appending keeps what is in a sequence and adds one element at the end.
LEMMA AppendSeq ==
    ASSUME NEW S, NEW s \in Seq(S), NEW e \in S
    PROVE  /\ Append(s, e) \in Seq(S)
           /\ Len(Append(s, e)) = Len(s) + 1 /\ Len(s) \in Nat
           /\ Append(s, e)[Len(s) + 1] = e
           /\ \A i \in 1..Len(s) : Append(s, e)[i] = s[i]
  OBVIOUS

\* An element of a sequence over S is in S.
LEMMA ElementOf ==
    ASSUME NEW S, NEW s \in Seq(S), NEW i \in 1..Len(s)
    PROVE  s[i] \in S
  OBVIOUS

\* Fields merged with changed fields are fields.
LEMMA MergeType ==
    ASSUME NEW f \in FieldValues, NEW g \in FieldValues
    PROVE  Merge(f, g) \in FieldValues
  <1>1. PICK F \in SUBSET Field : f \in [F -> Value]
    BY DEF FieldValues
  <1>2. PICK G \in SUBSET Field : g \in [G -> Value]
    BY DEF FieldValues
  <1>3. Merge(f, g) \in [F \cup G -> Value]
    BY <1>1, <1>2 DEF Merge
  <1> QED
    BY <1>3 DEF FieldValues

\* A missing file has every opportunity at version 1 without fields.
LEMMA NoOverlayIsFile ==
    /\ IsFile(NoOverlay, {})
    /\ \A o \in Opportunity : NoOverlay[o].version = 1
  <1>1. NoFields \in FieldValues
    <2>1. NoFields \in [{} -> Value]
      BY DEF NoFields
    <2> QED
      BY <2>1 DEF FieldValues
  <1>2. 1 \in 1..MaxVersion
    BY OpportunityAssumption
  <1>3. [version |-> 1, fields |-> NoFields]
           \in [version : 1..MaxVersion, fields : FieldValues]
    BY <1>1, <1>2
  <1> QED
    BY <1>3 DEF IsFile, NoOverlay

\* An accepted call raises the version of its opportunity by one, leaves the
\* other opportunities alone, and what it writes is a file.
LEMMA MergedIsFile ==
    ASSUME IsFile(overlay, ledger), NEW k \in Call,
           overlay[k.opp].version < MaxVersion
    PROVE  LET m == [overlay EXCEPT ![k.opp] = Merged(k)]
           IN  /\ IsFile(m, ledger \cup {k})
               /\ m[k.opp].version = overlay[k.opp].version + 1
               /\ \A o \in Opportunity \ {k.opp} : m[o] = overlay[o]
  <1>1. PICK o \in Opportunity : o = k.opp
    BY DEF Call
  <1>2. /\ overlay[o] \in [version : 1..MaxVersion, fields : FieldValues]
        /\ k.fields \in FieldValues
    BY <1>1 DEF IsFile, Call
  <1>3. /\ overlay[o].version + 1 \in 1..MaxVersion
        /\ Merge(overlay[o].fields, k.fields) \in FieldValues
    BY <1>1, <1>2, MergeType, OpportunityAssumption
  <1>4. /\ Merged(k) \in [version : 1..MaxVersion, fields : FieldValues]
        /\ Merged(k).version = overlay[o].version + 1
    BY <1>1, <1>3 DEF Merged
  <1> QED
    BY <1>1, <1>4 DEF IsFile

--------------------------------------------------------------------------------
(* Type correctness, with any number of processes.  A caller that is not   *)
(* idle has a call: the types of what it writes rest on that.              *)

Calling == \A c \in Caller : pc[c] # "idle" => call[c] \in Call

\* The store starts well typed.
LEMMA InitTypeOK == Init => TypeOK /\ Calling
  <1> SUFFICES ASSUME Init PROVE TypeOK /\ Calling
    OBVIOUS
  <1>1. /\ IsFile(overlay, ledger)
        /\ \A c \in Caller : IsFile(next[c][1], next[c][2])
    BY NoOverlayIsFile DEF Init
  <1>2. applied \in Seq(Call) /\ crashes \in 0..MaxCrashes
    BY EmptySeq, OpportunityAssumption DEF Init
  <1> QED
    BY <1>1, <1>2 DEF Init, TypeOK, Calling

\* Reading makes a call out of the version read.
LEMMA ReadTypeOK ==
    ASSUME TypeOK, Calling, NEW c \in Caller, NEW o \in Opportunity,
           NEW fields \in Offered, ReadOpportunity(c, o, fields)
    PROVE  TypeOK' /\ Calling'
  <1>1. overlay[o].version \in 1..MaxVersion
    BY DEF TypeOK, IsFile
  <1>2. [opp |-> o, fields |-> fields, version |-> overlay[o].version] \in Call
    BY <1>1, OpportunityAssumption DEF Call
  <1>3. /\ call' \in [Caller -> Call \cup {NoCall}]
        /\ call'[c] \in Call
        /\ \A d \in Caller \ {c} : call'[d] = call[d]
    BY <1>2 DEF TypeOK, ReadOpportunity
  <1>4. /\ pc' \in [Caller -> {"idle", "update", "write", "answered"}]
        /\ \A d \in Caller \ {c} : pc'[d] = pc[d]
        /\ outcome' \in [Caller -> {"none", "done", "conflict", "refused"}]
    BY DEF TypeOK, ReadOpportunity
  <1> QED
    BY <1>3, <1>4 DEF TypeOK, Calling, ReadOpportunity, file

\* Steps that change neither file nor calls, only where callers are and
\* what they were told.
LEMMA AnswerTypeOK ==
    ASSUME TypeOK, Calling, NEW c \in Caller,
           UNCHANGED <<file, call, next, applied, crashes>>,
           \/ \E answer \in {"done", "conflict", "refused"} : Answered(c, answer)
           \/ \E stage \in {"idle", "update"} :
                 pc' = [pc EXCEPT ![c] = stage] /\ UNCHANGED outcome,
           pc[c] # "idle"
    PROVE  TypeOK' /\ Calling'
  <1>1. /\ pc' \in [Caller -> {"idle", "update", "write", "answered"}]
        /\ \A d \in Caller \ {c} : pc'[d] = pc[d]
        /\ outcome' \in [Caller -> {"none", "done", "conflict", "refused"}]
    BY DEF TypeOK, Answered
  <1> QED
    BY <1>1 DEF TypeOK, Calling, file

\* An accepted call is about to write a well-typed file.
LEMMA UpdateTypeOK ==
    ASSUME TypeOK, Calling, NEW c \in Caller, Update(c)
    PROVE  TypeOK' /\ Calling'
  <1>1. PICK k \in Call : k = call[c]
    BY DEF Calling, Update
  <1>2. IsFile([overlay EXCEPT ![k.opp] = Merged(k)], ledger \cup {k})
    BY <1>1, MergedIsFile DEF Update, TypeOK
  <1>3. PICK f : f = <<[overlay EXCEPT ![k.opp] = Merged(k)], ledger \cup {k}>>
    OBVIOUS
  <1>4. next' = [next EXCEPT ![c] = f] /\ IsFile(f[1], f[2])
    BY <1>1, <1>2, <1>3 DEF Update
  <1>5. DOMAIN next' = Caller /\ \A d \in Caller : IsFile(next'[d][1], next'[d][2])
    BY <1>4 DEF TypeOK
  <1>6. /\ pc' \in [Caller -> {"idle", "update", "write", "answered"}]
        /\ \A d \in Caller \ {c} : pc'[d] = pc[d]
    BY DEF TypeOK, Update
  <1> QED
    BY <1>1, <1>5, <1>6 DEF TypeOK, Calling, Update, file

\* Writing the file makes the call part of the history.
LEMMA WriteTypeOK ==
    ASSUME TypeOK, Calling, NEW c \in Caller, WriteStore(c)
    PROVE  TypeOK' /\ Calling'
  <1>1. IsFile(overlay', ledger')
    BY DEF WriteStore, TypeOK, IsFile
  <1>2. DOMAIN next' = Caller /\ \A d \in Caller : IsFile(next'[d][1], next'[d][2])
    <2>1. PICK f : f = <<NoOverlay, {}>>
      OBVIOUS
    <2>2. next' = [next EXCEPT ![c] = f] /\ IsFile(f[1], f[2])
      BY <2>1, NoOverlayIsFile DEF WriteStore
    <2> QED
      BY <2>2 DEF TypeOK
  <1>3. applied' \in Seq(Call)
    BY AppendSeq DEF WriteStore, TypeOK, Calling
  <1>4. /\ pc' \in [Caller -> {"idle", "update", "write", "answered"}]
        /\ \A d \in Caller \ {c} : pc'[d] = pc[d]
        /\ outcome' \in [Caller -> {"none", "done", "conflict", "refused"}]
    BY DEF TypeOK, WriteStore, Answered
  <1> QED
    BY <1>1, <1>2, <1>3, <1>4 DEF TypeOK, Calling, WriteStore

\* Crashes and restarts leave well-typed files and callers that start over.
LEMMA ForgetTypeOK ==
    ASSUME TypeOK, Calling, NEW C, Forget(C),
           crashes < MaxCrashes, crashes' = crashes + 1,
           \/ UNCHANGED <<file, applied>>
           \/ overlay' = NoOverlay /\ ledger' = {} /\ applied' = <<>>
    PROVE  TypeOK' /\ Calling'
  <1>1. IsFile(overlay', ledger') /\ applied' \in Seq(Call)
    BY NoOverlayIsFile, EmptySeq DEF TypeOK, file
  <1>2. DOMAIN next' = Caller /\ \A d \in Caller : IsFile(next'[d][1], next'[d][2])
    <2>1. PICK f : f = <<NoOverlay, {}>>
      OBVIOUS
    <2>2. IsFile(f[1], f[2])
      BY <2>1, NoOverlayIsFile
    <2>3. next' = [c \in Caller |-> IF c \in C THEN f ELSE next[c]]
      BY <2>1 DEF Forget
    <2> QED
      BY <2>2, <2>3 DEF TypeOK
  <1>3. /\ pc' \in [Caller -> {"idle", "update", "write", "answered"}]
        /\ call' \in [Caller -> Call \cup {NoCall}]
        /\ outcome' \in [Caller -> {"none", "done", "conflict", "refused"}]
    BY DEF TypeOK, Forget
  <1>4. Calling'
    BY DEF Calling, Forget
  <1>5. crashes' \in 0..MaxCrashes
    BY OpportunityAssumption DEF TypeOK
  <1> QED
    BY <1>1, <1>2, <1>3, <1>4, <1>5 DEF TypeOK

\* Every step of the store keeps the types.
LEMMA NextTypeOK ==
    ASSUME TypeOK, Calling, [Next]_vars
    PROVE  TypeOK' /\ Calling'
  <1>1. ASSUME NEW c \in Caller, NEW o \in Opportunity, NEW fields \in Offered,
               ReadOpportunity(c, o, fields)
        PROVE  TypeOK' /\ Calling'
    BY <1>1, ReadTypeOK
  <1>2. ASSUME NEW c \in Caller, Replay(c) \/ Refuse(c) \/ Conflict(c)
        PROVE  TypeOK' /\ Calling'
    BY <1>2, AnswerTypeOK DEF Replay, Refuse, Conflict
  <1>3. ASSUME NEW c \in Caller, Finish(c) \/ Retry(c)
        PROVE  TypeOK' /\ Calling'
    <2>1. UNCHANGED <<file, call, next, applied, crashes>> /\ pc[c] # "idle"
      BY <1>3 DEF Finish, Retry
    <2> QED
      BY <1>3, <2>1, AnswerTypeOK DEF Finish, Retry
  <1>4. ASSUME NEW c \in Caller, Update(c)
        PROVE  TypeOK' /\ Calling'
    BY <1>4, UpdateTypeOK
  <1>5. ASSUME NEW c \in Caller, WriteStore(c)
        PROVE  TypeOK' /\ Calling'
    BY <1>5, WriteTypeOK
  <1>6. ASSUME NEW p, Crash(p)
        PROVE  TypeOK' /\ Calling'
    BY <1>6, ForgetTypeOK DEF Crash
  <1>7. CASE ContainerRestart
    BY <1>7, ForgetTypeOK DEF ContainerRestart
  <1>8. CASE UNCHANGED vars
    BY <1>8 DEF vars, file, TypeOK, Calling
  <1> QED
    BY <1>1, <1>2, <1>3, <1>4, <1>5, <1>6, <1>7, <1>8 DEF Next

\* Every variable of the store keeps its type in every reachable state.
THEOREM TypeCorrect == Spec => []TypeOK
  <1>1. TypeOK /\ Calling /\ [Next]_vars => TypeOK' /\ Calling'
    BY NextTypeOK
  <1> QED
    BY <1>1, InitTypeOK, PTL DEF Spec

--------------------------------------------------------------------------------
(* When one process serves all callers, writes are made on the version     *)
(* before them and answers are true.  Neither property is inductive.  The  *)
(* invariant adds that the caller about to write is alone, and that what   *)
(* it decided still is right: its call is not applied yet and its version  *)
(* is the present one; that the ledger is the set of calls applied; that   *)
(* no caller knows a version from the future; and why each answer was      *)
(* given.  A conflict stays true because versions only rise.               *)

SingleLock == \A c, d \in Caller : ProcessOf[c] = ProcessOf[d]

Exclusive == \A c, d \in Caller : pc[c] = "write" /\ pc[d] = "write" => c = d

WriterIsCurrent ==
    \A c \in Caller : pc[c] = "write" =>
        /\ call[c] \notin ledger
        /\ DOMAIN call[c].fields \subseteq Writable
        /\ Current(call[c])
        /\ next[c] = <<[overlay EXCEPT ![call[c].opp] = Merged(call[c])],
                       ledger \cup {call[c]}>>

LedgerIsApplied ==
    \A k \in Call : k \in ledger <=> \E i \in 1..Len(applied) : applied[i] = k

LedgerIsAllowed == \A k \in ledger : DOMAIN k.fields \subseteq Writable

ReadsPast(c) ==
    call[c] # NoCall => call[c].version <= overlay[call[c].opp].version

IsExplained(c) ==
    /\ outcome[c] # "none" => call[c] # NoCall
    /\ outcome[c] = "done" => call[c] \in ledger
    /\ outcome[c] = "refused" => ~(DOMAIN call[c].fields \subseteq Writable)
    /\ outcome[c] = "conflict" =>
          /\ call[c] \notin ledger
          /\ call[c].version < overlay[call[c].opp].version

AnswersAreExplained == \A c \in Caller : ReadsPast(c) /\ IsExplained(c)

RecordInv ==
    /\ Exclusive
    /\ WriterIsCurrent
    /\ LedgerIsApplied
    /\ LedgerIsAllowed
    /\ AnswersAreExplained
    /\ NoStaleOverwrite

\* The store starts with the invariant.
LEMMA InitRecordInv == Init => RecordInv
  <1> SUFFICES ASSUME Init PROVE RecordInv
    OBVIOUS
  <1>1. /\ Exclusive /\ WriterIsCurrent /\ LedgerIsApplied /\ LedgerIsAllowed
        /\ AnswersAreExplained
    BY DEF Init, Exclusive, WriterIsCurrent, LedgerIsApplied, LedgerIsAllowed,
           AnswersAreExplained, ReadsPast, IsExplained
  <1>2. NoStaleOverwrite
    <2>1. \A o \in Opportunity : WritesOf(o) = {} /\ overlay[o].version = 1
      BY NoOverlayIsFile DEF Init, WritesOf
    <2> QED
      BY <2>1 DEF NoStaleOverwrite, OnVersionsUpTo
  <1> QED
    BY <1>1, <1>2 DEF RecordInv

\* Steps of a caller that leave the file alone and do not make it a writer:
\* the invariant survives if what the caller knows and was told is right.
LEMMA QuietRecordInv ==
    ASSUME RecordInv, NEW c \in Caller, UNCHANGED <<file, next, applied>>,
           pc'[c] # "write",
           \A d \in Caller \ {c} : /\ pc'[d] = pc[d] /\ call'[d] = call[d]
                                   /\ outcome'[d] = outcome[d],
           ReadsPast(c)', IsExplained(c)'
    PROVE  RecordInv'
  <1> USE DEF RecordInv, file
  <1>1. Exclusive' /\ WriterIsCurrent'
    BY DEF Exclusive, WriterIsCurrent, Current, Merged
  <1>2. LedgerIsApplied' /\ LedgerIsAllowed'
    BY DEF LedgerIsApplied, LedgerIsAllowed
  <1>3. AnswersAreExplained'
    BY DEF AnswersAreExplained, ReadsPast, IsExplained
  <1>4. NoStaleOverwrite'
    BY DEF NoStaleOverwrite, WritesOf
  <1> QED
    BY <1>1, <1>2, <1>3, <1>4

\* A caller that reads knows the present version and was told nothing yet.
LEMMA ReadRecordInv ==
    ASSUME TypeOK, RecordInv, NEW c \in Caller, NEW o \in Opportunity,
           NEW fields \in Offered, ReadOpportunity(c, o, fields)
    PROVE  RecordInv'
  <1>1. /\ pc'[c] = "update" /\ outcome'[c] = "none"
        /\ call'[c] = [opp |-> o, fields |-> fields, version |-> overlay[o].version]
        /\ \A d \in Caller \ {c} : /\ pc'[d] = pc[d] /\ call'[d] = call[d]
                                   /\ outcome'[d] = outcome[d]
        /\ UNCHANGED <<file, next, applied>>
    BY DEF ReadOpportunity, TypeOK
  <1>2. overlay[o].version \in Nat
    BY OpportunityAssumption DEF TypeOK, IsFile
  <1>3. ReadsPast(c)' /\ IsExplained(c)'
    BY <1>1, <1>2 DEF ReadsPast, IsExplained, file
  <1> QED
    BY <1>1, <1>3, QuietRecordInv

\* Each answer that writes nothing is given for the reason it names: a call
\* in the ledger, a field that may not be written, a version that has gone.
LEMMA AnswerRecordInv ==
    ASSUME TypeOK, Calling, RecordInv, NEW c \in Caller,
           Replay(c) \/ Refuse(c) \/ Conflict(c)
    PROVE  RecordInv'
  <1>1. PICK answer \in {"done", "refused", "conflict"} :
            /\ Answered(c, answer)
            /\ answer = "done" => call[c] \in ledger
            /\ answer = "refused" => ~(DOMAIN call[c].fields \subseteq Writable)
            /\ answer = "conflict" => call[c] \notin ledger /\ ~Current(call[c])
    BY DEF Replay, Refuse, Conflict
  <1>2. /\ UNCHANGED <<file, call, next, applied>> /\ pc[c] = "update"
        /\ pc'[c] = "answered" /\ outcome'[c] = answer
        /\ \A d \in Caller \ {c} : pc'[d] = pc[d] /\ outcome'[d] = outcome[d]
    BY <1>1 DEF Replay, Refuse, Conflict, Answered, TypeOK
  <1>3. PICK k \in Call : k = call[c]
    BY <1>2 DEF Calling
  <1>4. k # NoCall /\ k.version \in Nat /\ overlay[k.opp].version \in Nat
    BY OpportunityAssumption DEF Call, TypeOK, IsFile
  <1>5. k.version <= overlay[k.opp].version
    BY <1>3, <1>4 DEF RecordInv, AnswersAreExplained, ReadsPast
  <1>6. ReadsPast(c)' /\ IsExplained(c)'
    BY <1>1, <1>2, <1>3, <1>4, <1>5 DEF ReadsPast, IsExplained, Current, file
  <1> QED
    BY <1>2, <1>6, QuietRecordInv

\* Finishing and repeating a call change only where the caller is.
LEMMA MoveRecordInv ==
    ASSUME TypeOK, RecordInv, NEW c \in Caller, Finish(c) \/ Retry(c)
    PROVE  RecordInv'
  <1>1. /\ UNCHANGED <<file, call, next, outcome, applied>> /\ pc'[c] # "write"
        /\ \A d \in Caller \ {c} : pc'[d] = pc[d]
    BY DEF Finish, Retry, TypeOK
  <1>2. ReadsPast(c)' /\ IsExplained(c)'
    BY <1>1 DEF RecordInv, AnswersAreExplained, ReadsPast, IsExplained, file
  <1> QED
    BY <1>1, <1>2, QuietRecordInv

\* A caller whose update is accepted finds nobody writing.
LEMMA UpdateRecordInv ==
    ASSUME SingleLock, TypeOK, RecordInv, NEW c \in Caller, Update(c)
    PROVE  RecordInv'
  <1> USE DEF RecordInv
  <1>1. \A d \in Caller : pc[d] # "write"
    BY DEF Update, LockFree, SingleLock
  <1>2. /\ pc'[c] = "write" /\ UNCHANGED <<file, call, outcome, applied>>
        /\ next'[c] = <<[overlay EXCEPT ![call[c].opp] = Merged(call[c])],
                        ledger \cup {call[c]}>>
        /\ \A d \in Caller \ {c} : pc'[d] = pc[d]
    BY DEF Update, TypeOK
  <1>3. /\ call[c] \notin ledger /\ DOMAIN call[c].fields \subseteq Writable
        /\ Current(call[c])
    BY DEF Update
  <1>4. Exclusive'
    BY <1>1, <1>2 DEF Exclusive
  <1>5. WriterIsCurrent'
    BY <1>1, <1>2, <1>3 DEF WriterIsCurrent, Current, Merged, file
  <1>6. LedgerIsApplied' /\ LedgerIsAllowed'
    BY <1>2 DEF LedgerIsApplied, LedgerIsAllowed, file
  <1>7. AnswersAreExplained'
    BY <1>2 DEF AnswersAreExplained, ReadsPast, IsExplained, file
  <1>8. NoStaleOverwrite'
    BY <1>2 DEF NoStaleOverwrite, WritesOf, file
  <1> QED
    BY <1>4, <1>5, <1>6, <1>7, <1>8

\* What the writer leaves: its opportunity one version on, the others as they
\* were, its call in ledger and history, and nobody else writing.
LEMMA WriteLeaves ==
    ASSUME TypeOK, Calling, RecordInv, NEW c \in Caller, WriteStore(c),
           NEW k \in Call, k = call[c]
    PROVE  /\ overlay' = [overlay EXCEPT ![k.opp] = Merged(k)]
           /\ overlay'[k.opp].version = overlay[k.opp].version + 1
           /\ \A o \in Opportunity \ {k.opp} : overlay'[o] = overlay[o]
           /\ \A o \in Opportunity : overlay[o].version \in Nat \ {0}
           /\ k.version = overlay[k.opp].version
           /\ k \notin ledger /\ DOMAIN k.fields \subseteq Writable
           /\ ledger' = ledger \cup {k}
           /\ applied' = Append(applied, k)
           /\ call' = call /\ outcome'[c] = "done"
           /\ \A d \in Caller \ {c} : outcome'[d] = outcome[d]
           /\ \A d \in Caller : pc'[d] # "write"
  <1>1. /\ pc[c] = "write" /\ next[c] = <<[overlay EXCEPT ![k.opp] = Merged(k)],
                                          ledger \cup {k}>>
        /\ k.version = overlay[k.opp].version
        /\ k \notin ledger /\ DOMAIN k.fields \subseteq Writable
    BY DEF WriteStore, RecordInv, WriterIsCurrent, Current
  <1>2. /\ overlay' = [overlay EXCEPT ![k.opp] = Merged(k)]
        /\ ledger' = ledger \cup {k} /\ applied' = Append(applied, k)
        /\ UNCHANGED call
    BY <1>1 DEF WriteStore
  <1>3. /\ pc'[c] = "answered" /\ outcome'[c] = "done"
        /\ \A d \in Caller \ {c} : pc'[d] = pc[d] /\ outcome'[d] = outcome[d]
    BY DEF WriteStore, Answered, TypeOK
  <1>4. \A d \in Caller : pc'[d] # "write"
    BY <1>1, <1>3 DEF RecordInv, Exclusive
  <1>5. \A o \in Opportunity : overlay[o].version \in Nat \ {0}
    BY OpportunityAssumption DEF TypeOK, IsFile
  <1>6. /\ overlay'[k.opp].version = overlay[k.opp].version + 1
        /\ \A o \in Opportunity \ {k.opp} : overlay'[o] = overlay[o]
    BY <1>2 DEF TypeOK, IsFile, Merged, Call
  <1> QED
    BY <1>1, <1>2, <1>3, <1>4, <1>5, <1>6

\* The order at some positions depends on what is there only.
LEMMA SameOrder ==
    ASSUME NEW s, NEW t, NEW W, NEW n, \A i \in W : s[i] = t[i],
           OnVersionsUpTo(t, W, n)
    PROVE  OnVersionsUpTo(s, W, n)
  <1>1. {s[i].version : i \in W} = {t[i].version : i \in W}
    OBVIOUS
  <1> QED
    BY <1>1 DEF OnVersionsUpTo

\* A call at a later position, on the version all before it had led to,
\* continues the order.
LEMMA NextInOrder ==
    ASSUME NEW s, NEW m \in Nat, NEW W \in SUBSET (1..m), NEW v \in Nat \ {0},
           OnVersionsUpTo(s, W, v - 1), s[m + 1].version = v
    PROVE  OnVersionsUpTo(s, W \cup {m + 1}, v)
  <1>1. {s[i].version : i \in W \cup {m + 1}} = {s[i].version : i \in W} \cup {v}
    OBVIOUS
  <1>2. 1..v = 1..(v - 1) \cup {v}
    OBVIOUS
  <1>3. \A i \in W : i < m + 1 /\ s[i].version < v
    <2>1. \A i \in W : s[i].version \in 1..(v - 1)
      BY DEF OnVersionsUpTo
    <2> QED
      BY <2>1
  <1>4. {s[i].version : i \in W \cup {m + 1}} = 1..v
    BY <1>1, <1>2 DEF OnVersionsUpTo
  <1>5. \A i, j \in W \cup {m + 1} : i < j => s[i].version < s[j].version
    BY <1>3 DEF OnVersionsUpTo
  <1> QED
    BY <1>4, <1>5 DEF OnVersionsUpTo

\* The write is one more in the history of its opportunity, made on the
\* version all before it had led to.
LEMMA WriteKeepsOrder ==
    ASSUME NoStaleOverwrite, NEW k \in Call, applied \in Seq(Call),
           applied' = Append(applied, k),
           k.version = overlay[k.opp].version,
           overlay'[k.opp].version = overlay[k.opp].version + 1,
           \A o \in Opportunity \ {k.opp} : overlay'[o] = overlay[o],
           \A o \in Opportunity : overlay[o].version \in Nat \ {0}
    PROVE  NoStaleOverwrite'
  <1>1. PICK n \in Nat : n = Len(applied)
    OBVIOUS
  <1>2. /\ Len(applied') = n + 1 /\ applied'[n + 1] = k
        /\ \A i \in 1..n : applied'[i] = applied[i]
    BY <1>1, AppendSeq
  <1>3. 1..(n + 1) = 1..n \cup {n + 1}
    OBVIOUS
  <1>4. ASSUME NEW o \in Opportunity
        PROVE  /\ WritesOf(o) \in SUBSET (1..n)
               /\ OnVersionsUpTo(applied, WritesOf(o), overlay[o].version - 1)
               /\ OnVersionsUpTo(applied', WritesOf(o), overlay[o].version - 1)
    <2>1. WritesOf(o) \in SUBSET (1..n)
      BY <1>1 DEF WritesOf
    <2>2. OnVersionsUpTo(applied, WritesOf(o), overlay[o].version - 1)
      BY DEF NoStaleOverwrite
    <2>3. \A i \in WritesOf(o) : applied'[i] = applied[i]
      BY <1>2, <2>1
    <2>4. OnVersionsUpTo(applied', WritesOf(o), overlay[o].version - 1)
      <3>1. PICK s, t, W, m : /\ s = applied' /\ t = applied /\ W = WritesOf(o)
                              /\ m = overlay[o].version - 1
        OBVIOUS
      <3>2. \A i \in W : s[i] = t[i]
        BY <2>3, <3>1
      <3>3. OnVersionsUpTo(t, W, m)
        BY <2>2, <3>1
      <3>4. OnVersionsUpTo(s, W, m)
        BY <3>2, <3>3, SameOrder
      <3> QED
        BY <3>1, <3>4
    <2> QED
      BY <2>1, <2>2, <2>4
  <1>5. ASSUME NEW o \in Opportunity
        PROVE  OnVersionsUpTo(applied', WritesOf(o)', overlay'[o].version - 1)
    <2>1. CASE o # k.opp
      <3>1. WritesOf(o)' = WritesOf(o)
        BY <1>1, <1>2, <1>3, <2>1 DEF WritesOf
      <3> QED
        BY <1>4, <2>1, <3>1
    <2>2. CASE o = k.opp
      <3>1. WritesOf(o)' = WritesOf(o) \cup {n + 1}
        BY <1>1, <1>2, <1>3, <2>2 DEF WritesOf
      <3>2. PICK v \in Nat \ {0} : v = overlay[o].version
        OBVIOUS
      <3>3. overlay'[o].version - 1 = v /\ applied'[n + 1].version = v
        BY <1>2, <2>2, <3>2
      <3>4. OnVersionsUpTo(applied', WritesOf(o) \cup {n + 1}, v)
        BY <1>4, <3>2, <3>3, NextInOrder
      <3> QED
        BY <3>1, <3>3, <3>4
    <2> QED
      BY <2>1, <2>2
  <1> QED
    BY <1>5 DEF NoStaleOverwrite

\* The write keeps the invariant.
LEMMA WriteRecordInv ==
    ASSUME TypeOK, Calling, RecordInv, NEW c \in Caller, WriteStore(c)
    PROVE  RecordInv'
  <1>1. PICK k \in Call : k = call[c]
    BY DEF WriteStore, Calling
  <1>2. /\ overlay'[k.opp].version = overlay[k.opp].version + 1
        /\ \A o \in Opportunity \ {k.opp} : overlay'[o] = overlay[o]
        /\ \A o \in Opportunity : overlay[o].version \in Nat \ {0}
        /\ k.version = overlay[k.opp].version
    BY <1>1, WriteLeaves
  <1>3. /\ k \notin ledger /\ DOMAIN k.fields \subseteq Writable
        /\ ledger' = ledger \cup {k} /\ applied' = Append(applied, k)
        /\ call' = call /\ outcome'[c] = "done"
        /\ \A d \in Caller \ {c} : outcome'[d] = outcome[d]
        /\ \A d \in Caller : pc'[d] # "write"
    BY <1>1, WriteLeaves
  <1>4. Exclusive' /\ WriterIsCurrent'
    BY <1>3 DEF Exclusive, WriterIsCurrent
  <1>5. LedgerIsApplied'
    <2>1. applied \in Seq(Call)
      BY DEF TypeOK
    <2>2. /\ Len(applied) \in Nat /\ Len(applied') = Len(applied) + 1
          /\ applied'[Len(applied) + 1] = k
          /\ \A i \in 1..Len(applied) : applied'[i] = applied[i]
      BY <1>3, <2>1, AppendSeq
    <2>3. \A l : (\E i \in 1..Len(applied') : applied'[i] = l)
                   <=> l = k \/ \E i \in 1..Len(applied) : applied[i] = l
      BY <2>2
    <2> QED
      BY <1>3, <2>3 DEF RecordInv, LedgerIsApplied
  <1>6. LedgerIsAllowed'
    BY <1>3 DEF RecordInv, LedgerIsAllowed
  <1>7. AnswersAreExplained'
    <2> SUFFICES ASSUME NEW d \in Caller
                 PROVE  ReadsPast(d)' /\ IsExplained(d)'
      BY DEF AnswersAreExplained
    <2>1. ReadsPast(d) /\ IsExplained(d)
      BY DEF RecordInv, AnswersAreExplained
    <2>2. CASE call[d] = NoCall
      <3>1. d # c
        BY <1>1, <2>2, OpportunityAssumption
      <3> QED
        BY <1>3, <2>1, <2>2, <3>1 DEF ReadsPast, IsExplained
    <2>3. CASE call[d] # NoCall
      <3>1. PICK l \in Call : l = call[d]
        BY <2>3 DEF TypeOK
      <3>2. l.opp \in Opportunity /\ k.opp \in Opportunity
            /\ l.version \in Nat /\ k.version \in Nat
        BY OpportunityAssumption DEF Call
      <3>3. l.version <= overlay[l.opp].version
        BY <2>1, <2>3, <3>1 DEF ReadsPast
      <3>4. overlay[l.opp].version <= overlay'[l.opp].version
            /\ overlay'[l.opp].version \in Nat
        BY <1>2, <3>2
      <3>5. ReadsPast(d)'
        BY <1>2, <1>3, <3>1, <3>2, <3>3, <3>4 DEF ReadsPast
      <3>6. IsExplained(d)'
        <4>1. CASE d = c
          BY <1>1, <1>3, <2>3, <4>1 DEF IsExplained
        <4>2. CASE d # c
          <5>1. outcome[d] = "conflict" =>
                   /\ l \notin ledger'
                   /\ l.version < overlay'[l.opp].version
            BY <1>2, <1>3, <2>1, <3>1, <3>2, <3>4 DEF IsExplained
          <5> QED
            BY <1>3, <2>1, <2>3, <3>1, <4>2, <5>1 DEF IsExplained
        <4> QED
          BY <4>1, <4>2
      <3> QED
        BY <3>5, <3>6
    <2> QED
      BY <2>2, <2>3
  <1>8. NoStaleOverwrite'
    BY <1>2, <1>3, WriteKeepsOrder DEF RecordInv, TypeOK
  <1> QED
    BY <1>4, <1>5, <1>6, <1>7, <1>8 DEF RecordInv

\* A crash takes all callers of the one process with it; a restarted
\* container has neither file nor callers that remember it.
LEMMA ForgetRecordInv ==
    ASSUME RecordInv, Forget(Caller),
           \/ UNCHANGED <<file, applied>>
           \/ overlay' = NoOverlay /\ ledger' = {} /\ applied' = <<>>
    PROVE  RecordInv'
  <1> USE DEF RecordInv
  <1>1. \A c \in Caller : pc'[c] = "idle" /\ call'[c] = NoCall /\ outcome'[c] = "none"
    BY DEF Forget
  <1>2. Exclusive' /\ WriterIsCurrent' /\ AnswersAreExplained'
    BY <1>1 DEF Exclusive, WriterIsCurrent, AnswersAreExplained, ReadsPast, IsExplained
  <1>3. CASE UNCHANGED <<file, applied>>
    BY <1>2, <1>3 DEF LedgerIsApplied, LedgerIsAllowed, NoStaleOverwrite, WritesOf, file
  <1>4. CASE overlay' = NoOverlay /\ ledger' = {} /\ applied' = <<>>
    <2>1. LedgerIsApplied' /\ LedgerIsAllowed'
      BY <1>4 DEF LedgerIsApplied, LedgerIsAllowed
    <2>2. \A o \in Opportunity : WritesOf(o)' = {} /\ overlay'[o].version = 1
      BY <1>4, NoOverlayIsFile DEF WritesOf
    <2>3. NoStaleOverwrite'
      BY <2>2 DEF NoStaleOverwrite, OnVersionsUpTo
    <2> QED
      BY <1>2, <2>1, <2>3
  <1> QED
    BY <1>3, <1>4

\* With one process every step keeps the invariant.
LEMMA NextRecordInv ==
    ASSUME SingleLock, TypeOK, Calling, RecordInv, [Next]_vars
    PROVE  RecordInv'
  <1>1. ASSUME NEW c \in Caller, NEW o \in Opportunity, NEW fields \in Offered,
               ReadOpportunity(c, o, fields)
        PROVE  RecordInv'
    BY <1>1, ReadRecordInv
  <1>2. ASSUME NEW c \in Caller, Replay(c) \/ Refuse(c) \/ Conflict(c)
        PROVE  RecordInv'
    BY <1>2, AnswerRecordInv
  <1>3. ASSUME NEW c \in Caller, Finish(c) \/ Retry(c)
        PROVE  RecordInv'
    BY <1>3, MoveRecordInv
  <1>4. ASSUME NEW c \in Caller, Update(c)
        PROVE  RecordInv'
    BY <1>4, UpdateRecordInv
  <1>5. ASSUME NEW c \in Caller, WriteStore(c)
        PROVE  RecordInv'
    BY <1>5, WriteRecordInv
  <1>6. ASSUME NEW c \in Caller, Crash(ProcessOf[c])
        PROVE  RecordInv'
    <2>1. {d \in Caller : ProcessOf[d] = ProcessOf[c]} = Caller
      BY DEF SingleLock
    <2> QED
      BY <1>6, <2>1, ForgetRecordInv DEF Crash
  <1>7. CASE ContainerRestart
    BY <1>7, ForgetRecordInv DEF ContainerRestart
  <1>8. CASE UNCHANGED vars
    BY <1>8 DEF vars, file, RecordInv, Exclusive, WriterIsCurrent, Current, Merged,
       LedgerIsApplied, LedgerIsAllowed, AnswersAreExplained, ReadsPast, IsExplained,
       NoStaleOverwrite, WritesOf
  <1> QED
    BY <1>1, <1>2, <1>3, <1>4, <1>5, <1>6, <1>7, <1>8 DEF Next

\* With one process serving all callers the invariant holds in every
\* reachable state.
THEOREM RecordInvariant ==
    ASSUME SingleLock
    PROVE  Spec => [](TypeOK /\ Calling /\ RecordInv)
  <1>1. Init => TypeOK /\ Calling /\ RecordInv
    BY InitTypeOK, InitRecordInv
  <1>2. TypeOK /\ Calling /\ RecordInv /\ [Next]_vars => TypeOK' /\ Calling' /\ RecordInv'
    BY SingleLock, NextTypeOK, NextRecordInv
  <1> QED
    BY <1>1, <1>2, PTL DEF Spec

\* No write overwrites a state newer than the one its caller read: the
\* writes on an opportunity were made on its versions one after the other.
THEOREM NoStaleOverwriteTheorem ==
    ASSUME SingleLock
    PROVE  Spec => []NoStaleOverwrite
  <1>1. RecordInv => NoStaleOverwrite
    BY DEF RecordInv
  <1> QED
    BY <1>1, RecordInvariant, PTL

\* Every answer of update_opportunity is true when it is given and stays
\* true, also for a call repeated after its first answer was lost.
THEOREM AnswersAreTrueTheorem ==
    ASSUME SingleLock
    PROVE  Spec => []AnswersAreTrue
  <1>1. ASSUME TypeOK, RecordInv PROVE AnswersAreTrue
    <2> SUFFICES ASSUME NEW c \in Caller
                 PROVE  /\ outcome[c] = "done" => Contains(applied, call[c])
                        /\ outcome[c] \in {"conflict", "refused"} =>
                              ~Contains(applied, call[c])
      BY DEF AnswersAreTrue
    <2>1. outcome[c] # "none" => call[c] \in Call
      BY <1>1 DEF TypeOK, RecordInv, AnswersAreExplained, IsExplained
    <2>2. call[c] \in Call => (call[c] \in ledger <=> Contains(applied, call[c]))
      BY <1>1 DEF RecordInv, LedgerIsApplied, Contains
    <2>3. outcome[c] \in {"conflict", "refused"} => call[c] \notin ledger
      BY <1>1 DEF RecordInv, AnswersAreExplained, IsExplained, LedgerIsAllowed
    <2>4. outcome[c] = "done" => call[c] \in ledger
      BY <1>1 DEF RecordInv, AnswersAreExplained, IsExplained
    <2> QED
      BY <2>1, <2>2, <2>3, <2>4
  <1> QED
    BY <1>1, RecordInvariant, PTL

--------------------------------------------------------------------------------
(* The store implements VersionedRecord.  A call stands for the version    *)
(* its caller has read; WriteStore is the compare-and-set, which finds     *)
(* that version still the present one; all that comes between reading and  *)
(* writing stutters.                                                       *)

\* Basis forgets nothing and learns nothing while the calls stay the same.
LEMMA CallsUnchanged ==
    ASSUME UNCHANGED <<overlay, call>>
    PROVE  UNCHANGED Versioned!vars
  BY DEF Versioned!vars, Basis

\* The store starts as the abstract record: version 1, nothing read.
LEMMA InitMaps == Init => Versioned!Init
  BY DEF Init, NoOverlay, Versioned!Init, Versioned!NoBasis, Basis

\* Reading is reading.
LEMMA ReadMaps ==
    ASSUME TypeOK, NEW c \in Caller, NEW o \in Opportunity, NEW fields \in Offered,
           ReadOpportunity(c, o, fields)
    PROVE  Versioned!Next
  <1>1. PICK k : k = [opp |-> o, fields |-> fields, version |-> overlay[o].version]
    OBVIOUS
  <1>2. k \in Call /\ k # NoCall /\ k.opp = o /\ k.version = overlay[o].version
    BY <1>1, OpportunityAssumption DEF Call, TypeOK, IsFile
  <1>3. call' = [call EXCEPT ![c] = k] /\ UNCHANGED overlay
    BY <1>1 DEF ReadOpportunity, file
  <1>4. call'[c] = k /\ \A d \in Caller \ {c} : call'[d] = call[d]
    BY <1>3 DEF TypeOK
  <1>5. Basis(c)' = [Versioned!NoBasis EXCEPT ![o] = overlay[o].version]
    BY <1>2, <1>4 DEF Basis, Versioned!NoBasis
  <1>6. \A d \in Caller \ {c} : Basis(d)' = Basis(d)
    BY <1>4 DEF Basis
  <1>7. Versioned!Read(c, o)
    BY <1>3, <1>5, <1>6 DEF Versioned!Read
  <1> QED
    BY <1>7 DEF Versioned!Next

\* Writing is a compare-and-set on the version the caller has read.
LEMMA WriteMaps ==
    ASSUME TypeOK, Calling, RecordInv, NEW c \in Caller, WriteStore(c)
    PROVE  Versioned!Next
  <1>1. PICK k \in Call : k = call[c]
    BY DEF WriteStore, Calling
  <1>2. PICK o \in Opportunity, g \in FieldValues : o = k.opp /\ g = k.fields
    BY DEF Call
  <1>3. /\ overlay' = [overlay EXCEPT ![o] = Merged(k)]
        /\ k.version = overlay[o].version /\ call' = call
    BY <1>1, <1>2, WriteLeaves
  <1>4. Merged(k) = [version |-> overlay[o].version + 1,
                     fields |-> Merge(overlay[o].fields, g)]
    BY <1>2 DEF Merged
  <1>5. Basis(c)[o] = overlay[o].version
    BY <1>1, <1>2, <1>3, OpportunityAssumption DEF Basis
  <1>6. \A d \in Caller : Basis(d)' = Basis(d)
    BY <1>3 DEF Basis
  <1>7. Versioned!CompareAndSet(c, o, g)
    BY <1>3, <1>4, <1>5, <1>6 DEF Versioned!CompareAndSet
  <1> QED
    BY <1>2, <1>7 DEF Versioned!Next

\* A crash that leaves the file makes callers forget what they have read.
LEMMA CrashMaps ==
    ASSUME NEW C \in SUBSET Caller, Forget(C), UNCHANGED file
    PROVE  Versioned!Next
  <1>1. \A c \in Caller : Basis(c)' = IF c \in C THEN Versioned!NoBasis ELSE Basis(c)
    BY DEF Forget, Basis, Versioned!NoBasis
  <1>2. Versioned!ForgetBasis(C)
    BY <1>1 DEF Versioned!ForgetBasis, file
  <1> QED
    BY <1>2 DEF Versioned!Next

\* A restarted container starts over.
LEMMA RestartMaps == ContainerRestart => Versioned!Next
  <1> SUFFICES ASSUME ContainerRestart PROVE Versioned!Next
    OBVIOUS
  <1>1. \A c \in Caller : Basis(c)' = [o \in Opportunity |-> 0]
    BY DEF ContainerRestart, Forget, Basis
  <1>2. overlay' = [o \in Opportunity |-> [version |-> 1, fields |-> NoFields]]
    BY DEF ContainerRestart, NoOverlay
  <1>3. Versioned!Init'
    BY <1>1, <1>2 DEF Versioned!Init, Versioned!NoBasis
  <1> QED
    BY <1>3 DEF Versioned!Next

\* Every step of the store is a step of the abstract record or none.
LEMMA NextMaps ==
    ASSUME TypeOK, Calling, RecordInv, [Next]_vars
    PROVE  [Versioned!Next]_(Versioned!vars)
  <1>1. ASSUME NEW c \in Caller, NEW o \in Opportunity, NEW fields \in Offered,
               ReadOpportunity(c, o, fields)
        PROVE  Versioned!Next
    BY <1>1, ReadMaps
  <1>2. ASSUME NEW c \in Caller,
               \/ Replay(c) \/ Refuse(c) \/ Conflict(c)
               \/ Update(c) \/ Finish(c) \/ Retry(c)
        PROVE  UNCHANGED Versioned!vars
    <2>1. UNCHANGED <<overlay, call>>
      BY <1>2 DEF Replay, Refuse, Conflict, Update, Finish, Retry, file
    <2> QED
      BY <2>1, CallsUnchanged
  <1>3. ASSUME NEW c \in Caller, WriteStore(c)
        PROVE  Versioned!Next
    BY <1>3, WriteMaps
  <1>4. ASSUME NEW p, Crash(p)
        PROVE  Versioned!Next
    BY <1>4, CrashMaps DEF Crash, file
  <1>5. CASE ContainerRestart
    BY <1>5, RestartMaps
  <1>6. CASE UNCHANGED vars
    BY <1>6, CallsUnchanged DEF vars, file
  <1> QED
    BY <1>1, <1>2, <1>3, <1>4, <1>5, <1>6 DEF Next

\* With one process, reading, checking and writing with other callers in
\* between act as one compare-and-set, crashes and retries included.
THEOREM StoreImplementsVersionedRecordTheorem ==
    ASSUME SingleLock
    PROVE  Spec => StoreImplementsVersionedRecord
  <1>1. Init => Versioned!Init
    BY InitMaps
  <1>2. TypeOK /\ Calling /\ RecordInv /\ [Next]_vars => [Versioned!Next]_(Versioned!vars)
    BY NextMaps
  <1> QED
    BY <1>1, <1>2, RecordInvariant, PTL
       DEF Spec, StoreImplementsVersionedRecord, Versioned!Spec

================================================================================
