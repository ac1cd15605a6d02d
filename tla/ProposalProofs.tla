----------------------------- MODULE ProposalProofs -----------------------------
(***************************************************************************)
(* Proofs about Proposal, for any number of conversations, quotes and      *)
(* evidence items and any number of crashes.  What may be attached holds   *)
(* with any number of processes; that no verdict is missing from the log   *)
(* needs the one lock of one process.  Both rest on what the module        *)
(* assumes of the language model.                                          *)
(***************************************************************************)
EXTENDS Proposal, FiniteSetTheorems, TLAPS

--------------------------------------------------------------------------------
(* Sequences. *)

\* Appending to a log keeps its entries and adds one, the last.
LEMMA AppendEntry ==
    ASSUME NEW S, NEW s \in Seq(S), NEW e \in S
    PROVE  /\ Append(s, e) \in Seq(S)
           /\ Len(Append(s, e)) = Len(s) + 1 /\ Len(s) \in Nat
           /\ Append(s, e)[Len(s) + 1] = e
           /\ \A i \in 1..Len(s) : Append(s, e)[i] = s[i]
  OBVIOUS

\* The last entry is the one appended.
LEMMA LastAppended ==
    ASSUME NEW S, NEW s \in Seq(S), NEW e \in S
    PROVE  Last(Append(s, e)) = e
  BY AppendEntry DEF Last

\* The entries of the longer log are those of the shorter one and the new one.
LEMMA EntriesAppended ==
    ASSUME NEW S, NEW s \in Seq(S), NEW e \in S
    PROVE  ToSet(Append(s, e)) = ToSet(s) \cup {e}
  <1>1. PICK n \in Seq(S) : n = Append(s, e)
    BY AppendEntry
  <1>2. /\ Len(n) = Len(s) + 1 /\ Len(s) \in Nat /\ n[Len(s) + 1] = e
        /\ \A i \in 1..Len(s) : n[i] = s[i]
    BY <1>1, AppendEntry
  <1>3. DOMAIN n = 1..(Len(s) + 1) /\ DOMAIN s = 1..Len(s)
    BY <1>2
  <1>4. ToSet(n) = ToSet(s) \cup {e}
    BY <1>2, <1>3 DEF ToSet
  <1> QED
    BY <1>1, <1>4

\* The last entry of a log that is not empty is one of its entries.
LEMMA LastIsEntry ==
    ASSUME NEW S, NEW s \in Seq(S), s # <<>>
    PROVE  Last(s) \in ToSet(s)
  BY DEF Last, ToSet

--------------------------------------------------------------------------------
(* Type correctness, with the types TypeOK leaves implicit: both lists are *)
(* sequences of whole entries, and there is room for the events of the     *)
(* calls that have a verdict to log.                                       *)

ScreenVerdict == [item : Evidence, flagged : BOOLEAN]

LogEntry == [id : Nat, verdict : ScreenVerdict]

EventLog(l) == l \in Seq(LogEntry) /\ \A i \in 1..Len(l) : l[i].id \in 1..logged

LogTypes ==
    /\ EventLog(events) /\ whole \in BOOLEAN /\ logged \in Nat
    /\ heard \subseteq LogEntry /\ \A h \in heard : h.id \in 1..logged

CallTypes ==
    /\ pc \in [Agent -> {"idle", "log", "truncate", "fill"}]
    /\ verdict \in [Agent -> ScreenVerdict \cup {NoVerdict}]
    /\ \A a \in Agent : IF pc[a] = "idle" THEN verdict[a] = NoVerdict
                                          ELSE verdict[a] \in ScreenVerdict
    /\ DOMAIN next = Agent /\ \A a \in Agent : EventLog(next[a])

ConversationTypes ==
    cleared \in [Agent -> SUBSET Evidence] /\ drafts \in [Agent -> SUBSET Document]

DocumentTypes ==
    quotes \subseteq Quote /\ versions \subseteq Document

Logging == {a \in Agent : pc[a] = "log"}

Bounded == logged + Cardinality(Logging) <= MaxEvents /\ crashes \in 0..MaxCrashes

\* A call that is about to write has something to write.
Prepared(a) == pc[a] \in {"truncate", "fill"} => next[a] # <<>>

TypeInv ==
    /\ LogTypes /\ CallTypes /\ ConversationTypes /\ DocumentTypes
    /\ Bounded /\ \A a \in Agent : Prepared(a)

\* The empty log is a log.
LEMMA EmptyLog == EventLog(<<>>)
  BY DEF EventLog

\* A log stays a log when more events are logged.
LEMMA LongerLog ==
    ASSUME NEW l, EventLog(l), logged \in Nat, logged' \in Nat, logged <= logged'
    PROVE  EventLog(l)'
  BY DEF EventLog

\* The calls with a verdict to log are finitely many, and fewer of them are
\* not more.
LEMMA LoggingFinite ==
    /\ IsFiniteSet(Logging) /\ Cardinality(Logging) \in Nat
    /\ Logging' \subseteq Logging =>
          IsFiniteSet(Logging') /\ Cardinality(Logging') <= Cardinality(Logging)
  <1>1. IsFiniteSet(Logging)
    BY ProposalAssumption, FS_Subset DEF Logging
  <1> QED
    BY <1>1, FS_Subset, FS_CardinalityType

\* A verdict has its type.
LEMMA VerdictType ==
    ASSUME NEW e \in Evidence, NEW answered \in BOOLEAN
    PROVE  Verdict(e, answered) \in ScreenVerdict
  BY DEF Verdict, ScreenVerdict

\* The types imply TypeOK.
LEMMA TypeInvTypeOK == TypeInv => TypeOK
  <1> SUFFICES ASSUME TypeInv PROVE TypeOK
    OBVIOUS
  <1>1. ASSUME NEW v \in ScreenVerdict PROVE IsVerdict(v)
    BY DEF ScreenVerdict, IsVerdict
  <1>2. ASSUME NEW l, EventLog(l) PROVE IsLog(l)
    <2> SUFFICES ASSUME NEW i \in 1..Len(l) PROVE l[i].id \in 1..logged /\ IsVerdict(l[i].verdict)
      BY DEF IsLog
    <2>1. l[i] \in LogEntry /\ l[i].id \in 1..logged
      BY <1>2 DEF EventLog
    <2>2. l[i].verdict \in ScreenVerdict
      BY <2>1 DEF LogEntry
    <2> QED
      BY <1>1, <2>1, <2>2
  <1>3. logged \in 0..MaxEvents
    BY LoggingFinite, ProposalAssumption DEF TypeInv, LogTypes, Bounded
  <1>4. \A h \in heard : h.id \in 1..logged /\ IsVerdict(h.verdict)
    <2> TAKE h \in heard
    <2>1. h \in LogEntry /\ h.id \in 1..logged
      BY DEF TypeInv, LogTypes
    <2>2. h.verdict \in ScreenVerdict
      BY <2>1 DEF LogEntry
    <2> QED
      BY <1>1, <2>1, <2>2
  <1>5. \A a \in Agent : IF pc[a] = "idle" THEN verdict[a] = NoVerdict
                                           ELSE IsVerdict(verdict[a])
    BY <1>1 DEF TypeInv, CallTypes
  <1>6. IsLog(events) /\ \A a \in Agent : IsLog(next[a])
    BY <1>2 DEF TypeInv, LogTypes, CallTypes
  <1> QED
    BY <1>3, <1>4, <1>5, <1>6 DEF TypeInv, LogTypes, CallTypes, ConversationTypes,
       DocumentTypes, Bounded, TypeOK

\* The service starts well typed.
LEMMA InitTypeInv == Init => TypeInv
  <1> SUFFICES ASSUME Init PROVE TypeInv
    OBVIOUS
  <1>1. Logging = {}
    BY DEF Init, Logging
  <1>2. Cardinality(Logging) = 0
    BY <1>1, FS_EmptySet
  <1> QED
    BY <1>2, EmptyLog, ProposalAssumption DEF Init, TypeInv, LogTypes, CallTypes,
       ConversationTypes, DocumentTypes, Bounded, Prepared

\* The screening steps that write nothing keep the types.
LEMMA ScreenTypeInv ==
    ASSUME TypeInv, NEW a \in Agent,
           (\E e \in Evidence : ScreenContent(a, e)) \/ ReadFails(a)
    PROVE  TypeInv'
  <1>1. UNCHANGED <<events, whole, next, cleared, drafts, quotes, versions,
                    heard, logged, crashes>>
    BY DEF ScreenContent, ReadFails, log, conversation, documents
  <1>2. CASE \E e \in Evidence : ScreenContent(a, e)
    <2>1. PICK e \in Evidence, answered \in BOOLEAN :
             ScreenContent(a, e) /\ verdict' = [verdict EXCEPT ![a] = Verdict(e, answered)]
      BY <1>2 DEF ScreenContent
    <2>2. CallTypes'
      BY <1>1, <2>1, VerdictType DEF ScreenContent, TypeInv, CallTypes, EventLog
    <2>3. Bounded'
      <3>1. Logging' = Logging \cup {a} /\ a \notin Logging
        BY <2>1 DEF ScreenContent, Logging, TypeInv, CallTypes
      <3>2. Cardinality(Logging') = Cardinality(Logging) + 1
        BY <3>1, LoggingFinite, FS_AddElement
      <3>3. logged + Cardinality(Logging) < MaxEvents
        BY <2>1 DEF ScreenContent, Logging
      <3> QED
        BY <1>1, <3>2, <3>3, LoggingFinite, ProposalAssumption
           DEF TypeInv, LogTypes, Bounded
    <2>4. \A b \in Agent : Prepared(b)'
      BY <1>1, <2>1 DEF ScreenContent, TypeInv, CallTypes, Prepared
    <2> QED
      BY <1>1, <2>2, <2>3, <2>4 DEF TypeInv, LogTypes, EventLog, ConversationTypes,
         DocumentTypes
  <1>3. CASE ReadFails(a)
    <2>1. CallTypes'
      BY <1>1, <1>3 DEF ReadFails, TypeInv, CallTypes, EventLog
    <2>2. Bounded'
      <3>1. Logging' \subseteq Logging
        BY <1>3 DEF ReadFails, Logging, TypeInv, CallTypes
      <3> QED
        BY <1>1, <3>1, LoggingFinite, FS_CardinalityType, ProposalAssumption
           DEF TypeInv, LogTypes, Bounded
    <2>3. \A b \in Agent : Prepared(b)'
      BY <1>1, <1>3 DEF ReadFails, TypeInv, CallTypes, Prepared
    <2> QED
      BY <1>1, <2>1, <2>2, <2>3 DEF TypeInv, LogTypes, EventLog, ConversationTypes,
         DocumentTypes
  <1> QED
    BY <1>2, <1>3

\* What _log_event is about to write: the log it read and one entry more.
Entry(a) == [id |-> logged + 1, verdict |-> verdict[a]]

\* Reading the log makes the list to be written, and counts its event.
LEMMA ReadEventsStep ==
    ASSUME TypeInv, NEW a \in Agent, ReadEvents(a)
    PROVE  /\ Entry(a) \in LogEntry /\ pc[a] = "log" /\ pc'[a] = "truncate"
           /\ next'[a] = Append(events, Entry(a)) /\ logged' = logged + 1
           /\ \A b \in Agent \ {a} : next'[b] = next[b] /\ pc'[b] = pc[b]
           /\ DOMAIN next' = Agent /\ verdict' = verdict
  <1>1. verdict[a] \in ScreenVerdict /\ logged \in Nat /\ DOMAIN next = Agent
    BY DEF ReadEvents, TypeInv, CallTypes, LogTypes
  <1>2. Entry(a) \in LogEntry
    BY <1>1 DEF Entry, LogEntry
  <1>3. next' = [next EXCEPT ![a] = Append(events, Entry(a))]
    BY DEF ReadEvents, Entry
  <1> QED
    BY <1>1, <1>2, <1>3 DEF ReadEvents, TypeInv, CallTypes

\* Reading the log keeps the types.
LEMMA ReadTypeInv ==
    ASSUME TypeInv, NEW a \in Agent, ReadEvents(a)
    PROVE  TypeInv'
  <1>1. UNCHANGED <<events, whole, verdict, cleared, drafts, quotes, versions,
                    heard, crashes>>
    BY DEF ReadEvents, log, conversation, documents
  <1>2. PICK e \in LogEntry : e = Entry(a) /\ e.id = logged + 1
    BY ReadEventsStep DEF Entry
  <1>3. logged \in Nat /\ logged' = logged + 1
    BY ReadEventsStep DEF TypeInv, LogTypes
  <1>4. PICK n \in Seq(LogEntry) : n = Append(events, e) /\ n = next'[a]
    BY <1>2, ReadEventsStep, AppendEntry DEF TypeInv, LogTypes, EventLog
  <1>5. EventLog(n)'
    <2>1. events \in Seq(LogEntry) /\ \A i \in 1..Len(events) : events[i].id \in 1..logged
      BY DEF TypeInv, LogTypes, EventLog
    <2>2. /\ Len(n) = Len(events) + 1 /\ Len(events) \in Nat /\ n[Len(events) + 1] = e
          /\ \A i \in 1..Len(events) : n[i] = events[i]
      <3>1. /\ Len(Append(events, e)) = Len(events) + 1 /\ Len(events) \in Nat
            /\ Append(events, e)[Len(events) + 1] = e
            /\ \A i \in 1..Len(events) : Append(events, e)[i] = events[i]
        BY <2>1, AppendEntry
      <3> QED
        BY <1>4, <3>1
    <2>3. \A i \in 1..Len(n) : n[i].id \in 1..logged'
      BY <1>2, <1>3, <2>1, <2>2
    <2> QED
      BY <2>3 DEF EventLog
  <1>6. \A b \in Agent \ {a} : EventLog(next[b])' /\ next'[b] = next[b]
    BY <1>3, ReadEventsStep, LongerLog DEF TypeInv, CallTypes
  <1>7. CallTypes'
    <2>1. \A b \in Agent : EventLog(next[b])'
      BY <1>4, <1>5, <1>6 DEF EventLog
    <2> QED
      BY <1>1, <2>1, ReadEventsStep DEF ReadEvents, TypeInv, CallTypes
  <1>8. LogTypes'
    <2>1. EventLog(events)'
      BY <1>1, <1>3, LongerLog DEF TypeInv, LogTypes, EventLog
    <2> QED
      BY <1>1, <1>3, <2>1 DEF TypeInv, LogTypes
  <1>9. Bounded'
    <2>1. Logging' = Logging \ {a} /\ a \in Logging
      BY ReadEventsStep DEF Logging, ReadEvents, TypeInv, CallTypes
    <2>2. Cardinality(Logging') = Cardinality(Logging) - 1
      BY <2>1, LoggingFinite, FS_RemoveElement
    <2> QED
      BY <1>1, <1>3, <2>2, LoggingFinite, ProposalAssumption DEF TypeInv, Bounded
  <1>10. \A b \in Agent : Prepared(b)'
    <2>1. n # <<>>
      <3>1. events \in Seq(LogEntry)
        BY DEF TypeInv, LogTypes, EventLog
      <3>2. Len(Append(events, e)) = Len(events) + 1 /\ Len(events) \in Nat
        BY <3>1, AppendEntry
      <3> QED
        BY <1>4, <3>2
    <2> QED
      BY <1>4, <2>1, ReadEventsStep DEF TypeInv, Prepared
  <1> QED
    BY <1>1, <1>7, <1>8, <1>9, <1>10 DEF TypeInv, ConversationTypes, DocumentTypes

\* Truncating the log, filling it and returning its verdict keep the types.
LEMMA WriteTypeInv ==
    ASSUME TypeInv, NEW a \in Agent, TruncateEvents(a) \/ FillEvents(a)
    PROVE  TypeInv'
  <1>1. UNCHANGED <<drafts, quotes, versions, logged, crashes>>
    BY DEF TruncateEvents, FillEvents, conversation, documents
  <1>2. Bounded'
    <2>1. Logging' = Logging
      BY DEF TruncateEvents, FillEvents, Logging, TypeInv, CallTypes
    <2> QED
      BY <1>1, <2>1 DEF TypeInv, Bounded
  <1>3. CASE TruncateEvents(a)
    <2>1. LogTypes'
      <3>1. EventLog(<<>>)'
        BY DEF EventLog
      <3> QED
        BY <1>1, <1>3, <3>1 DEF TruncateEvents, TypeInv, LogTypes
    <2>2. CallTypes'
      BY <1>1, <1>3 DEF TruncateEvents, TypeInv, CallTypes, EventLog
    <2>3. \A b \in Agent : Prepared(b)'
      BY <1>3 DEF TruncateEvents, TypeInv, CallTypes, Prepared
    <2> QED
      BY <1>1, <1>2, <1>3, <2>1, <2>2, <2>3
         DEF TruncateEvents, TypeInv, ConversationTypes, DocumentTypes, conversation
  <1>4. CASE FillEvents(a)
    <2>1. /\ next[a] \in Seq(LogEntry) /\ next[a] # <<>> /\ verdict[a] \in ScreenVerdict
          /\ \A i \in 1..Len(next[a]) : next[a][i].id \in 1..logged
      BY <1>4 DEF FillEvents, TypeInv, CallTypes, EventLog, Prepared
    <2>2. Last(next[a]).id \in 1..logged /\ logged \in Nat
      BY <2>1 DEF Last, TypeInv, LogTypes
    <2>3. [id |-> Last(next[a]).id, verdict |-> verdict[a]] \in LogEntry
      BY <2>1, <2>2 DEF LogEntry
    <2>4. LogTypes'
      <3>1. EventLog(events)'
        BY <1>1, <1>4, <2>1 DEF FillEvents, EventLog
      <3>2. PICK h \in LogEntry : /\ h = [id |-> Last(next[a]).id, verdict |-> verdict[a]]
                                  /\ h.id \in 1..logged
        BY <2>2, <2>3
      <3>3. heard' = heard \cup {h} /\ whole' = TRUE
        BY <1>4, <3>2 DEF FillEvents
      <3> QED
        BY <1>1, <3>1, <3>2, <3>3 DEF TypeInv, LogTypes
    <2>5. CallTypes'
      <3>1. EventLog(<<>>)'
        BY DEF EventLog
      <3>2. \A b \in Agent : EventLog(next[b])'
        BY <1>1, <1>4, <3>1 DEF FillEvents, TypeInv, CallTypes, EventLog
      <3> QED
        BY <1>4, <3>2 DEF FillEvents, TypeInv, CallTypes
    <2>6. ConversationTypes'
      <3>1. Cleared(verdict[a]) \subseteq Evidence
        BY <2>1 DEF Cleared, ScreenVerdict
      <3> QED
        BY <1>1, <1>4, <3>1 DEF FillEvents, TypeInv, ConversationTypes
    <2>7. \A b \in Agent : Prepared(b)'
      BY <1>4 DEF FillEvents, TypeInv, CallTypes, Prepared
    <2> QED
      BY <1>1, <1>2, <2>4, <2>5, <2>6, <2>7 DEF TypeInv, DocumentTypes
  <1> QED
    BY <1>3, <1>4

\* Generating and attaching documents, and a new conversation, keep the types.
LEMMA DocumentTypeInv ==
    ASSUME TypeInv, NEW a \in Agent,
           \/ \E q \in Quote, context \in SUBSET Evidence : GenerateProposal(a, q, context)
           \/ \E d \in Document, checksum \in Checksums(a) : AttachProposal(a, d, checksum)
           \/ NewConversation(a)
    PROVE  TypeInv'
  <1>1. UNCHANGED <<events, whole, pc, verdict, next, heard, logged, crashes>>
    BY DEF GenerateProposal, AttachProposal, NewConversation, log, call
  <1>2. LogTypes' /\ CallTypes' /\ Bounded' /\ \A b \in Agent : Prepared(b)'
    BY <1>1 DEF TypeInv, LogTypes, CallTypes, EventLog, Bounded, Logging, Prepared
  <1>3. ConversationTypes' /\ DocumentTypes'
    <2>1. ASSUME NEW q \in Quote, NEW context \in SUBSET Evidence,
                 GenerateProposal(a, q, context)
          PROVE  ConversationTypes' /\ DocumentTypes'
      <3>1. PICK d \in Document : d = [quote |-> q, context |-> context]
        BY DEF Document
      <3>2. /\ drafts' = [drafts EXCEPT ![a] = @ \cup {d}]
            /\ UNCHANGED <<cleared, quotes, versions>>
        BY <2>1, <3>1 DEF GenerateProposal, documents
      <3> QED
        BY <3>2 DEF TypeInv, ConversationTypes, DocumentTypes
    <2>2. CASE \E d \in Document, checksum \in Checksums(a) : AttachProposal(a, d, checksum)
      BY <2>2 DEF AttachProposal, TypeInv, ConversationTypes, DocumentTypes, conversation
    <2>3. CASE NewConversation(a)
      BY <2>3 DEF NewConversation, TypeInv, ConversationTypes, DocumentTypes, documents
    <2> QED
      BY <2>1, <2>2, <2>3
  <1> QED
    BY <1>2, <1>3 DEF TypeInv

\* What a crash leaves of the calls and conversations is well typed.
LEMMA ForgetTypeInv ==
    ASSUME TypeInv, NEW A, Forget(A), crashes < MaxCrashes, crashes' = crashes + 1,
           UNCHANGED <<versions, logged>>, quotes' \subseteq quotes,
           \/ UNCHANGED <<events, whole, heard>>
           \/ events' = <<>> /\ whole' = TRUE /\ heard' = {}
    PROVE  TypeInv'
  <1>1. LogTypes'
    <2>1. EventLog(<<>>)'
      BY DEF EventLog
    <2>2. EventLog(events)'
      BY <2>1 DEF TypeInv, LogTypes, EventLog
    <2> QED
      BY <2>2 DEF TypeInv, LogTypes
  <1>2. CallTypes'
    <2>1. EventLog(<<>>)'
      BY DEF EventLog
    <2>2. \A b \in Agent : EventLog(next[b])'
      BY <2>1 DEF Forget, TypeInv, CallTypes, EventLog
    <2> QED
      BY <2>2 DEF Forget, TypeInv, CallTypes
  <1>3. ConversationTypes' /\ DocumentTypes'
    BY DEF Forget, TypeInv, ConversationTypes, DocumentTypes
  <1>4. Bounded'
    <2>1. Logging' \subseteq Logging
      BY DEF Forget, Logging
    <2> QED
      BY <2>1, LoggingFinite, FS_CardinalityType, ProposalAssumption
         DEF TypeInv, LogTypes, Bounded
  <1>5. \A b \in Agent : Prepared(b)'
    BY DEF Forget, TypeInv, Prepared
  <1> QED
    BY <1>1, <1>2, <1>3, <1>4, <1>5 DEF TypeInv

\* Every step keeps the types.
LEMMA NextTypeInv ==
    ASSUME TypeInv, [Next]_vars
    PROVE  TypeInv'
  <1>1. ASSUME NEW a \in Agent, Crash(ProcessOf[a])
        PROVE  TypeInv'
    BY <1>1, ForgetTypeInv DEF Crash, log, documents
  <1>2. CASE ContainerRestart
    BY <1>2, ForgetTypeInv DEF ContainerRestart
  <1>3. CASE UNCHANGED vars
    BY <1>3 DEF vars, log, call, conversation, documents, TypeInv, LogTypes, CallTypes,
       EventLog, ConversationTypes, DocumentTypes, Bounded, Logging, Prepared
  <1> QED
    BY <1>1, <1>2, <1>3, ScreenTypeInv, ReadTypeInv, WriteTypeInv, DocumentTypeInv DEF Next

\* The types hold in every reachable state.
LEMMA TypeInvariant == Spec => []TypeInv
  BY InitTypeInv, NextTypeInv, PTL DEF Spec

\* Every variable keeps its type, the events stay within their bound, and an
\* agent has a verdict exactly while it is in a call.
THEOREM TypeCorrect == Spec => []TypeOK
  BY TypeInvariant, TypeInvTypeOK, PTL

--------------------------------------------------------------------------------
(* What may be attached, with any number of processes.                     *)

Clean(d) == d.context \cap Injected = {}

\* An injected item never reaches the agent as cleared: not while its verdict
\* is on the way to the log, not after, and so not in a document either.
NothingInjected ==
    /\ \A a \in Agent : pc[a] # "idle" => Cleared(verdict[a]) \cap Injected = {}
    /\ \A a \in Agent : cleared[a] \cap Injected = {}
    /\ \A a \in Agent : \A d \in drafts[a] : Clean(d)
    /\ \A d \in versions : Clean(d)

\* No document that is attached holds text of an injected item as its
\* context, however the engine, the event log and the processes fail.
THEOREM NoInjectionAttachedTheorem == Spec => []NoInjectionAttached
  <1>1. Init => NothingInjected
    BY DEF Init, NothingInjected
  <1>2. TypeInv /\ NothingInjected /\ [Next]_vars => NothingInjected'
    <2> SUFFICES ASSUME TypeInv, NothingInjected, [Next]_vars
                 PROVE  NothingInjected'
      OBVIOUS
    <2> USE DEF NothingInjected
    <2>1. ASSUME NEW a \in Agent, NEW e \in Evidence, ScreenContent(a, e)
          PROVE  NothingInjected'
      <3>1. PICK answered \in BOOLEAN : verdict' = [verdict EXCEPT ![a] = Verdict(e, answered)]
        BY <2>1 DEF ScreenContent
      <3>2. Cleared(Verdict(e, answered)) \cap Injected = {}
        BY DEF Cleared, Verdict
      <3> QED
        BY <2>1, <3>1, <3>2 DEF ScreenContent, TypeInv, CallTypes, conversation, documents
    <2>2. ASSUME NEW a \in Agent, ReadEvents(a) \/ ReadFails(a) \/ TruncateEvents(a)
          PROVE  NothingInjected'
      BY <2>2 DEF ReadEvents, ReadFails, TruncateEvents, TypeInv, CallTypes, conversation,
         documents
    <2>3. ASSUME NEW a \in Agent, FillEvents(a)
          PROVE  NothingInjected'
      BY <2>3 DEF FillEvents, TypeInv, CallTypes, ConversationTypes, documents
    <2>4. ASSUME NEW a \in Agent, NEW q \in Quote, NEW context \in SUBSET Evidence,
                 GenerateProposal(a, q, context)
          PROVE  NothingInjected'
      <3>1. PICK d \in Document : d = [quote |-> q, context |-> context] /\ Clean(d)
        <4>1. context \cap Injected = {}
          BY <2>4 DEF GenerateProposal
        <4>2. PICK d \in Document : d = [quote |-> q, context |-> context]
          BY DEF Document
        <4> QED
          BY <4>1, <4>2 DEF Clean
      <3>2. /\ drafts' = [drafts EXCEPT ![a] = @ \cup {d}]
            /\ UNCHANGED <<pc, verdict, cleared, versions>>
        BY <2>4, <3>1 DEF GenerateProposal, call, documents
      <3> QED
        BY <3>1, <3>2 DEF TypeInv, ConversationTypes
    <2>5. ASSUME NEW a \in Agent,
                 \/ \E d \in Document, checksum \in Checksums(a) : AttachProposal(a, d, checksum)
                 \/ NewConversation(a)
          PROVE  NothingInjected'
      BY <2>5 DEF AttachProposal, Matches, Checksums, NewConversation, TypeInv,
         ConversationTypes, call, conversation, documents
    <2>6. CASE ContainerRestart \/ \E a \in Agent : Crash(ProcessOf[a])
      BY <2>6 DEF ContainerRestart, Crash, Forget, documents
    <2>7. CASE UNCHANGED vars
      BY <2>7 DEF vars, call, conversation, documents
    <2> QED
      BY <2>1, <2>2, <2>3, <2>4, <2>5, <2>6, <2>7 DEF Next
  <1>3. NothingInjected => NoInjectionAttached
    BY DEF NothingInjected, NoInjectionAttached, Clean
  <1> QED
    BY <1>1, <1>2, <1>3, TypeInvariant, PTL DEF Spec

--------------------------------------------------------------------------------
(* No verdict is missing from the log, with one lock.  The one call that   *)
(* writes carries every verdict heard so far, and its own at the end.      *)

SingleLock == \A a, b \in Agent : ProcessOf[a] = ProcessOf[b]

Writing(a) == pc[a] \in {"truncate", "fill"}

Exclusive == \A a, b \in Agent : Writing(a) /\ Writing(b) => a = b

Carries(a) ==
    Writing(a) =>
        /\ heard \subseteq ToSet(next[a])
        /\ Last(next[a]) = [id |-> Last(next[a]).id, verdict |-> verdict[a]]

VerdictInv == Exclusive /\ (\A a \in Agent : Carries(a)) /\ EveryVerdictLogged

\* A call that reads the log takes all of it along, when nobody else writes.
LEMMA ReadVerdictInv ==
    ASSUME SingleLock, TypeInv, VerdictInv, NEW a \in Agent, ReadEvents(a)
    PROVE  VerdictInv'
  <1>1. \A b \in Agent : ~Writing(b)
    BY DEF ReadEvents, LockFree, SingleLock, Writing
  <1>2. UNCHANGED <<events, whole, verdict, heard>> /\ whole
    BY DEF ReadEvents, log
  <1>3. heard \subseteq ToSet(events) /\ events \in Seq(LogEntry)
    BY <1>2 DEF VerdictInv, EveryVerdictLogged, TypeInv, LogTypes, EventLog
  <1>4. PICK e \in LogEntry : e = Entry(a) /\ e = [id |-> e.id, verdict |-> verdict[a]]
    BY ReadEventsStep DEF Entry
  <1>5. ToSet(Append(events, e)) = ToSet(events) \cup {e} /\ Last(Append(events, e)) = e
    BY <1>3, EntriesAppended, LastAppended
  <1>6. PICK n : n = Append(events, e) /\ n = next'[a]
    BY <1>4, ReadEventsStep
  <1>7. \A b \in Agent \ {a} : ~Writing(b)'
    BY <1>1, ReadEventsStep DEF Writing
  <1>8. Carries(a)'
    BY <1>2, <1>3, <1>4, <1>5, <1>6 DEF Carries
  <1>9. Exclusive' /\ EveryVerdictLogged'
    BY <1>2, <1>7 DEF Exclusive, VerdictInv, EveryVerdictLogged
  <1> QED
    BY <1>7, <1>8, <1>9 DEF VerdictInv, Carries

\* The writer puts the log back with the verdict it returns.
LEMMA FillVerdictInv ==
    ASSUME TypeInv, VerdictInv, NEW a \in Agent, FillEvents(a)
    PROVE  VerdictInv'
  <1>1. Writing(a) /\ \A b \in Agent \ {a} : ~Writing(b)
    BY DEF FillEvents, Writing, VerdictInv, Exclusive
  <1>2. PICK n \in Seq(LogEntry) : n = next[a] /\ n # <<>>
    BY <1>1 DEF TypeInv, CallTypes, EventLog, Prepared, Writing
  <1>3. /\ heard \subseteq ToSet(n)
        /\ Last(n) = [id |-> Last(n).id, verdict |-> verdict[a]]
    BY <1>1, <1>2 DEF VerdictInv, Carries
  <1>4. Last(n) \in ToSet(n)
    BY <1>2, LastIsEntry
  <1>5. events' = n /\ heard' = heard \cup {Last(n)}
    BY <1>2, <1>3 DEF FillEvents
  <1>6. \A b \in Agent : ~Writing(b)'
    BY <1>1 DEF FillEvents, Writing, TypeInv, CallTypes
  <1> QED
    BY <1>3, <1>4, <1>5, <1>6 DEF VerdictInv, Exclusive, Carries, EveryVerdictLogged

\* Under one lock every step keeps the invariant.
LEMMA NextVerdictInv ==
    ASSUME SingleLock, TypeInv, VerdictInv, [Next]_vars
    PROVE  VerdictInv'
  <1>1. ASSUME UNCHANGED <<events, whole, next, heard>>,
               \A b \in Agent : Writing(b)' => /\ Writing(b)
                                               /\ verdict'[b] = verdict[b]
        PROVE  VerdictInv'
    BY <1>1 DEF VerdictInv, Exclusive, Carries, EveryVerdictLogged
  <1>2. ASSUME NEW a \in Agent,
               (\E e \in Evidence : ScreenContent(a, e)) \/ ReadFails(a)
        PROVE  VerdictInv'
    <2>1. UNCHANGED <<events, whole, next, heard>>
      BY <1>2 DEF ScreenContent, ReadFails, log
    <2>2. \A b \in Agent : Writing(b)' => Writing(b) /\ verdict'[b] = verdict[b]
      BY <1>2 DEF ScreenContent, ReadFails, Writing, TypeInv, CallTypes
    <2> QED
      BY <1>1, <2>1, <2>2
  <1>3. ASSUME NEW a \in Agent, TruncateEvents(a)
        PROVE  VerdictInv'
    <2>1. ~whole' /\ UNCHANGED <<verdict, next, heard>>
      BY <1>3 DEF TruncateEvents
    <2>2. \A b \in Agent : Writing(b)' => Writing(b)
      BY <1>3 DEF TruncateEvents, Writing, TypeInv, CallTypes
    <2> QED
      BY <2>1, <2>2 DEF VerdictInv, Exclusive, Carries, EveryVerdictLogged
  <1>4. ASSUME NEW a \in Agent,
               \/ \E q \in Quote, context \in SUBSET Evidence :
                     GenerateProposal(a, q, context)
               \/ \E d \in Document, checksum \in Checksums(a) : AttachProposal(a, d, checksum)
               \/ NewConversation(a)
        PROVE  VerdictInv'
    <2>1. UNCHANGED <<events, whole, next, heard, pc, verdict>>
      BY <1>4 DEF GenerateProposal, AttachProposal, NewConversation, log, call
    <2> QED
      BY <1>1, <2>1 DEF Writing
  <1>5. ASSUME NEW A, Forget(A),
               UNCHANGED <<events, whole, heard>> \/ heard' = {}
        PROVE  VerdictInv'
    <2>1. \A b \in Agent : Writing(b)' => /\ Writing(b)
                                          /\ verdict'[b] = verdict[b] /\ next'[b] = next[b]
      BY <1>5 DEF Forget, Writing
    <2> QED
      BY <1>5, <2>1 DEF VerdictInv, Exclusive, Carries, EveryVerdictLogged
  <1>6. ASSUME NEW a \in Agent, Crash(ProcessOf[a])
        PROVE  VerdictInv'
    BY <1>5, <1>6 DEF Crash, log
  <1>7. CASE ContainerRestart
    BY <1>5, <1>7 DEF ContainerRestart
  <1>8. CASE UNCHANGED vars
    BY <1>1, <1>8 DEF vars, log, call, Writing
  <1> QED
    BY <1>2, <1>3, <1>4, <1>6, <1>7, <1>8, ReadVerdictInv, FillVerdictInv DEF Next

\* Every verdict an agent was given, a clean one too, is in the log as it was
\* given, as long as the log is there and whole: when the callers share one
\* lock, in any interleaving and with any crashes.
THEOREM EveryVerdictLoggedTheorem ==
    ASSUME SingleLock
    PROVE  Spec => []EveryVerdictLogged
  <1>1. Init => VerdictInv
    BY DEF Init, VerdictInv, Exclusive, Writing, Carries, EveryVerdictLogged
  <1>2. TypeInv /\ VerdictInv /\ [Next]_vars => VerdictInv'
    BY SingleLock, NextVerdictInv
  <1>3. VerdictInv => EveryVerdictLogged
    BY DEF VerdictInv
  <1> QED
    BY <1>1, <1>2, <1>3, TypeInvariant, PTL DEF Spec

================================================================================
