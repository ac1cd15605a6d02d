-------------------------------- MODULE Proposal --------------------------------
(***************************************************************************)
(* From evidence to attached proposal: mcp-services/security screens what  *)
(* an agent retrieved and logs the verdict, generate_proposal of           *)
(* mcp-services/documents renders the template from a stored quote and     *)
(* signs the text, attach_proposal verifies and attaches it.               *)
(*                                                                         *)
(* The caller is a language model (agents/proposal_communication/agent.py).*)
(* Of it the model assumes two things, that no code enforces:              *)
(*   - as context it passes only evidence that came back unflagged in the  *)
(*     same conversation, and puts no evidence elsewhere: use_case and the *)
(*     other free slots of the template are left out;                      *)
(*   - it has checksums from generate_proposal only (Checksums).  The      *)
(*     checksum is an unkeyed sha256, and attach_proposal takes any text   *)
(*     that comes with its own.                                            *)
(* On the way to attach_proposal it may change a document or mix two.      *)
(***************************************************************************)
EXTENDS Naturals, Sequences, FiniteSets, SequencesExt

CONSTANTS Agent,       \* conversations of the proposal agent
          ProcessOf,   \* the process of an agent
          Quote,       \* quotes; a quote stands for its signed terms
          Evidence,    \* evidence items
          Injected,    \* those the engine recognises as prompt injection
          MaxEvents,   \* bound on the events logged
          MaxCrashes   \* bound on crashes and restarts

ASSUME ProposalAssumption ==
    /\ IsFiniteSet(Agent) /\ DOMAIN ProcessOf = Agent
    /\ Injected \subseteq Evidence
    /\ MaxEvents \in Nat /\ MaxCrashes \in Nat

\* What the template leaves open, without the free slots.
Document == [quote : Quote, context : SUBSET Evidence]

VARIABLES quotes,     \* quotes get_quote can fetch
          events,     \* _security_events.local.json
          whole,      \* FALSE while that file is truncated
          pc,         \* where an agent is in screen_content, or "idle"
          verdict,    \* the verdict that call is about to log and return
          next,       \* the list it is about to write
          cleared,    \* evidence unflagged in the agent's conversation
          drafts,     \* documents generated in it
          versions,   \* documents attached as content versions
          heard,      \* history: events of verdicts returned, since the
                      \* log was last removed
          logged,     \* history: events logged so far
          crashes     \* crashes and restarts so far

log == <<events, whole>>
call == <<pc, verdict, next>>
conversation == <<cleared, drafts>>
documents == <<quotes, versions>>
vars == <<log, call, conversation, documents, heard, logged, crashes>>

NoVerdict == [flagged |-> "none"]

Init ==
    /\ quotes = Quote
    /\ events = <<>> /\ whole = TRUE
    /\ pc = [a \in Agent |-> "idle"]
    /\ verdict = [a \in Agent |-> NoVerdict]
    /\ next = [a \in Agent |-> <<>>]
    /\ cleared = [a \in Agent |-> {}] /\ drafts = [a \in Agent |-> {}]
    /\ versions = {}
    /\ heard = {} /\ logged = 0 /\ crashes = 0

--------------------------------------------------------------------------------
(* Screening. *)

\* Faulty variants, named after the definition they could stand for, exist
\* only to show that the properties notice them.
Verdict_FailsOpen(e, answered) == [item |-> e, flagged |-> answered /\ e \in Injected]

\* The screener's verdict.  An engine that cannot be reached flags.
Verdict(e, answered) == [item |-> e, flagged |-> answered => e \in Injected]

LockFree_NoLock(a) == TRUE

\* "with _lock", in the agent's own process.
LockFree(a) ==
    \A b \in Agent : ProcessOf[b] = ProcessOf[a] => pc[b] \notin {"truncate", "fill"}

\* screen, outside the lock.  An answer that cannot be understood raises,
\* and the caller has no verdict: nothing changes.
ScreenContent(a, e) ==
    /\ pc[a] = "idle"
    /\ logged + Cardinality({b \in Agent : pc[b] = "log"}) < MaxEvents
    /\ \E answered \in BOOLEAN : verdict' = [verdict EXCEPT ![a] = Verdict(e, answered)]
    /\ pc' = [pc EXCEPT ![a] = "log"]
    /\ UNCHANGED <<log, next, conversation, documents, heard, logged, crashes>>

\* _log_event reads the log and appends, flagged or not.
ReadEvents(a) ==
    /\ pc[a] = "log" /\ LockFree(a) /\ whole
    /\ logged' = logged + 1
    /\ next' = [next EXCEPT ![a] = Append(events, [id |-> logged', verdict |-> verdict[a]])]
    /\ pc' = [pc EXCEPT ![a] = "truncate"]
    /\ UNCHANGED <<log, verdict, conversation, documents, heard, crashes>>

ReadFails_KeepsVerdict(a) ==
    /\ pc[a] = "log" /\ LockFree(a) /\ ~whole
    /\ pc' = [pc EXCEPT ![a] = "idle"]
    /\ UNCHANGED <<log, verdict, next, conversation, documents, heard, logged, crashes>>

\* A log that does not parse raises: the caller has no verdict.
ReadFails(a) ==
    /\ pc[a] = "log" /\ LockFree(a) /\ ~whole
    /\ pc' = [pc EXCEPT ![a] = "idle"]
    /\ verdict' = [verdict EXCEPT ![a] = NoVerdict]
    /\ UNCHANGED <<log, next, conversation, documents, heard, logged, crashes>>

\* write_text truncates before it writes.
TruncateEvents(a) ==
    /\ pc[a] = "truncate"
    /\ events' = <<>> /\ whole' = FALSE
    /\ pc' = [pc EXCEPT ![a] = "fill"]
    /\ UNCHANGED <<verdict, next, conversation, documents, heard, logged, crashes>>

\* What the agent may use of a verdict it is given.
Cleared(v) == IF v.flagged THEN {} ELSE {v.item}

\* The rest of write_text, and screen_content returns.
FillEvents(a) ==
    /\ pc[a] = "fill"
    /\ events' = next[a] /\ whole' = TRUE
    /\ heard' = heard \cup {[id |-> Last(next[a]).id, verdict |-> verdict[a]]}
    /\ cleared' = [cleared EXCEPT ![a] = @ \cup Cleared(verdict[a])]
    /\ pc' = [pc EXCEPT ![a] = "idle"]
    /\ verdict' = [verdict EXCEPT ![a] = NoVerdict]
    /\ next' = [next EXCEPT ![a] = <<>>]
    /\ UNCHANGED <<drafts, documents, logged, crashes>>

--------------------------------------------------------------------------------
(* Documents. *)

\* generate_proposal fetches the quote itself; without it, it raises.
GenerateProposal(a, q, context) ==
    /\ pc[a] = "idle"
    /\ q \in quotes
    /\ context \subseteq cleared[a]
    /\ drafts' = [drafts EXCEPT ![a] = @ \cup {[quote |-> q, context |-> context]}]
    /\ UNCHANGED <<log, call, cleared, documents, heard, logged, crashes>>

Matches_Terms(d, checksum) == d.quote = checksum.quote

\* sha256 tells documents apart, so a document stands for its checksum.
Matches(d, checksum) == d = checksum

\* attach_proposal refuses a text that does not match its checksum, and
\* nothing else.  Attaching again attaches again.
AttachProposal(a, d, checksum) ==
    /\ pc[a] = "idle"
    /\ Matches(d, checksum)
    /\ versions' = versions \cup {d}
    /\ UNCHANGED <<log, call, conversation, quotes, heard, logged, crashes>>

\* AgentTool runs each delegation in a conversation of its own.
NewConversation(a) ==
    /\ pc[a] = "idle"
    /\ cleared' = [cleared EXCEPT ![a] = {}]
    /\ drafts' = [drafts EXCEPT ![a] = {}]
    /\ UNCHANGED <<log, call, documents, heard, logged, crashes>>

--------------------------------------------------------------------------------
(* Crashes.  A process dies with its conversations; a restarted container  *)
(* has neither the event log nor the quotes' file.                         *)

Forget(A) ==
    /\ pc' = [a \in Agent |-> IF a \in A THEN "idle" ELSE pc[a]]
    /\ verdict' = [a \in Agent |-> IF a \in A THEN NoVerdict ELSE verdict[a]]
    /\ next' = [a \in Agent |-> IF a \in A THEN <<>> ELSE next[a]]
    /\ cleared' = [a \in Agent |-> IF a \in A THEN {} ELSE cleared[a]]
    /\ drafts' = [a \in Agent |-> IF a \in A THEN {} ELSE drafts[a]]

Crash(p) ==
    /\ crashes < MaxCrashes /\ crashes' = crashes + 1
    /\ Forget({a \in Agent : ProcessOf[a] = p})
    /\ UNCHANGED <<log, documents, heard, logged>>

ContainerRestart ==
    /\ crashes < MaxCrashes /\ crashes' = crashes + 1
    /\ Forget(Agent)
    /\ events' = <<>> /\ whole' = TRUE /\ heard' = {}
    /\ quotes' = {}
    /\ UNCHANGED <<versions, logged>>

--------------------------------------------------------------------------------
\* The checksums a conversation has: a language model is handed them, it
\* does not compute a sha256.
Checksums(a) == drafts[a]

Next ==
    \/ \E a \in Agent :
          \/ \E e \in Evidence : ScreenContent(a, e)
          \/ ReadEvents(a) \/ ReadFails(a)
          \/ TruncateEvents(a) \/ FillEvents(a)
          \/ \E q \in Quote, context \in SUBSET Evidence : GenerateProposal(a, q, context)
          \/ \E d \in Document, checksum \in Checksums(a) : AttachProposal(a, d, checksum)
          \/ NewConversation(a)
          \/ Crash(ProcessOf[a])
    \/ ContainerRestart

Spec == Init /\ [][Next]_vars

--------------------------------------------------------------------------------
(* Properties. *)

IsVerdict(v) == v.item \in Evidence /\ v.flagged \in BOOLEAN

IsLog(l) == \A i \in 1..Len(l) : l[i].id \in 1..logged /\ IsVerdict(l[i].verdict)

\* Every variable has its type, and an agent has a verdict under way exactly
\* while it is in a call.
TypeOK ==
    /\ quotes \subseteq Quote
    /\ IsLog(events) /\ whole \in BOOLEAN
    /\ pc \in [Agent -> {"idle", "log", "truncate", "fill"}]
    /\ \A a \in Agent : IF pc[a] = "idle" THEN verdict[a] = NoVerdict ELSE IsVerdict(verdict[a])
    /\ \A a \in Agent : IsLog(next[a])
    /\ cleared \in [Agent -> SUBSET Evidence]
    /\ drafts \in [Agent -> SUBSET Document]
    /\ versions \subseteq Document
    /\ \A h \in heard : h.id \in 1..logged /\ IsVerdict(h.verdict)
    /\ logged \in 0..MaxEvents
    /\ crashes \in 0..MaxCrashes

\* No attached proposal holds text of an injected item as its context:
\* screening fails closed when the engine or its log fails, and what the
\* model adds to the document afterwards no longer matches.
NoInjectionAttached == \A d \in versions : d.context \cap Injected = {}

\* Every verdict an agent was given, an allow too, is in the log as it
\* was given, as long as the log is there and can be read.
EveryVerdictLogged == whole => heard \subseteq ToSet(events)
================================================================================
