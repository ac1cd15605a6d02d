------------------------------ MODULE ApprovalStore ------------------------------
(***************************************************************************)
(* mcp-services/approval: discount approvals in one JSON file, requested   *)
(* and polled by agents (agents/risk_approval/agent.py, server.py) and     *)
(* decided by humans through another entry (resolve_approval of server.py, *)
(* a direct call).  Each stdio server and each agent runtime is a process  *)
(* with its own lock over the same file.                                   *)
(*                                                                         *)
(* A call under the lock reads and decides in one step and rewrites the    *)
(* file in a second; a crash inside the second may leave it truncated.     *)
(* SendGate has the two halves of a rewrite as separate steps; here they   *)
(* are one, and polls see the file before or after.                        *)
(***************************************************************************)
EXTENDS Naturals, Sequences

CONSTANTS Agent,        \* callers of request_discount_approval and get_approval_status
          Decider,      \* callers of decide_approval
          ProcessOf,    \* the process of a client
          ApprovalId,   \* what uuid4 may draw; bounds the requests
          Quote,
          NoCall,       \* "no decision under way"
          MaxCrashes    \* bound on crashes and restarts

Client == Agent \cup Decider

Decision == {"APPROVED", "REJECTED"}

Status == Decision \cup {"PENDING"}

Record == [quote_id : Quote, status : Status]

\* A call of decide_approval that has found its request pending.
Call == [id : ApprovalId, decision : Decision]

ASSUME ApprovalAssumption ==
    /\ DOMAIN ProcessOf = Client
    /\ NoCall \notin Call
    /\ MaxCrashes \in Nat

VARIABLES store,      \* _approval_store.local.json: id -> record
          whole,      \* FALSE once a crash has left the file truncated
          pc,         \* "idle", or "write": holding the lock, about to write
          next,       \* the dict a client is about to write
          call,       \* the decision that write carries, else NoCall
          seen,       \* <<id, decision>> pairs an agent was told
          stored,     \* history: ids that reached the file
          accepted,   \* history: decisions answered with already_decided false
          crashes     \* crashes and restarts so far

file == <<store, whole>>
work == <<pc, next, call>>
history == <<stored, accepted, crashes>>
vars == <<file, work, seen, history>>

--------------------------------------------------------------------------------
IsStore(s) == DOMAIN s \subseteq ApprovalId /\ s \in [DOMAIN s -> Record]

EmptyStore == [a \in {} |-> {}]

Put(s, a, rec) == [b \in DOMAIN s \cup {a} |-> IF b = a THEN rec ELSE s[b]]

Init ==
    /\ store = EmptyStore /\ whole = TRUE
    /\ pc = [c \in Client |-> "idle"]
    /\ next = [c \in Client |-> EmptyStore]
    /\ call = [c \in Client |-> NoCall]
    /\ seen = [c \in Agent |-> {}]
    /\ stored = {} /\ accepted = <<>> /\ crashes = 0

\* Faulty variants, named after the definition they could stand for, exist
\* only to show that the properties notice them.
LockFree_NoLock(c) == pc[c] = "idle"

\* "with _lock", in the client's own process.
LockFree(c) == \A d \in Client : ProcessOf[d] = ProcessOf[c] => pc[d] = "idle"

Fresh(a) == a \notin stored /\ \A c \in Client : a \notin DOMAIN next[c]

WillWrite(c, s, k) ==
    /\ pc' = [pc EXCEPT ![c] = "write"]
    /\ next' = [next EXCEPT ![c] = s]
    /\ call' = [call EXCEPT ![c] = k]

NewRecord_OtherStatus(q) == [quote_id |-> q, status |-> "REQUESTED"]

NewRecord(q) == [quote_id |-> q, status |-> "PENDING"]

\* request_discount_approval mints a request whatever the store holds.
RequestDiscountApproval(c, q) ==
    /\ LockFree(c) /\ whole
    /\ \E a \in ApprovalId :
          /\ Fresh(a)
          /\ WillWrite(c, Put(store, a, NewRecord(q)), NoCall)
    /\ UNCHANGED <<file, seen, history>>

MayDecide_AnyStatus(a) == a \in DOMAIN store

MayDecide(a) == a \in DOMAIN store /\ store[a].status = "PENDING"

\* decide_approval; with an unknown id, or already decided, nothing changes.
DecideApproval(c, a, d) ==
    /\ LockFree(c) /\ whole
    /\ MayDecide(a)
    /\ WillWrite(c, [store EXCEPT ![a].status = d], [id |-> a, decision |-> d])
    /\ UNCHANGED <<file, seen, history>>

\* _write_store, and the call returns: a request with its id, a decision
\* with already_decided false.
WriteStore(c) ==
    /\ pc[c] = "write"
    /\ store' = next[c] /\ whole' = TRUE
    /\ stored' = stored \cup DOMAIN next[c]
    /\ accepted' = IF call[c] = NoCall THEN accepted ELSE Append(accepted, call[c])
    /\ pc' = [pc EXCEPT ![c] = "idle"]
    /\ next' = [next EXCEPT ![c] = EmptyStore]
    /\ call' = [call EXCEPT ![c] = NoCall]
    /\ UNCHANGED <<seen, crashes>>

\* get_approval_status takes no lock.  An answer of PENDING is not kept:
\* the caller polls again.
GetApprovalStatus(c, a) ==
    /\ whole /\ a \in DOMAIN store
    /\ store[a].status \in Decision
    /\ seen' = [seen EXCEPT ![c] = @ \cup {<<a, store[a].status>>}]
    /\ UNCHANGED <<file, work, history>>

--------------------------------------------------------------------------------
(* Crashes.  A process dies with its lock and its local copy; caught while *)
(* writing, it may leave the file truncated.  A restarted container comes  *)
(* back with no file.                                                      *)

Forget(C) ==
    /\ pc' = [c \in Client |-> IF c \in C THEN "idle" ELSE pc[c]]
    /\ next' = [c \in Client |-> IF c \in C THEN EmptyStore ELSE next[c]]
    /\ call' = [c \in Client |-> IF c \in C THEN NoCall ELSE call[c]]

Crash(p) ==
    /\ crashes < MaxCrashes /\ crashes' = crashes + 1
    /\ Forget({c \in Client : ProcessOf[c] = p})
    /\ \/ UNCHANGED file
       \/ /\ \E c \in Client : ProcessOf[c] = p /\ pc[c] = "write"
          /\ store' = EmptyStore /\ whole' = FALSE
    /\ UNCHANGED <<seen, stored, accepted>>

ContainerRestart ==
    /\ crashes < MaxCrashes /\ crashes' = crashes + 1
    /\ Forget(Client)
    /\ store' = EmptyStore /\ whole' = TRUE
    /\ UNCHANGED <<seen, stored, accepted>>

Next ==
    \/ \E c \in Agent, q \in Quote : RequestDiscountApproval(c, q)
    \/ \E c \in Agent, a \in ApprovalId : GetApprovalStatus(c, a)
    \/ \E c \in Decider, a \in ApprovalId, d \in Decision : DecideApproval(c, a, d)
    \/ \E c \in Client : WriteStore(c)
    \/ \E c \in Client : Crash(ProcessOf[c])
    \/ ContainerRestart

Spec == Init /\ [][Next]_vars

--------------------------------------------------------------------------------
(* Properties. *)

\* Every variable has its type.
TypeOK ==
    /\ IsStore(store) /\ whole \in BOOLEAN
    /\ pc \in [Client -> {"idle", "write"}]
    /\ DOMAIN next = Client /\ \A c \in Client : IsStore(next[c])
    /\ call \in [Client -> Call \cup {NoCall}]
    /\ seen \in [Agent -> SUBSET (ApprovalId \X Decision)]
    /\ stored \subseteq ApprovalId
    /\ accepted \in Seq(Call) /\ crashes \in Nat

\* "A decided request must never flip again": of all the decisions the
\* service ever answered with already_decided false, no two are for one
\* request, and each is what the store says as long as it has the request.
DecisionIsFinal ==
    /\ \A i, j \in 1..Len(accepted) : accepted[i].id = accepted[j].id => i = j
    /\ \A i \in 1..Len(accepted) :
          accepted[i].id \in DOMAIN store =>
              store[accepted[i].id].status = accepted[i].decision

StatusOf(a) ==
    IF a \in DOMAIN store THEN store[a].status
    ELSE IF a \in stored THEN "lost" ELSE "none"

Decided ==
    INSTANCE ApprovalDecision WITH
        status <- [a \in ApprovalId |-> StatusOf(a)],
        Reader <- Agent

\* Every step on the file is a step of the abstract service or none: a
\* request waits, is decided once, and only a crash takes it away.
StoreImplementsDecision == Decided!Spec
================================================================================
