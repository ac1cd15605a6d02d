---------------------------- MODULE OpportunityStore ----------------------------
(***************************************************************************)
(* mcp-services/salesforce in fixture mode: opportunity_store.py keeps, in *)
(* one JSON file, the confirmed fields and a version per opportunity and   *)
(* the results of past calls by idempotency key.                           *)
(*                                                                         *)
(* Its callers are the MCP clients of server.py, for whom get_opportunity  *)
(* and update_opportunity_field are two calls with anything in between,    *)
(* and confirm_opportunity_field of the orchestrator, which makes the same *)
(* two calls in a row and derives the key from what it read.  A caller     *)
(* whose answer is lost repeats its call as it was.                        *)
(*                                                                         *)
(* A call under the lock reads and decides in one step and rewrites the    *)
(* file in a second (a file torn by a crash: see SendGate).                *)
(***************************************************************************)
EXTENDS Naturals, FiniteSetsExt, Functions, SequencesExt

CONSTANTS Caller,
          ProcessOf,    \* the process, and so the lock, a caller is served by
          Opportunity, Field,
          Writable,     \* ALLOWED_WRITE_FIELDS
          Value,
          Offered,      \* the field values callers confirm: some of FieldValues
          NoCall,       \* "this caller has not read yet"
          MaxVersion,   \* bound on the versions of an opportunity
          MaxCrashes    \* bound on crashes and restarts

\* The "fields" argument, and the "fields" of an overlay.
FieldValues == UNION {[F -> Value] : F \in SUBSET Field}

\* A call of update_opportunity.  Its key is made of all it carries, so the
\* call stands for its key.
Call == [opp : Opportunity, fields : FieldValues, version : 1..MaxVersion]

ASSUME OpportunityAssumption ==
    /\ DOMAIN ProcessOf = Caller
    /\ Writable \subseteq Field
    /\ Offered \subseteq FieldValues
    /\ NoCall \notin Call
    /\ MaxVersion \in Nat \ {0} /\ MaxCrashes \in Nat

VARIABLES overlay,      \* "opportunities" in the file
          ledger,       \* "idempotency" in the file: the calls it has results of
          pc,           \* where each caller is
          call,         \* the call it is making or made last
          next,         \* overlay and ledger as a caller is about to write them
          outcome,      \* how that call was answered
          applied,      \* history: the calls that changed the file, in order
          crashes       \* crashes and restarts so far

file == <<overlay, ledger>>
vars == <<file, pc, call, next, outcome, applied, crashes>>

--------------------------------------------------------------------------------
NoFields == [f \in {} |-> {}]

\* Faulty variants, named after the definition they could stand for, exist
\* only to show that the properties notice them.
NoOverlay_FromZero == [o \in Opportunity |-> [version |-> 0, fields |-> NoFields]]

\* A missing overlay is version 1 without fields.
NoOverlay == [o \in Opportunity |-> [version |-> 1, fields |-> NoFields]]

Init ==
    /\ overlay = NoOverlay /\ ledger = {}
    /\ pc = [c \in Caller |-> "idle"]
    /\ call = [c \in Caller |-> NoCall]
    /\ next = [c \in Caller |-> <<NoOverlay, {}>>]
    /\ outcome = [c \in Caller |-> "none"]
    /\ applied = <<>> /\ crashes = 0

LockFree_NoLock(c) == pc[c] # "write"

\* "with _lock", in the process that serves the caller.
LockFree(c) == \A d \in Caller : ProcessOf[d] = ProcessOf[c] => pc[d] # "write"

\* get_opportunity: the version read now is the one the write will insist on.
ReadOpportunity(c, o, fields) ==
    /\ pc[c] = "idle"
    /\ call' = [call EXCEPT ![c] = [opp |-> o, fields |-> fields,
                                    version |-> overlay[o].version]]
    /\ pc' = [pc EXCEPT ![c] = "update"]
    /\ outcome' = [outcome EXCEPT ![c] = "none"]
    /\ UNCHANGED <<file, next, applied, crashes>>

Current_Any(k) == TRUE

\* current["version"] == expected_version
Current(k) == overlay[k.opp].version = k.version

\* {**fields, **changed}
Merge(fields, changed) ==
    [f \in DOMAIN fields \cup DOMAIN changed |->
        IF f \in DOMAIN changed THEN changed[f] ELSE fields[f]]

Merged(k) ==
    [version |-> overlay[k.opp].version + 1,
     fields |-> Merge(overlay[k.opp].fields, k.fields)]

Answered(c, answer) ==
    /\ pc' = [pc EXCEPT ![c] = "answered"]
    /\ outcome' = [outcome EXCEPT ![c] = answer]

\* A known key is answered from the ledger, before anything is checked.
Replay(c) ==
    /\ pc[c] = "update" /\ LockFree(c)
    /\ call[c] \in ledger
    /\ Answered(c, "done")
    /\ UNCHANGED <<file, call, next, applied, crashes>>

\* ValueError: a field outside ALLOWED_WRITE_FIELDS.
Refuse(c) ==
    /\ pc[c] = "update" /\ LockFree(c)
    /\ call[c] \notin ledger
    /\ ~(DOMAIN call[c].fields \subseteq Writable)
    /\ Answered(c, "refused")
    /\ UNCHANGED <<file, call, next, applied, crashes>>

Conflict_BeforeReplay(c) ==
    /\ pc[c] = "update" /\ LockFree(c)
    /\ ~Current(call[c])
    /\ Answered(c, "conflict")
    /\ UNCHANGED <<file, call, next, applied, crashes>>

\* VersionConflict
Conflict(c) ==
    /\ pc[c] = "update" /\ LockFree(c)
    /\ call[c] \notin ledger
    /\ DOMAIN call[c].fields \subseteq Writable
    /\ ~Current(call[c])
    /\ Answered(c, "conflict")
    /\ UNCHANGED <<file, call, next, applied, crashes>>

Update(c) ==
    /\ pc[c] = "update" /\ LockFree(c)
    /\ call[c] \notin ledger
    /\ DOMAIN call[c].fields \subseteq Writable
    /\ Current(call[c])
    /\ overlay[call[c].opp].version < MaxVersion
    /\ next' = [next EXCEPT ![c] = <<[overlay EXCEPT ![call[c].opp] = Merged(call[c])],
                                     ledger \cup {call[c]}>>]
    /\ pc' = [pc EXCEPT ![c] = "write"]
    /\ UNCHANGED <<file, call, outcome, applied, crashes>>

\* _write_store replaces overlay and ledger together, and the call returns.
WriteStore(c) ==
    /\ pc[c] = "write"
    /\ overlay' = next[c][1] /\ ledger' = next[c][2]
    /\ applied' = Append(applied, call[c])
    /\ Answered(c, "done")
    /\ next' = [next EXCEPT ![c] = <<NoOverlay, {}>>]
    /\ UNCHANGED <<call, crashes>>

\* A caller is through with its call, or read and does not write.
Finish(c) ==
    /\ pc[c] \in {"update", "answered"}
    /\ pc' = [pc EXCEPT ![c] = "idle"]
    /\ UNCHANGED <<file, call, next, outcome, applied, crashes>>

\* The answer got lost on its way and the caller repeats the call.
Retry(c) ==
    /\ pc[c] = "answered"
    /\ pc' = [pc EXCEPT ![c] = "update"]
    /\ UNCHANGED <<file, call, next, outcome, applied, crashes>>

--------------------------------------------------------------------------------
(* Crashes.  A process dies with its lock and what it was about to write;  *)
(* its callers start over.  A restarted container comes back with no file. *)

Forget(C) ==
    /\ pc' = [c \in Caller |-> IF c \in C THEN "idle" ELSE pc[c]]
    /\ call' = [c \in Caller |-> IF c \in C THEN NoCall ELSE call[c]]
    /\ next' = [c \in Caller |-> IF c \in C THEN <<NoOverlay, {}>> ELSE next[c]]
    /\ outcome' = [c \in Caller |-> IF c \in C THEN "none" ELSE outcome[c]]

Crash(p) ==
    /\ crashes < MaxCrashes /\ crashes' = crashes + 1
    /\ Forget({c \in Caller : ProcessOf[c] = p})
    /\ UNCHANGED <<file, applied>>

\* "applied" starts over with the file it is the history of.
ContainerRestart ==
    /\ crashes < MaxCrashes /\ crashes' = crashes + 1
    /\ Forget(Caller)
    /\ overlay' = NoOverlay /\ ledger' = {} /\ applied' = <<>>

Next ==
    \/ \E c \in Caller :
          \/ \E o \in Opportunity, fields \in Offered : ReadOpportunity(c, o, fields)
          \/ Replay(c)
          \/ Refuse(c)
          \/ Conflict(c)
          \/ Update(c)
          \/ WriteStore(c)
          \/ Finish(c)
          \/ Retry(c)
          \/ Crash(ProcessOf[c])
    \/ ContainerRestart

Spec == Init /\ [][Next]_vars

--------------------------------------------------------------------------------
(* Properties. *)

IsFile(o, l) ==
    /\ o \in [Opportunity -> [version : 1..MaxVersion, fields : FieldValues]]
    /\ l \subseteq Call

\* Every variable has its type.
TypeOK ==
    /\ IsFile(overlay, ledger)
    /\ pc \in [Caller -> {"idle", "update", "write", "answered"}]
    /\ call \in [Caller -> Call \cup {NoCall}]
    /\ DOMAIN next = Caller /\ \A c \in Caller : IsFile(next[c][1], next[c][2])
    /\ outcome \in [Caller -> {"none", "done", "conflict", "refused"}]
    /\ applied \in Seq(Call) /\ crashes \in 0..MaxCrashes

\* The positions in "applied" of the calls on one opportunity.
WritesOf(o) == {i \in 1..Len(applied) : applied[i].opp = o}

\* The calls of s at the positions W are on versions 1 to n, in order.
OnVersionsUpTo(s, W, n) ==
    /\ \A i, j \in W : i < j => s[i].version < s[j].version
    /\ {s[i].version : i \in W} = 1..n

\* "A stale read must never silently overwrite newer state": each write was
\* made on the version the write before it had left, 1, 2 and so on up to
\* the one before the present, so no version has two successors and no call
\* is applied twice.
NoStaleOverwrite ==
    \A o \in Opportunity : OnVersionsUpTo(applied, WritesOf(o), overlay[o].version - 1)

\* The answer is the truth, also to a call that is repeated after its first
\* answer was lost and others have written since: "done" to a call that was
\* applied, a conflict or a refusal to one that never was.
AnswersAreTrue ==
    \A c \in Caller :
        /\ outcome[c] = "done" => Contains(applied, call[c])
        /\ outcome[c] \in {"conflict", "refused"} => ~Contains(applied, call[c])

Basis(c) ==
    [o \in Opportunity |->
        IF call[c] # NoCall /\ call[c].opp = o THEN call[c].version ELSE 0]

Versioned ==
    INSTANCE VersionedRecord WITH
        record <- overlay,
        basis <- [c \in Caller |-> Basis(c)],
        Writer <- Caller,
        Blank <- NoFields,
        Changes <- FieldValues,
        Merge <- Merge

\* Read, check and write, with others in between, act as one compare-and-set.
StoreImplementsVersionedRecord == Versioned!Spec
================================================================================
