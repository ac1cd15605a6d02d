-------------------------------- MODULE LiveQuote --------------------------------
(***************************************************************************)
(* mcp-services/salesforce in live mode: create_quote_draft and get_quote  *)
(* of LiveSalesforceClient over a Salesforce org and idempotency_log.py,   *)
(* the instance's own file of "have we already processed this key".        *)
(*                                                                         *)
(* An instance is one process with a ledger of its own: a Cloud Run        *)
(* container, a developer's machine.  The tools are synchronous functions  *)
(* of an event loop, so an instance has one call under way at a time, and  *)
(* its ledger is not written between the look-up and the put; a crash      *)
(* inside the put leaves it truncated.  The org is another matter: its     *)
(* answer may be lost after the record is created, and its sessions        *)
(* expire.                                                                 *)
(***************************************************************************)
EXTENDS Naturals, FiniteSets, Sequences

CONSTANTS Instance,
          Key,          \* idempotency keys
          CanRefresh,   \* instances with an authenticated sf CLI
          MaxQuotes,    \* bound on the quotes of the org
          MaxFailures   \* bound on lost answers, crashes and restarts

ASSUME LiveQuoteAssumption ==
    /\ IsFiniteSet(Instance) /\ CanRefresh \subseteq Instance
    /\ MaxQuotes \in Nat \ {0} /\ MaxFailures \in Nat

None == 0

VARIABLES org,      \* the Quote records: the key each was created for, by id
          ledger,   \* _live_idempotency.local.json: the quote id of a key, or None
          whole,    \* FALSE while that file is truncated
          valid,    \* whether an instance's session is still good
          pc,       \* where the call of an instance is
          key,      \* its key
          created,  \* the id the org gave it, or None
          told,     \* history: <<key, id>> an instance has answered
          losses,   \* history: how often an instance lost its ledger
          failures  \* lost answers, crashes and restarts so far

file == <<ledger, whole, losses>>
call == <<pc, key, created>>
vars == <<org, file, valid, call, told, failures>>

--------------------------------------------------------------------------------
Init ==
    /\ org = <<>>
    /\ ledger = [i \in Instance |-> [k \in Key |-> None]]
    /\ whole = [i \in Instance |-> TRUE]
    /\ losses = [i \in Instance |-> 0]
    /\ valid = [i \in Instance |-> TRUE]
    /\ pc = [i \in Instance |-> "idle"]
    /\ key \in [Instance -> Key]
    /\ created = [i \in Instance |-> None]
    /\ told = [i \in Instance |-> {}]
    /\ failures = 0

Goto(i, label) == pc' = [pc EXCEPT ![i] = label]

\* The org has room for the quotes of the calls under way and one more.
WithinBound == Len(org) + Cardinality({i \in Instance : pc[i] # "idle"}) < MaxQuotes

\* Faulty variants, named after the definition they could stand for, exist
\* only to show that the properties notice them.
CreateQuoteDraft_NoLedger(i, k) ==
    /\ pc[i] = "idle" /\ WithinBound
    /\ whole[i]
    /\ Goto(i, "create")
    /\ key' = [key EXCEPT ![i] = k]
    /\ UNCHANGED <<org, file, valid, created, told, failures>>

\* A call whose key is not in the ledger goes to the org.  Over a ledger
\* that does not parse it raises, and nothing changes.
CreateQuoteDraft(i, k) ==
    /\ pc[i] = "idle" /\ WithinBound
    /\ whole[i]
    /\ ledger[i][k] = None
    /\ Goto(i, "create")
    /\ key' = [key EXCEPT ![i] = k]
    /\ UNCHANGED <<org, file, valid, created, told, failures>>

Replay_AnyKey(i, k) ==
    /\ pc[i] = "idle"
    /\ told' = [told EXCEPT ![i] = @ \cup {<<k, ledger[i][k]>>}]
    /\ UNCHANGED <<org, file, valid, call, failures>>

\* A call whose key is in the ledger is answered from it.
Replay(i, k) ==
    /\ pc[i] = "idle"
    /\ whole[i] /\ ledger[i][k] # None
    /\ told' = [told EXCEPT ![i] = @ \cup {<<k, ledger[i][k]>>}]
    /\ UNCHANGED <<org, file, valid, call, failures>>

\* Quote.create, the first time or after a refresh.
QuoteCreate(i) ==
    /\ pc[i] \in {"create", "retry"} /\ valid[i]
    /\ org' = Append(org, key[i])
    /\ created' = [created EXCEPT ![i] = Len(org) + 1]
    /\ Goto(i, "put")
    /\ UNCHANGED <<file, valid, key, told, failures>>

\* The org creates the record, its answer does not arrive, and the call
\* raises without a word in the ledger.
AnswerLost(i) ==
    /\ pc[i] \in {"create", "retry"} /\ valid[i]
    /\ failures < MaxFailures /\ failures' = failures + 1
    /\ org' = Append(org, key[i])
    /\ Goto(i, "idle")
    /\ UNCHANGED <<file, valid, key, created, told>>

RefreshSession_UntilItHolds(i) ==
    /\ pc[i] \in {"create", "retry"} /\ ~valid[i] /\ i \in CanRefresh
    /\ valid' = [valid EXCEPT ![i] = TRUE]
    /\ Goto(i, "retry")
    /\ UNCHANGED <<org, file, key, created, told, failures>>

\* SalesforceExpiredSession: the org has done nothing.  With a CLI at hand
\* the session is refreshed, for one more try.
RefreshSession(i) ==
    /\ pc[i] = "create" /\ ~valid[i] /\ i \in CanRefresh
    /\ valid' = [valid EXCEPT ![i] = TRUE]
    /\ Goto(i, "retry")
    /\ UNCHANGED <<org, file, key, created, told, failures>>

\* Without a CLI, when the refresh fails, or expired a second time, it raises.
SessionExpired(i) ==
    /\ pc[i] \in {"create", "retry"} /\ ~valid[i]
    /\ Goto(i, "idle")
    /\ UNCHANGED <<org, file, valid, key, created, told, failures>>

Put_Unanswerable(i) ==
    /\ pc[i] = "put"
    /\ told' = [told EXCEPT ![i] = @ \cup {<<key[i], created[i]>>}]
    /\ created' = [created EXCEPT ![i] = None]
    /\ Goto(i, "idle")
    /\ UNCHANGED <<org, file, valid, key, failures>>

\* idempotency_log.put, and the call returns the quote.
Put(i) ==
    /\ pc[i] = "put"
    /\ ledger' = [ledger EXCEPT ![i][key[i]] = created[i]]
    /\ told' = [told EXCEPT ![i] = @ \cup {<<key[i], created[i]>>}]
    /\ created' = [created EXCEPT ![i] = None]
    /\ Goto(i, "idle")
    /\ UNCHANGED <<org, whole, losses, valid, key, failures>>

--------------------------------------------------------------------------------
\* A session ends when Salesforce says so; on an instance without a CLI
\* somebody installs a new one.
Expire(i) ==
    /\ valid' = [valid EXCEPT ![i] = FALSE]
    /\ UNCHANGED <<org, file, call, told, failures>>

Renew(i) ==
    /\ pc[i] = "idle"
    /\ valid' = [valid EXCEPT ![i] = TRUE]
    /\ UNCHANGED <<org, file, call, told, failures>>

LoseLedger(i, parses) ==
    /\ ledger' = [ledger EXCEPT ![i] = [k \in Key |-> None]]
    /\ whole' = [whole EXCEPT ![i] = parses]
    /\ losses' = [losses EXCEPT ![i] = @ + 1]

\* The process dies.  On a developer's machine the ledger is still there
\* afterwards, in a container it is not.  write_text truncates before it
\* writes: inside the put the ledger may be left truncated, until somebody
\* removes it.
Crash(i) ==
    /\ failures < MaxFailures /\ failures' = failures + 1
    /\ Goto(i, "idle")
    /\ created' = [created EXCEPT ![i] = None]
    /\ \/ UNCHANGED file
       \/ LoseLedger(i, TRUE)
       \/ pc[i] = "put" /\ LoseLedger(i, FALSE)
    /\ UNCHANGED <<org, valid, key, told>>

Continue(i) ==
    \/ QuoteCreate(i)
    \/ AnswerLost(i)
    \/ RefreshSession(i)
    \/ SessionExpired(i)
    \/ Put(i)

Next ==
    \E i \in Instance :
        \/ \E k \in Key : CreateQuoteDraft(i, k) \/ Replay(i, k)
        \/ Continue(i)
        \/ Expire(i) \/ Renew(i)
        \/ Crash(i)

Spec == Init /\ [][Next]_vars

\* A call that has begun goes on, as long as its process lives.
FairSpec == Spec /\ \A i \in Instance : WF_vars(Continue(i))

--------------------------------------------------------------------------------
(* Properties. *)

\* Every variable has its type.
TypeOK ==
    /\ org \in Seq(Key) /\ Len(org) <= MaxQuotes
    /\ ledger \in [Instance -> [Key -> 0..Len(org)]]
    /\ whole \in [Instance -> BOOLEAN] /\ losses \in [Instance -> 0..failures]
    /\ valid \in [Instance -> BOOLEAN]
    /\ pc \in [Instance -> {"idle", "create", "retry", "put"}]
    /\ key \in [Instance -> Key]
    /\ created \in [Instance -> 0..Len(org)]
    /\ told \in [Instance -> SUBSET (Key \X (1..Len(org)))]
    /\ failures \in 0..MaxFailures

\* The quotes the org holds for a key.
QuotesOf(k) == {q \in 1..Len(org) : org[q] = k}

\* The instances that know, or are about to know, of a quote for a key.
Aware(k) ==
    {i \in Instance : ledger[i][k] # None \/ (pc[i] = "put" /\ key[i] = k)}

\* Expired sessions, refreshes, second tries and repeated calls create no
\* quote twice: every quote of a key beyond one per instance is the work of
\* a lost answer, a crash or a restart.
EveryDuplicateHasACause ==
    \A k \in Key : Cardinality(QuotesOf(k)) <= Cardinality(Aware(k)) + failures

\* The quotes an instance has answered for a key.
Answers(i, k) == {q \in 1..Len(org) : <<k, q>> \in told[i]}

\* A quote that was answered is a record of the org for its key, and can be
\* fetched with get_quote and is the answer to every later call with that
\* key; each time the ledger goes, with a restart or truncated by a crash,
\* at most one quote of a key is forgotten so.
AnsweredQuoteStays ==
    \A i \in Instance : \A k \in Key :
        /\ \A q \in Answers(i, k) : org[q] = k
        /\ Cardinality(Answers(i, k) \ {ledger[i][k]}) <= losses[i]

\* Every call ends, even if its session expires again and again.
EveryCallEnds == \A i \in Instance : pc[i] # "idle" ~> pc[i] = "idle"
================================================================================
