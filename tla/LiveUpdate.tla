------------------------------- MODULE LiveUpdate -------------------------------
(***************************************************************************)
(* mcp-services/salesforce in live mode: get_opportunity and               *)
(* update_opportunity of LiveSalesforceClient, under confirm_opportunity_  *)
(* field of the orchestrator and update_opportunity_field of server.py.    *)
(*                                                                         *)
(* The two fields that may be written live on two records, one on the      *)
(* Opportunity and one on its Account, so a record stands for its field.   *)
(* The version of an opportunity is the pair of their LastModifiedDates,   *)
(* which count seconds: records changed twice in a second keep theirs.     *)
(* The check of the version and each write are calls of their own, and     *)
(* users of the org edit the same records in between.                      *)
(*                                                                         *)
(* The module is one instance, a process with its idempotency ledger; its  *)
(* tools are synchronous, so it has one call under way at a time.  Another *)
(* instance shares the org and nothing else with it, and is one of the     *)
(* users.  Expired sessions and the second try after a refresh are in      *)
(* LiveQuote; here a call of the org is its last try.                      *)
(***************************************************************************)
EXTENDS Naturals, Sequences, FiniteSets

CONSTANTS Opportunity, Account,
          AccountOf,    \* the account of an opportunity
          Region,       \* data residencies
          MaxEdits,     \* bound on the edits of a record
          MaxSeconds,   \* bound on the clock
          MaxFailures   \* bound on failed calls, lost answers, crashes

ASSUME LiveUpdateAssumption ==
    /\ AccountOf \in [Opportunity -> Account]
    /\ Opportunity \cap Account = {}
    /\ {MaxEdits, MaxFailures} \subseteq Nat /\ MaxSeconds \in Nat \ {0}

Record == Opportunity \cup Account

\* The records behind an opportunity, and the values of their fields: a
\* picklist and a text, each blank until confirmed.
RecordsOf(o) == {o, AccountOf[o]}
Value(x) == IF x \in Opportunity THEN {"Yes", "No"} ELSE Region

\* The fields argument: a value for one field or for both.
Changes(o) ==
    {ch \in UNION {[R -> {"Yes", "No"} \cup Region] : R \in (SUBSET RecordsOf(o)) \ {{}}} :
        \A x \in DOMAIN ch : ch[x] \in Value(x)}

VARIABLES org,      \* the records: [value, stamp, edits]; edits is history
          now,      \* the second
          ledger,   \* the keys in the idempotency log
          whole,    \* FALSE while that file is truncated
          basis,    \* what the caller read last: [opp, version, seen]
          pc, key,  \* where the call is, and its key
          answer,   \* what the last answered call was told
          failures

Nothing == [opp |-> "none"]
log == <<ledger, whole>>
call == <<pc, key>>
vars == <<org, now, log, basis, call, answer, failures>>

--------------------------------------------------------------------------------
Init ==
    /\ org = [x \in Record |-> [value |-> "", stamp |-> 1, edits |-> <<>>]]
    /\ now = 1
    /\ ledger = {} /\ whole = TRUE
    /\ basis = Nothing
    /\ pc = "idle" /\ key = Nothing
    /\ answer = Nothing
    /\ failures = 0

\* Faulty variants, named after the definition they could stand for, exist
\* only to show that the properties notice them.
Version_OpportunityOnly(o) == [x \in RecordsOf(o) |-> org[o].stamp]

Version(o) == [x \in RecordsOf(o) |-> org[x].stamp]

\* _coerce_live_record: the picklist as True, False or None.
Coerce(v) == CASE v = "Yes" -> "True" [] v = "No" -> "False" [] OTHER -> ""

Missing_Falsy(o) ==
    {x \in RecordsOf(o) :
        IF x = o THEN Coerce(org[o].value) # "True" ELSE org[x].value = ""}

\* _find_missing_fields: the budget while it is None, a "no" being an answer;
\* the residency while it is blank.
Missing(o) ==
    {x \in RecordsOf(o) :
        IF x = o THEN Coerce(org[o].value) = "" ELSE org[x].value = ""}

\* Salesforce writes a field, by the call with key k or by somebody else.
Edit(x, v, k) ==
    org' = [org EXCEPT ![x] =
           [value |-> v, stamp |-> now, edits |-> Append(@.edits, [stamp |-> now, key |-> k])]]

\* The bound leaves room for the edits of the call under way.
Room(x) ==
    Len(org[x].edits) + (IF pc # "idle" /\ x \in DOMAIN key.change THEN 1 ELSE 0) < MaxEdits

\* How many edits of each record there have been.
EditsOf(o) == [x \in RecordsOf(o) |-> Len(org[x].edits)]

--------------------------------------------------------------------------------
(* The client. *)

\* get_opportunity, one query over both records.
GetOpportunity(o) ==
    /\ pc = "idle"
    /\ basis' = [opp |-> o, version |-> Version(o), seen |-> EditsOf(o)]
    /\ answer' = Nothing
    /\ UNCHANGED <<org, now, log, call, failures>>

\* The call's key: opportunity, fields, values and the version read.
KeyOf(ch) == [opp |-> basis.opp, change |-> ch, version |-> basis.version]

\* The ledger is read first; the call raises where it does not parse.
Begin(k, label) ==
    /\ pc = "idle" /\ pc' = label
    /\ whole
    /\ key' = k
    /\ answer' = Nothing
    /\ UNCHANGED <<org, now, log, basis, failures>>

Return_KeepsKey == pc' = "idle" /\ UNCHANGED key

Return == pc' = "idle" /\ key' = Nothing

\* A key in the ledger is answered from there.
Replay(ch) == KeyOf(ch) \in ledger /\ Begin(KeyOf(ch), "answer")

Update(ch) ==
    /\ KeyOf(ch) \notin ledger
    /\ \A x \in DOMAIN ch : Room(x)
    /\ Begin(KeyOf(ch), "check")

VersionConflict ==
    /\ pc = "check"
    /\ Version(key.opp) # key.version
    /\ Return
    /\ UNCHANGED <<org, now, log, basis, answer, failures>>

CheckVersion ==
    /\ pc = "check"
    /\ Version(key.opp) = key.version
    /\ pc' = "opportunity"
    /\ UNCHANGED <<org, now, log, basis, key, answer, failures>>

Write_OneRecord(x) ==
    IF DOMAIN key.change = {x} THEN Edit(x, key.change[x], key) ELSE UNCHANGED org

\* A record the call has nothing for is left alone.
Write(x) ==
    IF x \in DOMAIN key.change THEN Edit(x, key.change[x], key) ELSE UNCHANGED org

\* Opportunity.update, then Account.update.
UpdateOpportunity ==
    /\ pc = "opportunity" /\ pc' = "account"
    /\ Write(key.opp)
    /\ UNCHANGED <<now, log, basis, key, answer, failures>>

UpdateAccount ==
    /\ pc = "account" /\ pc' = "put"
    /\ Write(AccountOf[key.opp])
    /\ UNCHANGED <<now, log, basis, key, answer, failures>>

\* The new version is read, and the answer kept under its key.
Put ==
    /\ pc = "put" /\ pc' = "answer"
    /\ ledger' = ledger \cup {key}
    /\ UNCHANGED <<org, now, whole, basis, key, answer, failures>>

\* confirm_opportunity_field reads the opportunity again and returns that.
Answer ==
    /\ pc = "answer"
    /\ answer' = [opp |-> key.opp, key |-> key,
                  missing |-> Missing(key.opp), upto |-> EditsOf(key.opp)]
    /\ Return
    /\ UNCHANGED <<org, now, log, basis, failures>>

--------------------------------------------------------------------------------
(* The org, and failures. *)

\* A call of the org raises: a read, a write that was not made, or one that
\* was and whose answer was lost.
OrgCallFails ==
    /\ pc # "idle"
    /\ failures < MaxFailures /\ failures' = failures + 1
    /\ \/ UNCHANGED org
       \/ pc = "opportunity" /\ Write(key.opp)
       \/ pc = "account" /\ Write(AccountOf[key.opp])
    /\ Return
    /\ UNCHANGED <<now, log, basis, answer>>

\* The process dies: a developer's machine keeps its ledger, a container
\* does not, and a crash inside the put, where write_text truncates before
\* it writes, may leave it truncated.  The caller starts over.
Crash ==
    /\ failures < MaxFailures /\ failures' = failures + 1
    /\ \/ UNCHANGED log
       \/ ledger' = {} /\ whole' = TRUE
       \/ pc = "put" /\ ledger' = {} /\ whole' = FALSE
    /\ basis' = Nothing /\ answer' = Nothing
    /\ Return
    /\ UNCHANGED <<org, now>>

\* A user of the org edits a field, or blanks it.
SomebodyEdits(x) ==
    /\ Room(x)
    /\ \E v \in Value(x) \cup {""} : Edit(x, v, Nothing)
    /\ UNCHANGED <<now, log, basis, call, answer, failures>>

Tick ==
    /\ now < MaxSeconds /\ now' = now + 1
    /\ UNCHANGED <<org, log, basis, call, answer, failures>>

Next ==
    \/ \E o \in Opportunity : GetOpportunity(o)
    \/ basis # Nothing /\ \E ch \in Changes(basis.opp) : Replay(ch) \/ Update(ch)
    \/ CheckVersion \/ VersionConflict
    \/ UpdateOpportunity \/ UpdateAccount
    \/ Put \/ Answer
    \/ OrgCallFails \/ Crash
    \/ \E x \in Record : SomebodyEdits(x)
    \/ Tick

Spec == Init /\ [][Next]_vars

--------------------------------------------------------------------------------
(* Properties. *)

IsKey(k) ==
    /\ k.opp \in Opportunity
    /\ k.change \in Changes(k.opp)
    /\ k.version \in [RecordsOf(k.opp) -> 1..MaxSeconds]

\* Every variable has its type.
TypeOK ==
    /\ \A x \in Record :
          /\ org[x].value \in Value(x) \cup {""}
          /\ org[x].stamp \in 1..now
          /\ Len(org[x].edits) \in 0..MaxEdits
    /\ now \in 1..MaxSeconds
    /\ \A k \in ledger : IsKey(k)
    /\ whole \in BOOLEAN
    /\ pc \in {"idle", "check", "opportunity", "account", "put", "answer"}
    /\ IF pc = "idle" THEN key = Nothing ELSE IsKey(key)
    /\ failures \in 0..MaxFailures

\* An edit the caller has not read is noticed by the check, on either record,
\* unless it fell in the very second of the last edit the caller has read.
StaleReadRefused ==
    [][pc = "check" /\ pc' = "opportunity" =>
          \A x \in RecordsOf(basis.opp) :
              \A n \in (basis.seen[x] + 1)..Len(org[x].edits) :
                  org[x].edits[n].stamp = basis.version[x]]_vars

\* Every answer is earned: a call that was answered, the first time or from
\* the ledger, has written all its fields, on both records, under its key.
AnsweredIsWritten ==
    answer # Nothing =>
        \A x \in DOMAIN answer.key.change :
            \E n \in 1..answer.upto[x] : org[x].edits[n].key = answer.key

\* A confirmed field is not asked for again, a "no" no more than a "yes":
\* where the answer still lists one as missing, somebody else's edit came
\* after the confirmed one.
ConfirmedNotMissing ==
    answer # Nothing =>
        \A x \in DOMAIN answer.key.change \cap answer.missing :
            org[x].edits[answer.upto[x]].key # answer.key
================================================================================
