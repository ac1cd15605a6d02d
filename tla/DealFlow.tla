-------------------------------- MODULE DealFlow --------------------------------
(***************************************************************************)
(* A deal from proposal to email: the orchestrator and its three           *)
(* specialists over the stores they share.                                 *)
(*                                                                         *)
(* Of the stores only what they promise is used: approvals are             *)
(* ApprovalDecision, the send gate is SendAuthorization (their detailed    *)
(* modules implement these), quotes are one per key while the ledger       *)
(* lives.  The agents' program is their instructions, which a language     *)
(* model is taken to follow: which terms it proposes is its choice, the    *)
(* order of steps is not.  A delegation is a conversation of its own       *)
(* (AgentTool), so a specialist knows only what it is given and what the   *)
(* stores hold; and it may do its work and fail before it has answered.    *)
(* One opportunity, one customer mailbox.                                  *)
(***************************************************************************)
EXTENDS Naturals, Sequences, FiniteSets, SequencesExt

CONSTANTS Seller,         \* each with a conversation
          Terms,          \* bundle, quantity and discount
          NeedsApproval,  \* the terms with requires_discount_approval
          ApprovalId, TokenId,
          NoTerms,
          MaxQuotes,      \* bound on quotes in the org
          MaxFiles,       \* bound on proposals attached
          MaxFailures     \* bound on failed delegations and restarts

ASSUME DealFlowAssumption ==
    /\ NeedsApproval \subseteq Terms
    /\ NoTerms \notin Terms
    /\ MaxQuotes \in Nat /\ MaxFiles \in Nat /\ MaxFailures \in Nat

VARIABLES conv,                      \* the conversations, in memory
          quotes, files,             \* Salesforce: terms of each quote, quotes attached
          ledger,                    \* the quote each key is known for; 0 if none
          status, seen, about,       \* approvals, and the quote each is about
          state, grants, outbox, of, \* the gate, and the quote each token is of
          failures

org == <<quotes, files>>
approval == <<status, seen, about>>
sending == <<state, grants, outbox, of>>
vars == <<conv, org, ledger, approval, sending, failures>>

Quote == 1..MaxQuotes
Step == {"opened", "proposed", "created", "waiting", "cleared", "attached", "sending"}
Conversation == [step : Step, offer : Terms \cup {NoTerms}, quote : 0..MaxQuotes,
                 requests : SUBSET ApprovalId]

Approvals == INSTANCE ApprovalDecision
                 WITH Decision <- {"APPROVED", "REJECTED"}, Reader <- Seller

Gate == INSTANCE SendAuthorization
            WITH Grant <- [token_id : TokenId, quote : Quote, mailbox : {"customer"}],
                 Email <- [token_id : TokenId, quote : Quote, to : {"customer"}],
                 Mailbox <- [to \in {"customer"} |-> to]

--------------------------------------------------------------------------------
Opened == [step |-> "opened", offer |-> NoTerms, quote |-> 0, requests |-> {}]

Init ==
    /\ conv = [s \in Seller |-> Opened]
    /\ quotes = <<>> /\ files = <<>>
    /\ ledger = [t \in Terms |-> 0]
    /\ Approvals!Init /\ about = [a \in ApprovalId |-> 0]
    /\ Gate!Init /\ of = [k \in TokenId |-> 0]
    /\ failures = 0

Goto(s, step) == conv' = [conv EXCEPT ![s].step = step]

DelegationFails == failures < MaxFailures /\ failures' = failures + 1

--------------------------------------------------------------------------------
(* Steps 4 and 5 of the orchestrator: propose, confirm, create.  Faulty     *)
(* variants, named after the definition they could stand for, exist only to *)
(* show that the properties notice them.                                    *)

\* A fresh request; what the conversation held before is not about it.
Propose(s, t) ==
    /\ conv[s].step # "sending"
    /\ conv' = [conv EXCEPT ![s] = [Opened EXCEPT !.step = "proposed", !.offer = t]]
    /\ UNCHANGED <<org, ledger, approval, sending, failures>>

\* create_quote_draft replays the quote of its key or adds one.
QuoteFor(t, q) ==
    IF ledger[t] # 0
    THEN q = ledger[t] /\ UNCHANGED <<quotes, ledger>>
    ELSE /\ q = Len(quotes) + 1 /\ q \in Quote
         /\ quotes' = Append(quotes, t)
         /\ ledger' = [ledger EXCEPT ![t] = q]

\* The seller agrees to the terms proposed, and the quote is created.
Confirm(s) ==
    /\ conv[s].step = "proposed"
    /\ \E q \in Quote :
        /\ QuoteFor(conv[s].offer, q)
        /\ conv' = [conv EXCEPT ![s] = [Opened EXCEPT !.step = "created", !.quote = q]]
    /\ UNCHANGED <<files, approval, sending, failures>>

\* The quote is created and the answer lost.
ConfirmFails(s) ==
    /\ conv[s].step = "proposed"
    /\ DelegationFails
    /\ \E q \in Quote : QuoteFor(conv[s].offer, q)
    /\ UNCHANGED <<conv, files, approval, sending>>

--------------------------------------------------------------------------------
(* Step 6: the risk agent. *)

Requires(s) == quotes[conv[s].quote] \in NeedsApproval

NoApprovalNeeded(s) ==
    /\ conv[s].step = "created" /\ ~Requires(s)
    /\ Goto(s, "cleared")
    /\ UNCHANGED <<org, ledger, approval, sending, failures>>

RequestApproval(s, a) ==
    /\ Approvals!Request(a)
    /\ about' = [about EXCEPT ![a] = conv[s].quote]

\* A conversation whose quote is not cleared may turn to the risk agent, the
\* first time or again: nobody hands a new delegation an earlier answer.
MayAssess(s) == conv[s].step \in {"created", "waiting"} /\ Requires(s)

AssessRisk_ForgetsId(s, a) ==
    /\ MayAssess(s)
    /\ RequestApproval(s, a)
    /\ Goto(s, "waiting")
    /\ UNCHANGED <<org, ledger, sending, failures>>

\* Told of requires_discount_approval, the agent calls
\* request_discount_approval; that has no key and always adds a request.
AssessRisk(s, a) ==
    /\ MayAssess(s)
    /\ RequestApproval(s, a)
    /\ conv' = [conv EXCEPT ![s].step = "waiting", ![s].requests = @ \cup {a}]
    /\ UNCHANGED <<org, ledger, sending, failures>>

\* The request is stored, and the orchestrator does not learn of it.
AssessRiskFails(s, a) ==
    /\ MayAssess(s)
    /\ DelegationFails
    /\ RequestApproval(s, a)
    /\ UNCHANGED <<conv, org, ledger, sending>>

Decide(a, d) ==
    /\ Approvals!Decide(a, d)
    /\ UNCHANGED <<conv, org, ledger, about, sending, failures>>

AfterDecision_Resolved(d) == "cleared"

\* A rejected request leaves the seller other terms, or another request.
AfterDecision(d) == IF d = "APPROVED" THEN "cleared" ELSE "waiting"

\* get_approval_status of a request the conversation was told of, once it
\* says more than PENDING.  No instruction asks for it; it is the one tool
\* that tells of a decision.
Poll(s, a) ==
    /\ conv[s].step = "waiting" /\ a \in conv[s].requests
    /\ Approvals!Read(s, a)
    /\ Goto(s, AfterDecision(status[a]))
    /\ UNCHANGED <<org, ledger, about, sending, failures>>

--------------------------------------------------------------------------------
(* Step 7: the proposal agent. *)

\* "if no approval is needed", or it was given.  A later delegation knows
\* nothing of the first and may attach once more.
MayPropose(s) == conv[s].step \in {"cleared", "attached"}

Attach(s) ==
    /\ MayPropose(s)
    /\ Len(files) < MaxFiles
    /\ files' = Append(files, conv[s].quote)

AttachProposal(s) ==
    /\ Attach(s)
    /\ Goto(s, "attached")
    /\ UNCHANGED <<quotes, ledger, approval, sending, failures>>

AttachProposalFails(s) ==
    /\ Attach(s)
    /\ DelegationFails
    /\ UNCHANGED <<conv, quotes, ledger, approval, sending>>

OpenTokens(q) == {k \in TokenId : of[k] = q /\ state[k] \in {"pending", "authorized"}}

MaySend_Cleared(s) == conv[s].step \in {"cleared", "attached"}

MaySend(s) == conv[s].step = "attached"

\* request_send_token returns an open token of the quote if there is one:
\* the agent of an earlier delegation, which knew its id, is gone.
RequestSendToken(s, k) ==
    /\ MaySend(s)
    /\ OpenTokens(conv[s].quote) = {}
    /\ Gate!Mint(k)
    /\ of' = [of EXCEPT ![k] = conv[s].quote]
    /\ UNCHANGED <<conv, org, ledger, approval, failures>>

\* A human approves the token as pending, and marks it.
ApproveSend(k) ==
    /\ Gate!Approve([token_id |-> k, quote |-> of[k], mailbox |-> "customer"])
    /\ UNCHANGED <<conv, org, ledger, approval, of, failures>>

AuthorizeSend(k) ==
    /\ Gate!Authorize(k)
    /\ UNCHANGED <<conv, org, ledger, approval, of, failures>>

\* get_send_token_status says AUTHORIZED: send_email marks the token used,
SendEmail(s, k) ==
    /\ MaySend(s)
    /\ k \in OpenTokens(conv[s].quote)
    /\ Gate!Spend(k)
    /\ Goto(s, "sending")
    /\ UNCHANGED <<org, ledger, approval, of, failures>>

\* ... and the email goes out.
EmailSent(s, k) ==
    /\ conv[s].step = "sending" /\ of[k] = conv[s].quote
    /\ Gate!Deliver([token_id |-> k, quote |-> of[k], to |-> "customer"])
    /\ Goto(s, "attached")
    /\ UNCHANGED <<org, ledger, approval, of, failures>>

--------------------------------------------------------------------------------
\* The container restarts: conversations and local files are gone, what is
\* in the org or in a mailbox stays.
Restart ==
    /\ DelegationFails
    /\ conv' = [s \in Seller |-> Opened]
    /\ ledger' = [t \in Terms |-> 0]
    /\ Approvals!Lose /\ Gate!Lose
    /\ UNCHANGED <<org, about, of>>

Next ==
    \/ \E s \in Seller, t \in Terms : Propose(s, t)
    \/ \E s \in Seller : Confirm(s) \/ ConfirmFails(s)
    \/ \E s \in Seller : NoApprovalNeeded(s)
    \/ \E s \in Seller, a \in ApprovalId :
            AssessRisk(s, a) \/ AssessRiskFails(s, a) \/ Poll(s, a)
    \/ \E a \in ApprovalId, d \in {"APPROVED", "REJECTED"} : Decide(a, d)
    \/ \E s \in Seller : AttachProposal(s) \/ AttachProposalFails(s)
    \/ \E s \in Seller, k \in TokenId :
            RequestSendToken(s, k) \/ SendEmail(s, k) \/ EmailSent(s, k)
    \/ \E k \in TokenId : ApproveSend(k) \/ AuthorizeSend(k)
    \/ Restart

Spec == Init /\ [][Next]_vars

--------------------------------------------------------------------------------
(* Properties. *)

\* Every variable has its type; a conversation has a quote from "created" on
\* and a request while it waits.
TypeOK ==
    /\ conv \in [Seller -> Conversation]
    /\ \A s \in Seller :
        /\ conv[s].step = "proposed" => conv[s].offer \in Terms
        /\ conv[s].step \notin {"opened", "proposed"} => conv[s].quote \in DOMAIN quotes
        /\ conv[s].step = "waiting" => conv[s].requests # {}
    /\ quotes \in Seq(Terms) /\ files \in Seq(Quote)
    /\ ledger \in [Terms -> 0..MaxQuotes]
    /\ about \in [ApprovalId -> 0..MaxQuotes] /\ of \in [TokenId -> 0..MaxQuotes]
    /\ Approvals!TypeOK /\ Gate!TypeOK /\ failures \in 0..MaxFailures

\* A quote that needs approval is attached or emailed only if some
\* conversation was told that a request about this very quote was APPROVED:
\* not a request about other terms the conversation held before, not one
\* rejected, and not one lost with its store.  Where several requests about
\* a quote were decided differently, one that is APPROVED will do.
ApprovedBeforeOut ==
    \A q \in DOMAIN quotes :
        /\ quotes[q] \in NeedsApproval
        /\ Contains(files, q) \/ \E e \in ToSet(outbox) : e.quote = q
        => \E s \in Seller, a \in ApprovalId :
               about[a] = q /\ <<a, "APPROVED">> \in seen[s]

\* Whatever conversations share a quote and whichever delegation forgot its
\* token: an emailed quote is attached, and each email of it had an approval
\* of its own by a human.
EmailsHaveFileAndGrant ==
    \A q \in Quote :
        LET emails == {i \in DOMAIN outbox : outbox[i].quote = q}
        IN emails # {} =>
               /\ Contains(files, q)
               /\ Cardinality(emails) <= Cardinality({g \in grants : g.quote = q})
================================================================================
