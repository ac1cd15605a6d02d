----------------------------- MODULE DealFlowProofs -----------------------------
(***************************************************************************)
(* Proofs about DealFlow, for any number of sellers, terms, approvals,     *)
(* tokens, failures and restarts.                                          *)
(***************************************************************************)
EXTENDS DealFlow, FiniteSetTheorems, TLAPS

\* A quote may go out: it needs no approval, or a conversation was told that
\* a request about it is APPROVED.
Cleared(q) ==
    quotes[q] \in NeedsApproval =>
        \E s \in Seller, a \in ApprovalId : about[a] = q /\ <<a, "APPROVED">> \in seen[s]

\* TypeOK, and what it rests on: the org stays within its bound, the ledger
\* names quotes of the org, a minted token is of a quote.
TypesInv ==
    /\ TypeOK
    /\ Len(quotes) <= MaxQuotes
    /\ \A t \in Terms : ledger[t] # 0 => ledger[t] \in DOMAIN quotes
    /\ \A k \in TokenId : state[k] # "none" => of[k] \in Quote

\* The requests a conversation was told of were filed, about its own quote.
OwnRequests ==
    \A s \in Seller : \A a \in conv[s].requests :
        about[a] = conv[s].quote /\ status[a] # "none"

\* Past the risk step its quote is cleared.
PastIsCleared ==
    \A s \in Seller :
        conv[s].step \in {"cleared", "attached", "sending"} => Cleared(conv[s].quote)

\* What was seen of a request was filed, so nobody files it again.
SeenWasFiled == \A s \in Seller : \A e \in seen[s] : status[e[1]] # "none"

PathInv == OwnRequests /\ PastIsCleared /\ SeenWasFiled

\* What is attached or emailed is a cleared quote of the org.
OutInv ==
    /\ \A i \in DOMAIN files : files[i] \in DOMAIN quotes /\ Cleared(files[i])
    /\ \A i \in DOMAIN outbox :
          outbox[i].quote \in DOMAIN quotes /\ Cleared(outbox[i].quote)

Inv == TypesInv /\ PathInv /\ OutInv

--------------------------------------------------------------------------------
\* Appending keeps a sequence's elements and adds one at the end.
LEMMA AppendSeq ==
    ASSUME NEW S, NEW s \in Seq(S), NEW e \in S
    PROVE  /\ Append(s, e) \in Seq(S)
           /\ Len(Append(s, e)) = Len(s) + 1 /\ Len(s) \in Nat
           /\ DOMAIN Append(s, e) = 1..(Len(s) + 1) /\ DOMAIN s = 1..Len(s)
           /\ Append(s, e)[Len(s) + 1] = e
           /\ \A i \in 1..Len(s) : Append(s, e)[i] = s[i]
  OBVIOUS

\* A place of a sequence over a set holds one of the set.
LEMMA ElementOf == ASSUME NEW S, NEW s \in Seq(S), NEW i \in DOMAIN s PROVE s[i] \in S
  OBVIOUS

\* The empty sequence is a sequence over any set.
LEMMA EmptySeq == \A S : <<>> \in Seq(S) /\ Len(<<>>) = 0 /\ DOMAIN <<>> = {}
  OBVIOUS

\* A deal starts with nothing decided, attached or sent.
LEMMA InitInv == Init => Inv
<1> SUFFICES ASSUME Init PROVE Inv
  OBVIOUS
<1>1. TypesInv
  BY EmptySeq, DealFlowAssumption
     DEF Init, TypesInv, TypeOK, Opened, Conversation, Step, Quote,
         Approvals!Init, Approvals!TypeOK, Approvals!Life,
         Gate!Init, Gate!TypeOK, Gate!Life
<1>2. PathInv
  BY DEF Init, PathInv, OwnRequests, PastIsCleared, SeenWasFiled, Opened,
     Approvals!Init
<1>3. OutInv
  BY EmptySeq DEF Init, OutInv, Gate!Init
<1> QED
  BY <1>1, <1>2, <1>3 DEF Inv

--------------------------------------------------------------------------------
\* create_quote_draft leaves the org with the quote it answers.
LEMMA QuoteIsThere ==
    ASSUME TypesInv, NEW t \in Terms, NEW q \in Quote, QuoteFor(t, q)
    PROVE  /\ quotes' \in Seq(Terms) /\ Len(quotes') \in Nat /\ Len(quotes') <= MaxQuotes
           /\ DOMAIN quotes \subseteq DOMAIN quotes' /\ q \in DOMAIN quotes'
           /\ \A i \in DOMAIN quotes : quotes'[i] = quotes[i]
           /\ ledger' \in [Terms -> 0..MaxQuotes]
           /\ \A u \in Terms : ledger'[u] # 0 => ledger'[u] \in DOMAIN quotes'
<1> USE DealFlowAssumption DEF TypesInv, TypeOK
<1>1. CASE ledger[t] # 0
  BY <1>1 DEF QuoteFor
<1>2. CASE ledger[t] = 0
  <2>1. /\ q = Len(quotes) + 1 /\ quotes' = Append(quotes, t)
        /\ ledger' = [ledger EXCEPT ![t] = q]
    BY <1>2 DEF QuoteFor
  <2>2. /\ quotes' \in Seq(Terms) /\ Len(quotes') = Len(quotes) + 1
        /\ DOMAIN quotes = 1..Len(quotes) /\ DOMAIN quotes' = 1..(Len(quotes) + 1)
        /\ Len(quotes) \in Nat
        /\ \A i \in 1..Len(quotes) : quotes'[i] = quotes[i]
    BY <2>1, AppendSeq
  <2> QED
    BY <2>1, <2>2 DEF Quote
<1> QED
  BY <1>1, <1>2

\* The types of the conversations, of the org and of the stores.
ConvTypes ==
    /\ conv \in [Seller -> Conversation]
    /\ \A s \in Seller :
        /\ conv[s].step = "proposed" => conv[s].offer \in Terms
        /\ conv[s].step \notin {"opened", "proposed"} => conv[s].quote \in DOMAIN quotes
        /\ conv[s].step = "waiting" => conv[s].requests # {}

OrgTypes ==
    /\ quotes \in Seq(Terms) /\ files \in Seq(Quote)
    /\ ledger \in [Terms -> 0..MaxQuotes]
    /\ Len(quotes) <= MaxQuotes
    /\ \A t \in Terms : ledger[t] # 0 => ledger[t] \in DOMAIN quotes
    /\ failures \in 0..MaxFailures

ApprovalTypes ==
    about \in [ApprovalId -> 0..MaxQuotes] /\ Approvals!TypeOK

GateTypes ==
    /\ of \in [TokenId -> 0..MaxQuotes] /\ Gate!TypeOK
    /\ \A k \in TokenId : state[k] # "none" => of[k] \in Quote

\* The parts are the whole.
LEMMA TypesParts == TypesInv <=> ConvTypes /\ OrgTypes /\ ApprovalTypes /\ GateTypes
  BY DEF TypesInv, TypeOK, ConvTypes, OrgTypes, ApprovalTypes, GateTypes

\* The quote of a conversation past the confirmation is one of the org's.
LEMMA ConvQuote ==
    ASSUME ConvTypes, OrgTypes, NEW s \in Seller, conv[s].step \notin {"opened", "proposed"}
    PROVE  conv[s].quote \in Quote /\ conv[s].quote \in DOMAIN quotes
  BY DealFlowAssumption DEF ConvTypes, OrgTypes, Quote

\* A new conversation is one.
LEMMA OpenedTypes == Opened \in Conversation /\ Opened.step = "opened"
  BY DealFlowAssumption DEF Opened, Conversation, Step

\* A conversation moved on without a new quote or request keeps its types.
LEMMA GotoTypes ==
    ASSUME ConvTypes, NEW s \in Seller, NEW step \in Step \ {"proposed"},
           step = "waiting" => conv[s].step = "waiting",
           conv[s].step \notin {"opened", "proposed"}, Goto(s, step), UNCHANGED quotes
    PROVE  ConvTypes'
  BY DEF ConvTypes, Goto, Conversation

--------------------------------------------------------------------------------
\* Each step keeps the types.
LEMMA TypesStep == TypesInv /\ [Next]_vars => TypesInv'
<1> SUFFICES ASSUME TypesInv, [Next]_vars
             PROVE  ConvTypes' /\ OrgTypes' /\ ApprovalTypes' /\ GateTypes'
  BY TypesParts DEF TypesInv, TypeOK, ConvTypes, OrgTypes, ApprovalTypes, GateTypes
<1> ConvTypes /\ OrgTypes /\ ApprovalTypes /\ GateTypes
  BY TypesParts
<1>1. ASSUME NEW s \in Seller, NEW t \in Terms, Propose(s, t)
      PROVE  ConvTypes' /\ OrgTypes' /\ ApprovalTypes' /\ GateTypes'
  <2>1. ConvTypes'
    <3> DEFINE c == [Opened EXCEPT !.step = "proposed", !.offer = t]
    <3>1. c \in Conversation /\ c.step = "proposed" /\ c.offer \in Terms
      BY OpenedTypes DEF Conversation, Step
    <3>2. conv' = [conv EXCEPT ![s] = c] /\ quotes' = quotes
      BY <1>1 DEF Propose, org
    <3> QED
      BY <3>1, <3>2 DEF ConvTypes
  <2>2. OrgTypes'
    BY <1>1 DEF Propose, OrgTypes, org
  <2>3. ApprovalTypes'
    BY <1>1 DEF Propose, ApprovalTypes, approval, Approvals!TypeOK
  <2>4. GateTypes'
    BY <1>1 DEF Propose, GateTypes, sending, Gate!TypeOK
  <2> QED
    BY <2>1, <2>2, <2>3, <2>4
<1>2. ASSUME NEW s \in Seller, Confirm(s)
      PROVE  ConvTypes' /\ OrgTypes' /\ ApprovalTypes' /\ GateTypes'
  <2> PICK q \in Quote : QuoteFor(conv[s].offer, q) /\ conv' = [conv EXCEPT ![s] =
            [Opened EXCEPT !.step = "created", !.quote = q]]
    BY <1>2 DEF Confirm
  <2>1. conv[s].offer \in Terms
    BY <1>2 DEF Confirm, ConvTypes
  <2>2. /\ quotes' \in Seq(Terms) /\ Len(quotes') <= MaxQuotes
        /\ DOMAIN quotes \subseteq DOMAIN quotes' /\ q \in DOMAIN quotes'
        /\ ledger' \in [Terms -> 0..MaxQuotes]
        /\ \A u \in Terms : ledger'[u] # 0 => ledger'[u] \in DOMAIN quotes'
    BY <2>1, QuoteIsThere
  <2> DEFINE c == [Opened EXCEPT !.step = "created", !.quote = q]
  <2>3. c \in Conversation /\ c.step = "created" /\ c.quote = q
    <3>1. q \in 0..MaxQuotes
      BY DealFlowAssumption DEF Quote
    <3> QED
      BY <3>1, OpenedTypes DEF Conversation, Step
  <2> HIDE DEF c
  <2>4. ConvTypes'
    BY <2>2, <2>3 DEF ConvTypes, c
  <2>5. OrgTypes'
    BY <1>2, <2>2 DEF Confirm, OrgTypes
  <2>6. ApprovalTypes'
    BY <1>2 DEF Confirm, ApprovalTypes, approval, Approvals!TypeOK
  <2>7. GateTypes'
    BY <1>2 DEF Confirm, GateTypes, sending, Gate!TypeOK
  <2> QED
    BY <2>4, <2>5, <2>6, <2>7
<1>3. ASSUME NEW s \in Seller, ConfirmFails(s)
      PROVE  ConvTypes' /\ OrgTypes' /\ ApprovalTypes' /\ GateTypes'
  <2> PICK q \in Quote : QuoteFor(conv[s].offer, q)
    BY <1>3 DEF ConfirmFails
  <2>1. conv[s].offer \in Terms
    BY <1>3 DEF ConfirmFails, ConvTypes
  <2>2. /\ quotes' \in Seq(Terms) /\ Len(quotes') <= MaxQuotes
        /\ DOMAIN quotes \subseteq DOMAIN quotes' /\ q \in DOMAIN quotes'
        /\ ledger' \in [Terms -> 0..MaxQuotes]
        /\ \A u \in Terms : ledger'[u] # 0 => ledger'[u] \in DOMAIN quotes'
    BY <2>1, QuoteIsThere
  <2>3. ConvTypes'
    BY <1>3, <2>2 DEF ConfirmFails, ConvTypes
  <2>4. OrgTypes'
    BY <1>3, <2>2, DealFlowAssumption DEF ConfirmFails, DelegationFails, OrgTypes
  <2>5. ApprovalTypes'
    BY <1>3 DEF ConfirmFails, ApprovalTypes, approval, Approvals!TypeOK
  <2>6. GateTypes'
    BY <1>3 DEF ConfirmFails, GateTypes, sending, Gate!TypeOK
  <2> QED
    BY <2>3, <2>4, <2>5, <2>6
<1>4. ASSUME NEW s \in Seller, NoApprovalNeeded(s)
      PROVE  ConvTypes' /\ OrgTypes' /\ ApprovalTypes' /\ GateTypes'
  <2>1. ConvTypes'
    BY <1>4, GotoTypes DEF NoApprovalNeeded, Step, org
  <2>2. OrgTypes'
    BY <1>4 DEF NoApprovalNeeded, OrgTypes, org
  <2>3. ApprovalTypes'
    BY <1>4 DEF NoApprovalNeeded, ApprovalTypes, approval, Approvals!TypeOK
  <2>4. GateTypes'
    BY <1>4 DEF NoApprovalNeeded, GateTypes, sending, Gate!TypeOK
  <2> QED
    BY <2>1, <2>2, <2>3, <2>4
<1>5. ASSUME NEW s \in Seller, NEW a \in ApprovalId, Poll(s, a)
      PROVE  ConvTypes' /\ OrgTypes' /\ ApprovalTypes' /\ GateTypes'
  <2>1. ConvTypes'
    BY <1>5, GotoTypes DEF Poll, Step, AfterDecision, org
  <2>2. OrgTypes'
    BY <1>5 DEF Poll, OrgTypes, org
  <2>3. ApprovalTypes'
    BY <1>5 DEF Poll, Approvals!Read, ApprovalTypes, Approvals!TypeOK, ConvTypes
  <2>4. GateTypes'
    BY <1>5 DEF Poll, GateTypes, sending, Gate!TypeOK
  <2> QED
    BY <2>1, <2>2, <2>3, <2>4
<1>6. ASSUME NEW s \in Seller, NEW a \in ApprovalId, AssessRisk(s, a)
      PROVE  ConvTypes' /\ OrgTypes' /\ ApprovalTypes' /\ GateTypes'
  <2>1. ConvTypes'
    BY <1>6 DEF AssessRisk, MayAssess, RequestApproval, ConvTypes, Conversation, Step, org
  <2>2. OrgTypes'
    BY <1>6 DEF AssessRisk, MayAssess, OrgTypes, org
  <2>3. ApprovalTypes'
    BY <1>6, ConvQuote DEF AssessRisk, MayAssess, RequestApproval, Approvals!Request,
       Approvals!Become, ApprovalTypes, Approvals!TypeOK, Approvals!Life, Quote
  <2>4. GateTypes'
    BY <1>6 DEF AssessRisk, MayAssess, GateTypes, sending, Gate!TypeOK
  <2> QED
    BY <2>1, <2>2, <2>3, <2>4
<1>7. ASSUME NEW s \in Seller, NEW a \in ApprovalId, AssessRiskFails(s, a)
      PROVE  ConvTypes' /\ OrgTypes' /\ ApprovalTypes' /\ GateTypes'
  <2>1. ConvTypes'
    BY <1>7 DEF AssessRiskFails, MayAssess, ConvTypes, org
  <2>2. OrgTypes'
    BY <1>7, DealFlowAssumption DEF AssessRiskFails, MayAssess, DelegationFails, OrgTypes, org
  <2>3. ApprovalTypes'
    BY <1>7, ConvQuote DEF AssessRiskFails, MayAssess, RequestApproval, Approvals!Request,
       Approvals!Become, ApprovalTypes, Approvals!TypeOK, Approvals!Life, Quote
  <2>4. GateTypes'
    BY <1>7 DEF AssessRiskFails, MayAssess, GateTypes, sending, Gate!TypeOK
  <2> QED
    BY <2>1, <2>2, <2>3, <2>4
<1>8. ASSUME NEW a \in ApprovalId, NEW d \in {"APPROVED", "REJECTED"}, Decide(a, d)
      PROVE  ConvTypes' /\ OrgTypes' /\ ApprovalTypes' /\ GateTypes'
  <2>1. ConvTypes'
    BY <1>8 DEF Decide, ConvTypes, org
  <2>2. OrgTypes'
    BY <1>8 DEF Decide, OrgTypes, org
  <2>3. ApprovalTypes'
    BY <1>8 DEF Decide, Approvals!Decide, Approvals!Become, ApprovalTypes,
       Approvals!TypeOK, Approvals!Life
  <2>4. GateTypes'
    BY <1>8 DEF Decide, GateTypes, sending, Gate!TypeOK
  <2> QED
    BY <2>1, <2>2, <2>3, <2>4
<1>9. ASSUME NEW s \in Seller, AttachProposal(s)
      PROVE  ConvTypes' /\ OrgTypes' /\ ApprovalTypes' /\ GateTypes'
  <2>1. ConvTypes'
    BY <1>9, GotoTypes DEF AttachProposal, Attach, MayPropose, Step
  <2>2. OrgTypes'
    <3>1. files' \in Seq(Quote)
      BY <1>9, ConvQuote, AppendSeq DEF AttachProposal, Attach, MayPropose, OrgTypes
    <3> QED
      BY <1>9, <3>1 DEF AttachProposal, OrgTypes
  <2>3. ApprovalTypes'
    BY <1>9 DEF AttachProposal, ApprovalTypes, approval, Approvals!TypeOK
  <2>4. GateTypes'
    BY <1>9 DEF AttachProposal, GateTypes, sending, Gate!TypeOK
  <2> QED
    BY <2>1, <2>2, <2>3, <2>4
<1>10. ASSUME NEW s \in Seller, AttachProposalFails(s)
      PROVE  ConvTypes' /\ OrgTypes' /\ ApprovalTypes' /\ GateTypes'
  <2>1. ConvTypes'
    BY <1>10 DEF AttachProposalFails, ConvTypes
  <2>2. OrgTypes'
    <3>1. files' \in Seq(Quote)
      BY <1>10, ConvQuote, AppendSeq DEF AttachProposalFails, Attach, MayPropose, OrgTypes
    <3>2. failures' \in 0..MaxFailures
      BY <1>10, DealFlowAssumption DEF AttachProposalFails, DelegationFails, OrgTypes
    <3> QED
      BY <1>10, <3>1, <3>2 DEF AttachProposalFails, OrgTypes
  <2>3. ApprovalTypes'
    BY <1>10 DEF AttachProposalFails, ApprovalTypes, approval, Approvals!TypeOK
  <2>4. GateTypes'
    BY <1>10 DEF AttachProposalFails, GateTypes, sending, Gate!TypeOK
  <2> QED
    BY <2>1, <2>2, <2>3, <2>4
<1>11. ASSUME NEW s \in Seller, NEW k \in TokenId, RequestSendToken(s, k)
      PROVE  ConvTypes' /\ OrgTypes' /\ ApprovalTypes' /\ GateTypes'
  <2>1. ConvTypes'
    BY <1>11 DEF RequestSendToken, ConvTypes, org
  <2>2. OrgTypes'
    BY <1>11 DEF RequestSendToken, OrgTypes, org
  <2>3. ApprovalTypes'
    BY <1>11 DEF RequestSendToken, ApprovalTypes, approval, Approvals!TypeOK
  <2>4. GateTypes'
    BY <1>11, ConvQuote DEF RequestSendToken, MaySend, Gate!Mint, Gate!Become,
       GateTypes, Gate!TypeOK, Gate!Life, Quote
  <2> QED
    BY <2>1, <2>2, <2>3, <2>4
<1>12. ASSUME NEW s \in Seller, NEW k \in TokenId, SendEmail(s, k)
      PROVE  ConvTypes' /\ OrgTypes' /\ ApprovalTypes' /\ GateTypes'
  <2>1. ConvTypes'
    BY <1>12, GotoTypes DEF SendEmail, MaySend, Step, org
  <2>2. OrgTypes'
    BY <1>12 DEF SendEmail, OrgTypes, org
  <2>3. ApprovalTypes'
    BY <1>12 DEF SendEmail, ApprovalTypes, approval, Approvals!TypeOK
  <2>4. GateTypes'
    BY <1>12 DEF SendEmail, Gate!Spend, Gate!Become, GateTypes, Gate!TypeOK, Gate!Life
  <2> QED
    BY <2>1, <2>2, <2>3, <2>4
<1>13. ASSUME NEW s \in Seller, NEW k \in TokenId, EmailSent(s, k)
      PROVE  ConvTypes' /\ OrgTypes' /\ ApprovalTypes' /\ GateTypes'
  <2>1. ConvTypes'
    BY <1>13, GotoTypes DEF EmailSent, Step, org
  <2>2. OrgTypes'
    BY <1>13 DEF EmailSent, OrgTypes, org
  <2>3. ApprovalTypes'
    BY <1>13 DEF EmailSent, ApprovalTypes, approval, Approvals!TypeOK
  <2>4. GateTypes'
    <3> DEFINE e == [token_id |-> k, quote |-> of[k], to |-> "customer"]
    <3>1. e \in [token_id : TokenId, quote : Quote, to : {"customer"}]
      BY <1>13, ConvQuote DEF EmailSent
    <3>2. /\ outbox' = Append(outbox, e) /\ grants' = grants /\ of' = of
          /\ state[k] = "spent" /\ state' = [state EXCEPT ![k] = "sent"]
      BY <1>13 DEF EmailSent, Gate!Deliver, Gate!Become
    <3> QED
      BY <3>1, <3>2, AppendSeq DEF GateTypes, Gate!TypeOK, Gate!Life
  <2> QED
    BY <2>1, <2>2, <2>3, <2>4
<1>14. ASSUME NEW k \in TokenId, ApproveSend(k)
      PROVE  ConvTypes' /\ OrgTypes' /\ ApprovalTypes' /\ GateTypes'
  <2>1. ConvTypes'
    BY <1>14 DEF ApproveSend, ConvTypes, org
  <2>2. OrgTypes'
    BY <1>14 DEF ApproveSend, OrgTypes, org
  <2>3. ApprovalTypes'
    BY <1>14 DEF ApproveSend, ApprovalTypes, approval, Approvals!TypeOK
  <2>4. GateTypes'
    BY <1>14 DEF ApproveSend, Gate!Approve, GateTypes, Gate!TypeOK
  <2> QED
    BY <2>1, <2>2, <2>3, <2>4
<1>15. ASSUME NEW k \in TokenId, AuthorizeSend(k)
      PROVE  ConvTypes' /\ OrgTypes' /\ ApprovalTypes' /\ GateTypes'
  <2>1. ConvTypes'
    BY <1>15 DEF AuthorizeSend, ConvTypes, org
  <2>2. OrgTypes'
    BY <1>15 DEF AuthorizeSend, OrgTypes, org
  <2>3. ApprovalTypes'
    BY <1>15 DEF AuthorizeSend, ApprovalTypes, approval, Approvals!TypeOK
  <2>4. GateTypes'
    BY <1>15 DEF AuthorizeSend, Gate!Authorize, Gate!Become, GateTypes, Gate!TypeOK,
       Gate!Life
  <2> QED
    BY <2>1, <2>2, <2>3, <2>4
<1>16. CASE Restart
  <2>1. ConvTypes'
    BY <1>16, DealFlowAssumption DEF Restart, Opened, ConvTypes, Conversation, Step
  <2>2. OrgTypes'
    BY <1>16, DealFlowAssumption DEF Restart, DelegationFails, OrgTypes, org
  <2>3. ApprovalTypes'
    BY <1>16 DEF Restart, Approvals!Lose, ApprovalTypes, Approvals!TypeOK,
       Approvals!Life
  <2>4. GateTypes'
    BY <1>16 DEF Restart, Gate!Lose, GateTypes, Gate!TypeOK, Gate!Life
  <2> QED
    BY <2>1, <2>2, <2>3, <2>4
<1>17. CASE UNCHANGED vars
  BY <1>17 DEF vars, org, approval, sending, ConvTypes, OrgTypes, ApprovalTypes,
     GateTypes, Approvals!TypeOK, Gate!TypeOK
<1> QED
  BY <1>1, <1>2, <1>3, <1>4, <1>5, <1>6, <1>7, <1>8, <1>9, <1>10, <1>11, <1>12, <1>13,
     <1>14, <1>15, <1>16, <1>17 DEF Next

--------------------------------------------------------------------------------
\* What a step leaves of the stores.
StoresGrow ==
    /\ DOMAIN quotes \subseteq DOMAIN quotes'
    /\ \A q \in DOMAIN quotes : quotes'[q] = quotes[q]
    /\ \A a \in ApprovalId : status[a] # "none" => about'[a] = about[a] /\ status'[a] # "none"
    /\ \A s \in Seller :
          /\ seen[s] \subseteq seen'[s]
          /\ \A e \in seen'[s] \ seen[s] : e[1] \in ApprovalId /\ status[e[1]] # "none"

\* Quotes stay as they are, what was seen is not unseen, and a request once
\* filed stays about its quote; what is newly seen was filed.
LEMMA StoresGrowStep == TypesInv /\ PathInv /\ [Next]_vars => StoresGrow
<1> SUFFICES ASSUME TypesInv, PathInv, [Next]_vars PROVE StoresGrow
  OBVIOUS
<1> ConvTypes /\ OrgTypes /\ ApprovalTypes
  BY TypesParts
<1>1. ASSUME NEW s \in Seller, NEW t \in Terms, Propose(s, t) PROVE StoresGrow
  BY <1>1 DEF Propose, StoresGrow, org, approval, Attach
<1>2. ASSUME NEW s \in Seller, Confirm(s) PROVE StoresGrow
  <2>1. conv[s].offer \in Terms
    BY <1>2 DEF Confirm, ConvTypes
  <2>2. PICK q \in Quote : QuoteFor(conv[s].offer, q)
    BY <1>2 DEF Confirm
  <2>3. DOMAIN quotes \subseteq DOMAIN quotes' /\ \A i \in DOMAIN quotes : quotes'[i] = quotes[i]
    BY <2>1, <2>2, QuoteIsThere
  <2> QED
    BY <1>2, <2>3 DEF Confirm, StoresGrow, approval
<1>3. ASSUME NEW s \in Seller, ConfirmFails(s) PROVE StoresGrow
  <2>1. conv[s].offer \in Terms
    BY <1>3 DEF ConfirmFails, ConvTypes
  <2>2. PICK q \in Quote : QuoteFor(conv[s].offer, q)
    BY <1>3 DEF ConfirmFails
  <2>3. DOMAIN quotes \subseteq DOMAIN quotes' /\ \A i \in DOMAIN quotes : quotes'[i] = quotes[i]
    BY <2>1, <2>2, QuoteIsThere
  <2> QED
    BY <1>3, <2>3 DEF ConfirmFails, StoresGrow, approval
<1>4. ASSUME NEW s \in Seller, NoApprovalNeeded(s) PROVE StoresGrow
  BY <1>4 DEF NoApprovalNeeded, StoresGrow, org, approval, Attach
<1>5. ASSUME NEW s \in Seller, NEW a \in ApprovalId, Poll(s, a) PROVE StoresGrow
  BY <1>5 DEF Poll, StoresGrow, org, Approvals!Read, ApprovalTypes, Approvals!TypeOK,
     ConvTypes
<1>6. ASSUME NEW s \in Seller, NEW a \in ApprovalId, AssessRisk(s, a) PROVE StoresGrow
  BY <1>6 DEF AssessRisk, MayAssess, RequestApproval, StoresGrow, org, Approvals!Request,
     Approvals!Become, ApprovalTypes, Approvals!TypeOK, Approvals!Life
<1>7. ASSUME NEW s \in Seller, NEW a \in ApprovalId, AssessRiskFails(s, a) PROVE
   StoresGrow
  BY <1>7 DEF AssessRiskFails, MayAssess, RequestApproval, StoresGrow, org, Approvals!Request,
     Approvals!Become, ApprovalTypes, Approvals!TypeOK, Approvals!Life
<1>8. ASSUME NEW a \in ApprovalId, NEW d \in {"APPROVED", "REJECTED"}, Decide(a, d)
   PROVE StoresGrow
  BY <1>8 DEF Decide, StoresGrow, org, Approvals!Decide, Approvals!Become,
     ApprovalTypes, Approvals!TypeOK, Approvals!Life
<1>9. ASSUME NEW s \in Seller, AttachProposal(s) PROVE StoresGrow
  BY <1>9 DEF AttachProposal, StoresGrow, org, approval, Attach
<1>10. ASSUME NEW s \in Seller, AttachProposalFails(s) PROVE StoresGrow
  BY <1>10 DEF AttachProposalFails, StoresGrow, org, approval, Attach
<1>11. ASSUME NEW s \in Seller, NEW k \in TokenId, RequestSendToken(s, k) PROVE
   StoresGrow
  BY <1>11 DEF RequestSendToken, StoresGrow, org, approval, Attach
<1>12. ASSUME NEW s \in Seller, NEW k \in TokenId, SendEmail(s, k) PROVE StoresGrow
  BY <1>12 DEF SendEmail, StoresGrow, org, approval, Attach
<1>13. ASSUME NEW s \in Seller, NEW k \in TokenId, EmailSent(s, k) PROVE StoresGrow
  BY <1>13 DEF EmailSent, StoresGrow, org, approval, Attach
<1>14. ASSUME NEW k \in TokenId, ApproveSend(k) PROVE StoresGrow
  BY <1>14 DEF ApproveSend, StoresGrow, org, approval, Attach
<1>15. ASSUME NEW k \in TokenId, AuthorizeSend(k) PROVE StoresGrow
  BY <1>15 DEF AuthorizeSend, StoresGrow, org, approval, Attach
<1>16. CASE Restart
  BY <1>16 DEF Restart, StoresGrow, org, Approvals!Lose, ApprovalTypes,
     Approvals!TypeOK, Approvals!Life
<1>17. CASE UNCHANGED vars
  BY <1>17 DEF vars, StoresGrow, org, approval
<1> QED
  BY <1>1, <1>2, <1>3, <1>4, <1>5, <1>6, <1>7, <1>8, <1>9, <1>10, <1>11, <1>12, <1>13,
     <1>14, <1>15, <1>16, <1>17 DEF Next

\* A quote once cleared stays cleared.
LEMMA ClearedStays ==
    ASSUME TypesInv, PathInv, StoresGrow, NEW q \in DOMAIN quotes, Cleared(q)
    PROVE  Cleared(q)'
<1> SUFFICES ASSUME quotes[q] \in NeedsApproval PROVE Cleared(q)'
  BY DEF StoresGrow, Cleared
<1>1. PICK s \in Seller, a \in ApprovalId : about[a] = q /\ <<a, "APPROVED">> \in seen[s]
  BY DEF Cleared
<1>2. status[a] # "none"
  BY <1>1 DEF PathInv, SeenWasFiled
<1> QED
  BY <1>1, <1>2 DEF StoresGrow, Cleared

\* The steps that only a cleared quote reaches.
Past == {"cleared", "attached", "sending"}

\* A conversation stays where it was, goes back, waits, perhaps for one more
\* request about its quote, or goes on with its quote cleared.
Moved(s) ==
    \/ conv'[s] = conv[s]
    \/ conv'[s].step \notin Past /\ conv'[s].requests = {}
    \/ /\ conv'[s].step = "waiting" /\ conv'[s].quote = conv[s].quote
       /\ \A a \in conv'[s].requests \ conv[s].requests :
             about'[a] = conv[s].quote /\ status'[a] # "none"
    \/ /\ conv'[s].step \in Past /\ conv'[s].quote = conv[s].quote
       /\ conv'[s].requests = conv[s].requests
       /\ conv[s].step \notin {"opened", "proposed"}
       /\ \/ conv[s].step \in Past
          \/ quotes[conv[s].quote] \notin NeedsApproval
          \/ \E a \in ApprovalId : /\ about'[a] = conv[s].quote
                                   /\ <<a, "APPROVED">> \in seen'[s]

Moves == \A s \in Seller : Moved(s)

\* A conversation that moves gets its new place rightly.
LEMMA MovesStep == TypesInv /\ PathInv /\ [Next]_vars => Moves
<1> SUFFICES ASSUME TypesInv, PathInv, [Next]_vars PROVE Moves
  OBVIOUS
<1> ConvTypes /\ OrgTypes /\ ApprovalTypes
  BY TypesParts
<1>1. ASSUME NEW s \in Seller, NEW t \in Terms, Propose(s, t) PROVE Moves
  BY <1>1 DEF Propose, Moves, Moved, Past, ConvTypes, Opened
<1>2. ASSUME NEW s \in Seller, Confirm(s) PROVE Moves
  BY <1>2 DEF Confirm, Moves, Moved, Past, ConvTypes, Opened
<1>3. ASSUME NEW s \in Seller, ConfirmFails(s) PROVE Moves
  BY <1>3 DEF ConfirmFails, Moves, Moved, ConvTypes
<1>4. ASSUME NEW s \in Seller, NoApprovalNeeded(s) PROVE Moves
  BY <1>4 DEF NoApprovalNeeded, Moves, Moved, Past, Goto, ConvTypes, Conversation,
     Requires
<1>5. ASSUME NEW s \in Seller, NEW a \in ApprovalId, Poll(s, a) PROVE Moves
  BY <1>5 DEF Poll, Moves, Moved, Past, Goto, ConvTypes, Conversation, AfterDecision,
     PathInv, OwnRequests, Approvals!Read, ApprovalTypes, Approvals!TypeOK
<1>6. ASSUME NEW s \in Seller, NEW a \in ApprovalId, AssessRisk(s, a) PROVE Moves
  BY <1>6 DEF AssessRisk, MayAssess, Moves, Moved, Past, Goto, ConvTypes, Conversation,
     RequestApproval, Approvals!Request, Approvals!Become, ApprovalTypes,
     Approvals!TypeOK
<1>7. ASSUME NEW s \in Seller, NEW a \in ApprovalId, AssessRiskFails(s, a) PROVE Moves
  BY <1>7 DEF AssessRiskFails, MayAssess, Moves, Moved, ConvTypes
<1>8. ASSUME NEW a \in ApprovalId, NEW d \in {"APPROVED", "REJECTED"}, Decide(a, d)
   PROVE Moves
  BY <1>8 DEF Decide, Moves, Moved, ConvTypes
<1>9. ASSUME NEW s \in Seller, AttachProposal(s) PROVE Moves
  BY <1>9 DEF AttachProposal, Moves, Moved, Past, Goto, ConvTypes, Conversation,
     MayPropose, Attach
<1>10. ASSUME NEW s \in Seller, AttachProposalFails(s) PROVE Moves
  BY <1>10 DEF AttachProposalFails, Moves, Moved, ConvTypes
<1>11. ASSUME NEW s \in Seller, NEW k \in TokenId, RequestSendToken(s, k) PROVE Moves
  BY <1>11 DEF RequestSendToken, Moves, Moved, ConvTypes
<1>12. ASSUME NEW s \in Seller, NEW k \in TokenId, SendEmail(s, k) PROVE Moves
  BY <1>12 DEF SendEmail, Moves, Moved, Past, Goto, ConvTypes, Conversation, MaySend
<1>13. ASSUME NEW s \in Seller, NEW k \in TokenId, EmailSent(s, k) PROVE Moves
  BY <1>13 DEF EmailSent, Moves, Moved, Past, Goto, ConvTypes, Conversation
<1>14. ASSUME NEW k \in TokenId, ApproveSend(k) PROVE Moves
  BY <1>14 DEF ApproveSend, Moves, Moved, ConvTypes
<1>15. ASSUME NEW k \in TokenId, AuthorizeSend(k) PROVE Moves
  BY <1>15 DEF AuthorizeSend, Moves, Moved, ConvTypes
<1>16. CASE Restart
  BY <1>16 DEF Restart, Moves, Moved, Past, ConvTypes, Opened
<1>17. CASE UNCHANGED vars
  BY <1>17 DEF vars, Moves, Moved
<1> QED
  BY <1>1, <1>2, <1>3, <1>4, <1>5, <1>6, <1>7, <1>8, <1>9, <1>10, <1>11, <1>12, <1>13,
     <1>14, <1>15, <1>16, <1>17 DEF Next

\* Each step keeps the way to the proposal closed to quotes not cleared.
LEMMA PathStep == TypesInv /\ PathInv /\ [Next]_vars => PathInv'
<1> SUFFICES ASSUME TypesInv, PathInv, [Next]_vars PROVE PathInv'
  OBVIOUS
<1>1. StoresGrow /\ Moves /\ TypesInv'
  BY StoresGrowStep, MovesStep, TypesStep
<1>2. ConvTypes /\ ConvTypes' /\ OrgTypes /\ ApprovalTypes
  BY <1>1, TypesParts DEF TypesInv, TypeOK, ConvTypes
<1>3. OwnRequests'
  <2> SUFFICES ASSUME NEW s \in Seller, NEW a \in conv'[s].requests
               PROVE  about'[a] = conv'[s].quote /\ status'[a] # "none"
    BY DEF OwnRequests
  <2>1. \/ a \in conv[s].requests /\ conv'[s].quote = conv[s].quote
        \/ about'[a] = conv'[s].quote /\ status'[a] # "none"
    BY <1>1 DEF Moves, Moved
  <2>2. ASSUME a \in conv[s].requests, conv'[s].quote = conv[s].quote
        PROVE  about'[a] = conv'[s].quote /\ status'[a] # "none"
    <3>1. a \in ApprovalId /\ about[a] = conv[s].quote /\ status[a] # "none"
      BY <1>2, <2>2 DEF PathInv, OwnRequests, ConvTypes, Conversation
    <3> QED
      BY <1>1, <2>2, <3>1 DEF StoresGrow
  <2> QED
    BY <2>1, <2>2
<1>4. PastIsCleared'
  <2> SUFFICES ASSUME NEW s \in Seller, conv'[s].step \in Past
               PROVE  Cleared(conv[s].quote)'
    BY DEF PastIsCleared, Past
  <2>1. PICK q \in DOMAIN quotes : conv[s].quote = q /\ conv'[s].quote = q
    BY <1>1, <1>2 DEF Moves, Moved, Past, ConvTypes
  <2>2. CASE conv[s].step \in Past
    <3>1. Cleared(q)
      BY <2>1, <2>2 DEF PathInv, PastIsCleared, Past
    <3>2. Cleared(q)'
      BY <1>1, <3>1, ClearedStays
    <3> QED
      BY <2>1, <3>2 DEF Cleared
  <2>3. CASE quotes[q] \notin NeedsApproval
    BY <1>1, <2>1, <2>3 DEF StoresGrow, Cleared
  <2>4. CASE \E a \in ApprovalId : about'[a] = q /\ <<a, "APPROVED">> \in seen'[s]
    BY <2>1, <2>4 DEF Cleared
  <2> QED
    BY <1>1, <2>1, <2>2, <2>3, <2>4 DEF Moves, Moved, Past
<1>5. SeenWasFiled'
  BY <1>1, <1>2 DEF StoresGrow, PathInv, SeenWasFiled, ApprovalTypes, Approvals!TypeOK
<1> QED
  BY <1>3, <1>4, <1>5 DEF PathInv

\* What a step attaches or emails is the quote of a conversation past the
\* risk step.
MayGoOut(q) == q \in Quote /\ \E s \in Seller : conv[s].step \in Past /\ conv[s].quote = q

Attaches == files' = files \/ \E q \in Quote : MayGoOut(q) /\ files' = Append(files, q)

Emails ==
    \/ outbox' = outbox
    \/ \E q \in Quote : \E k \in TokenId :
          /\ MayGoOut(q)
          /\ outbox' = Append(outbox, [token_id |-> k, quote |-> q, to |-> "customer"])

\* No step attaches or emails anything else.
LEMMA OutMoves == TypesInv /\ [Next]_vars => Attaches /\ Emails
<1> SUFFICES ASSUME TypesInv, [Next]_vars PROVE Attaches /\ Emails
  OBVIOUS
<1> ConvTypes /\ OrgTypes
  BY TypesParts
<1>1. ASSUME NEW s \in Seller, NEW t \in Terms, Propose(s, t) PROVE Attaches /\ Emails
  BY <1>1 DEF Propose, Attaches, Emails, org, sending
<1>2. ASSUME NEW s \in Seller, Confirm(s) PROVE Attaches /\ Emails
  BY <1>2 DEF Confirm, Attaches, Emails, org, sending
<1>3. ASSUME NEW s \in Seller, ConfirmFails(s) PROVE Attaches /\ Emails
  BY <1>3 DEF ConfirmFails, Attaches, Emails, org, sending
<1>4. ASSUME NEW s \in Seller, NoApprovalNeeded(s) PROVE Attaches /\ Emails
  BY <1>4 DEF NoApprovalNeeded, Attaches, Emails, org, sending
<1>5. ASSUME NEW s \in Seller, NEW a \in ApprovalId, Poll(s, a) PROVE Attaches /\ Emails
  BY <1>5 DEF Poll, Attaches, Emails, org, sending
<1>6. ASSUME NEW s \in Seller, NEW a \in ApprovalId, AssessRisk(s, a) PROVE Attaches /\
   Emails
  BY <1>6 DEF AssessRisk, MayAssess, Attaches, Emails, org, sending
<1>7. ASSUME NEW s \in Seller, NEW a \in ApprovalId, AssessRiskFails(s, a) PROVE
   Attaches /\ Emails
  BY <1>7 DEF AssessRiskFails, MayAssess, Attaches, Emails, org, sending
<1>8. ASSUME NEW a \in ApprovalId, NEW d \in {"APPROVED", "REJECTED"}, Decide(a, d)
   PROVE Attaches /\ Emails
  BY <1>8 DEF Decide, Attaches, Emails, org, sending
<1>9. ASSUME NEW s \in Seller, AttachProposal(s) PROVE Attaches /\ Emails
  BY <1>9, ConvQuote DEF AttachProposal, Attach, MayPropose, Attaches, Emails, MayGoOut,
     Past, sending
<1>10. ASSUME NEW s \in Seller, AttachProposalFails(s) PROVE Attaches /\ Emails
  BY <1>10, ConvQuote DEF AttachProposalFails, Attach, MayPropose, Attaches, Emails,
     MayGoOut, Past, sending
<1>11. ASSUME NEW s \in Seller, NEW k \in TokenId, RequestSendToken(s, k) PROVE Attaches
   /\ Emails
  BY <1>11 DEF RequestSendToken, Attaches, Emails, org, Gate!Mint
<1>12. ASSUME NEW s \in Seller, NEW k \in TokenId, SendEmail(s, k) PROVE Attaches /\
   Emails
  BY <1>12 DEF SendEmail, Attaches, Emails, org, Gate!Spend
<1>13. ASSUME NEW s \in Seller, NEW k \in TokenId, EmailSent(s, k) PROVE Attaches /\
   Emails
  BY <1>13, ConvQuote DEF EmailSent, Gate!Deliver, Attaches, Emails, MayGoOut, Past, org
<1>14. ASSUME NEW k \in TokenId, ApproveSend(k) PROVE Attaches /\ Emails
  BY <1>14 DEF ApproveSend, Attaches, Emails, org, Gate!Approve
<1>15. ASSUME NEW k \in TokenId, AuthorizeSend(k) PROVE Attaches /\ Emails
  BY <1>15 DEF AuthorizeSend, Attaches, Emails, org, Gate!Authorize
<1>16. CASE Restart
  BY <1>16 DEF Restart, Gate!Lose, Attaches, Emails, org
<1>17. CASE UNCHANGED vars
  BY <1>17 DEF vars, org, sending, Attaches, Emails
<1> QED
  BY <1>1, <1>2, <1>3, <1>4, <1>5, <1>6, <1>7, <1>8, <1>9, <1>10, <1>11, <1>12, <1>13,
     <1>14, <1>15, <1>16, <1>17 DEF Next

\* Each step keeps what is out cleared.
LEMMA OutStep == Inv /\ [Next]_vars => OutInv'
<1> SUFFICES ASSUME Inv, [Next]_vars PROVE OutInv'
  OBVIOUS
<1>1. TypesInv /\ PathInv /\ OutInv /\ StoresGrow /\ Attaches /\ Emails
  BY StoresGrowStep, OutMoves DEF Inv
<1>2. ConvTypes /\ OrgTypes /\ GateTypes
  BY <1>1, TypesParts
<1>3. ASSUME NEW q \in Quote, q \in DOMAIN quotes, Cleared(q)
      PROVE  q \in DOMAIN quotes' /\ Cleared(q)'
  BY <1>1, <1>3, ClearedStays DEF StoresGrow
<1>4. ASSUME NEW q \in Quote, MayGoOut(q) PROVE q \in DOMAIN quotes' /\ Cleared(q)'
  <2>1. q \in DOMAIN quotes /\ Cleared(q)
    BY <1>1, <1>2, <1>4 DEF MayGoOut, Past, ConvTypes, PathInv, PastIsCleared
  <2> QED
    BY <1>3, <2>1
<1>5. ASSUME NEW i \in DOMAIN files' PROVE files'[i] \in DOMAIN quotes' /\ Cleared(files[i])'
  <2>1. ASSUME i \in DOMAIN files, files'[i] = files[i]
        PROVE  files'[i] \in DOMAIN quotes' /\ Cleared(files[i])'
    <3>1. PICK q \in Quote : q = files[i]
      BY <1>2, <2>1 DEF OrgTypes
    <3>2. q \in DOMAIN quotes /\ Cleared(q)
      BY <1>1, <2>1, <3>1 DEF OutInv, Cleared
    <3>3. q \in DOMAIN quotes' /\ Cleared(q)'
      BY <1>3, <3>2
    <3>4. q = files'[i]
      BY <2>1, <3>1
    <3> QED
      BY <3>3, <3>4 DEF Cleared
  <2>2. CASE files' = files
    BY <2>1, <2>2
  <2>3. ASSUME NEW q \in Quote, MayGoOut(q), files' = Append(files, q)
        PROVE  files'[i] \in DOMAIN quotes' /\ Cleared(files[i])'
    <3>1. (i \in DOMAIN files /\ files'[i] = files[i]) \/ files'[i] = q
      BY <1>2, <2>3, AppendSeq DEF OrgTypes
    <3>2. CASE files'[i] = q
      BY <1>4, <2>3, <3>2 DEF Cleared
    <3> QED
      BY <2>1, <3>1, <3>2
  <2> QED
    BY <1>1, <2>2, <2>3 DEF Attaches
<1>6. ASSUME NEW i \in DOMAIN outbox'
      PROVE  outbox'[i].quote \in DOMAIN quotes' /\ Cleared(outbox[i].quote)'
  <2>1. ASSUME i \in DOMAIN outbox, outbox'[i] = outbox[i]
        PROVE  outbox'[i].quote \in DOMAIN quotes' /\ Cleared(outbox[i].quote)'
    <3>1. PICK q \in Quote : q = outbox[i].quote
      <4>1. outbox[i] \in [token_id : TokenId, quote : Quote, to : {"customer"}]
        BY <1>2, <2>1, ElementOf DEF GateTypes, Gate!TypeOK
      <4> QED
        BY <4>1
    <3>2. q \in DOMAIN quotes /\ Cleared(q)
      BY <1>1, <2>1, <3>1 DEF OutInv, Cleared
    <3>3. q \in DOMAIN quotes' /\ Cleared(q)'
      BY <1>3, <3>2
    <3>4. q = outbox'[i].quote
      BY <2>1, <3>1
    <3> QED
      BY <3>3, <3>4 DEF Cleared
  <2>2. CASE outbox' = outbox
    BY <2>1, <2>2
  <2>3. ASSUME NEW q \in Quote, NEW k \in TokenId, MayGoOut(q),
               outbox' = Append(outbox, [token_id |-> k, quote |-> q, to |-> "customer"])
        PROVE  outbox'[i].quote \in DOMAIN quotes' /\ Cleared(outbox[i].quote)'
    <3> DEFINE e == [token_id |-> k, quote |-> q, to |-> "customer"]
    <3>1. e \in [token_id : TokenId, quote : Quote, to : {"customer"}] /\ e.quote = q
      OBVIOUS
    <3>2. outbox' = Append(outbox, e)
      BY <2>3
    <3> HIDE DEF e
    <3>3. (i \in DOMAIN outbox /\ outbox'[i] = outbox[i]) \/ outbox'[i] = e
      BY <1>2, <3>1, <3>2, AppendSeq DEF GateTypes, Gate!TypeOK
    <3>4. CASE outbox'[i] = e
      BY <1>4, <2>3, <3>1, <3>4 DEF Cleared
    <3> QED
      BY <2>1, <3>3, <3>4
  <2> QED
    BY <1>1, <2>2, <2>3 DEF Emails
<1> QED
  BY <1>5, <1>6 DEF OutInv

\* The invariant holds in every reachable state.
LEMMA Invariance == Spec => []Inv
<1>1. Inv /\ [Next]_vars => Inv'
  BY TypesStep, PathStep, OutStep DEF Inv
<1> QED
  BY InitInv, <1>1, PTL DEF Spec

--------------------------------------------------------------------------------
\* Every variable has its type, and a conversation has the quote and the
\* requests its step needs.
THEOREM TypeCorrect == Spec => []TypeOK
<1>1. Inv => TypeOK
  BY DEF Inv, TypesInv
<1> QED
  BY Invariance, <1>1, PTL

\* Whatever sellers renegotiate, whichever delegations fail after their work
\* and however often the container restarts, a quote that needs approval is
\* attached or emailed only after a conversation was told that a request
\* about this quote is APPROVED.
THEOREM ApprovedBeforeOutTheorem == Spec => []ApprovedBeforeOut
<1>1. Inv => ApprovedBeforeOut
  <2> SUFFICES ASSUME Inv, NEW q \in DOMAIN quotes, quotes[q] \in NeedsApproval,
                      Contains(files, q) \/ \E e \in ToSet(outbox) : e.quote = q
               PROVE  \E s \in Seller, a \in ApprovalId :
                          about[a] = q /\ <<a, "APPROVED">> \in seen[s]
    BY DEF ApprovedBeforeOut
  <2>1. OutInv /\ OrgTypes
    BY TypesParts DEF Inv
  <2>2. Cleared(q)
    <3>1. CASE Contains(files, q)
      <4>1. PICK i \in DOMAIN files : files[i] = q
        BY <2>1, <3>1 DEF Contains, OrgTypes
      <4> QED
        BY <2>1, <4>1 DEF OutInv, Cleared
    <3>2. CASE \E e \in ToSet(outbox) : e.quote = q
      BY <2>1, <3>2 DEF ToSet, OutInv, Cleared
    <3> QED
      BY <3>1, <3>2
  <2> QED
    BY <2>2 DEF Cleared
<1> QED
  BY Invariance, <1>1, PTL

--------------------------------------------------------------------------------
(* Emails: each has its file and a grant of its own. *)

\* The quote is in the org as a file.
Attached(q) == \E i \in DOMAIN files : files[i] = q

\* Conversations past the attachment have their file; an email has its file, a
\* token that is spent for good, which no other email has, and its grant.
SentInv ==
    /\ IsFiniteSet(grants)
    /\ \A s \in Seller : conv[s].step \in {"attached", "sending"} => Attached(conv[s].quote)
    /\ \A i \in DOMAIN outbox :
          /\ Attached(outbox[i].quote)
          /\ state[outbox[i].token_id] \in {"sent", "lost"}
          /\ \E g \in grants : /\ g.token_id = outbox[i].token_id
                              /\ g.quote = outbox[i].quote
    /\ \A i, j \in DOMAIN outbox : outbox[i].token_id = outbox[j].token_id => i = j

\* What a step leaves of the gate, and how it sends.
GateGrows ==
    /\ grants \subseteq grants' /\ (IsFiniteSet(grants) => IsFiniteSet(grants'))
    /\ \A k \in TokenId : state[k] \in {"sent", "lost"} => state'[k] \in {"sent", "lost"}

Sends ==
    \/ outbox' = outbox
    \/ \E s \in Seller, k \in TokenId :
          /\ conv[s].step = "sending" /\ of[k] = conv[s].quote
          /\ state[k] = "spent" /\ state'[k] = "sent"
          /\ \E g \in grants : g.token_id = k /\ g.quote = of[k]
          /\ outbox' = Append(outbox, [token_id |-> k, quote |-> of[k], to |-> "customer"])

\* A conversation has attached its quote, before or now.
AttachesFirst ==
    \A s \in Seller : conv'[s].step \in {"attached", "sending"} =>
        \/ conv[s].step \in {"attached", "sending"} /\ conv'[s].quote = conv[s].quote
        \/ conv'[s].quote \in Quote /\ files' = Append(files, conv'[s].quote)

\* The gate only grows, and sends by spending a token that was approved.
LEMMA GateGrowsStep == TypesInv /\ [Next]_vars => GateGrows /\ Sends
<1> SUFFICES ASSUME TypesInv, [Next]_vars PROVE GateGrows /\ Sends
  OBVIOUS
<1> GateTypes
  BY TypesParts
<1>1. ASSUME NEW s \in Seller, NEW t \in Terms, Propose(s, t) PROVE GateGrows /\ Sends
  BY <1>1 DEF Propose, GateGrows, Sends, sending
<1>2. ASSUME NEW s \in Seller, Confirm(s) PROVE GateGrows /\ Sends
  BY <1>2 DEF Confirm, GateGrows, Sends, sending
<1>3. ASSUME NEW s \in Seller, ConfirmFails(s) PROVE GateGrows /\ Sends
  BY <1>3 DEF ConfirmFails, GateGrows, Sends, sending
<1>4. ASSUME NEW s \in Seller, NoApprovalNeeded(s) PROVE GateGrows /\ Sends
  BY <1>4 DEF NoApprovalNeeded, GateGrows, Sends, sending
<1>5. ASSUME NEW s \in Seller, NEW a \in ApprovalId, Poll(s, a) PROVE GateGrows /\ Sends
  BY <1>5 DEF Poll, GateGrows, Sends, sending
<1>6. ASSUME NEW s \in Seller, NEW a \in ApprovalId, AssessRisk(s, a) PROVE GateGrows /\
   Sends
  BY <1>6 DEF AssessRisk, MayAssess, GateGrows, Sends, sending
<1>7. ASSUME NEW s \in Seller, NEW a \in ApprovalId, AssessRiskFails(s, a) PROVE
   GateGrows /\ Sends
  BY <1>7 DEF AssessRiskFails, MayAssess, GateGrows, Sends, sending
<1>8. ASSUME NEW a \in ApprovalId, NEW d \in {"APPROVED", "REJECTED"}, Decide(a, d)
   PROVE GateGrows /\ Sends
  BY <1>8 DEF Decide, GateGrows, Sends, sending
<1>9. ASSUME NEW s \in Seller, AttachProposal(s) PROVE GateGrows /\ Sends
  BY <1>9 DEF AttachProposal, GateGrows, Sends, sending
<1>10. ASSUME NEW s \in Seller, AttachProposalFails(s) PROVE GateGrows /\ Sends
  BY <1>10 DEF AttachProposalFails, GateGrows, Sends, sending
<1>11. ASSUME NEW s \in Seller, NEW k \in TokenId, RequestSendToken(s, k) PROVE
   GateGrows /\ Sends
  BY <1>11 DEF RequestSendToken, GateGrows, Sends, Gate!Mint, Gate!Become, GateTypes,
     Gate!TypeOK, Gate!Life
<1>12. ASSUME NEW s \in Seller, NEW k \in TokenId, SendEmail(s, k) PROVE GateGrows /\
   Sends
  BY <1>12 DEF SendEmail, GateGrows, Sends, Gate!Spend, Gate!Become, GateTypes,
     Gate!TypeOK, Gate!Life
<1>13. ASSUME NEW s \in Seller, NEW k \in TokenId, EmailSent(s, k) PROVE GateGrows /\
   Sends
  <2>1. /\ grants' = grants /\ state[k] = "spent" /\ state' = [state EXCEPT ![k] = "sent"]
        /\ conv[s].step = "sending" /\ of[k] = conv[s].quote
        /\ outbox' = Append(outbox, [token_id |-> k, quote |-> of[k], to |-> "customer"])
        /\ \E g \in grants : g.token_id = k /\ g.quote = of[k]
    BY <1>13 DEF EmailSent, Gate!Deliver, Gate!Become
  <2>2. GateGrows
    BY <2>1 DEF GateGrows, GateTypes, Gate!TypeOK, Gate!Life
  <2>3. state'[k] = "sent"
    BY <2>1 DEF GateTypes, Gate!TypeOK, Gate!Life
  <2> QED
    BY <2>1, <2>2, <2>3 DEF Sends
<1>14. ASSUME NEW k \in TokenId, ApproveSend(k) PROVE GateGrows /\ Sends
  <2>1. /\ grants' = grants \cup {[token_id |-> k, quote |-> of[k], mailbox |-> "customer"]}
        /\ state' = state /\ outbox' = outbox
    BY <1>14 DEF ApproveSend, Gate!Approve
  <2> QED
    BY <2>1, FS_AddElement DEF GateGrows, Sends
<1>15. ASSUME NEW k \in TokenId, AuthorizeSend(k) PROVE GateGrows /\ Sends
  BY <1>15 DEF AuthorizeSend, GateGrows, Sends, Gate!Authorize, Gate!Become, GateTypes,
     Gate!TypeOK, Gate!Life
<1>16. CASE Restart
  BY <1>16 DEF Restart, GateGrows, Sends, Gate!Lose, GateTypes, Gate!TypeOK, Gate!Life
<1>17. CASE UNCHANGED vars
  BY <1>17 DEF vars, sending, GateGrows, Sends
<1> QED
  BY <1>1, <1>2, <1>3, <1>4, <1>5, <1>6, <1>7, <1>8, <1>9, <1>10, <1>11, <1>12, <1>13,
     <1>14, <1>15, <1>16, <1>17 DEF Next

\* Nothing is sent before it is attached.
LEMMA AttachesFirstStep == TypesInv /\ [Next]_vars => AttachesFirst
<1> SUFFICES ASSUME TypesInv, [Next]_vars PROVE AttachesFirst
  OBVIOUS
<1> ConvTypes /\ OrgTypes
  BY TypesParts
<1>1. ASSUME NEW s \in Seller, NEW t \in Terms, Propose(s, t) PROVE AttachesFirst
  BY <1>1 DEF Propose, AttachesFirst, ConvTypes, Opened
<1>2. ASSUME NEW s \in Seller, Confirm(s) PROVE AttachesFirst
  BY <1>2 DEF Confirm, AttachesFirst, ConvTypes, Opened
<1>3. ASSUME NEW s \in Seller, ConfirmFails(s) PROVE AttachesFirst
  BY <1>3 DEF ConfirmFails, AttachesFirst, ConvTypes
<1>4. ASSUME NEW s \in Seller, NoApprovalNeeded(s) PROVE AttachesFirst
  BY <1>4 DEF NoApprovalNeeded, AttachesFirst, Goto, ConvTypes, Conversation
<1>5. ASSUME NEW s \in Seller, NEW a \in ApprovalId, Poll(s, a) PROVE AttachesFirst
  BY <1>5 DEF Poll, AttachesFirst, Goto, ConvTypes, Conversation, AfterDecision
<1>6. ASSUME NEW s \in Seller, NEW a \in ApprovalId, AssessRisk(s, a) PROVE
   AttachesFirst
  BY <1>6 DEF AssessRisk, MayAssess, AttachesFirst, Goto, ConvTypes, Conversation
<1>7. ASSUME NEW s \in Seller, NEW a \in ApprovalId, AssessRiskFails(s, a) PROVE
   AttachesFirst
  BY <1>7 DEF AssessRiskFails, MayAssess, AttachesFirst, ConvTypes
<1>8. ASSUME NEW a \in ApprovalId, NEW d \in {"APPROVED", "REJECTED"}, Decide(a, d)
   PROVE AttachesFirst
  BY <1>8 DEF Decide, AttachesFirst, ConvTypes
<1>9. ASSUME NEW s \in Seller, AttachProposal(s) PROVE AttachesFirst
  BY <1>9, ConvQuote DEF AttachProposal, AttachesFirst, Goto, ConvTypes, Conversation,
     Attach, MayPropose
<1>10. ASSUME NEW s \in Seller, AttachProposalFails(s) PROVE AttachesFirst
  BY <1>10 DEF AttachProposalFails, AttachesFirst, ConvTypes
<1>11. ASSUME NEW s \in Seller, NEW k \in TokenId, RequestSendToken(s, k) PROVE
   AttachesFirst
  BY <1>11 DEF RequestSendToken, AttachesFirst, ConvTypes
<1>12. ASSUME NEW s \in Seller, NEW k \in TokenId, SendEmail(s, k) PROVE AttachesFirst
  BY <1>12 DEF SendEmail, AttachesFirst, Goto, ConvTypes, Conversation, MaySend
<1>13. ASSUME NEW s \in Seller, NEW k \in TokenId, EmailSent(s, k) PROVE AttachesFirst
  BY <1>13 DEF EmailSent, AttachesFirst, Goto, ConvTypes, Conversation
<1>14. ASSUME NEW k \in TokenId, ApproveSend(k) PROVE AttachesFirst
  BY <1>14 DEF ApproveSend, AttachesFirst, ConvTypes
<1>15. ASSUME NEW k \in TokenId, AuthorizeSend(k) PROVE AttachesFirst
  BY <1>15 DEF AuthorizeSend, AttachesFirst, ConvTypes
<1>16. CASE Restart
  BY <1>16 DEF Restart, AttachesFirst, Opened
<1>17. CASE UNCHANGED vars
  BY <1>17 DEF vars, AttachesFirst
<1> QED
  BY <1>1, <1>2, <1>3, <1>4, <1>5, <1>6, <1>7, <1>8, <1>9, <1>10, <1>11, <1>12, <1>13,
     <1>14, <1>15, <1>16, <1>17 DEF Next

\* Each step keeps the emails accounted for.
LEMMA SentStep == TypesInv /\ SentInv /\ [Next]_vars => SentInv'
<1> SUFFICES ASSUME TypesInv, SentInv, [Next]_vars PROVE SentInv'
  OBVIOUS
<1>1. GateGrows /\ Sends /\ AttachesFirst /\ Attaches
  BY GateGrowsStep, AttachesFirstStep, OutMoves
<1>2. ConvTypes /\ OrgTypes /\ GateTypes
  BY TypesParts
<1>3. ASSUME NEW q, Attached(q) PROVE Attached(q)'
  <2>1. PICK i \in DOMAIN files : files[i] = q
    BY <1>3 DEF Attached
  <2>2. i \in DOMAIN files' /\ files'[i] = q
    <3>1. CASE files' = files
      BY <2>1, <3>1
    <3>2. ASSUME NEW r \in Quote, files' = Append(files, r)
          PROVE  i \in DOMAIN files' /\ files'[i] = q
      BY <1>2, <2>1, <3>2, AppendSeq DEF OrgTypes
    <3> QED
      BY <1>1, <3>1, <3>2 DEF Attaches
  <2> QED
    BY <2>2 DEF Attached
<1>4. ASSUME NEW s \in Seller, conv'[s].step \in {"attached", "sending"}
      PROVE  Attached(conv[s].quote)'
  <2>1. CASE conv[s].step \in {"attached", "sending"} /\ conv'[s].quote = conv[s].quote
    <3>1. PICK q : q = conv[s].quote /\ q = conv'[s].quote
      BY <2>1
    <3>2. Attached(q)
      BY <2>1, <3>1 DEF SentInv
    <3>3. Attached(q)'
      BY <1>3, <3>2
    <3> QED
      BY <3>1, <3>3 DEF Attached
  <2>2. CASE conv'[s].quote \in Quote /\ files' = Append(files, conv'[s].quote)
    <3>1. Len(files) + 1 \in DOMAIN files' /\ files'[Len(files) + 1] = conv'[s].quote
      BY <1>2, <2>2, AppendSeq DEF OrgTypes
    <3> QED
      BY <3>1 DEF Attached
  <2> QED
    BY <1>1, <1>4, <2>1, <2>2 DEF AttachesFirst
<1> DEFINE Accounted(i) == /\ Attached(outbox[i].quote)
                           /\ state[outbox[i].token_id] \in {"sent", "lost"}
                           /\ \E g \in grants : /\ g.token_id = outbox[i].token_id
                                               /\ g.quote = outbox[i].quote
<1>5. ASSUME NEW i \in DOMAIN outbox, outbox'[i] = outbox[i] PROVE Accounted(i)'
  <2>1. PICK e : e = outbox[i] /\ e = outbox'[i]
    BY <1>5
  <2>2. e \in [token_id : TokenId, quote : Quote, to : {"customer"}]
    <3>1. outbox[i] \in [token_id : TokenId, quote : Quote, to : {"customer"}]
      BY <1>2, ElementOf DEF GateTypes, Gate!TypeOK
    <3> QED
      BY <2>1, <3>1
  <2>3. /\ Attached(e.quote) /\ state[e.token_id] \in {"sent", "lost"}
        /\ \E g \in grants : g.token_id = e.token_id /\ g.quote = e.quote
    <3>1. Accounted(i)
      BY DEF SentInv
    <3> HIDE DEF Accounted
    <3> QED
      BY <2>1, <3>1 DEF Accounted
  <2>4. PICK q : q = e.quote
    OBVIOUS
  <2>5. Attached(q)'
    BY <1>3, <2>3, <2>4
  <2>6. /\ state'[e.token_id] \in {"sent", "lost"}
        /\ \E g \in grants' : g.token_id = e.token_id /\ g.quote = e.quote
    BY <1>1, <2>2, <2>3 DEF GateGrows
  <2> QED
    BY <2>1, <2>4, <2>5, <2>6 DEF Attached
<1>6. ASSUME outbox' = outbox
      PROVE  /\ \A i \in DOMAIN outbox' : Accounted(i)'
             /\ \A i, j \in DOMAIN outbox' :
                   outbox'[i].token_id = outbox'[j].token_id => i = j
  BY <1>5, <1>6 DEF SentInv
<1>7. ASSUME NEW s \in Seller, NEW k \in TokenId, NEW q \in Quote,
             conv[s].step = "sending", conv[s].quote = q,
             state[k] = "spent", state'[k] = "sent",
             \E g \in grants : g.token_id = k /\ g.quote = q,
             outbox' = Append(outbox, [token_id |-> k, quote |-> q, to |-> "customer"])
      PROVE  /\ \A i \in DOMAIN outbox' : Accounted(i)'
             /\ \A i, j \in DOMAIN outbox' :
                   outbox'[i].token_id = outbox'[j].token_id => i = j
  <2> DEFINE e == [token_id |-> k, quote |-> q, to |-> "customer"]
  <2> PICK n : n = Len(outbox) + 1
    OBVIOUS
  <2>1. /\ e \in [token_id : TokenId, quote : Quote, to : {"customer"}]
        /\ e.token_id = k /\ e.quote = q
    OBVIOUS
  <2>2. outbox' = Append(outbox, e)
    BY <1>7
  <2> HIDE DEF e
  <2>3. /\ DOMAIN outbox' = 1..n /\ DOMAIN outbox = 1..Len(outbox) /\ Len(outbox) \in Nat
        /\ outbox'[n] = e /\ \A i \in 1..Len(outbox) : outbox'[i] = outbox[i]
    BY <1>2, <2>1, <2>2, AppendSeq DEF GateTypes, Gate!TypeOK
  <2>4. \A i \in DOMAIN outbox' : (i \in DOMAIN outbox /\ outbox'[i] = outbox[i]) \/ i = n
    BY <2>3
  <2>5. Accounted(n)'
    <3>1. Attached(q)
      BY <1>7 DEF SentInv
    <3>2. Attached(q)'
      BY <1>3, <3>1
    <3>3. \E g \in grants' : g.token_id = k /\ g.quote = q
      BY <1>1, <1>7 DEF GateGrows
    <3> QED
      BY <1>7, <2>1, <2>3, <3>2, <3>3 DEF Attached
  <2>6. \A i \in DOMAIN outbox : outbox[i].token_id # k
    BY <1>7 DEF SentInv
  <2>7. \A i, j \in DOMAIN outbox' : outbox'[i].token_id = outbox'[j].token_id => i = j
    BY <2>1, <2>3, <2>4, <2>6 DEF SentInv
  <2> QED
    BY <1>5, <2>4, <2>5, <2>7
<1>8. /\ \A i \in DOMAIN outbox' : Accounted(i)'
      /\ \A i, j \in DOMAIN outbox' : outbox'[i].token_id = outbox'[j].token_id => i = j
  <2>1. CASE outbox' = outbox
    BY <1>6, <2>1
  <2>2. CASE outbox' # outbox
    <3>1. PICK s \in Seller, k \in TokenId :
            /\ conv[s].step = "sending" /\ of[k] = conv[s].quote
            /\ state[k] = "spent" /\ state'[k] = "sent"
            /\ \E g \in grants : g.token_id = k /\ g.quote = of[k]
            /\ outbox' = Append(outbox, [token_id |-> k, quote |-> of[k], to |-> "customer"])
      BY <1>1, <2>2 DEF Sends
    <3>2. PICK q \in Quote : q = of[k]
      BY <1>2, <3>1 DEF GateTypes
    <3> QED
      BY <1>7, <3>1, <3>2
  <2> QED
    BY <2>1, <2>2
<1>9. IsFiniteSet(grants')
  BY <1>1 DEF SentInv, GateGrows
<1> QED
  BY <1>4, <1>8, <1>9 DEF SentInv

\* Emails map to grants one to one: no two have a token in common.
LEMMA EmailsCounted ==
    ASSUME SentInv, GateTypes, NEW q \in Quote
    PROVE  LET emails == {i \in DOMAIN outbox : outbox[i].quote = q}
           IN  Cardinality(emails) <= Cardinality({g \in grants : g.quote = q})
<1> DEFINE emails == {i \in DOMAIN outbox : outbox[i].quote = q}
           given == {g \in grants : g.quote = q}
           grantOf == [i \in emails |-> CHOOSE g \in given : g.token_id = outbox[i].token_id]
<1>1. \A i \in emails : \E g \in given : g.token_id = outbox[i].token_id
  BY DEF SentInv
<1>2. \A i \in emails : grantOf[i] \in given /\ grantOf[i].token_id = outbox[i].token_id
  BY <1>1
<1>3. \A i, j \in emails : outbox[i].token_id = outbox[j].token_id => i = j
  BY DEF SentInv
<1>4. grantOf \in [emails -> given] /\ DOMAIN grantOf = emails
  BY <1>2
<1>5. IsFiniteSet(given)
  BY FS_Subset DEF SentInv
<1> HIDE DEF emails, given, grantOf
<1>6. grantOf \in Injection(emails, given)
  BY <1>2, <1>3, <1>4 DEF Injection, IsInjective
<1> QED
  BY <1>5, <1>6, FS_Injection DEF emails, given

\* The invariant of the emails holds in every reachable state.
LEMMA SentInvariance == Spec => []SentInv
<1>1. Init => SentInv
  BY EmptySeq, FS_EmptySet DEF Init, SentInv, Opened, Gate!Init
<1>2. Inv /\ SentInv /\ [Next]_vars => SentInv'
  BY SentStep DEF Inv
<1> QED
  BY Invariance, <1>1, <1>2, PTL DEF Spec

\* Whatever conversations share a quote and whichever delegation forgot its
\* token, an emailed quote is attached, and each email of it had an approval of
\* its own by a human.
THEOREM EmailsTheorem == Spec => []EmailsHaveFileAndGrant
<1>1. Inv /\ SentInv => EmailsHaveFileAndGrant
  <2> SUFFICES ASSUME Inv, SentInv, NEW q \in Quote,
                      {i \in DOMAIN outbox : outbox[i].quote = q} # {}
               PROVE  /\ Contains(files, q)
                      /\ Cardinality({i \in DOMAIN outbox : outbox[i].quote = q})
                            <= Cardinality({g \in grants : g.quote = q})
    BY DEF EmailsHaveFileAndGrant
  <2>1. GateTypes /\ OrgTypes
    BY TypesParts DEF Inv
  <2>2. Contains(files, q)
    <3>1. PICK i \in DOMAIN outbox : outbox[i].quote = q
      OBVIOUS
    <3>2. PICK j \in DOMAIN files : files[j] = q
      BY <3>1 DEF SentInv, Attached
    <3>3. DOMAIN files = 1..Len(files)
      BY <2>1 DEF OrgTypes
    <3> QED
      BY <3>2, <3>3 DEF Contains
  <2> QED
    BY <2>1, <2>2, EmailsCounted
<1> QED
  BY Invariance, SentInvariance, <1>1, PTL
================================================================================
