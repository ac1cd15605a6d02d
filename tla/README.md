# Verification of EnterpriseDealPilot

TLA+ models of the stateful parts of this repository, TLC runs that check them
on small instances, and TLAPS proofs of all their safety properties for every
value of their constants. `PROJECT.json` lists components, runs, mutants, the map
from definitions to source lines, findings, hazards and theorems.

To check: `tlc -config X.cfg M.tla` with a row of "Runs", `tlapm M.tla` with each
module whose name ends in `Proofs`.

## The system

Language-model agents (`agents/`, Google ADK) walk an opportunity through
confirmation of missing fields, pricing, discount approval, proposal and
sending. Everything they may change goes through six services in
`mcp-services/`, each a `client.py` with the logic and a `server.py` that
exposes it over MCP. `web_app.py` serves the agents on Cloud Run; a chat
component on the Salesforce record page (`salesforce-metadata/`, LWC and Apex)
talks to it.

| component | state | operations | what makes it correct |
|---|---|---|---|
| send gate, `mcp-services/communication`, `approve_pending.py`, `/admin` of `web_app.py` | token file, email log file, a lock per process | request_send_token, get_send_token_status, authorize_send, send_email | no email without a human's approval of that quote and mailbox; one email per approval; one open token per pair |
| approvals, `mcp-services/approval` | request file, lock per process | request_discount_approval, get_approval_status, decide_approval | a decision is final, and what was read of it stands; requests survive |
| opportunity overlay, `mcp-services/salesforce/opportunity_store.py` | overlay and idempotency file, lock per process | get_overlay, update_opportunity | no stale overwrite, no confirmed value lost, replay of a repeated call |
| live Salesforce client, `mcp-services/salesforce/client.py` | org (external), idempotency ledger file, session | get_opportunity, update_opportunity, create_quote_draft, get_quote, create_content_version | a retry creates no second record; an answered quote stays fetchable |
| fixture quote and file stores | one file each | create_quote_draft, get_quote_by_id, create_content_version | one quote per key |
| pricing | none | price_bundle, verify_signature, list_eligible_bundles | totals add up, signature covers every field and survives JSON, restricted bundles stay restricted |
| documents | none of its own | generate_proposal, attach_proposal, get_evidence | what was changed on the way is refused; no injected evidence in what is attached |
| security | event log file | screen_content | fails closed, logs every verdict |
| agents | conversation memory | prompts that call the above in order | nothing out while a required approval is unresolved; every email of a quote has an approval of its own |
| remote calls between deployed services | calls under way, correlation ids | documents asks salesforce, salesforce asks pricing | no write without the verdict it needs, one id along a chain, no servers waiting for each other for ever |
| chat component and Apex bridge | session id, messages, loading and started flags | handleStart, handleSend, refreshStatus, runTurn | one turn at a time, status follows the record |

How they interact. Each store is a JSON file, read whole, changed in memory and
written whole with `Path.write_text`, which truncates before it writes. Writers
hold a module-level `threading.Lock`; readers hold nothing. The lock belongs to
one loaded copy of the module in one process. The files are shared by every
process started from the checkout: the agent process, scripts, and a stdio
`server.py` per MCP client. A deployed container has files of its own and loses
them when it restarts. Tools are synchronous functions called in line by the
event loop, so inside a process calls do not overlap; between processes they do.
Deployed as services of their own, documents calls salesforce and salesforce
calls pricing over HTTP from inside such a tool: the calling server serves
nobody until the answer is there. The orchestrator delegates to each specialist
in a conversation of its own, which ends with the answer; what a later
delegation knows it was given or finds in the stores.

Where it is hard: read-modify-write across processes; a crash between two
writes that belong together; a crash inside a write; answers lost after the
work is done; sessions that expire in the middle of a call; keys and versions
that outlive or do not outlive the store they name; delegations that fail after
they have written; terms that change while an approval of the old ones is pending.

## Modules

| module | models | abstract counterpart |
|---|---|---|
| `SendGate` | `communication/client.py`, `approve_pending.py`, `/admin` | `SendAuthorization` |
| `SendGateProofs` | theorems about `SendGate` | |
| `ApprovalStore` | `approval/client.py`, `server.py` | `ApprovalDecision` |
| `ApprovalProofs` | theorems about `ApprovalStore` | |
| `OpportunityStore` | `opportunity_store.py` under the callers of `server.py` and `confirm_opportunity_field` | `VersionedRecord` |
| `OpportunityProofs` | theorems about `OpportunityStore` | |
| `LiveQuote` | `create_quote_draft`, `_call`, `get_quote` of the live client, `idempotency_log.py` | |
| `LiveUpdate` | `get_opportunity`, `update_opportunity` of the live client under `confirm_opportunity_field` | |
| `LiveUpdateProofs` | theorems about `LiveUpdate` | |
| `QuoteDraft` | `pricing/client.py`, `catalogue.py`, the pricing agent's `create_quote_draft`, `quote_store.py` | |
| `Proposal` | `security/client.py`, `documents/client.py` as the proposal agent calls them | |
| `ProposalProofs` | theorems about `Proposal` | |
| `ServiceCalls` | `_call_remote_mcp_tool` between salesforce, documents and pricing, `observability.py` | |
| `ServiceCallsProofs` | theorems about `ServiceCalls` | |
| `DealFlow` | the instructions of orchestrator and specialists, over `ApprovalDecision` and `SendAuthorization` | |
| `DealFlowProofs` | theorems about `DealFlow` | |
| `ChatClient` | `dealPilotAgent.js`, `DealPilotAgentController.cls`, the backend's sessions and turns | |
| `ClientProofs` | theorems about `LiveQuote`, and about `ChatClient` and `QuoteDraft` as instances | |
| `MC*` | instances for TLC | |

**SendGate.** `tokens` and `sent` are the two files, `tokensWhole` and
`sentWhole` are FALSE while a file is truncated. `pc` is where a client is in a
call; a client holds its process's lock exactly while its `pc` is not "idle",
and `ProcessOf` says which clients share a lock. A call reads and decides in
one step (`RequestSendToken`, `SendEmail`, `AuthorizeSend`), truncates, fills,
and for a send goes on to the log (`ReadLog`, `TruncateLog`, `FillLog`). What
was read before is kept in `next` and `nextLog`, so another process's write in
between is lost, as in the code. `ChooseTokens` is `approve_pending.py` taking its list
without the lock (`--all`, and `--latest` or an id as single tokens) and the
`/admin` endpoint with an id. Two processes that fill one truncated file may leave text
that does not parse (`Rewritten`; exact for two processes, as many as the runs have).
`Crash` drops a process's locals and lock and leaves the files as they
are, truncated ones included; `ContainerRestart` removes the files. Calls that
return or raise without writing (a refused send, a request that finds its
token, a status poll) change nothing and are no steps. Addresses are model
values; `Lower` maps spellings to mailboxes, as `str.lower` does. Subject, body
and who asked are left out. `minted`, `granted`, `delivered` are history.

**ApprovalStore.** The same file discipline with the two halves of a rewrite in
one step; a crash while writing may leave the file truncated, after which every call
raises (that is why the run does not check deadlock). `call` is the
decision a write carries; `accepted` is history: decisions answered with
`already_decided: false`. A poll that says PENDING is not kept, since its caller
polls again; `seen` holds the decisions agents were told.

**OpportunityStore.** Callers read (`ReadOpportunity`), then update with the
version they read and a key made of opportunity, fields, values and version, as
`confirm_opportunity_field` derives it, so the call stands for its key. The
order of the code's checks is the guards': replay, unknown field, version.
`Retry` is a caller repeating its call. For MCP clients of `server.py` other
calls run between read and update; `confirm_opportunity_field` in the agent
process makes them in a row, a special case.

**LiveQuote.** An instance is one process with a ledger file of its own. The org
appends a quote and answers, or its answer is lost (`AnswerLost`), or it refuses an
expired session; `RefreshSession` is `_call` with an `sf` CLI at hand, once.
`Crash` leaves the ledger, removes it (a container), or, inside `Put`, leaves it
truncated: no call can look up its key then, until the container goes. `losses` counts,
per instance, how often the ledger went either way; `told` keeps what was
answered before, so `AnsweredQuoteStays` speaks of answers given before a loss too.
Two processes over one ledger file, a stdio `server.py` per MCP client on one
machine, are not an instance and are left out: each may look up a key before the
other has put it, so they make duplicates too. So does one quote whose key is
spelled two ways: a key here is the spelling (see QuoteDraft). The signature check in front of it has no state and is left out. The ledger's
other use, field updates, has keys of another form and is in LiveUpdate.

**LiveUpdate.** The two writable fields are on two records, so a record stands
for its field; the version is the pair of stamps, and a stamp is a second
(`Tick` is free to come late, so two edits may share one). A call runs
`Update`, `CheckVersion` or `VersionConflict`, `UpdateOpportunity`,
`UpdateAccount`, `Put`, `Answer`; between any two, `SomebodyEdits` either record. A crash inside `Put` may leave the
ledger truncated (`whole`), after which every update raises.
There is one instance: another shares only the org with it and is one of the
somebodies. `Missing` is what `missing_fields` lists after the picklist has
been coerced. `org[x].edits` and `basis.seen` are history.

**QuoteDraft.** Numbers carry a type and thousandths. `Unsigned` and `Sign` are
`price_bundle` and `_sign`; `Reemit` is the language model writing a quote out again:
faithfully in other types, or with a number changed or dropped, another bundle,
flag or signature. `CreateQuoteDraft` verifies and then looks up the key, as
`salesforce/client.py` and `quote_store.py` do; a line may be created again and again. `grand_total` stands for the
other amounts. Inputs half-way between two hundredths, where the binary float
decides, are excluded by the assumption.

**Proposal.** `ScreenContent` is the screener, then `ReadEvents`,
`TruncateEvents`, `FillEvents` are `_log_event`, after which the verdict is
returned. A document is a quote, standing for its terms, and the evidence in its
context; it stands for its own checksum, as no two texts share one.
`GenerateProposal` fetches the quote; `AttachProposal` takes any document with
any checksum of the conversation, so a document changed by the language model,
or handed over with another's checksum, is among its inputs. Two things are assumed
of the language model that no code enforces. As context it passes only evidence
that came back unflagged, and puts no evidence into the free slots `use_case`,
`customer_name`, `opportunity_name` and `expiry`, which are left out. And it has
checksums from `generate_proposal` only (`Checksums`), as instruction 4 says; the
code compares an unkeyed sha256 and would attach any text with its own.
What the engine recognises is `Injected`. An answer of the engine that cannot be
parsed raises and changes nothing. Which opportunity a document is attached
to, title and recipient data are the caller's and left out; a second
file from a repeated call is not told apart here (`versions` is a set) but in ServiceCalls and DealFlow.

**ServiceCalls.** `calls` lists every call in the order they are sent, each with
the id it was sent (`header`), the id its handler logged (`id`) and where it is.
`LoopFree` is the server's event loop: a tool is a plain function in it, so from
`Handle` to its end nothing else at that service starts. `CallRemote` is the
thread with `asyncio.run`; `Proceed`, `RemoteFailed` and `ConnectionLost` are how it ends.
`Refused` is a call without a valid id token. `WorkFails` is a handler whose own
work fails once there is nothing left to ask: the org refuses or breaks off, for a
writer before or after it has written (`MayHaveWritten`), or a ledger does not
parse; a crash may come after the write too. A signature with a field that is no
number makes `verify_quote_signature` raise instead of answering false. What a
tool computes is reduced to whether its arguments are `good`. Two fixed points
of the code are used: no tool asks for a tool that asks further, and each tool
writes, if at all, as its last act. Not every tool is there: those that neither
ask nor are asked for run alone and change only what other modules model.

**DealFlow.** A conversation walks through `step` as the orchestrator's steps 4
to 7 say: `Propose`, `Confirm`, the risk agent (`NoApprovalNeeded`,
`AssessRisk`, `Poll`), the proposal agent (`AttachProposal`, `RequestSendToken`,
`SendEmail`). The stores are the abstract ones the detailed modules implement:
the actions of `ApprovalDecision` and `SendAuthorization` are called by
INSTANCE, and quotes are one per key while the ledger lives. A `...Fails` action
is a delegation whose work is done and whose answer is lost; `Restart` is the
container's, after which the org and the mailboxes are all that is left. What is
assumed of the language model is that it follows its instructions: it chooses
terms and when to go on, not the order of steps, and it passes ids on unchanged
(what happens when it does not is QuoteDraft's and Proposal's matter). The instructions
let nothing go out while a required approval is unresolved and name neither
outcome; that APPROVED clears a deal and REJECTED does not is taken as their meaning.
Every delegation to the risk agent about a quote that needs approval files a
request, as its only steps say, so a waiting deal that turns to it again has
several (`requests`). No prompt asks for a poll; `Poll` is `get_approval_status`, the
one tool that tells of a decision, with an approval id the conversation was told.
Requests about one quote may be decided differently, and no code says which
counts: one that is APPROVED will do. A seller may turn to new terms at any step but inside
a send, a rejected one included. One opportunity and one mailbox:
`OneOpenTokenPerPair` of the gate is about more.

**ChatClient.** `js` is what the component awaits, `apex` how far the Apex call
is, `log`, `alive` and `running` are the backend's sessions and turns. A timed-out
callout leaves its turn running; a restart takes sessions and turns. The draft
text, `handleDraftChange` and the status rail are left out; the wait for
the rail's refresh, during which the buttons stay off, is not.

Variants with an underscore (`LockFree_NoLock`, ...) are deliberate faults: each
property is shown to fail when one replaces the definition it is named after.

## Runs

| run | instance | shows |
|---|---|---|
| `send_gate.cfg` with `MCSendGate` | one process, two agents and an approver, two crashes | all safety properties, that the gate implements `SendAuthorization`, and that every call returns the lock |
| `send_gate_double.cfg` | two processes, no crash | **violated**: a token sends twice |
| `approval.cfg` with `MCApprovalStore` | one process, two agents, two deciders, three requests, two crashes | decisions final; implements `ApprovalDecision`: what was read stands, and only a crash loses a request |
| `opportunity.cfg` with `MCOpportunityStore` | two callers of one process, four versions, two crashes | no stale overwrite, true answers, implements `VersionedRecord` |
| `live_quote.cfg` with `MCLiveQuote` | a machine with a CLI and a container, two keys, four quotes, two failures | every duplicate has a cause, an answered quote stays as long as its ledger, a call ends however often the session expires |
| `live_update.cfg` with `MCLiveUpdate` | one opportunity and account, two edits each, two seconds, one failure | stale reads refused, answers have their writes, confirmed fields not missing |
| `quote_draft.cfg` with `MCQuoteDraft` | two bundles, two quotes, discounts at, just above and over the threshold | every draft has the terms of a quote that was priced, for a region that may have the bundle |
| `quote_draft_duplicate.cfg` | one quote, two drafts | **violated**: 10 for 10.0 makes a second quote |
| `proposal.cfg` with `MCProposal` | two conversations of one process, two quotes, an injected and a clean item, three events, two crashes | no injected context is attached; every verdict given is logged |
| `chat.cfg` | `ChatClient` itself: four turns, two timeouts, two failures | one turn at a time, replies under their messages, the buttons come back |
| `service_calls.cfg` | `ServiceCalls` itself: two operator calls of any of three tools, two faults | one id along each chain, writes accounted for, every call ends |
| `deal_flow.cfg` with `MCDealFlow` | two sellers, terms that need approval and terms that do not, two requests, two tokens, three quotes, two failures | nothing out without its approval, every email with a file and a grant |

Bounds. Tokens, requests, versions, quotes and emails are bounded by the size of
a constant or by `MaxEmails`, `MaxVersion`, `MaxQuotes`; crashes, restarts and lost answers
by `MaxCrashes` and `MaxFailures`. Two tokens, two addresses of one mailbox and one of
another are what the matching rules tell apart; two clients beside an
approver are what a race needs; a second email is a repeated one; with two
crashes (`send_gate`, `approval`, `opportunity`, `proposal`) the second falls into
the recovery from the first. Two edits of a record
are the caller's and one by somebody else; two seconds tell same and later;
two quotes are what a line can be mixed from. Prices in `MCQuoteDraft` are a
thousandth of the catalogue's, for TLC's integers. In `chat`, two timed-out turns can run
beside a third, and a fourth message meets a lost session.
In `proposal`, two screenings race and a third follows a crash; the conversations are alike and
reduced by symmetry, which is sound for its invariants.
In `service_calls` two operator calls suffice for servers to wait for each
other, since documents, salesforce, pricing is the whole chain, and for two
requests with one id; with two faults a server dies after an answer was lost.
In `deal_flow` two requests are one per seller, or two of one quote decided
differently, or one about terms given up since; two tokens are one after a
lost one; confirmations are not bounded but by the quotes they make;
sellers, requests and tokens are alike and reduced by symmetry, sound for invariants.
`chat`, `approval`, `service_calls` and `deal_flow` do not check deadlock: a seller or
an operator may stop, bounds run out, and
over a file that does not parse nothing is left to do. Every violation above is
found well inside these bounds.

Fairness. `send_gate`, `live_quote`, `chat` and `service_calls` run the fair specifications
(`FairSpec`). `send_gate` assumes only that a call that holds the lock runs on
(straight-line code, no waiting) unless its process dies; `live_quote`
that a call under way is answered or fails; `chat` that a callout is
answered, fails or times out and the component's `await` then continues; `service_calls`
that the servers go on with some call while there is one they can go on with. Nobody is obliged to call, approve,
retry, crash or expire.

## Findings

Comments and documents of the repository promise these.

1. A send token can send twice when `approve_pending.py` rewrites the token
   file it read before the send (`send_gate_double`).
2. A quote draft is created twice when a retry spells a number as the other of
   int and float: the signature forgives it, the key does not (`quote_draft_duplicate`).

More that no run is kept for. A live quote is created twice when Salesforce's
answer is lost, or the process dies, between `Quote.create` and the ledger;
`EveryDuplicateHasACause` says that for an instance with a ledger of its own, and
a key spelled one way, nothing else does it. Every delegation to the risk agent files a
request of its own, also about a quote that has one; a delegation repeated after its
answer was lost leaves a second file (`WritesAreAccounted` bounds those). "Content
that generate_proposal did not actually produce" is refused
(`documents/client.py:182-191`) only as long as its sender does not compute
a sha256: nothing but the agent's instructions keeps it, or another client of
`server.py`, from attaching a text with its own checksum. All locks are per process like the send
gate's: with a server per decider two decisions of one request are both
accepted (`DecisionIsFinal`), and with a server per caller two updates on one
version are (`NoStaleOverwrite`). Both properties are checked and proved for one
process and fail when `ProcessOf` gives each client its own; that, and a request
dropped by another process's write, are described here and not run.
`SpentTokenIsSent` speaks of the time before the first crash: a crash between the mark and the
log does spend a token without an email. And without a residency `list_eligible_bundles`
returns the EU bundle, which `price_bundle` then refuses;
the listing keeps no state and is not modelled.

## What is proved

Every theorem here is also checked by a run on a small instance, and so was
every inductive invariant before its proof. Each holds for any sizes of the
constants: any numbers of clients, records, quotes, calls, failures and crashes.
A proof rests on the assumption named in its component's module (`...Assumption`:
the shapes of the constants) and on nothing else but what is said below.

`SingleLock` stands for one process: all clients share one lock. It is what
the code provides when agents, tools and deciders run in one process, and it is
a hypothesis only where a lost update would break the property. The argument
is then the same in every store: whoever is between reading and
writing is alone, so what it decided is still right when it is written.

**`SendGateProofs`**

- `TypeCorrect`: `Spec => [](TypeOK /\ Carries)`. `TypeOK` is not inductive by
  itself: `FillLog` appends `mail[c]` to the log, which is an email only
  because a call that has come to the log carries one. That is `Carries`.
- `OneOpenTokenTheorem`: `OneOpenTokenPerPair`. Inductive given `TypeOK`: a mint
  happens only on a file without a match, every other write keeps or uses tokens.
  It needs no lock, so it holds for agents and script in two processes as well: a
  lost update loses tokens and never doubles them.
- `EmailOnlyAsGrantedTheorem`: by `GrantInv`, that every authorized token in the
  file and in every pending write, and every email under way, is backed by a
  grant. No lock needed either.
- `AtMostOneEmailTheorem`: `AtMostOneEmailPerToken`, under `SingleLock`. `SpendInv`
  says at most one client is in a call; clients outside one have nothing to
  write; stored tokens were minted; the token of a delivered email is used, or
  gone and never minted again, in the file and in the write under way; and an
  email under way has a token no email has used.
  Without `SingleLock` it is false: `send_gate_double`.
- `GateImplementsAuthorizationTheorem`: the refinement of `SendAuthorization`,
  under `SingleLock`. The abstract file is the one that will be there when the
  rewrite under way is done, so the step that truncates is the abstract step.
  `RewriteInv` says what that writer decided (a mint, an approval, a spend or a
  rewrite as read), on which file, and that a token is used only once authorized.
- `SpentTokenIsSentTheorem`: `SpentTokenIsSent`, under `SingleLock`. Until the
  first crash `LogInv` holds: the call at the log carries the log of everything
  delivered and its own email, and the log is truncated exactly while it is.

**`DealFlowProofs`**, with any numbers of processes

- `TypeCorrect`: `TypesInv` adds to `TypeOK` that the org keeps within its bound,
  that the ledger names quotes of the org, and that a minted token has a quote.
- `ApprovedBeforeOutTheorem`: the property looks only at what is out, so the
  invariant follows the way there. `OwnRequests`: the requests a conversation was
  told of were filed, about its own quote. `SeenWasFiled`: what was read of a
  request was filed, so nobody files it again for another quote. Hence whoever
  reads APPROVED has its own quote cleared, `PastIsCleared`, and a cleared
  quote stays so (`ClearedStays`); only quotes of such conversations are
  attached or emailed (`OutMoves`), which is `OutInv`.
- `EmailsTheorem`: `SentInv` says that every email has its file, its grant, and
  a token that is spent for good and is no other email's. The emails of a quote
  then map one to one to its grants.

**`ApprovalProofs`**

- `TypeCorrect`, with any number of processes.
- `DecisionIsFinalTheorem`, under `SingleLock`: `DecisionInv` says the writer is
  alone, adds a request never stored before or decides one that is pending in
  the file as it still is, and ids answered for were stored.
- `StoreImplementsDecisionTheorem`, under `SingleLock`: from the same invariant,
  each step of the service is a step of `ApprovalDecision` or none; a crash
  while the file is truncated is its loss of requests.

**`OpportunityProofs`**

- `TypeCorrect`, with any number of processes, with `Calling`: whoever is in a
  call has one.
- `NoStaleOverwriteTheorem`, `AnswersAreTrueTheorem`, under `SingleLock`:
  `RecordInv` says that the writer is alone and decided on the version that
  still is; that the ledger is the calls applied; that nobody knows a version
  to come; and why each answer was given. A conflict stays
  true because versions only rise.
- `StoreImplementsVersionedRecordTheorem`, under `SingleLock`: reading, checking
  and writing are one compare-and-set, retries and crashes included.

**`ProposalProofs`**

- `TypeCorrect`: `TypeInv` counts the calls that have a verdict to log beside the
  events logged, else the bound on events would not be kept.
- `NoInjectionAttachedTheorem`: with any number of processes and whatever happens
  to the log, under the two assumptions on the language model that `Proposal`
  names. Cleared items hold no injection, so no draft does (`NothingInjected`),
  and what is attached has the checksum of a draft.
- `EveryVerdictLoggedTheorem`, under `SingleLock`: the one call that writes
  carries every verdict given so far, its own last. The conversations are
  finitely many, as `ProposalAssumption` says.

**`ServiceCallsProofs`**

- `TypeCorrect` and `OneChainOneIdTheorem`: a remote call is the only one its
  caller made, the caller is an operator's call past its own
  checks, and the hop was sent its id (`HopInv`, `OneHop`, `IdInv`: `ChainInv`).
- `WritesAreAccountedTheorem`: what has written has ended and was granted
  (`WriteInv`); a loop runs one call (`LoopOne`), so a step fails at most one caller
  of a write (`Deserted`) or one writer that had written (`Undone`), never both and
  not without a fault, and there are no more of these than faults (`OrphanInv`). It assumes `OnlyDocumentsAttaches`: operators do not call
  `attach_content_version` themselves. Nobody compares their checksum if they do; in the
  code only `documents/client.py` calls it.

**`LiveUpdateProofs`**

- `TypeCorrect`: `TypeInv` adds that a call under way has a key made of what was
  read last, and that there is room for the edits it still has to make.
- `StaleReadRefusedTheorem`: an action property. `StampInv` orders the times:
  what was read is no later than any edit not read, which is no later than
  the record's stamp. A call passes the check only if stamp and version read are
  equal, so everything between is of that second.
- `AnsweredIsWrittenTheorem`: `DoneInv` says how far a call has written by where
  it is, and that a key in the ledger is written; edits are never taken back.
- `ConfirmedNotMissingTheorem`: a record has the value of its last edit, when a
  call made that (`LastInv`). It assumes `"" \notin Region`: a region that was
  stated is not the blank that stands for none.

**`ClientProofs`**, about three modules. `LiveQuote` is extended; `ChatClient`
and `QuoteDraft` are instances, `Chat` and `Draft`, as their names are not
disjoint. An instance's assumption cannot be cited in a proof, so what is used of it is a
hypothesis, `ChatBounds` and `DraftBounds`; both follow from the modules' own
assumptions.

- `LiveTypeCorrect`, `AnswersStay`: `LiveInv` adds to `TypeOK` that there is room
  in the org for every call under way (`Room`; else the bound on quotes would not be
  kept), that a call about to write its ledger holds a record for its key
  (`Held`), that a ledger names records for their keys (`Known`), and that
  a call is under way only for a key its ledger does not have (`Unanswered`).
  The last is why no answer is replaced by another while its ledger is there, and
  each time the ledger goes, removed or truncated, it takes at most one answer of a
  key with it.
- `DuplicatesHaveACause`: `EveryDuplicateHasACause`, which counts. Given `LiveInv`
  it is inductive: a new quote of a key makes an instance aware of the key that was
  not (`Unanswered`), unless its answer is lost; and an instance stops being aware only
  by a crash or a restart. Each of these is counted as a failure. The instances are finitely many, as
  `LiveQuoteAssumption` says: they are the processes that ever ran.
- `ChatTypeCorrect`, `ChatOneTurnAtATime`, `ChatRepliesBelong`: by `ChatInv`. The
  component waits for one call (`OneCall`), about the message shown last, on
  the seller's session (`SentIsShown`); a callout that was answered has
  its reply in that session's log (`AnswerLogged`); every turn the backend
  works on is the one waited for or one whose callout timed out
  (`OthersTimedOut`). So a reply is shown only while its own message is the last.
- `SignaturesAreGenuine`, `DraftTypeCorrect`, `DraftsArePriced`: `DraftInv` says that
  every priced quote is signed (`PricedSigned`), that a line, whatever was done to it,
  has the signature of a priced one (`SignatureIsPriced`), and that drafts are
  stored under their keys, numbered from 1 (`DraftsStored`). `SameSignature`
  is the heart: lines with equal signatures have equal terms, to the cent and
  the hundredth, because the canonical form drops no more than that.
  The language model is taken to have no way to compute an HMAC; that a signature
  stands for its content is how `Sign` is modelled.

Only model-checked, because it is out of the prover's reach: liveness under
fairness, `EveryCallReturns` (`send_gate`), `EveryCallEnds` (`live_quote`,
`service_calls`) and `LoadingEnds` (`chat`). And the two properties
that are violated are TLC's to refute. What the pricing engine computes for given
numbers is evaluated by TLC on its instances; the proofs use only that it signs what
it returns.

## Not modelled, and the plan

The modules of the plan are written, and every safety property and every
refinement that a passing run checks is proved for all constants. What remains to be
done is outside these tools: proofs of the liveness properties.

Left out of components that are otherwise modelled: `list_eligible_bundles`, which
`price_bundle` does not rely on; the free slots of the proposal template; the status rail of the chat
component, which only reads, and whose freshness is decided by Lightning's cache;
the orchestrator's recall of memories, which only words a question; the files
of the fixture quote and content version stores, which have the same
discipline as `OpportunityStore`; a caller of the overlay that
outlives a container restart, since no caller in the repository does.

Left out for good: the language model's wording and judgement, HTML templates,
observability (logging), Salesforce metadata, deployment scripts. Their state
is not the program's or their content is not control.
