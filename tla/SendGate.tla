-------------------------------- MODULE SendGate --------------------------------
(***************************************************************************)
(* mcp-services/communication: the send tokens and the email log, both     *)
(* JSON files, and the calls that read and rewrite them whole under a      *)
(* module-level threading.Lock.  The lock guards one loaded copy of        *)
(* client.py inside one process, the files are shared by every process     *)
(* that runs from the same directory: the agent process                    *)
(* (agents/proposal_communication/agent.py), approve_pending.py, the       *)
(* /admin endpoint of web_app.py, a locally started server.py.             *)
(*                                                                         *)
(* A call takes the lock, reads and decides in one step (nothing outside   *)
(* its process sees the difference), then rewrites the file in two:        *)
(* Path.write_text truncates the file and then fills it.  A reader in      *)
(* between gets a JSONDecodeError.  The lock is held from the first step   *)
(* of a call to the last, so a client holds it exactly while its pc is not *)
(* "idle".                                                                 *)
(***************************************************************************)
EXTENDS Naturals, Sequences

CONSTANTS Agent,        \* callers of request_send_token and send_email
          Approver,     \* callers of authorize_send: scripts, /admin requests
          ProcessOf,    \* the process (loaded copy of client.py) of a client
          TokenId,      \* what uuid4 may draw; bounds the mints
          Quote,
          Address,      \* recipient addresses as spelled by the caller
          Lower,        \* str.lower on addresses
          Allowed,      \* lower-case addresses inside ALLOWED_EMAIL_DOMAIN
          NoEmail,      \* "this call sends nothing"
          MaxEmails,    \* bound on the emails sent
          MaxCrashes    \* bound on crashes and restarts

Client == Agent \cup Approver

VARIABLES tokens,       \* _send_tokens.local.json: dict: token id -> record
          tokensWhole,  \* FALSE while the file is truncated
          sent,         \* _sent_emails.local.json, a list
          sentWhole,    \* FALSE while the file is truncated
          pc,           \* where each client is in its call
          next,         \* the dict a client is about to write
          mail,         \* the email of a send under way, else NoEmail
          nextLog,      \* the list a client is about to write
          todo,         \* the ids approve_pending.py still has to authorize
          minted,       \* history: ids that reached the file
          granted,      \* history: what humans approved
          delivered,    \* history: every email appended to the log
          crashes       \* crashes and restarts so far

store == <<tokens, tokensWhole, sent, sentWhole>>
work == <<pc, next, mail, nextLog, todo>>
history == <<minted, granted, delivered, crashes>>
vars == <<store, work, history>>

--------------------------------------------------------------------------------
(* The stored records. *)

Status == {"PENDING", "AUTHORIZED"}

Token == [quote_id : Quote, recipient_email : Address,
          status : Status, used : BOOLEAN]

IsStore(s) == DOMAIN s \subseteq TokenId /\ s \in [DOMAIN s -> Token]

Email == [token_id : TokenId, quote : Quote, to : Address]

Grant == [token_id : TokenId, quote : Quote, mailbox : Address]

ASSUME SendGateAssumption ==
    /\ Agent \cap Approver = {}
    /\ Lower \in [Address -> Address]
    /\ Allowed \subseteq Address
    /\ DOMAIN ProcessOf = Client
    /\ MaxEmails \in Nat
    /\ MaxCrashes \in Nat
    /\ NoEmail \notin Email

NoTokens == [t \in {} |-> {}]

\* tokens[token_id] = record
Put(s, t, rec) == [u \in DOMAIN s \cup {t} |-> IF u = t THEN rec ELSE s[u]]

\* Faulty variants, named after the definition they could stand for, exist
\* only to show that the properties notice them.
NewToken_OtherStatus(q, r) ==
    [quote_id |-> q, recipient_email |-> r, status |-> "REQUESTED", used |-> FALSE]

NewToken(q, r) ==
    [quote_id |-> q, recipient_email |-> r, status |-> "PENDING", used |-> FALSE]

Matches_ExactSpelling(s, q, r) ==
    {t \in DOMAIN s : /\ s[t].quote_id = q
                      /\ s[t].recipient_email = r
                      /\ ~s[t].used}

\* The unused tokens of one quote and one mailbox, whatever the spelling.
Matches(s, q, r) ==
    {t \in DOMAIN s : /\ s[t].quote_id = q
                      /\ Lower[s[t].recipient_email] = Lower[r]
                      /\ ~s[t].used}

MaySend_AnyRecipient(s, q, to, t) ==
    /\ t \in DOMAIN s
    /\ s[t].status = "AUTHORIZED" /\ ~s[t].used
    /\ s[t].quote_id = q
    /\ Lower[to] \in Allowed

MaySend_Pending(s, q, to, t) ==
    /\ t \in DOMAIN s
    /\ ~s[t].used
    /\ s[t].quote_id = q
    /\ Lower[s[t].recipient_email] = Lower[to]
    /\ Lower[to] \in Allowed

\* The checks of send_email, in its order.
MaySend(s, q, to, t) ==
    /\ t \in DOMAIN s
    /\ s[t].status = "AUTHORIZED"
    /\ ~s[t].used
    /\ s[t].quote_id = q
    /\ Lower[s[t].recipient_email] = Lower[to]
    /\ Lower[to] \in Allowed

Pending(s) == {t \in DOMAIN s : s[t].status = "PENDING"}

--------------------------------------------------------------------------------
Init ==
    /\ tokens = NoTokens /\ tokensWhole = TRUE
    /\ sent = <<>> /\ sentWhole = TRUE
    /\ pc = [c \in Client |-> "idle"]
    /\ next = [c \in Client |-> NoTokens]
    /\ mail = [c \in Client |-> NoEmail]
    /\ nextLog = [c \in Client |-> <<>>]
    /\ todo = [c \in Client |-> {}]
    /\ minted = {} /\ granted = {} /\ delivered = <<>> /\ crashes = 0

LockFree_NoLock(c) == pc[c] = "idle"

LockFree_TokensOnly(c) ==
    /\ pc[c] = "idle"
    /\ \A d \in Client : ProcessOf[d] = ProcessOf[c] => pc[d] \notin {"truncate", "fill"}

\* "with _lock": the lock of the client's own process, and of no other.
LockFree(c) == \A d \in Client : ProcessOf[d] = ProcessOf[c] => pc[d] = "idle"

\* The client has read the file and will write s back; m is the email the
\* call sends once the tokens are written.
WillWrite(c, s, m) ==
    /\ pc' = [pc EXCEPT ![c] = "truncate"]
    /\ next' = [next EXCEPT ![c] = s]
    /\ mail' = [mail EXCEPT ![c] = m]

\* uuid4 never repeats an id, on disk or about to be written.
Fresh(t) == t \notin minted /\ \A c \in Client : t \notin DOMAIN next[c]

\* request_send_token: a call that finds a match returns it and writes
\* nothing, so only the minting call is a step.
RequestSendToken(c, q, r) ==
    /\ LockFree(c) /\ tokensWhole
    /\ Matches(tokens, q, r) = {}
    /\ \E t \in TokenId : /\ Fresh(t)
                          /\ WillWrite(c, Put(tokens, t, NewToken(q, r)), NoEmail)
    /\ UNCHANGED <<store, nextLog, todo, history>>

\* send_email up to its first write; a refused call changes nothing.
SendEmail(c, q, to, t) ==
    /\ Len(delivered) < MaxEmails
    /\ LockFree(c) /\ tokensWhole
    /\ MaySend(tokens, q, to, t)
    /\ WillWrite(c, [tokens EXCEPT ![t].used = TRUE],
                 [token_id |-> t, quote |-> q, to |-> to])
    /\ UNCHANGED <<store, nextLog, todo, history>>

\* approve_pending.py takes its list of pending tokens without the lock and
\* works through all of it (--all) or one of it (--latest); an explicit
\* id, there or from /admin, is not looked up first.
ChooseTokens(c) ==
    /\ pc[c] = "idle" /\ todo[c] = {}
    /\ \/ tokensWhole /\ todo' = [todo EXCEPT ![c] = Pending(tokens)]
       \/ \E t \in TokenId : todo' = [todo EXCEPT ![c] = {t}]
    /\ UNCHANGED <<store, pc, next, mail, nextLog, history>>

\* authorize_send writes the file back even when the token is not pending.
AuthorizeSend(c, t) ==
    /\ t \in todo[c]
    /\ LockFree(c) /\ tokensWhole
    /\ t \in DOMAIN tokens
    /\ IF tokens[t].status = "PENDING"
       THEN /\ WillWrite(c, [tokens EXCEPT ![t].status = "AUTHORIZED"], NoEmail)
            /\ granted' = granted \cup
                 {[token_id |-> t, quote |-> tokens[t].quote_id,
                   mailbox |-> Lower[tokens[t].recipient_email]]}
       ELSE WillWrite(c, tokens, NoEmail) /\ UNCHANGED granted
    /\ todo' = [todo EXCEPT ![c] = @ \ {t}]
    /\ UNCHANGED <<store, nextLog, minted, delivered, crashes>>

\* An unknown token, or a file caught truncated, ends the whole script.
AuthorizeFails(c, t) ==
    /\ t \in todo[c]
    /\ LockFree(c)
    /\ ~tokensWhole \/ t \notin DOMAIN tokens
    /\ todo' = [todo EXCEPT ![c] = {}]
    /\ UNCHANGED <<store, pc, next, mail, nextLog, history>>

TruncateTokens(c) ==
    /\ pc[c] = "truncate"
    /\ tokens' = NoTokens /\ tokensWhole' = FALSE
    /\ minted' = minted \cup DOMAIN next[c]
    /\ pc' = [pc EXCEPT ![c] = "fill"]
    /\ UNCHANGED <<sent, sentWhole, next, mail, nextLog, todo,
                   granted, delivered, crashes>>

\* What filling a truncated file leaves: a readable file, unless a second
\* process truncated and filled it too, and the end of its longer text
\* sticks out behind this one.
Rewritten(whole) == IF whole THEN BOOLEAN ELSE {TRUE}

\* The call returns and drops the lock.
Return(c) ==
    /\ pc' = [pc EXCEPT ![c] = "idle"]
    /\ next' = [next EXCEPT ![c] = NoTokens]
    /\ mail' = [mail EXCEPT ![c] = NoEmail]
    /\ nextLog' = [nextLog EXCEPT ![c] = <<>>]

\* _write_tokens is done: a send goes on to the log, any other call returns.
FillTokens(c) ==
    /\ pc[c] = "fill"
    /\ tokens' = next[c] /\ tokensWhole' \in Rewritten(tokensWhole)
    /\ IF mail[c] = NoEmail
       THEN Return(c)
       ELSE /\ pc' = [pc EXCEPT ![c] = "readLog"]
            /\ UNCHANGED <<next, mail, nextLog>>
    /\ UNCHANGED <<sent, sentWhole, todo, history>>

ReadLog_Waits(c) ==
    /\ pc[c] = "readLog" /\ sentWhole
    /\ nextLog' = [nextLog EXCEPT ![c] = Append(sent, mail[c])]
    /\ pc' = [pc EXCEPT ![c] = "truncateLog"]
    /\ UNCHANGED <<next, mail, store, todo, history>>

\* _read_sent: a truncated log raises, and the token stays used.
ReadLog(c) ==
    /\ pc[c] = "readLog"
    /\ IF sentWhole
       THEN /\ nextLog' = [nextLog EXCEPT ![c] = Append(sent, mail[c])]
            /\ pc' = [pc EXCEPT ![c] = "truncateLog"]
            /\ UNCHANGED <<next, mail>>
       ELSE Return(c)
    /\ UNCHANGED <<store, todo, history>>

TruncateLog(c) ==
    /\ pc[c] = "truncateLog"
    /\ sent' = <<>> /\ sentWhole' = FALSE
    /\ pc' = [pc EXCEPT ![c] = "fillLog"]
    /\ UNCHANGED <<tokens, tokensWhole, next, mail, nextLog, todo, history>>

FillLog(c) ==
    /\ pc[c] = "fillLog"
    /\ sent' = nextLog[c] /\ sentWhole' \in Rewritten(sentWhole)
    /\ delivered' = Append(delivered, mail[c])
    /\ Return(c)
    /\ UNCHANGED <<tokens, tokensWhole, todo, minted, granted, crashes>>

--------------------------------------------------------------------------------
(* Crashes.  A process dies with its lock and its local copies; the files  *)
(* stay as they are, truncated ones included.  A restarted Cloud Run       *)
(* container comes back with no files at all.                              *)

Forget(C) ==
    /\ pc' = [c \in Client |-> IF c \in C THEN "idle" ELSE pc[c]]
    /\ next' = [c \in Client |-> IF c \in C THEN NoTokens ELSE next[c]]
    /\ mail' = [c \in Client |-> IF c \in C THEN NoEmail ELSE mail[c]]
    /\ nextLog' = [c \in Client |-> IF c \in C THEN <<>> ELSE nextLog[c]]
    /\ todo' = [c \in Client |-> IF c \in C THEN {} ELSE todo[c]]

Crash(p) ==
    /\ crashes < MaxCrashes /\ crashes' = crashes + 1
    /\ Forget({c \in Client : ProcessOf[c] = p})
    /\ UNCHANGED <<store, minted, granted, delivered>>

ContainerRestart ==
    /\ crashes < MaxCrashes /\ crashes' = crashes + 1
    /\ Forget(Client)
    /\ tokens' = NoTokens /\ tokensWhole' = TRUE
    /\ sent' = <<>> /\ sentWhole' = TRUE
    /\ UNCHANGED <<minted, granted, delivered>>

--------------------------------------------------------------------------------
Begin(c) ==
    \/ c \in Agent /\ \E q \in Quote, r \in Address : RequestSendToken(c, q, r)
    \/ c \in Agent /\ \E q \in Quote, to \in Address, t \in TokenId :
                         SendEmail(c, q, to, t)
    \/ c \in Approver /\ ChooseTokens(c)
    \/ c \in Approver /\ \E t \in TokenId : AuthorizeSend(c, t)
    \/ c \in Approver /\ \E t \in TokenId : AuthorizeFails(c, t)

\* The steps of a call that holds the lock.
Continue(c) ==
    \/ TruncateTokens(c)
    \/ FillTokens(c)
    \/ ReadLog(c)
    \/ TruncateLog(c)
    \/ FillLog(c)

Next ==
    \/ \E c \in Client : Begin(c) \/ Continue(c)
    \/ \E c \in Client : Crash(ProcessOf[c])
    \/ ContainerRestart

Spec == Init /\ [][Next]_vars

\* A call that holds the lock runs to its end unless its process dies;
\* nobody is obliged to call.
FairSpec == Spec /\ \A c \in Client : WF_vars(Continue(c))
--------------------------------------------------------------------------------
(* Properties. *)

Stage == {"idle", "truncate", "fill", "readLog", "truncateLog", "fillLog"}

\* Every variable has its type: both files hold whole records, the ids a
\* script works on are ids, and a client carries at most one email.
TypeOK ==
    /\ IsStore(tokens) /\ tokensWhole \in BOOLEAN
    /\ sent \in Seq(Email) /\ sentWhole \in BOOLEAN
    /\ pc \in [Client -> Stage]
    /\ DOMAIN next = Client /\ \A c \in Client : IsStore(next[c])
    /\ mail \in [Client -> Email \cup {NoEmail}]
    /\ nextLog \in [Client -> Seq(Email)]
    /\ todo \in [Client -> SUBSET TokenId]
    /\ minted \subseteq TokenId /\ granted \subseteq Grant
    /\ delivered \in Seq(Email) /\ crashes \in Nat

\* send_email refuses a token that "has already been used": whatever the
\* calls, their order and the crashes between their steps, no token is
\* behind two emails.
AtMostOneEmailPerToken ==
    \A i, j \in 1..Len(delivered) :
        delivered[i].token_id = delivered[j].token_id => i = j

\* An email leaves only to a mailbox, for a quote and under a token that a
\* human approved together, and only inside the allowed domain.
EmailOnlyAsGranted ==
    \A i \in 1..Len(delivered) :
        /\ [token_id |-> delivered[i].token_id, quote |-> delivered[i].quote,
            mailbox |-> Lower[delivered[i].to]] \in granted
        /\ Lower[delivered[i].to] \in Allowed

OneOpenToken(s) ==
    \A t, u \in DOMAIN s :
        /\ ~s[t].used /\ ~s[u].used
        /\ s[t].quote_id = s[u].quote_id
        /\ Lower[s[t].recipient_email] = Lower[s[u].recipient_email]
        => t = u

\* request_send_token is idempotent per quote and mailbox: no store, on
\* disk or about to be written, has two unused tokens for one pair.
OneOpenTokenPerPair ==
    OneOpenToken(tokens) /\ \A c \in Client : OneOpenToken(next[c])

\* The tokens as the callers see them: while the file is being rewritten,
\* what the writer is filling it with; nothing when that writer is gone.
View ==
    IF tokensWhole THEN tokens
    ELSE IF \E c \in Client : pc[c] = "fill"
         THEN next[CHOOSE c \in Client : pc[c] = "fill"]
         ELSE NoTokens

Sending(t) ==
    \E c \in Client : mail[c] # NoEmail /\ mail[c].token_id = t

Delivered(t) == \E i \in 1..Len(delivered) : delivered[i].token_id = t

\* Nothing but a crash comes between a token's use and its email: a used
\* token has its email in the log, or the call that used it still runs.
SpentTokenIsSent ==
    crashes = 0 =>
        /\ \A t \in DOMAIN View : View[t].used => Delivered(t) \/ Sending(t)
        /\ sentWhole => sent = delivered

\* Every call that took the lock gives it back, also when the file it
\* reads was left truncated by a crash.
EveryCallReturns ==
    \A c \in Client : pc[c] # "idle" ~> pc[c] = "idle"

--------------------------------------------------------------------------------
(* The gate implements SendAuthorization. *)

LifeOf(t) ==
    IF t \in DOMAIN View
    THEN IF Delivered(t) THEN "sent"
         ELSE IF View[t].used THEN "spent"
         ELSE IF View[t].status = "AUTHORIZED" THEN "authorized"
         ELSE "pending"
    ELSE IF t \in minted THEN "lost" ELSE "none"

Authorization ==
    INSTANCE SendAuthorization WITH
        state <- [t \in TokenId |-> LifeOf(t)],
        grants <- granted,
        outbox <- delivered,
        Mailbox <- Lower

\* Each step of a call on the files is one step of the abstract gate or
\* none: a token only moves forward, and loss is the only other move.
GateImplementsAuthorization == Authorization!Spec
================================================================================
