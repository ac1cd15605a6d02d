----------------------------- MODULE SendGateProofs -----------------------------
(***************************************************************************)
(* Proofs about SendGate, for any number of clients, tokens, quotes and    *)
(* addresses and any number of crashes.                                    *)
(***************************************************************************)
EXTENDS SendGate, TLAPS

--------------------------------------------------------------------------------
(* Stores stay stores under the updates the calls make. *)

\* Reading a record of a store gives a token.
LEMMA StoreRecord ==
    ASSUME NEW s, IsStore(s), NEW t \in DOMAIN s
    PROVE  s[t] \in Token /\ t \in TokenId
  BY DEF IsStore

\* tokens[token_id] = record keeps a store a store and adds one key.
LEMMA PutStore ==
    ASSUME NEW s, IsStore(s), NEW t \in TokenId, NEW rec \in Token
    PROVE  /\ IsStore(Put(s, t, rec))
           /\ DOMAIN Put(s, t, rec) = DOMAIN s \cup {t}
           /\ Put(s, t, rec)[t] = rec
           /\ \A u \in DOMAIN s \ {t} : Put(s, t, rec)[u] = s[u]
  BY DEF IsStore, Put

\* Marking a token used changes that field of that token only.
LEMMA UseToken ==
    ASSUME NEW s, IsStore(s), NEW t \in DOMAIN s
    PROVE  LET r == [s EXCEPT ![t].used = TRUE]
           IN  /\ IsStore(r)
               /\ DOMAIN r = DOMAIN s
               /\ \A u \in DOMAIN s :
                     /\ r[u].quote_id = s[u].quote_id
                     /\ r[u].recipient_email = s[u].recipient_email
                     /\ r[u].status = s[u].status
                     /\ u # t => r[u].used = s[u].used
               /\ r[t].used
  BY DEF IsStore, Token, Status

\* Authorizing a token changes its status only.
LEMMA AuthorizeToken ==
    ASSUME NEW s, IsStore(s), NEW t \in DOMAIN s
    PROVE  LET r == [s EXCEPT ![t].status = "AUTHORIZED"]
           IN  /\ IsStore(r)
               /\ DOMAIN r = DOMAIN s
               /\ \A u \in DOMAIN s :
                     /\ r[u].quote_id = s[u].quote_id
                     /\ r[u].recipient_email = s[u].recipient_email
                     /\ r[u].used = s[u].used
                     /\ u # t => r[u].status = s[u].status
  BY DEF IsStore, Token, Status

\* The empty sequence is a sequence over any set.
LEMMA EmptySeq == \A S : <<>> \in Seq(S)
  OBVIOUS

\* Appending to a log keeps what is in it and adds one email at the end.
LEMMA AppendSeq ==
    ASSUME NEW S, NEW s \in Seq(S), NEW e \in S
    PROVE  /\ Append(s, e) \in Seq(S)
           /\ Len(Append(s, e)) = Len(s) + 1 /\ Len(s) \in Nat
           /\ Append(s, e)[Len(s) + 1] = e
           /\ \A i \in 1..Len(s) : Append(s, e)[i] = s[i]
  OBVIOUS

\* An empty or missing token file is a store without tokens.
LEMMA NoTokensStore == IsStore(NoTokens) /\ DOMAIN NoTokens = {}
  BY DEF IsStore, NoTokens

--------------------------------------------------------------------------------
(* Type correctness. *)

\* The gate starts well typed.
LEMMA InitTypeOK == Init => TypeOK
  BY NoTokensStore DEF Init, TypeOK, IsStore, Stage

\* What a call may write is typed if it was typed when decided.
LEMMA WillWriteTypeOK ==
    ASSUME TypeOK, NEW c \in Client, NEW s, IsStore(s),
           NEW m \in Email \cup {NoEmail}, WillWrite(c, s, m),
           UNCHANGED <<store, nextLog, minted, delivered, crashes>>,
           todo' \in [Client -> SUBSET TokenId], granted' \subseteq Grant
    PROVE  TypeOK'
  BY DEF TypeOK, WillWrite, Stage, store

\* A crash or a container restart leaves well-typed files and idle clients.
LEMMA ForgetTypeOK ==
    ASSUME TypeOK, NEW C, Forget(C), UNCHANGED <<minted, granted, delivered>>,
           crashes' = crashes + 1,
           UNCHANGED store \/ (/\ tokens' = NoTokens /\ tokensWhole' = TRUE
                               /\ sent' = <<>> /\ sentWhole' = TRUE)
    PROVE  TypeOK'
  <1>1. IsStore(tokens') /\ tokensWhole' \in BOOLEAN
        /\ sent' \in Seq(Email) /\ sentWhole' \in BOOLEAN
    BY NoTokensStore, EmptySeq DEF TypeOK, store
  <1>2. pc' \in [Client -> Stage] /\ mail' \in [Client -> Email \cup {NoEmail}]
    BY DEF TypeOK, Forget, Stage
  <1>3. DOMAIN next' = Client /\ \A c \in Client : IsStore(next'[c])
    BY NoTokensStore DEF TypeOK, Forget
  <1>4. nextLog' \in [Client -> Seq(Email)] /\ todo' \in [Client -> SUBSET TokenId]
    BY DEF TypeOK, Forget
  <1>5. minted' \subseteq TokenId /\ granted' \subseteq Grant
        /\ delivered' \in Seq(Email) /\ crashes' \in Nat
    BY DEF TypeOK
  <1> QED
    BY <1>1, <1>2, <1>3, <1>4, <1>5 DEF TypeOK

\* The steps that start a call or choose tokens to approve keep the types.
LEMMA BeginTypeOK ==
    ASSUME TypeOK, NEW c \in Client, Begin(c)
    PROVE  TypeOK'
  <1>1. ASSUME NEW q \in Quote, NEW r \in Address, RequestSendToken(c, q, r)
        PROVE  TypeOK'
    <2>1. PICK t \in TokenId : WillWrite(c, Put(tokens, t, NewToken(q, r)), NoEmail)
      BY <1>1 DEF RequestSendToken
    <2>2. IsStore(Put(tokens, t, NewToken(q, r)))
      <3>1. NewToken(q, r) \in Token
        BY DEF NewToken, Token, Status
      <3> QED
        BY <3>1, PutStore DEF TypeOK
    <2> QED
      BY <1>1, <2>1, <2>2, WillWriteTypeOK DEF RequestSendToken, TypeOK, history
  <1>2. ASSUME NEW q \in Quote, NEW to \in Address, NEW t \in TokenId,
               SendEmail(c, q, to, t)
        PROVE  TypeOK'
    <2> DEFINE e == [token_id |-> t, quote |-> q, to |-> to]
    <2>1. e \in Email
      BY DEF Email
    <2>2. IsStore([tokens EXCEPT ![t].used = TRUE])
      BY <1>2, UseToken DEF SendEmail, MaySend, TypeOK
    <2> QED
      BY <1>2, <2>1, <2>2, WillWriteTypeOK DEF SendEmail, TypeOK, history
  <1>3. ASSUME ChooseTokens(c)
        PROVE  TypeOK'
    <2>1. todo' \in [Client -> SUBSET TokenId]
      <3>1. Pending(tokens) \subseteq TokenId
        BY DEF Pending, TypeOK, IsStore
      <3>2. \E S \in SUBSET TokenId : todo' = [todo EXCEPT ![c] = S]
        BY <1>3, <3>1 DEF ChooseTokens
      <3> QED
        BY <3>2 DEF TypeOK
    <2> QED
      BY <1>3, <2>1 DEF ChooseTokens, TypeOK, store, history
  <1>4. ASSUME NEW t \in TokenId, AuthorizeSend(c, t)
        PROVE  TypeOK'
    <2>1. todo' \in [Client -> SUBSET TokenId]
      BY <1>4 DEF AuthorizeSend, TypeOK
    <2>2. CASE tokens[t].status = "PENDING"
      <3>1. granted' \subseteq Grant
        BY <1>4, <2>2, StoreRecord, SendGateAssumption
           DEF AuthorizeSend, TypeOK, Grant, Token
      <3>2. IsStore([tokens EXCEPT ![t].status = "AUTHORIZED"])
        BY <1>4, AuthorizeToken DEF AuthorizeSend, TypeOK
      <3> QED
        BY <1>4, <2>1, <2>2, <3>1, <3>2, WillWriteTypeOK DEF AuthorizeSend
    <2>3. CASE tokens[t].status # "PENDING"
      BY <1>4, <2>1, <2>3, WillWriteTypeOK DEF AuthorizeSend, TypeOK
    <2> QED
      BY <2>2, <2>3
  <1>5. ASSUME NEW t \in TokenId, AuthorizeFails(c, t)
        PROVE  TypeOK'
    BY <1>5 DEF AuthorizeFails, TypeOK, store, history
  <1> QED
    BY <1>1, <1>2, <1>3, <1>4, <1>5 DEF Begin

\* A call that returns leaves its client with nothing to write or send.
LEMMA ReturnTypeOK ==
    ASSUME TypeOK, NEW c \in Client, Return(c)
    PROVE  /\ pc' \in [Client -> Stage]
           /\ DOMAIN next' = Client /\ \A d \in Client : IsStore(next'[d])
           /\ mail' \in [Client -> Email \cup {NoEmail}]
           /\ nextLog' \in [Client -> Seq(Email)]
  BY NoTokensStore DEF TypeOK, Return, Stage

\* The rewriting steps of a call keep the types, given that a call that has
\* come to the log carries an email.
LEMMA ContinueTypeOK ==
    ASSUME TypeOK, NEW c \in Client, Continue(c),
           pc[c] \in {"readLog", "truncateLog", "fillLog"} => mail[c] # NoEmail
    PROVE  TypeOK'
  <1>1. CASE TruncateTokens(c)
    BY <1>1, NoTokensStore DEF TruncateTokens, TypeOK, Stage, IsStore
  <1>2. CASE FillTokens(c)
    <2>1. IsStore(tokens') /\ tokensWhole' \in BOOLEAN
      BY <1>2 DEF FillTokens, TypeOK, Rewritten
    <2>2. CASE mail[c] = NoEmail
      BY <1>2, <2>1, <2>2, ReturnTypeOK DEF FillTokens, TypeOK, history
    <2>3. CASE mail[c] # NoEmail
      BY <1>2, <2>1, <2>3 DEF FillTokens, TypeOK, history, Stage
    <2> QED
      BY <2>2, <2>3
  <1>3. CASE ReadLog(c)
    <2>1. CASE sentWhole
      <3>1. Append(sent, mail[c]) \in Seq(Email)
        BY <1>3, AppendSeq DEF ReadLog, TypeOK
      <3> QED
        BY <1>3, <2>1, <3>1 DEF ReadLog, TypeOK, Stage, store, history
    <2>2. CASE ~sentWhole
      BY <1>3, <2>2, ReturnTypeOK DEF ReadLog, TypeOK, store, history
    <2> QED
      BY <2>1, <2>2
  <1>4. CASE TruncateLog(c)
    BY <1>4, EmptySeq DEF TruncateLog, TypeOK, Stage, history
  <1>5. CASE FillLog(c)
    <2>1. /\ sent' \in Seq(Email) /\ sentWhole' \in BOOLEAN
          /\ delivered' \in Seq(Email)
      <3>1. Append(delivered, mail[c]) \in Seq(Email)
        BY <1>5, AppendSeq DEF FillLog, TypeOK
      <3>2. nextLog[c] \in Seq(Email)
        BY DEF TypeOK
      <3> QED
        BY <1>5, <3>1, <3>2 DEF FillLog, Rewritten, TypeOK
    <2> QED
      BY <1>5, <2>1, ReturnTypeOK DEF FillLog, TypeOK
  <1> QED
    BY <1>1, <1>2, <1>3, <1>4, <1>5 DEF Continue

\* A call past its token write carries an email: the type of the log needs it.
Carries ==
    \A c \in Client :
        pc[c] \in {"readLog", "truncateLog", "fillLog"} => mail[c] # NoEmail

\* A call that has come to the log carries an email in every reachable state.
LEMMA CarriesInvariant ==
    ASSUME TypeOK, Carries, [Next]_vars
    PROVE  Carries'
  <1> USE DEF Carries
  <1>1. ASSUME NEW c \in Client, Begin(c)
        PROVE  Carries'
    BY <1>1 DEF TypeOK, Begin, RequestSendToken, SendEmail, ChooseTokens,
                AuthorizeSend, AuthorizeFails, WillWrite
  <1>2. ASSUME NEW c \in Client, Continue(c)
        PROVE  Carries'
    BY <1>2 DEF TypeOK, Continue, TruncateTokens, FillTokens, ReadLog,
                TruncateLog, FillLog, Return
  <1>3. ASSUME NEW p, Crash(p)
        PROVE  Carries'
    BY <1>3 DEF TypeOK, Crash, Forget
  <1>4. CASE ContainerRestart
    BY <1>4 DEF TypeOK, ContainerRestart, Forget
  <1>5. CASE UNCHANGED vars
    BY <1>5 DEF vars, work
  <1> QED
    BY <1>1, <1>2, <1>3, <1>4, <1>5 DEF Next

\* Every step of the gate keeps the types.
LEMMA NextTypeOK ==
    ASSUME TypeOK, Carries, [Next]_vars
    PROVE  TypeOK'
  <1>1. ASSUME NEW c \in Client, Begin(c)
        PROVE  TypeOK'
    BY <1>1, BeginTypeOK
  <1>2. ASSUME NEW c \in Client, Continue(c)
        PROVE  TypeOK'
    BY <1>2, ContinueTypeOK DEF Carries
  <1>3. ASSUME NEW p, Crash(p)
        PROVE  TypeOK'
    BY <1>3, ForgetTypeOK DEF Crash
  <1>4. CASE ContainerRestart
    BY <1>4, ForgetTypeOK DEF ContainerRestart
  <1>5. CASE UNCHANGED vars
    BY <1>5 DEF vars, store, work, history, TypeOK
  <1> QED
    BY <1>1, <1>2, <1>3, <1>4, <1>5 DEF Next

\* Every variable of the gate keeps its type in every reachable state.
THEOREM TypeCorrect == Spec => [](TypeOK /\ Carries)
  <1>1. Init => TypeOK /\ Carries
    BY InitTypeOK DEF Init, Carries
  <1>2. TypeOK /\ Carries /\ [Next]_vars => TypeOK' /\ Carries'
    BY NextTypeOK, CarriesInvariant
  <1> QED
    BY <1>1, <1>2, PTL DEF Spec

--------------------------------------------------------------------------------
(* One open token per pair, with any number of processes: every store is   *)
(* a store already on disk, or derived from one by a call that keeps it.   *)

\* request_send_token mints only for a pair without an unused token, so the
\* store it writes still has one per pair at most.
LEMMA MintKeepsOneOpen ==
    ASSUME NEW s, IsStore(s), OneOpenToken(s), NEW q \in Quote, NEW r \in Address,
           Matches(s, q, r) = {}, NEW t \in TokenId
    PROVE  OneOpenToken(Put(s, t, NewToken(q, r)))
  <1>1. PICK rec \in Token : rec = NewToken(q, r)
    BY DEF NewToken, Token, Status
  <1>2. rec.quote_id = q /\ rec.recipient_email = r
    BY <1>1 DEF NewToken
  <1>3. PICK n : n = Put(s, t, rec)
    OBVIOUS
  <1>4. DOMAIN n = DOMAIN s \cup {t} /\ n[t] = rec
    BY <1>3 DEF Put
  <1>5. \A u \in DOMAIN s \ {t} : n[u] = s[u]
    BY <1>3 DEF Put
  <1>6. \A u \in DOMAIN s \ {t} :
           ~(/\ ~n[u].used /\ n[u].quote_id = q
             /\ Lower[n[u].recipient_email] = Lower[r])
    BY <1>5 DEF Matches
  <1>7. OneOpenToken(n)
    BY <1>2, <1>4, <1>5, <1>6 DEF OneOpenToken
  <1> QED
    BY <1>1, <1>3, <1>7

\* Approving or using a token opens no second one for its pair.
LEMMA UpdateKeepsOneOpen ==
    ASSUME NEW s, NEW n, OneOpenToken(s), DOMAIN n = DOMAIN s,
           \A u \in DOMAIN s : /\ n[u].quote_id = s[u].quote_id
                               /\ n[u].recipient_email = s[u].recipient_email
                               /\ ~n[u].used => ~s[u].used
    PROVE  OneOpenToken(n)
  BY DEF OneOpenToken

\* A store without tokens has no two for one pair.
LEMMA NoTokensOneOpen == OneOpenToken(NoTokens)
  BY NoTokensStore DEF OneOpenToken

\* Every step keeps at most one unused token per pair, on disk and about to
\* be written.
LEMMA NextOneOpen ==
    ASSUME TypeOK, OneOpenTokenPerPair, [Next]_vars
    PROVE  OneOpenTokenPerPair'
  <1> USE DEF OneOpenTokenPerPair
  <1>1. ASSUME NEW c \in Client, NEW s, NEW m, WillWrite(c, s, m), OneOpenToken(s),
               UNCHANGED store
        PROVE  OneOpenTokenPerPair'
    <2>1. \A d \in Client : next'[d] \in {s, next[d]}
      BY <1>1 DEF WillWrite, TypeOK
    <2> QED
      BY <1>1, <2>1 DEF store
  <1>2. ASSUME NEW c \in Client, Begin(c)
        PROVE  OneOpenTokenPerPair'
    <2>1. ASSUME NEW q \in Quote, NEW r \in Address, RequestSendToken(c, q, r)
          PROVE  OneOpenTokenPerPair'
      BY <1>1, <2>1, MintKeepsOneOpen DEF RequestSendToken, TypeOK
    <2>2. ASSUME NEW q \in Quote, NEW to \in Address, NEW t \in TokenId,
                 SendEmail(c, q, to, t)
          PROVE  OneOpenTokenPerPair'
      <3> DEFINE n == [tokens EXCEPT ![t].used = TRUE]
      <3>1. t \in DOMAIN tokens /\ UNCHANGED store
        BY <2>2 DEF SendEmail, MaySend
      <3>2. OneOpenToken(n)
        <4>1. IsStore(tokens) /\ OneOpenToken(tokens)
          BY DEF TypeOK
        <4>2. /\ DOMAIN n = DOMAIN tokens
              /\ \A u \in DOMAIN tokens :
                    /\ n[u].quote_id = tokens[u].quote_id
                    /\ n[u].recipient_email = tokens[u].recipient_email
                    /\ ~n[u].used => ~tokens[u].used
          BY <3>1, <4>1, UseToken
        <4> HIDE DEF n
        <4> QED
          BY <4>1, <4>2, UpdateKeepsOneOpen
      <3> QED
        BY <1>1, <2>2, <3>1, <3>2 DEF SendEmail
    <2>3. ASSUME ChooseTokens(c)
          PROVE  OneOpenTokenPerPair'
      BY <2>3 DEF ChooseTokens, store
    <2>4. ASSUME NEW t \in TokenId, AuthorizeSend(c, t)
          PROVE  OneOpenTokenPerPair'
      <3> DEFINE n == [tokens EXCEPT ![t].status = "AUTHORIZED"]
      <3>1. t \in DOMAIN tokens /\ UNCHANGED store
        BY <2>4 DEF AuthorizeSend
      <3>2. OneOpenToken(n)
        <4>1. IsStore(tokens) /\ OneOpenToken(tokens)
          BY DEF TypeOK
        <4>2. /\ DOMAIN n = DOMAIN tokens
              /\ \A u \in DOMAIN tokens :
                    /\ n[u].quote_id = tokens[u].quote_id
                    /\ n[u].recipient_email = tokens[u].recipient_email
                    /\ ~n[u].used => ~tokens[u].used
          BY <3>1, <4>1, AuthorizeToken
        <4> HIDE DEF n
        <4> QED
          BY <4>1, <4>2, UpdateKeepsOneOpen
      <3> QED
        BY <1>1, <2>4, <3>1, <3>2 DEF AuthorizeSend
    <2>5. ASSUME NEW t \in TokenId, AuthorizeFails(c, t)
          PROVE  OneOpenTokenPerPair'
      BY <2>5 DEF AuthorizeFails, store
    <2> QED
      BY <1>2, <2>1, <2>2, <2>3, <2>4, <2>5 DEF Begin
  <1>3. ASSUME NEW c \in Client, Continue(c)
        PROVE  OneOpenTokenPerPair'
    <2>1. tokens' \in {tokens, NoTokens, next[c]}
      BY <1>3 DEF Continue, TruncateTokens, FillTokens, ReadLog, TruncateLog,
                  FillLog, store
    <2>2. \A d \in Client : next'[d] \in {next[d], NoTokens}
      BY <1>3 DEF TypeOK, Continue, TruncateTokens, FillTokens, ReadLog,
                  TruncateLog, FillLog, Return
    <2> QED
      BY <2>1, <2>2, NoTokensOneOpen
  <1>4. CASE ContainerRestart \/ \E c \in Client : Crash(ProcessOf[c])
    <2>1. tokens' \in {tokens, NoTokens}
      BY <1>4 DEF ContainerRestart, Crash, store
    <2>2. \A d \in Client : next'[d] \in {next[d], NoTokens}
      BY <1>4 DEF ContainerRestart, Crash, Forget
    <2> QED
      BY <2>1, <2>2, NoTokensOneOpen
  <1>5. CASE UNCHANGED vars
    BY <1>5 DEF vars, store, work
  <1> QED
    BY <1>2, <1>3, <1>4, <1>5 DEF Next

\* request_send_token never leaves two unused tokens for one quote and
\* mailbox, however many processes race on the file and wherever they
\* crash: a lost update loses tokens, it does not double them.
THEOREM OneOpenTokenTheorem == Spec => []OneOpenTokenPerPair
  <1>1. Init => OneOpenTokenPerPair
    BY NoTokensOneOpen DEF Init, OneOpenTokenPerPair
  <1>2. TypeOK /\ OneOpenTokenPerPair /\ [Next]_vars => OneOpenTokenPerPair'
    BY NextOneOpen
  <1> QED
    BY <1>1, <1>2, TypeCorrect, PTL DEF Spec

--------------------------------------------------------------------------------
(* Emails go only where a human granted, with any number of processes.  An *)
(* AUTHORIZED record, on disk or in a client's hands, has its grant, and   *)
(* so has an email on its way to the log.                                  *)

GrantOf(s, t) == [token_id |-> t, quote |-> s[t].quote_id,
                  mailbox |-> Lower[s[t].recipient_email]]

Backed(s, G) == \A t \in DOMAIN s : s[t].status = "AUTHORIZED" => GrantOf(s, t) \in G

Permitted(e) ==
    /\ [token_id |-> e.token_id, quote |-> e.quote, mailbox |-> Lower[e.to]] \in granted
    /\ Lower[e.to] \in Allowed

GrantInv ==
    /\ Backed(tokens, granted)
    /\ \A c \in Client : Backed(next[c], granted)
    /\ \A c \in Client : mail[c] # NoEmail => Permitted(mail[c])
    /\ EmailOnlyAsGranted

\* The steps of Begin: granted only grows, and what is about to be written
\* or sent is backed.
LEMMA BeginBacked ==
    ASSUME TypeOK, GrantInv, NEW c \in Client, Begin(c)
    PROVE  /\ granted \subseteq granted' /\ UNCHANGED <<store, delivered>>
           /\ \/ UNCHANGED <<next, mail>>
              \/ \E s, m : /\ WillWrite(c, s, m)
                           /\ Backed(s, granted')
                           /\ m = NoEmail \/ Permitted(m)
  <1>1. ASSUME NEW q \in Quote, NEW r \in Address, RequestSendToken(c, q, r)
        PROVE  \E s, m : /\ WillWrite(c, s, m) /\ Backed(s, granted') /\ m = NoEmail
    <2>1. PICK t \in TokenId : WillWrite(c, Put(tokens, t, NewToken(q, r)), NoEmail)
      BY <1>1 DEF RequestSendToken
    <2> DEFINE n == Put(tokens, t, NewToken(q, r))
    <2>2. NewToken(q, r) \in Token /\ NewToken(q, r).status = "PENDING"
      BY DEF NewToken, Token, Status
    <2>3. /\ DOMAIN n = DOMAIN tokens \cup {t} /\ n[t] = NewToken(q, r)
          /\ \A u \in DOMAIN tokens \ {t} : n[u] = tokens[u]
      <3>1. IsStore(tokens)
        BY DEF TypeOK
      <3>2. t \in TokenId /\ NewToken(q, r) \in Token
        BY <2>1, <2>2
      <3> QED
        BY <3>1, <3>2, PutStore
    <2> HIDE DEF n
    <2>4. granted' = granted
      BY <1>1 DEF RequestSendToken, history
    <2>5. Backed(n, granted')
      BY <2>2, <2>3, <2>4 DEF GrantInv, Backed, GrantOf
    <2> QED
      BY <2>1, <2>5 DEF n
  <1>2. ASSUME NEW q \in Quote, NEW to \in Address, NEW t \in TokenId,
               SendEmail(c, q, to, t)
        PROVE  \E s, m : /\ WillWrite(c, s, m) /\ Backed(s, granted') /\ Permitted(m)
    <2> DEFINE n == [tokens EXCEPT ![t].used = TRUE]
               e == [token_id |-> t, quote |-> q, to |-> to]
    <2>1. WillWrite(c, n, e) /\ granted' = granted
      BY <1>2 DEF SendEmail, history
    <2>2. /\ t \in DOMAIN tokens /\ tokens[t].status = "AUTHORIZED"
          /\ tokens[t].quote_id = q
          /\ Lower[tokens[t].recipient_email] = Lower[to] /\ Lower[to] \in Allowed
      BY <1>2 DEF SendEmail, MaySend
    <2>3. /\ DOMAIN n = DOMAIN tokens
          /\ \A u \in DOMAIN tokens : /\ n[u].quote_id = tokens[u].quote_id
                                      /\ n[u].recipient_email = tokens[u].recipient_email
                                      /\ n[u].status = tokens[u].status
      BY <2>2, UseToken DEF TypeOK
    <2> HIDE DEF n
    <2>4. Backed(n, granted')
      BY <2>1, <2>3 DEF GrantInv, Backed, GrantOf
    <2>5. Permitted(e)
      BY <2>2 DEF GrantInv, Backed, GrantOf, Permitted
    <2> HIDE DEF e
    <2> QED
      BY <2>1, <2>4, <2>5
  <1>3. ASSUME NEW t \in TokenId, AuthorizeSend(c, t)
        PROVE  /\ granted \subseteq granted'
               /\ \E s, m : /\ WillWrite(c, s, m) /\ Backed(s, granted') /\ m = NoEmail
    <2> DEFINE n == [tokens EXCEPT ![t].status = "AUTHORIZED"]
    <2>1. CASE tokens[t].status = "PENDING"
      <3>1. WillWrite(c, n, NoEmail) /\ granted' = granted \cup {GrantOf(tokens, t)}
        BY <1>3, <2>1 DEF AuthorizeSend, GrantOf
      <3>2. /\ DOMAIN n = DOMAIN tokens
            /\ \A u \in DOMAIN tokens : /\ n[u].quote_id = tokens[u].quote_id
                                        /\ n[u].recipient_email = tokens[u].recipient_email
                                        /\ u # t => n[u].status = tokens[u].status
        BY <1>3, AuthorizeToken DEF TypeOK, AuthorizeSend
      <3> HIDE DEF n
      <3>3. Backed(n, granted')
        BY <3>1, <3>2 DEF GrantInv, Backed, GrantOf
      <3> QED
        BY <3>1, <3>3
    <2>2. CASE tokens[t].status # "PENDING"
      BY <1>3, <2>2 DEF AuthorizeSend, GrantInv, Backed, GrantOf, store
    <2> QED
      BY <2>1, <2>2
  <1>4. granted \subseteq granted' /\ UNCHANGED <<store, delivered>>
    BY <1>3 DEF Begin, RequestSendToken, SendEmail, ChooseTokens, AuthorizeSend,
                AuthorizeFails, history
  <1>5. ASSUME ChooseTokens(c) \/ \E t \in TokenId : AuthorizeFails(c, t)
        PROVE  UNCHANGED <<next, mail>>
    BY <1>5 DEF ChooseTokens, AuthorizeFails
  <1> QED
    BY <1>1, <1>2, <1>3, <1>4, <1>5 DEF Begin

\* A step that adds no grants and takes its stores, emails and log from
\* what was there keeps the invariant.
LEMMA ShuffleKeepsGrantInv ==
    ASSUME TypeOK, GrantInv, granted' = granted,
           \/ tokens' \in {tokens, NoTokens}
           \/ \E c \in Client : tokens' = next[c],
           \A d \in Client : /\ next'[d] \in {next[d], NoTokens}
                             /\ mail'[d] \in {mail[d], NoEmail},
           \/ delivered' = delivered
           \/ \E c \in Client : /\ mail[c] # NoEmail
                                /\ delivered' = Append(delivered, mail[c])
    PROVE  GrantInv'
  <1>1. Backed(tokens', granted') /\ \A d \in Client : Backed(next'[d], granted')
    BY NoTokensStore DEF GrantInv, Backed, GrantOf
  <1>2. \A d \in Client : mail'[d] # NoEmail => Permitted(mail[d])'
    BY DEF GrantInv, Permitted
  <1>3. EmailOnlyAsGranted'
    <2>1. CASE delivered' = delivered
      BY <2>1 DEF GrantInv, EmailOnlyAsGranted
    <2>2. ASSUME NEW c \in Client, mail[c] # NoEmail,
                 delivered' = Append(delivered, mail[c])
          PROVE  EmailOnlyAsGranted'
      <3>1. mail[c] \in Email /\ delivered \in Seq(Email) /\ Permitted(mail[c])
        BY <2>2 DEF TypeOK, GrantInv
      <3>2. \A i \in 1..Len(delivered') : \/ i \in 1..Len(delivered) /\ delivered'[i] = delivered[i]
                                          \/ delivered'[i] = mail[c]
        BY <2>2, <3>1, AppendSeq
      <3> QED
        BY <3>1, <3>2 DEF GrantInv, EmailOnlyAsGranted, Permitted
    <2> QED
      BY <2>1, <2>2
  <1> QED
    BY <1>1, <1>2, <1>3 DEF GrantInv

\* Every step keeps the authorized tokens and the emails backed by grants.
LEMMA NextGrantInv ==
    ASSUME TypeOK, Carries, GrantInv, [Next]_vars
    PROVE  GrantInv'
  <1>1. ASSUME NEW c \in Client, Begin(c)
        PROVE  GrantInv'
    <2>1. granted \subseteq granted' /\ tokens' = tokens /\ delivered' = delivered
      BY <1>1, BeginBacked DEF store
    <2>2. CASE UNCHANGED <<next, mail>>
      BY <2>1, <2>2 DEF GrantInv, Backed, GrantOf, Permitted, EmailOnlyAsGranted
    <2>3. ASSUME NEW s, NEW m, WillWrite(c, s, m), Backed(s, granted'),
                 m = NoEmail \/ Permitted(m)
          PROVE  GrantInv'
      <3>1. \A d \in Client : /\ next'[d] = s \/ next'[d] = next[d]
                              /\ mail'[d] = m \/ mail'[d] = mail[d]
        BY <2>3 DEF WillWrite, TypeOK
      <3>2. Backed(tokens', granted') /\ \A d \in Client : Backed(next'[d], granted')
        BY <2>1, <2>3, <3>1 DEF GrantInv, Backed, GrantOf
      <3>3. \A d \in Client : mail'[d] # NoEmail => Permitted(mail[d])'
        BY <2>1, <2>3, <3>1 DEF GrantInv, Permitted
      <3> QED
        BY <2>1, <3>2, <3>3 DEF GrantInv, EmailOnlyAsGranted
    <2> QED
      BY <1>1, <2>2, <2>3, BeginBacked
  <1>2. ASSUME NEW c \in Client, Continue(c)
        PROVE  GrantInv'
    <2>1. granted' = granted
      BY <1>2 DEF Continue, TruncateTokens, FillTokens, ReadLog, TruncateLog,
                  FillLog, history
    <2>2. tokens' \in {tokens, NoTokens} \/ tokens' = next[c]
      BY <1>2 DEF Continue, TruncateTokens, FillTokens, ReadLog, TruncateLog,
                  FillLog, store
    <2>3. \A d \in Client : /\ next'[d] \in {next[d], NoTokens}
                            /\ mail'[d] \in {mail[d], NoEmail}
      BY <1>2 DEF TypeOK, Continue, TruncateTokens, FillTokens, ReadLog,
                  TruncateLog, FillLog, Return
    <2>4. \/ delivered' = delivered
          \/ mail[c] # NoEmail /\ delivered' = Append(delivered, mail[c])
      BY <1>2 DEF Carries, Continue, TruncateTokens, FillTokens, ReadLog,
                  TruncateLog, FillLog, history
    <2> QED
      BY <2>1, <2>2, <2>3, <2>4, ShuffleKeepsGrantInv
  <1>3. CASE ContainerRestart \/ \E c \in Client : Crash(ProcessOf[c])
    <2>1. /\ granted' = granted /\ delivered' = delivered
          /\ tokens' \in {tokens, NoTokens}
      BY <1>3 DEF ContainerRestart, Crash, store
    <2>2. \A d \in Client : /\ next'[d] \in {next[d], NoTokens}
                            /\ mail'[d] \in {mail[d], NoEmail}
      BY <1>3 DEF ContainerRestart, Crash, Forget
    <2> QED
      BY <2>1, <2>2, ShuffleKeepsGrantInv
  <1>4. CASE UNCHANGED vars
    BY <1>4 DEF vars, store, work, history, GrantInv, Backed, GrantOf,
                Permitted, EmailOnlyAsGranted
  <1> QED
    BY <1>1, <1>2, <1>3, <1>4 DEF Next

\* Every email went to a mailbox, for a quote and under a token that a
\* human approved together, in any interleaving of any processes.
THEOREM EmailOnlyAsGrantedTheorem == Spec => []EmailOnlyAsGranted
  <1>1. Init => GrantInv
    BY NoTokensStore DEF Init, GrantInv, Backed, EmailOnlyAsGranted
  <1>2. TypeOK /\ Carries /\ GrantInv /\ [Next]_vars => GrantInv'
    BY NextGrantInv
  <1>3. GrantInv => EmailOnlyAsGranted
    BY DEF GrantInv
  <1> QED
    BY <1>1, <1>2, <1>3, TypeCorrect, PTL DEF Spec

--------------------------------------------------------------------------------
(* At most one email per token, when every client shares one lock.  The    *)
(* holder of the lock is alone with the files; a delivered token is used   *)
(* in every store there is, and an email on its way is for a token not yet *)
(* delivered and already used in what its call writes.                     *)

SingleLock == \A c, d \in Client : ProcessOf[c] = ProcessOf[d]

Exclusive == \A c, d \in Client : pc[c] # "idle" /\ pc[d] # "idle" => c = d

Resting == \A c \in Client : pc[c] = "idle" => next[c] = NoTokens /\ mail[c] = NoEmail

UsedIn(s, t) == t \in DOMAIN s => s[t].used

StoredIsMinted ==
    /\ DOMAIN tokens \subseteq minted
    /\ \A c \in Client : pc[c] # "truncate" => DOMAIN next[c] \subseteq minted

DeliveredIsUsed ==
    \A t \in TokenId : Delivered(t) =>
        /\ t \in minted
        /\ UsedIn(tokens, t)
        /\ \A c \in Client : UsedIn(next[c], t)

MailIsNew ==
    \A c \in Client : mail[c] # NoEmail =>
        /\ mail[c].token_id \in minted
        /\ ~Delivered(mail[c].token_id)
        /\ UsedIn(next[c], mail[c].token_id)
        /\ pc[c] \notin {"truncate", "fill"} => UsedIn(tokens, mail[c].token_id)

SpendInv ==
    /\ Exclusive
    /\ Resting
    /\ StoredIsMinted
    /\ DeliveredIsUsed
    /\ MailIsNew
    /\ AtMostOneEmailPerToken

\* The gate starts with the invariant behind AtMostOneEmailPerToken.
LEMMA InitSpendInv == Init => SpendInv
  BY NoTokensStore DEF Init, SpendInv, Exclusive, Resting, StoredIsMinted, Delivered,
     DeliveredIsUsed, MailIsNew, UsedIn, AtMostOneEmailPerToken

\* A call starts only when no other is under way, and send_email only with a
\* token no email has used: the invariant survives.
LEMMA BeginSpendInv ==
    ASSUME SingleLock, TypeOK, SpendInv, NEW c \in Client, Begin(c)
    PROVE  SpendInv'
  <1> USE DEF SpendInv
  <1>1. ASSUME NEW s, NEW m, WillWrite(c, s, m), LockFree(c),
               UNCHANGED <<store, minted, delivered>>,
               \A t \in TokenId : Delivered(t) => UsedIn(s, t),
               m # NoEmail => /\ m.token_id \in minted
                              /\ ~Delivered(m.token_id)
                              /\ UsedIn(s, m.token_id)
        PROVE  SpendInv'
    <2>1. \A d \in Client : pc[d] = "idle"
      BY <1>1 DEF LockFree, SingleLock
    <2>2. /\ pc'[c] = "truncate" /\ next'[c] = s /\ mail'[c] = m
          /\ \A d \in Client \ {c} : /\ pc'[d] = "idle"
                                     /\ next'[d] = next[d] /\ mail'[d] = mail[d]
      BY <1>1, <2>1 DEF WillWrite, TypeOK
    <2>3. \A t : Delivered(t)' <=> Delivered(t)
      BY <1>1 DEF Delivered
    <2>4. Exclusive' /\ Resting' /\ StoredIsMinted'
      BY <1>1, <2>1, <2>2 DEF Exclusive, Resting, StoredIsMinted, store
    <2>5. DeliveredIsUsed'
      BY <1>1, <2>2, <2>3 DEF DeliveredIsUsed, UsedIn, store
    <2>6. MailIsNew'
      BY <1>1, <2>1, <2>2, <2>3 DEF MailIsNew, UsedIn, store, Resting
    <2>7. AtMostOneEmailPerToken'
      BY <1>1 DEF AtMostOneEmailPerToken
    <2> QED
      BY <2>4, <2>5, <2>6, <2>7
  <1>2. ASSUME NEW q \in Quote, NEW r \in Address, RequestSendToken(c, q, r)
        PROVE  SpendInv'
    <2>1. PICK t \in TokenId :
             Fresh(t) /\ WillWrite(c, Put(tokens, t, NewToken(q, r)), NoEmail)
      BY <1>2 DEF RequestSendToken
    <2> DEFINE n == Put(tokens, t, NewToken(q, r))
    <2>2. DOMAIN n = DOMAIN tokens \cup {t} /\ \A u \in DOMAIN tokens \ {t} : n[u] = tokens[u]
      <3>1. IsStore(tokens) /\ t \in TokenId /\ NewToken(q, r) \in Token
        BY <2>1 DEF TypeOK, NewToken, Token, Status
      <3> QED
        BY <3>1, PutStore
    <2> HIDE DEF n
    <2>3. \A u \in TokenId : Delivered(u) => u # t /\ UsedIn(n, u)
      BY <2>1, <2>2 DEF Fresh, DeliveredIsUsed, UsedIn
    <2>4. LockFree(c) /\ UNCHANGED <<store, minted, delivered>>
      BY <1>2 DEF RequestSendToken, history
    <2> QED
      BY <1>1, <2>1, <2>3, <2>4 DEF n
  <1>3. ASSUME NEW q \in Quote, NEW to \in Address, NEW t \in TokenId,
               SendEmail(c, q, to, t)
        PROVE  SpendInv'
    <2> DEFINE n == [tokens EXCEPT ![t].used = TRUE]
               e == [token_id |-> t, quote |-> q, to |-> to]
    <2>1. /\ WillWrite(c, n, e) /\ LockFree(c)
          /\ UNCHANGED <<store, minted, delivered>>
          /\ t \in DOMAIN tokens /\ ~tokens[t].used
      BY <1>3 DEF SendEmail, MaySend, history
    <2>2. /\ n[t].used
          /\ DOMAIN n = DOMAIN tokens
          /\ \A u \in DOMAIN tokens : u # t => n[u].used = tokens[u].used
      BY <2>1, UseToken DEF TypeOK
    <2>3. e.token_id = t
      OBVIOUS
    <2> HIDE DEF n, e
    <2>4. \A u \in TokenId : Delivered(u) => UsedIn(n, u)
      BY <2>2 DEF DeliveredIsUsed, UsedIn
    <2>5. t \in minted /\ ~Delivered(t) /\ UsedIn(n, t)
      BY <2>1, <2>2 DEF StoredIsMinted, DeliveredIsUsed, UsedIn
    <2> QED
      BY <1>1, <2>1, <2>3, <2>4, <2>5
  <1>4. ASSUME NEW t \in TokenId, AuthorizeSend(c, t)
        PROVE  SpendInv'
    <2> DEFINE n == [tokens EXCEPT ![t].status = "AUTHORIZED"]
    <2>1. /\ LockFree(c) /\ UNCHANGED <<store, minted, delivered>>
          /\ t \in DOMAIN tokens
          /\ WillWrite(c, n, NoEmail) \/ WillWrite(c, tokens, NoEmail)
      BY <1>4 DEF AuthorizeSend
    <2>2. /\ DOMAIN n = DOMAIN tokens
          /\ \A u \in DOMAIN tokens : n[u].used = tokens[u].used
      BY <2>1, AuthorizeToken DEF TypeOK
    <2> HIDE DEF n
    <2>3. \A u \in TokenId : Delivered(u) => UsedIn(n, u) /\ UsedIn(tokens, u)
      BY <2>2 DEF DeliveredIsUsed, UsedIn
    <2> QED
      BY <1>1, <2>1, <2>3
  <1>5. ASSUME ChooseTokens(c) \/ \E t \in TokenId : AuthorizeFails(c, t)
        PROVE  SpendInv'
    BY <1>5 DEF ChooseTokens, AuthorizeFails, store, history, Exclusive, Resting,
       StoredIsMinted, DeliveredIsUsed, Delivered, MailIsNew, UsedIn,
       AtMostOneEmailPerToken
  <1> QED
    BY <1>2, <1>3, <1>4, <1>5 DEF Begin

\* The steps of the lock holder that deliver nothing.
LEMMA RewriteSpendInv ==
    ASSUME TypeOK, SpendInv, NEW c \in Client, pc[c] # "idle",
           UNCHANGED delivered,
           \A d \in Client \ {c} : /\ pc'[d] = pc[d] /\ next'[d] = next[d]
                                   /\ mail'[d] = mail[d],
           \/ /\ pc'[c] = "idle" /\ next'[c] = NoTokens /\ mail'[c] = NoEmail
           \/ /\ pc'[c] \notin {"idle", "truncate"}
              /\ next'[c] = next[c] /\ mail'[c] = mail[c]
              /\ \/ pc[c] \notin {"truncate", "fill"} /\ tokens' = tokens
                 \/ tokens' = next[c]
                 \/ pc'[c] = "fill",
           minted \subseteq minted', DOMAIN next[c] \subseteq minted',
           tokens' \in {tokens, NoTokens, next[c]}
    PROVE  SpendInv'
  <1> USE DEF SpendInv
  <1>1. \A t : Delivered(t)' <=> Delivered(t)
    BY DEF Delivered
  <1>2. \A d \in Client \ {c} : pc[d] = "idle"
    BY DEF Exclusive
  <1>3. Exclusive' /\ Resting' /\ StoredIsMinted'
    BY <1>2, NoTokensStore DEF Exclusive, Resting, StoredIsMinted
  <1>4. \A d \in Client : next'[d] \in {next[d], NoTokens}
    OBVIOUS
  <1>5. DeliveredIsUsed'
    BY <1>1, <1>4, NoTokensStore DEF DeliveredIsUsed, UsedIn
  <1>6. MailIsNew'
    BY <1>1, <1>2 DEF MailIsNew, UsedIn, Resting
  <1>7. AtMostOneEmailPerToken'
    BY DEF AtMostOneEmailPerToken
  <1> QED
    BY <1>3, <1>5, <1>6, <1>7

\* The step that delivers.
LEMMA DeliverSpendInv ==
    ASSUME TypeOK, Carries, SpendInv, NEW c \in Client, FillLog(c)
    PROVE  SpendInv'
  <1> USE DEF SpendInv
  <1> DEFINE t == mail[c].token_id
  <1>1. /\ mail[c] \in Email /\ delivered \in Seq(Email) /\ t \in TokenId
        /\ pc[c] = "fillLog"
    BY DEF FillLog, Carries, TypeOK, Email
  <1>2. /\ pc'[c] = "idle" /\ next'[c] = NoTokens /\ mail'[c] = NoEmail
        /\ \A d \in Client \ {c} : /\ pc'[d] = pc[d] /\ next'[d] = next[d]
                                   /\ mail'[d] = mail[d]
        /\ UNCHANGED <<tokens, minted>>
    BY DEF FillLog, Return, TypeOK
  <1>3. \A d \in Client \ {c} : pc[d] = "idle" /\ next[d] = NoTokens /\ mail[d] = NoEmail
    BY <1>1 DEF Exclusive, Resting
  <1>4. t \in minted /\ ~Delivered(t) /\ UsedIn(tokens, t)
    BY <1>1 DEF Carries, MailIsNew
  <1>5. /\ Len(delivered') = Len(delivered) + 1 /\ Len(delivered) \in Nat
        /\ delivered'[Len(delivered) + 1] = mail[c]
        /\ \A i \in 1..Len(delivered) : delivered'[i] = delivered[i]
    BY <1>1, AppendSeq DEF FillLog
  <1>6. \A u : Delivered(u)' <=> Delivered(u) \/ u = t
    <2>1. 1..Len(delivered') = (1..Len(delivered)) \cup {Len(delivered) + 1}
      BY <1>5
    <2> QED
      BY <1>5, <2>1 DEF Delivered
  <1>7. Exclusive' /\ Resting' /\ StoredIsMinted' /\ MailIsNew'
    BY <1>2, <1>3, NoTokensStore DEF Exclusive, Resting, StoredIsMinted, MailIsNew
  <1>8. DeliveredIsUsed'
    BY <1>2, <1>3, <1>4, <1>6, NoTokensStore DEF DeliveredIsUsed, UsedIn
  <1>9. AtMostOneEmailPerToken'
    BY <1>4, <1>5 DEF AtMostOneEmailPerToken, Delivered
  <1> QED
    BY <1>7, <1>8, <1>9

\* The steps of the lock holder keep the invariant.
LEMMA ContinueSpendInv ==
    ASSUME TypeOK, Carries, SpendInv, NEW c \in Client, Continue(c)
    PROVE  SpendInv'
  <1>1. ASSUME Return(c) PROVE
           /\ pc'[c] = "idle" /\ next'[c] = NoTokens /\ mail'[c] = NoEmail
           /\ \A d \in Client \ {c} : /\ pc'[d] = pc[d] /\ next'[d] = next[d]
                                      /\ mail'[d] = mail[d]
    BY <1>1 DEF Return, TypeOK
  <1>2. CASE TruncateTokens(c)
    BY <1>2, NoTokensStore, RewriteSpendInv DEF TruncateTokens, TypeOK
  <1>3. CASE FillTokens(c)
    <2>1. DOMAIN next[c] \subseteq minted /\ UNCHANGED <<minted, delivered>>
          /\ tokens' = next[c] /\ pc[c] = "fill"
      BY <1>3 DEF FillTokens, SpendInv, StoredIsMinted, history
    <2>2. CASE Return(c)
      BY <1>1, <2>1, <2>2, RewriteSpendInv
    <2>3. CASE ~Return(c)
      BY <1>3, <2>1, <2>3, RewriteSpendInv DEF FillTokens, TypeOK
    <2> QED
      BY <2>2, <2>3
  <1>4. CASE ReadLog(c) \/ TruncateLog(c)
    <2>1. /\ DOMAIN next[c] \subseteq minted /\ UNCHANGED <<minted, delivered, tokens>>
          /\ pc[c] \in {"readLog", "truncateLog"}
      BY <1>4 DEF ReadLog, TruncateLog, SpendInv, StoredIsMinted, history, store
    <2>2. CASE Return(c)
      BY <1>1, <2>1, <2>2, RewriteSpendInv
    <2>3. CASE ~Return(c)
      BY <1>4, <2>1, <2>3, RewriteSpendInv DEF ReadLog, TruncateLog, TypeOK
    <2> QED
      BY <2>2, <2>3
  <1> QED
    BY <1>2, <1>3, <1>4, DeliverSpendInv DEF Continue

\* A crash in any step, and a container restart, keep the invariant: an email
\* not delivered yet is gone for good, and a lost token is not minted again.
LEMMA ForgetSpendInv ==
    ASSUME TypeOK, SpendInv, NEW C, Forget(C), UNCHANGED <<minted, delivered>>,
           tokens' \in {tokens, NoTokens}
    PROVE  SpendInv'
  <1> USE DEF SpendInv
  <1>1. \A c \in Client :
           \/ pc'[c] = "idle" /\ next'[c] = NoTokens /\ mail'[c] = NoEmail
           \/ pc'[c] = pc[c] /\ next'[c] = next[c] /\ mail'[c] = mail[c]
    BY DEF Forget
  <1>2. \A t : Delivered(t)' <=> Delivered(t)
    BY DEF Delivered
  <1>3. Exclusive' /\ Resting' /\ StoredIsMinted'
    BY <1>1, NoTokensStore DEF Exclusive, Resting, StoredIsMinted
  <1>4. DeliveredIsUsed'
    BY <1>1, <1>2, NoTokensStore DEF DeliveredIsUsed, UsedIn
  <1>5. MailIsNew'
    BY <1>1, <1>2, NoTokensStore DEF MailIsNew, UsedIn
  <1>6. AtMostOneEmailPerToken'
    BY DEF AtMostOneEmailPerToken
  <1> QED
    BY <1>3, <1>4, <1>5, <1>6

\* Under a single lock every step keeps the invariant.
LEMMA NextSpendInv ==
    ASSUME SingleLock, TypeOK, Carries, SpendInv, [Next]_vars
    PROVE  SpendInv'
  <1>1. ASSUME NEW c \in Client, Begin(c)
        PROVE  SpendInv'
    BY <1>1, BeginSpendInv
  <1>2. ASSUME NEW c \in Client, Continue(c)
        PROVE  SpendInv'
    BY <1>2, ContinueSpendInv
  <1>3. ASSUME NEW p, Crash(p)
        PROVE  SpendInv'
    BY <1>3, ForgetSpendInv DEF Crash, store
  <1>4. CASE ContainerRestart
    BY <1>4, ForgetSpendInv DEF ContainerRestart
  <1>5. CASE UNCHANGED vars
    BY <1>5 DEF vars, store, work, history, SpendInv, Exclusive, Resting,
       StoredIsMinted, DeliveredIsUsed, Delivered, MailIsNew, UsedIn,
       AtMostOneEmailPerToken
  <1> QED
    BY <1>1, <1>2, <1>3, <1>4, <1>5 DEF Next

\* A token is behind at most one email whenever all clients share one
\* lock, for any number of clients, tokens, crashes and restarts.  With
\* two locks on the same files it is false: see the run send_gate_double.
THEOREM AtMostOneEmailTheorem ==
    ASSUME SingleLock
    PROVE  Spec => []AtMostOneEmailPerToken
  <1>1. Init => SpendInv
    BY InitSpendInv
  <1>2. TypeOK /\ Carries /\ SpendInv /\ [Next]_vars => SpendInv'
    BY SingleLock, NextSpendInv
  <1>3. SpendInv => AtMostOneEmailPerToken
    BY DEF SpendInv
  <1> QED
    BY <1>1, <1>2, <1>3, TypeCorrect, PTL DEF Spec


--------------------------------------------------------------------------------
(* The gate implements SendAuthorization when every client shares one      *)
(* lock.  The view of the callers moves on at TruncateTokens, from the     *)
(* file to what its one writer fills it with.  So the invariant says what  *)
(* that writer decided, that the file it decided on is still there, and    *)
(* that a call at the log has its own store on disk.                       *)

WillMint(c) ==
    /\ mail[c] = NoEmail
    /\ \E t \in TokenId \ minted, q \in Quote, r \in Address :
          next[c] = Put(tokens, t, NewToken(q, r))

WillSpend(c) ==
    /\ mail[c] \in Email
    /\ mail[c].token_id \in DOMAIN tokens
    /\ tokens[mail[c].token_id].status = "AUTHORIZED"
    /\ ~tokens[mail[c].token_id].used
    /\ next[c] = [tokens EXCEPT ![mail[c].token_id].used = TRUE]

WillAuthorize(c) ==
    /\ mail[c] = NoEmail
    /\ \E t \in DOMAIN tokens :
          /\ tokens[t].status = "PENDING"
          /\ next[c] = [tokens EXCEPT ![t].status = "AUTHORIZED"]

WillRewrite(c) == mail[c] = NoEmail /\ next[c] = tokens

Decides(c) == WillMint(c) \/ WillSpend(c) \/ WillAuthorize(c) \/ WillRewrite(c)

UsedWasAuthorized(s) == \A t \in DOMAIN s : s[t].used => s[t].status = "AUTHORIZED"

StageInv(c) ==
    /\ pc[c] = "truncate" => tokensWhole /\ Decides(c)
    /\ pc[c] = "fill" => ~tokensWhole
    /\ pc[c] \in {"readLog", "truncateLog", "fillLog"} => tokensWhole /\ tokens = next[c]
    /\ mail[c] # NoEmail => mail[c].token_id \in DOMAIN next[c]
    /\ UsedWasAuthorized(next[c])

RewriteInv == UsedWasAuthorized(tokens) /\ \A c \in Client : StageInv(c)

\* A client at rest decides nothing.
LEMMA IdleStage ==
    ASSUME NEW c \in Client, pc'[c] = "idle", next'[c] = NoTokens, mail'[c] = NoEmail
    PROVE  StageInv(c)'
  BY NoTokensStore DEF StageInv, UsedWasAuthorized

\* The gate starts with the invariant.
LEMMA InitRewriteInv == Init => RewriteInv
  BY NoTokensStore DEF Init, RewriteInv, StageInv, UsedWasAuthorized

\* A call starts on a whole file with nobody else under way, and what it sets
\* out to write is one of the four changes to that file.
LEMMA BeginDecides ==
    ASSUME SingleLock, TypeOK, RewriteInv, NEW c \in Client, Begin(c)
    PROVE  \/ UNCHANGED <<pc, next, mail>>
           \/ /\ tokensWhole
              /\ \A d \in Client : pc[d] = "idle"
              /\ pc'[c] = "truncate" /\ Decides(c)'
              /\ \A d \in Client \ {c} : pc'[d] = pc[d]
              /\ mail'[c] # NoEmail => mail'[c].token_id \in DOMAIN next'[c]
              /\ UsedWasAuthorized(next[c])'
  <1>1. UNCHANGED <<tokens, minted>>
    BY DEF Begin, RequestSendToken, SendEmail, ChooseTokens, AuthorizeSend,
           AuthorizeFails, store, history
  <1>2. ASSUME NEW s, NEW m, WillWrite(c, s, m), LockFree(c)
        PROVE  /\ \A d \in Client : pc[d] = "idle"
               /\ pc'[c] = "truncate" /\ next'[c] = s /\ mail'[c] = m
               /\ \A d \in Client \ {c} : pc'[d] = pc[d]
    BY <1>2 DEF LockFree, SingleLock, WillWrite, TypeOK
  <1>3. IsStore(tokens) /\ UsedWasAuthorized(tokens)
    BY DEF TypeOK, RewriteInv
  <1>4. ASSUME NEW q \in Quote, NEW r \in Address, RequestSendToken(c, q, r)
        PROVE  /\ tokensWhole
               /\ \A d \in Client : pc[d] = "idle"
               /\ pc'[c] = "truncate" /\ Decides(c)'
               /\ \A d \in Client \ {c} : pc'[d] = pc[d]
               /\ mail'[c] = NoEmail
               /\ UsedWasAuthorized(next[c])'
    <2>1. PICK t \in TokenId \ minted :
              WillWrite(c, Put(tokens, t, NewToken(q, r)), NoEmail)
      BY <1>4 DEF RequestSendToken, Fresh
    <2>2. NewToken(q, r) \in Token /\ ~NewToken(q, r).used
      BY DEF NewToken, Token, Status
    <2>3. UsedWasAuthorized(Put(tokens, t, NewToken(q, r)))
      <3>1. PICK rec \in Token : rec = NewToken(q, r) /\ ~rec.used
        BY <2>2
      <3>2. PICK n : n = Put(tokens, t, rec)
        OBVIOUS
      <3>3. /\ DOMAIN n = DOMAIN tokens \cup {t} /\ n[t] = rec
            /\ \A u \in DOMAIN tokens \ {t} : n[u] = tokens[u]
        BY <3>2 DEF Put
      <3>4. UsedWasAuthorized(n)
        BY <1>3, <3>1, <3>3 DEF UsedWasAuthorized
      <3> QED
        BY <3>1, <3>2, <3>4
    <2>4. /\ next'[c] = Put(tokens, t, NewToken(q, r)) /\ mail'[c] = NoEmail
          /\ LockFree(c) /\ tokensWhole
      BY <1>2, <1>4, <2>1 DEF RequestSendToken
    <2>5. WillMint(c)'
      BY <1>1, <2>4 DEF WillMint
    <2> QED
      BY <1>2, <2>1, <2>3, <2>4, <2>5 DEF Decides
  <1>5. ASSUME NEW q \in Quote, NEW to \in Address, NEW t \in TokenId,
               SendEmail(c, q, to, t)
        PROVE  /\ tokensWhole
               /\ \A d \in Client : pc[d] = "idle"
               /\ pc'[c] = "truncate" /\ Decides(c)'
               /\ \A d \in Client \ {c} : pc'[d] = pc[d]
               /\ mail'[c].token_id \in DOMAIN next'[c]
               /\ UsedWasAuthorized(next[c])'
    <2>1. PICK e : e = [token_id |-> t, quote |-> q, to |-> to]
      OBVIOUS
    <2>2. e \in Email /\ e.token_id = t
      BY <2>1 DEF Email
    <2>3. PICK s : s = [tokens EXCEPT ![t].used = TRUE]
      OBVIOUS
    <2>4. /\ WillWrite(c, s, e) /\ LockFree(c) /\ tokensWhole
          /\ t \in DOMAIN tokens /\ tokens[t].status = "AUTHORIZED" /\ ~tokens[t].used
      BY <1>5, <2>1, <2>3 DEF SendEmail, MaySend
    <2>5. t \in DOMAIN s /\ UsedWasAuthorized(s)
      BY <1>3, <2>3, <2>4, UseToken DEF UsedWasAuthorized
    <2>6. /\ \A d \in Client : pc[d] = "idle"
          /\ pc'[c] = "truncate" /\ next'[c] = s /\ mail'[c] = e
          /\ \A d \in Client \ {c} : pc'[d] = pc[d]
      BY <1>2, <2>4
    <2>7. WillSpend(c)'
      BY <1>1, <2>2, <2>3, <2>4, <2>6 DEF WillSpend
    <2> QED
      BY <2>2, <2>4, <2>5, <2>6, <2>7 DEF Decides, UsedWasAuthorized
  <1>6. ASSUME NEW t \in TokenId, AuthorizeSend(c, t)
        PROVE  /\ tokensWhole
               /\ \A d \in Client : pc[d] = "idle"
               /\ pc'[c] = "truncate" /\ Decides(c)'
               /\ \A d \in Client \ {c} : pc'[d] = pc[d]
               /\ mail'[c] = NoEmail
               /\ UsedWasAuthorized(next[c])'
    <2>1. LockFree(c) /\ tokensWhole /\ t \in DOMAIN tokens
      BY <1>6 DEF AuthorizeSend
    <2>2. CASE tokens[t].status = "PENDING"
      <3>1. PICK s : s = [tokens EXCEPT ![t].status = "AUTHORIZED"]
        OBVIOUS
      <3>2. WillWrite(c, s, NoEmail)
        BY <1>6, <2>2, <3>1 DEF AuthorizeSend
      <3>3. UsedWasAuthorized(s)
        BY <1>3, <2>1, <2>2, <3>1, AuthorizeToken DEF UsedWasAuthorized
      <3>4. /\ \A d \in Client : pc[d] = "idle"
            /\ pc'[c] = "truncate" /\ next'[c] = s /\ mail'[c] = NoEmail
            /\ \A d \in Client \ {c} : pc'[d] = pc[d]
        BY <1>2, <2>1, <3>2
      <3>5. WillAuthorize(c)'
        BY <1>1, <2>1, <2>2, <3>1, <3>4 DEF WillAuthorize
      <3> QED
        BY <2>1, <3>3, <3>4, <3>5 DEF Decides, UsedWasAuthorized
    <2>3. CASE tokens[t].status # "PENDING"
      <3>1. WillWrite(c, tokens, NoEmail)
        BY <1>6, <2>3 DEF AuthorizeSend
      <3>2. /\ \A d \in Client : pc[d] = "idle"
            /\ pc'[c] = "truncate" /\ next'[c] = tokens /\ mail'[c] = NoEmail
            /\ \A d \in Client \ {c} : pc'[d] = pc[d]
        BY <1>2, <2>1, <3>1
      <3>3. WillRewrite(c)'
        BY <1>1, <3>2 DEF WillRewrite
      <3> QED
        BY <1>3, <2>1, <3>2, <3>3 DEF Decides, UsedWasAuthorized
    <2> QED
      BY <2>2, <2>3
  <1>7. ASSUME ChooseTokens(c) \/ \E t \in TokenId : AuthorizeFails(c, t)
        PROVE  UNCHANGED <<pc, next, mail>>
    BY <1>7 DEF ChooseTokens, AuthorizeFails
  <1> QED
    BY <1>4, <1>5, <1>6, <1>7 DEF Begin

\* The steps of the one call under way: what it decided stays, then is put in
\* place, and is on disk while the call is at the log.
LEMMA ContinueRewriteInv ==
    ASSUME TypeOK, Carries, SpendInv, SpendInv', RewriteInv,
           NEW c \in Client, Continue(c)
    PROVE  RewriteInv'
  <1>1. pc[c] # "idle"
    BY DEF Continue, TruncateTokens, FillTokens, ReadLog, TruncateLog, FillLog
  <1>2. /\ StageInv(c) /\ UsedWasAuthorized(tokens)
        /\ mail[c] # NoEmail => mail[c].token_id \in DOMAIN next[c]
        /\ UsedWasAuthorized(next[c])
    BY DEF RewriteInv, StageInv
  <1>3. \A d \in Client \ {c} : StageInv(d)'
    <2> TAKE d \in Client \ {c}
    <2>1. pc'[d] = pc[d]
      BY DEF TypeOK, Continue, TruncateTokens, FillTokens, ReadLog, TruncateLog,
             FillLog, Return
    <2>2. pc'[d] = "idle"
      BY <1>1, <2>1 DEF SpendInv, Exclusive
    <2> QED
      BY <2>2, IdleStage DEF SpendInv, Resting
  <1>4. ASSUME pc'[c] = "idle"
        PROVE  StageInv(c)'
    BY <1>4, IdleStage DEF SpendInv, Resting
  <1>5. CASE TruncateTokens(c)
    <2>1. /\ pc'[c] = "fill" /\ tokens' = NoTokens /\ tokensWhole' = FALSE
          /\ next'[c] = next[c] /\ mail'[c] = mail[c]
      BY <1>5 DEF TruncateTokens, TypeOK
    <2>2. StageInv(c)'
      BY <1>2, <2>1 DEF StageInv, UsedWasAuthorized
    <2>3. UsedWasAuthorized(tokens)'
      BY <2>1, NoTokensStore DEF UsedWasAuthorized
    <2> QED
      BY <1>3, <2>2, <2>3 DEF RewriteInv
  <1>6. CASE FillTokens(c)
    <2>1. /\ tokens' = next[c] /\ tokensWhole' = TRUE
          /\ \/ pc'[c] = "idle"
             \/ pc'[c] = "readLog" /\ next'[c] = next[c] /\ mail'[c] = mail[c]
      BY <1>2, <1>6 DEF FillTokens, Return, Rewritten, TypeOK, StageInv
    <2>2. UsedWasAuthorized(tokens)'
      BY <1>2, <2>1 DEF UsedWasAuthorized
    <2>3. StageInv(c)'
      BY <1>2, <1>4, <2>1 DEF StageInv, UsedWasAuthorized
    <2> QED
      BY <1>3, <2>2, <2>3 DEF RewriteInv
  <1>7. CASE ReadLog(c) \/ TruncateLog(c) \/ FillLog(c)
    <2>1. /\ UNCHANGED <<tokens, tokensWhole>>
          /\ pc[c] \in {"readLog", "truncateLog", "fillLog"}
          /\ \/ pc'[c] = "idle"
             \/ /\ pc'[c] \in {"truncateLog", "fillLog"}
                /\ next'[c] = next[c] /\ mail'[c] = mail[c]
      BY <1>7 DEF ReadLog, TruncateLog, FillLog, Return, TypeOK, store
    <2>2. StageInv(c)'
      BY <1>2, <1>4, <2>1 DEF StageInv, UsedWasAuthorized
    <2>3. UsedWasAuthorized(tokens)'
      BY <1>2, <2>1 DEF UsedWasAuthorized
    <2> QED
      BY <1>3, <2>2, <2>3 DEF RewriteInv
  <1> QED
    BY <1>5, <1>6, <1>7 DEF Continue

\* Steps that leave the token file, the calls and the minted ids alone.
LEMMA SameRewriteInv ==
    ASSUME RewriteInv, UNCHANGED <<tokens, tokensWhole, minted, pc, next, mail>>
    PROVE  RewriteInv'
  <1>1. \A c \in Client : WillMint(c)' <=> WillMint(c)
    BY DEF WillMint
  <1>2. \A c \in Client : /\ WillSpend(c)' <=> WillSpend(c)
                          /\ WillAuthorize(c)' <=> WillAuthorize(c)
                          /\ WillRewrite(c)' <=> WillRewrite(c)
    BY DEF WillSpend, WillAuthorize, WillRewrite
  <1>3. \A c \in Client : Decides(c)' <=> Decides(c)
    BY <1>1, <1>2 DEF Decides
  <1>4. \A c \in Client : StageInv(c)' <=> StageInv(c)
    BY <1>3 DEF StageInv, UsedWasAuthorized
  <1> QED
    BY <1>4 DEF RewriteInv, UsedWasAuthorized

\* Under a single lock every step keeps the invariant.
LEMMA NextRewriteInv ==
    ASSUME SingleLock, TypeOK, Carries, SpendInv, RewriteInv, [Next]_vars
    PROVE  RewriteInv'
  <1>1. SpendInv'
    BY NextSpendInv
  <1>2. ASSUME NEW c \in Client, Begin(c)
        PROVE  RewriteInv'
    <2>1. UNCHANGED <<tokens, tokensWhole, minted>>
      BY <1>2 DEF Begin, RequestSendToken, SendEmail, ChooseTokens, AuthorizeSend,
             AuthorizeFails, store, history
    <2>2. CASE UNCHANGED <<pc, next, mail>>
      BY <2>1, <2>2, SameRewriteInv
    <2>3. CASE /\ tokensWhole
               /\ \A d \in Client : pc[d] = "idle"
               /\ pc'[c] = "truncate" /\ Decides(c)'
               /\ \A d \in Client \ {c} : pc'[d] = pc[d]
               /\ mail'[c] # NoEmail => mail'[c].token_id \in DOMAIN next'[c]
               /\ UsedWasAuthorized(next[c])'
      <3>1. StageInv(c)'
        BY <2>1, <2>3 DEF StageInv
      <3>2. \A d \in Client \ {c} : StageInv(d)'
        BY <1>1, <2>3, IdleStage DEF SpendInv, Resting
      <3>3. UsedWasAuthorized(tokens)'
        BY <2>1 DEF RewriteInv, UsedWasAuthorized
      <3> QED
        BY <3>1, <3>2, <3>3 DEF RewriteInv
    <2> QED
      BY <1>2, <2>2, <2>3, BeginDecides
  <1>3. ASSUME NEW c \in Client, Continue(c)
        PROVE  RewriteInv'
    BY <1>1, <1>3, ContinueRewriteInv
  <1>4. ASSUME Forget(Client), tokens' \in {tokens, NoTokens}
        PROVE  RewriteInv'
    <2>1. \A d \in Client : StageInv(d)'
      BY <1>4, IdleStage DEF Forget
    <2>2. UsedWasAuthorized(tokens)'
      BY <1>4, NoTokensStore DEF RewriteInv, UsedWasAuthorized
    <2> QED
      BY <2>1, <2>2 DEF RewriteInv
  <1>5. ASSUME NEW c \in Client, Crash(ProcessOf[c])
        PROVE  RewriteInv'
    <2>1. {d \in Client : ProcessOf[d] = ProcessOf[c]} = Client
      BY DEF SingleLock
    <2> QED
      BY <1>4, <1>5, <2>1 DEF Crash, store
  <1>6. CASE ContainerRestart
    BY <1>4, <1>6 DEF ContainerRestart
  <1>7. CASE UNCHANGED vars
    BY <1>7, SameRewriteInv DEF vars, store, work, history
  <1> QED
    BY <1>2, <1>3, <1>5, <1>6, <1>7 DEF Next

\* With one lock all the invariants of the gate hold together.
LEMMA GateInvariant ==
    ASSUME SingleLock
    PROVE  Spec => [](TypeOK /\ Carries /\ GrantInv /\ SpendInv /\ RewriteInv)
  <1> DEFINE Inv == TypeOK /\ Carries /\ GrantInv /\ SpendInv /\ RewriteInv
  <1>1. Init => Inv
    <2>1. Init => GrantInv
      BY NoTokensStore DEF Init, GrantInv, Backed, EmailOnlyAsGranted
    <2> QED
      BY <2>1, InitTypeOK, InitSpendInv, InitRewriteInv DEF Init, Carries
  <1>2. Inv /\ [Next]_vars => Inv'
    BY SingleLock, NextTypeOK, CarriesInvariant, NextGrantInv, NextSpendInv,
       NextRewriteInv
  <1> QED
    BY <1>1, <1>2, PTL DEF Spec

--------------------------------------------------------------------------------
(* What the callers see. *)

\* A whole file is what the callers see.
LEMMA ViewWhole == tokensWhole => View = tokens
  BY DEF View

\* Of a truncated file they see what its one writer fills it with.
LEMMA ViewFilling ==
    ASSUME Exclusive, NEW c \in Client, pc[c] = "fill", ~tokensWhole
    PROVE  View = next[c]
  <1>1. \E d \in Client : pc[d] = "fill"
    OBVIOUS
  <1>2. \A d \in Client : pc[d] = "fill" => d = c
    BY DEF Exclusive
  <1>3. (CHOOSE d \in Client : pc[d] = "fill") = c
    BY <1>1, <1>2
  <1> QED
    BY <1>1, <1>3 DEF View

\* Of a truncated file without a writer they see nothing.
LEMMA ViewLost ==
    ASSUME ~tokensWhole, \A c \in Client : pc[c] # "fill"
    PROVE  View = NoTokens
  BY DEF View

\* Everything the callers see is a store of minted tokens.
LEMMA ViewIsKnown ==
    ASSUME TypeOK, SpendInv, RewriteInv
    PROVE  IsStore(View) /\ DOMAIN View \subseteq minted
  <1>1. CASE tokensWhole
    BY <1>1, ViewWhole DEF TypeOK, SpendInv, StoredIsMinted
  <1>2. ASSUME ~tokensWhole, NEW c \in Client, pc[c] = "fill"
        PROVE  IsStore(View) /\ DOMAIN View \subseteq minted
    <2>1. View = next[c]
      BY <1>2, ViewFilling DEF SpendInv
    <2>2. IsStore(next[c]) /\ DOMAIN next[c] \subseteq minted
      BY <1>2 DEF TypeOK, SpendInv, StoredIsMinted
    <2> QED
      BY <2>1, <2>2
  <1>3. CASE ~tokensWhole /\ \A c \in Client : pc[c] # "fill"
    BY <1>3, ViewLost, NoTokensStore
  <1> QED
    BY <1>1, <1>2, <1>3

\* Steps that show the callers nothing new leave every token's life alone.
LEMMA SameLife ==
    ASSUME View' = View, UNCHANGED <<minted, delivered>>
    PROVE  \A t \in TokenId : LifeOf(t)' = LifeOf(t)
  BY DEF LifeOf, Delivered

\* If the grants stay too, the abstract gate stutters.
LEMMA Stutters ==
    ASSUME View' = View, UNCHANGED <<minted, delivered, granted>>
    PROVE  UNCHANGED Authorization!vars
  BY SameLife DEF Authorization!vars

\* One token's life moves and no other's: a step of the abstract gate.
LEMMA OneBecomes ==
    ASSUME NEW t \in TokenId, NEW from, NEW to,
           LifeOf(t) = from, LifeOf(t)' = to,
           \A u \in TokenId \ {t} : LifeOf(u)' = LifeOf(u)
    PROVE  Authorization!Become(t, from, to)
  BY DEF Authorization!Become

\* The file is gone and with it every token ever in it.
LEMMA ViewIsLost ==
    ASSUME TypeOK, SpendInv, RewriteInv, View' = NoTokens,
           UNCHANGED <<minted, delivered, granted>>
    PROVE  Authorization!Lose
  <1>1. \A t \in TokenId : LifeOf(t) = "none" <=> t \notin minted
    BY ViewIsKnown DEF LifeOf
  <1>2. \A t \in TokenId : LifeOf(t)' = IF t \in minted THEN "lost" ELSE "none"
    BY NoTokensStore DEF LifeOf
  <1> QED
    BY <1>1, <1>2 DEF Authorization!Lose

\* Tokens whose record, minting and delivery a step leaves alone keep their
\* life.
LEMMA OthersStay ==
    ASSUME NEW t, NEW v, NEW w, View = v, View' = w,
           DOMAIN w \ {t} = DOMAIN v \ {t},
           \A u \in DOMAIN v \ {t} : w[u].used = v[u].used /\ w[u].status = v[u].status,
           \A u \in TokenId \ {t} : /\ u \in minted' <=> u \in minted
                                    /\ Delivered(u)' <=> Delivered(u)
    PROVE  \A u \in TokenId \ {t} : LifeOf(u)' = LifeOf(u)
  BY DEF LifeOf

--------------------------------------------------------------------------------
(* Every step of the gate is a step of SendAuthorization or none. *)

\* The gate starts where SendAuthorization does.
LEMMA InitMaps == Init => Authorization!Init
  <1> SUFFICES ASSUME Init PROVE Authorization!Init
    OBVIOUS
  <1>1. View = NoTokens /\ minted = {}
    BY DEF Init, View
  <1>2. \A t \in TokenId : LifeOf(t) = "none"
    BY <1>1, NoTokensStore DEF LifeOf
  <1> QED
    BY <1>2 DEF Init, Authorization!Init

\* The start of a call shows the callers nothing new.
LEMMA BeginKeepsView ==
    ASSUME SingleLock, TypeOK, RewriteInv, NEW c \in Client, Begin(c)
    PROVE  View' = View
  <1>1. UNCHANGED <<tokens, tokensWhole>>
    BY DEF Begin, RequestSendToken, SendEmail, ChooseTokens, AuthorizeSend,
           AuthorizeFails, store
  <1>2. CASE UNCHANGED <<pc, next, mail>>
    BY <1>1, <1>2 DEF View
  <1>3. CASE tokensWhole
    BY <1>1, <1>3 DEF View
  <1> QED
    BY <1>2, <1>3, BeginDecides

\* Approving a pending token is the step of the abstract gate that records a
\* grant; every other start of a call is none.
LEMMA BeginMaps ==
    ASSUME SingleLock, TypeOK, SpendInv, RewriteInv, NEW c \in Client, Begin(c)
    PROVE  [Authorization!Next]_(Authorization!vars)
  <1>1. View' = View /\ UNCHANGED <<minted, delivered>>
    BY BeginKeepsView DEF Begin, RequestSendToken, SendEmail, ChooseTokens,
       AuthorizeSend, AuthorizeFails, history
  <1>2. CASE granted' = granted
    BY <1>1, <1>2, Stutters
  <1>3. CASE granted' # granted
    <2>1. PICK t \in TokenId :
             /\ t \in DOMAIN tokens /\ tokensWhole /\ tokens[t].status = "PENDING"
             /\ granted' = granted \cup {GrantOf(tokens, t)}
      BY <1>3 DEF Begin, RequestSendToken, SendEmail, ChooseTokens, AuthorizeSend,
         AuthorizeFails, history, GrantOf
    <2>2. ~tokens[t].used
      BY <2>1 DEF RewriteInv, UsedWasAuthorized
    <2>3. LifeOf(t) = "pending"
      BY <2>1, <2>2, ViewWhole DEF LifeOf, SpendInv, DeliveredIsUsed, UsedIn
    <2>4. PICK g \in Grant : g = GrantOf(tokens, t) /\ g.token_id = t
      <3>1. IsStore(tokens)
        BY DEF TypeOK
      <3>2. tokens[t] \in Token
        BY <2>1, <3>1, StoreRecord
      <3>3. tokens[t].quote_id \in Quote /\ Lower[tokens[t].recipient_email] \in Address
        BY <3>2, SendGateAssumption DEF Token
      <3>4. GrantOf(tokens, t) \in Grant /\ GrantOf(tokens, t).token_id = t
        BY <3>3 DEF GrantOf, Grant
      <3> QED
        BY <3>4
    <2>5. \A u \in TokenId : LifeOf(u)' = LifeOf(u)
      BY <1>1, SameLife
    <2>6. Authorization!Approve(g)
      BY <1>1, <2>1, <2>3, <2>4, <2>5 DEF Authorization!Approve
    <2> QED
      BY <2>6 DEF Authorization!Next
  <1> QED
    BY <1>2, <1>3

\* Truncating the file is where the callers' view moves: by one mint, one
\* spending, one authorization, or not at all.
LEMMA TruncateMaps ==
    ASSUME TypeOK, GrantInv, SpendInv, SpendInv', RewriteInv,
           NEW c \in Client, TruncateTokens(c)
    PROVE  [Authorization!Next]_(Authorization!vars)
  <1>1. PICK n : n = next[c]
    OBVIOUS
  <1>2. /\ pc[c] = "truncate" /\ tokensWhole /\ Decides(c)
        /\ pc'[c] = "fill" /\ ~tokensWhole' /\ next'[c] = n
        /\ minted' = minted \cup DOMAIN n
        /\ UNCHANGED <<granted, delivered>>
    BY <1>1 DEF TruncateTokens, RewriteInv, StageInv, TypeOK
  <1>3. View = tokens
    BY <1>2, ViewWhole
  <1>4. View' = n
    <2>1. \A d \in Client : pc'[d] = "fill" => d = c
      BY <1>2 DEF SpendInv, Exclusive
    <2>2. (CHOOSE d \in Client : pc'[d] = "fill") = c
      BY <1>2, <2>1
    <2> QED
      BY <1>2, <2>2 DEF View
  <1>5. \A t : Delivered(t)' <=> Delivered(t)
    BY <1>2 DEF Delivered
  <1>6. DOMAIN tokens \subseteq minted /\ DOMAIN tokens \subseteq TokenId
        /\ IsStore(tokens)
    BY DEF SpendInv, StoredIsMinted, TypeOK, IsStore
  <1>7. CASE WillMint(c)
    <2>1. PICK t \in TokenId \ minted, q \in Quote, r \in Address :
             n = Put(tokens, t, NewToken(q, r))
      BY <1>1, <1>7 DEF WillMint
    <2>2. PICK rec \in Token : /\ rec = NewToken(q, r)
                              /\ ~rec.used /\ rec.status = "PENDING"
      <3>1. /\ NewToken(q, r) \in Token /\ ~NewToken(q, r).used
            /\ NewToken(q, r).status = "PENDING"
        BY DEF NewToken, Token, Status
      <3> QED
        BY <3>1
    <2>3. /\ DOMAIN n = DOMAIN tokens \cup {t} /\ n[t] = rec
          /\ \A u \in DOMAIN tokens \ {t} : n[u] = tokens[u]
      <3>1. n = Put(tokens, t, rec)
        BY <2>1, <2>2
      <3> QED
        BY <3>1 DEF Put
    <2>4. t \notin DOMAIN tokens /\ ~Delivered(t)
      BY <1>6 DEF SpendInv, DeliveredIsUsed
    <2>5. LifeOf(t) = "none"
      BY <1>3, <2>4 DEF LifeOf
    <2>6. LifeOf(t)' = "pending"
      BY <1>4, <1>5, <2>2, <2>3, <2>4 DEF LifeOf
    <2>7. \A u \in TokenId \ {t} : LifeOf(u)' = LifeOf(u)
      <3>1. \A u \in TokenId \ {t} : u \in minted' <=> u \in minted
        BY <1>2, <1>6, <2>3
      <3> QED
        BY <1>3, <1>4, <1>5, <2>3, <3>1, OthersStay
    <2>8. Authorization!Mint(t)
      BY <1>2, <2>5, <2>6, <2>7, OneBecomes DEF Authorization!Mint
    <2> QED
      BY <2>8 DEF Authorization!Next
  <1>8. CASE WillSpend(c)
    <2>1. PICK t \in TokenId :
             /\ t \in DOMAIN tokens /\ t = mail[c].token_id
             /\ tokens[t].status = "AUTHORIZED" /\ ~tokens[t].used
             /\ n = [tokens EXCEPT ![t].used = TRUE]
      BY <1>1, <1>6, <1>8 DEF WillSpend
    <2>2. /\ DOMAIN n = DOMAIN tokens /\ n[t].used /\ n[t].status = tokens[t].status
          /\ \A u \in DOMAIN tokens \ {t} :
                n[u].used = tokens[u].used /\ n[u].status = tokens[u].status
      BY <1>6, <2>1 DEF IsStore, Token
    <2>3. ~Delivered(t)
      BY <2>1 DEF SpendInv, DeliveredIsUsed, UsedIn
    <2>4. LifeOf(t) = "authorized" /\ LifeOf(t)' = "spent"
      BY <1>3, <1>4, <1>5, <2>1, <2>2, <2>3 DEF LifeOf
    <2>5. \A u \in TokenId \ {t} : LifeOf(u)' = LifeOf(u)
      <3>1. \A u \in TokenId \ {t} : u \in minted' <=> u \in minted
        BY <1>2, <1>6, <2>2
      <3> QED
        BY <1>3, <1>4, <1>5, <2>2, <3>1, OthersStay
    <2>6. Authorization!Spend(t)
      BY <1>2, <2>4, <2>5, OneBecomes DEF Authorization!Spend
    <2> QED
      BY <2>6 DEF Authorization!Next
  <1>9. CASE WillAuthorize(c)
    <2>1. PICK t \in TokenId :
             /\ t \in DOMAIN tokens /\ tokens[t].status = "PENDING"
             /\ n = [tokens EXCEPT ![t].status = "AUTHORIZED"]
      BY <1>1, <1>6, <1>9 DEF WillAuthorize
    <2>2. /\ DOMAIN n = DOMAIN tokens
          /\ n[t].used = tokens[t].used /\ n[t].status = "AUTHORIZED"
          /\ \A u \in DOMAIN tokens \ {t} :
                n[u].used = tokens[u].used /\ n[u].status = tokens[u].status
      BY <1>6, <2>1 DEF IsStore, Token
    <2>3. ~tokens[t].used /\ ~Delivered(t)
      BY <2>1 DEF RewriteInv, UsedWasAuthorized, SpendInv, DeliveredIsUsed, UsedIn
    <2>4. LifeOf(t) = "pending" /\ LifeOf(t)' = "authorized"
      BY <1>3, <1>4, <1>5, <2>1, <2>2, <2>3 DEF LifeOf
    <2>5. \A u \in TokenId \ {t} : LifeOf(u)' = LifeOf(u)
      <3>1. \A u \in TokenId \ {t} : u \in minted' <=> u \in minted
        BY <1>2, <1>6, <2>2
      <3> QED
        BY <1>3, <1>4, <1>5, <2>2, <3>1, OthersStay
    <2>6. \E g \in granted : g.token_id = t
      <3>1. GrantOf(n, t) \in granted
        BY <1>1, <2>1, <2>2 DEF GrantInv, Backed
      <3> QED
        BY <3>1 DEF GrantOf
    <2>7. Authorization!Authorize(t)
      BY <1>2, <2>4, <2>5, <2>6, OneBecomes DEF Authorization!Authorize
    <2> QED
      BY <2>7 DEF Authorization!Next
  <1>10. CASE WillRewrite(c)
    <2>1. View' = View /\ minted' = minted
      BY <1>1, <1>2, <1>3, <1>4, <1>6, <1>10 DEF WillRewrite
    <2> QED
      BY <1>2, <2>1, Stutters
  <1> QED
    BY <1>2, <1>7, <1>8, <1>9, <1>10 DEF Decides

\* Filling the file puts in place what the callers already see.
LEMMA FillMaps ==
    ASSUME TypeOK, SpendInv, RewriteInv, NEW c \in Client, FillTokens(c)
    PROVE  UNCHANGED Authorization!vars
  <1>1. /\ pc[c] = "fill" /\ ~tokensWhole
        /\ tokens' = next[c] /\ tokensWhole' = TRUE
        /\ UNCHANGED <<minted, granted, delivered>>
    BY DEF FillTokens, RewriteInv, StageInv, Rewritten, history
  <1>2. View = next[c]
    BY <1>1, ViewFilling DEF SpendInv
  <1>3. View' = next[c]
    BY <1>1 DEF View
  <1> QED
    BY <1>1, <1>2, <1>3, Stutters

\* The steps at the log leave the tokens on disk, and the callers' view.
LEMMA LogKeepsView ==
    ASSUME TypeOK, RewriteInv, NEW c \in Client,
           ReadLog(c) \/ TruncateLog(c) \/ FillLog(c)
    PROVE  tokensWhole /\ View = tokens /\ View' = tokens /\ UNCHANGED <<minted, granted>>
  <1>1. /\ pc[c] \in {"readLog", "truncateLog", "fillLog"}
        /\ UNCHANGED <<tokens, tokensWhole, minted, granted>>
    BY DEF ReadLog, TruncateLog, FillLog, store, history
  <1>2. tokensWhole
    BY <1>1 DEF RewriteInv, StageInv
  <1> QED
    BY <1>1, <1>2 DEF View

\* Filling the log delivers: the abstract gate's one sending step, with a
\* grant for this very email.
LEMMA DeliverMaps ==
    ASSUME TypeOK, Carries, GrantInv, SpendInv, RewriteInv,
           NEW c \in Client, FillLog(c)
    PROVE  Authorization!Deliver(mail[c])
  <1>1. PICK e \in Email : e = mail[c]
    BY DEF FillLog, Carries, TypeOK
  <1>2. /\ pc[c] = "fillLog" /\ mail[c] # NoEmail
        /\ delivered' = Append(delivered, e)
    BY <1>1 DEF FillLog, Carries
  <1>3. PICK t \in TokenId : t = e.token_id
    BY DEF Email
  <1>4. /\ View = tokens /\ View' = tokens /\ UNCHANGED <<minted, granted>>
    BY LogKeepsView
  <1>5. t \in DOMAIN tokens
    BY <1>1, <1>2, <1>3 DEF RewriteInv, StageInv
  <1>6. ~Delivered(t) /\ tokens[t].used
    BY <1>1, <1>2, <1>3, <1>5 DEF SpendInv, MailIsNew, UsedIn
  <1>7. \A u : Delivered(u)' <=> Delivered(u) \/ u = t
    <2>1. /\ Len(delivered') = Len(delivered) + 1 /\ Len(delivered) \in Nat
          /\ delivered'[Len(delivered) + 1] = e
          /\ \A i \in 1..Len(delivered) : delivered'[i] = delivered[i]
      BY <1>2, AppendSeq DEF TypeOK
    <2>2. 1..Len(delivered') = (1..Len(delivered)) \cup {Len(delivered) + 1}
      BY <2>1
    <2> QED
      BY <1>3, <2>1, <2>2 DEF Delivered
  <1>8. LifeOf(t) = "spent" /\ LifeOf(t)' = "sent"
    BY <1>4, <1>5, <1>6, <1>7 DEF LifeOf
  <1>9. \A u \in TokenId \ {t} : LifeOf(u)' = LifeOf(u)
    BY <1>4, <1>7 DEF LifeOf
  <1>10. \E g \in granted : /\ g.token_id = e.token_id /\ g.quote = e.quote
                            /\ g.mailbox = Lower[e.to]
    BY <1>1, <1>2 DEF GrantInv, Permitted
  <1>11. Authorization!Become(e.token_id, "spent", "sent")
    BY <1>3, <1>8, <1>9, OneBecomes
  <1>12. Authorization!Deliver(e)
    BY <1>2, <1>4, <1>10, <1>11 DEF Authorization!Deliver
  <1> QED
    BY <1>1, <1>12

\* A process that dies in the middle of a rewrite loses the tokens, like a
\* restarted container; a crash at any other point changes nothing.
LEMMA ForgetMaps ==
    ASSUME TypeOK, SpendInv, RewriteInv, Forget(Client),
           UNCHANGED <<minted, granted, delivered>>,
           \/ UNCHANGED store
           \/ tokens' = NoTokens /\ tokensWhole' = TRUE
    PROVE  [Authorization!Next]_(Authorization!vars)
  <1>1. \A c \in Client : pc'[c] # "fill"
    BY DEF Forget
  <1>2. CASE View' = NoTokens
    BY <1>2, ViewIsLost DEF Authorization!Next
  <1>3. CASE tokensWhole /\ UNCHANGED store
    <2>1. View' = View
      BY <1>3 DEF View, store
    <2> QED
      BY <2>1, Stutters
  <1>4. CASE ~tokensWhole /\ UNCHANGED store
    BY <1>1, <1>2, <1>4 DEF View, store
  <1>5. CASE tokens' = NoTokens /\ tokensWhole' = TRUE
    BY <1>2, <1>5 DEF View
  <1> QED
    BY <1>3, <1>4, <1>5

\* Each step of the gate is one step of SendAuthorization or none.
LEMMA NextMaps ==
    ASSUME SingleLock, TypeOK, Carries, GrantInv, SpendInv, RewriteInv, [Next]_vars
    PROVE  [Authorization!Next]_(Authorization!vars)
  <1>1. ASSUME NEW c \in Client, Begin(c)
        PROVE  [Authorization!Next]_(Authorization!vars)
    BY <1>1, BeginMaps
  <1>2. ASSUME NEW c \in Client, TruncateTokens(c)
        PROVE  [Authorization!Next]_(Authorization!vars)
    <2>1. SpendInv'
      BY NextSpendInv
    <2> QED
      BY <1>2, <2>1, TruncateMaps
  <1>3. ASSUME NEW c \in Client, FillTokens(c)
        PROVE  [Authorization!Next]_(Authorization!vars)
    BY <1>3, FillMaps
  <1>4. ASSUME NEW c \in Client, ReadLog(c) \/ TruncateLog(c)
        PROVE  [Authorization!Next]_(Authorization!vars)
    <2>1. View' = View /\ UNCHANGED <<minted, granted>>
      BY <1>4, LogKeepsView
    <2>2. UNCHANGED delivered
      BY <1>4 DEF ReadLog, TruncateLog, history
    <2> QED
      BY <2>1, <2>2, Stutters
  <1>5. ASSUME NEW c \in Client, FillLog(c)
        PROVE  [Authorization!Next]_(Authorization!vars)
    <2>1. mail[c] \in Email
      BY <1>5 DEF FillLog, Carries, TypeOK
    <2>2. Authorization!Deliver(mail[c])
      BY <1>5, DeliverMaps
    <2> QED
      BY <2>1, <2>2 DEF Authorization!Next
  <1>6. ASSUME NEW c \in Client, Crash(ProcessOf[c])
        PROVE  [Authorization!Next]_(Authorization!vars)
    <2>1. {d \in Client : ProcessOf[d] = ProcessOf[c]} = Client
      BY DEF SingleLock
    <2> QED
      BY <1>6, <2>1, ForgetMaps DEF Crash
  <1>7. CASE ContainerRestart
    BY <1>7, ForgetMaps DEF ContainerRestart
  <1>8. CASE UNCHANGED vars
    <2>1. View' = View /\ UNCHANGED <<minted, granted, delivered>>
      BY <1>8 DEF vars, store, work, history, View
    <2> QED
      BY <2>1, Stutters
  <1> QED
    BY <1>1, <1>2, <1>3, <1>4, <1>5, <1>6, <1>7, <1>8 DEF Next, Continue

\* The file-level gate implements SendAuthorization when all clients share
\* one lock: a token only moves from pending to authorized to spent to sent,
\* an email leaves on the last of these steps alone, and a crash or a wiped
\* container can lose tokens but never turns one back.
THEOREM GateImplementsAuthorizationTheorem ==
    ASSUME SingleLock
    PROVE  Spec => GateImplementsAuthorization
  <1>1. Init => Authorization!Init
    BY InitMaps
  <1>2. /\ TypeOK /\ Carries /\ GrantInv /\ SpendInv /\ RewriteInv
        /\ [Next]_vars
        => [Authorization!Next]_(Authorization!vars)
    BY SingleLock, NextMaps
  <1> QED
    BY <1>1, <1>2, GateInvariant, SingleLock, PTL
       DEF Spec, GateImplementsAuthorization, Authorization!Spec

--------------------------------------------------------------------------------
(* Before the first crash, a used token has its email in the log or the    *)
(* call that used it still runs.  The invariant behind it: a call at the   *)
(* log carries the log of everything delivered, with its own email added,  *)
(* and the log is truncated exactly while one call is about to fill it.    *)

AtTheLog(c) ==
    /\ pc[c] \in {"truncateLog", "fillLog"} => nextLog[c] = Append(delivered, mail[c])
    /\ pc[c] = "fillLog" => ~sentWhole

LogInv ==
    /\ \A c \in Client : AtTheLog(c)
    /\ ~sentWhole => \E c \in Client : pc[c] = "fillLog"
    /\ \A t \in DOMAIN View : View[t].used => Delivered(t) \/ Sending(t)
    /\ sentWhole => sent = delivered

\* What a call writes has as used only what was, and the token it sends under.
LEMMA DecidedUses ==
    ASSUME TypeOK, NEW c \in Client, Decides(c), NEW t \in DOMAIN next[c], next[c][t].used
    PROVE  \/ t \in DOMAIN tokens /\ tokens[t].used
           \/ mail[c] # NoEmail /\ mail[c].token_id = t
  <1>1. IsStore(tokens) /\ NoEmail \notin Email
    BY SendGateAssumption DEF TypeOK
  <1>2. PICK n : n = next[c]
    OBVIOUS
  <1>3. CASE WillMint(c)
    <2>1. PICK u \in TokenId \ minted, q \in Quote, r \in Address :
             n = Put(tokens, u, NewToken(q, r))
      BY <1>2, <1>3 DEF WillMint
    <2>2. PICK rec \in Token : rec = NewToken(q, r) /\ ~rec.used
      <3>1. NewToken(q, r) \in Token /\ ~NewToken(q, r).used
        BY DEF NewToken, Token, Status
      <3> QED
        BY <3>1
    <2>3. n = Put(tokens, u, rec)
      BY <2>1, <2>2
    <2>4. n[u] = rec /\ DOMAIN n = DOMAIN tokens \cup {u}
          /\ \A x \in DOMAIN tokens \ {u} : n[x] = tokens[x]
      BY <2>3 DEF Put
    <2> QED
      BY <1>2, <2>2, <2>4
  <1>4. CASE WillSpend(c)
    BY <1>1, <1>4 DEF WillSpend, IsStore, Token
  <1>5. CASE WillAuthorize(c)
    BY <1>1, <1>5 DEF WillAuthorize, IsStore, Token
  <1>6. CASE WillRewrite(c)
    BY <1>6 DEF WillRewrite
  <1> QED
    BY <1>3, <1>4, <1>5, <1>6 DEF Decides

\* The start of a call keeps the invariant: nobody was sending.
LEMMA BeginLogInv ==
    ASSUME SingleLock, TypeOK, SpendInv, RewriteInv, LogInv, NEW c \in Client, Begin(c)
    PROVE  LogInv'
  <1>1. View' = View /\ UNCHANGED <<sent, sentWhole, nextLog, delivered>>
    BY BeginKeepsView DEF Begin, RequestSendToken, SendEmail, ChooseTokens,
       AuthorizeSend, AuthorizeFails, store, history
  <1>2. \A t : Delivered(t)' <=> Delivered(t)
    BY <1>1 DEF Delivered
  <1>3. CASE UNCHANGED <<pc, next, mail>>
    <2>1. \A t : Sending(t)' <=> Sending(t)
      BY <1>3 DEF Sending
    <2> QED
      BY <1>1, <1>2, <1>3, <2>1 DEF LogInv, AtTheLog
  <1>4. CASE /\ \A d \in Client : pc[d] = "idle"
             /\ pc'[c] = "truncate" /\ \A d \in Client \ {c} : pc'[d] = pc[d]
    <2>1. \A t : ~Sending(t)
      BY <1>4 DEF Sending, SpendInv, Resting
    <2>2. \A d \in Client : pc'[d] \notin {"truncateLog", "fillLog"}
      BY <1>4
    <2>3. sentWhole
      BY <1>4 DEF LogInv
    <2> QED
      BY <1>1, <1>2, <2>1, <2>2, <2>3 DEF LogInv, AtTheLog
  <1> QED
    BY <1>3, <1>4, BeginDecides

\* The steps of the one call under way keep the invariant: what it spends it
\* is sending, and what it stops sending it has delivered.
LEMMA ContinueLogInv ==
    ASSUME TypeOK, Carries, SpendInv, SpendInv', RewriteInv, LogInv,
           NEW c \in Client, Continue(c)
    PROVE  LogInv'
  <1>1. pc[c] # "idle"
    BY DEF Continue, TruncateTokens, FillTokens, ReadLog, TruncateLog, FillLog
  <1>2. \A d \in Client \ {c} : pc[d] = "idle" /\ pc'[d] = "idle"
    <2> TAKE d \in Client \ {c}
    <2>1. pc[d] = "idle"
      BY <1>1 DEF SpendInv, Exclusive
    <2> QED
      BY <2>1 DEF TypeOK, Continue, TruncateTokens, FillTokens, ReadLog, TruncateLog,
         FillLog, Return
  <1>3. \A d \in Client \ {c} : AtTheLog(d)'
    BY <1>2 DEF AtTheLog
  <1>4. pc[c] # "fillLog" => sentWhole /\ sent = delivered
    BY <1>2 DEF LogInv
  <1>5. ASSUME UNCHANGED <<delivered, mail>>
        PROVE  \A t : /\ Delivered(t)' <=> Delivered(t)
                      /\ Sending(t)' <=> Sending(t)
    BY <1>5 DEF Delivered, Sending
  <1>6. CASE TruncateTokens(c)
    <2>1. /\ pc[c] = "truncate" /\ pc'[c] = "fill" /\ tokensWhole' = FALSE
          /\ next'[c] = next[c]
          /\ UNCHANGED <<delivered, mail, sent, sentWhole, nextLog>>
      BY <1>6 DEF TruncateTokens, TypeOK
    <2>2. tokensWhole /\ Decides(c) /\ View = tokens
      BY <2>1, ViewWhole DEF RewriteInv, StageInv
    <2>3. View' = next[c]
      <3>1. \A d \in Client : pc'[d] = "fill" => d = c
        BY <1>2
      <3>2. (CHOOSE d \in Client : pc'[d] = "fill") = c
        BY <2>1, <3>1
      <3> QED
        BY <2>1, <3>2 DEF View
    <2>4. \A t \in DOMAIN View' : View'[t].used => Delivered(t)' \/ Sending(t)'
      <3> SUFFICES ASSUME NEW t \in DOMAIN next[c], next[c][t].used
                   PROVE  Delivered(t) \/ Sending(t)
        BY <1>5, <2>1, <2>3
      <3>1. CASE t \in DOMAIN tokens /\ tokens[t].used
        BY <2>2, <3>1 DEF LogInv
      <3>2. CASE mail[c] # NoEmail /\ mail[c].token_id = t
        BY <3>2 DEF Sending
      <3> QED
        BY <2>2, <3>1, <3>2, DecidedUses
    <2>5. AtTheLog(c)'
      BY <2>1 DEF AtTheLog
    <2> QED
      BY <1>3, <1>4, <2>1, <2>4, <2>5 DEF LogInv
  <1>7. CASE FillTokens(c)
    <2>1. /\ pc[c] = "fill" /\ ~tokensWhole
          /\ tokens' = next[c] /\ tokensWhole' = TRUE
          /\ pc'[c] \in {"idle", "readLog"}
          /\ UNCHANGED <<delivered, sent, sentWhole>>
      BY <1>7 DEF FillTokens, RewriteInv, StageInv, Rewritten, TypeOK, Return, history
    <2>2. \A d \in Client : mail'[d] = mail[d]
      BY <1>7 DEF FillTokens, Return, TypeOK
    <2>3. View = next[c] /\ View' = next[c]
      <3>1. View = next[c]
        BY <2>1, ViewFilling DEF SpendInv
      <3> QED
        BY <2>1, <3>1 DEF View
    <2>4. \A t : /\ Delivered(t)' <=> Delivered(t)
                 /\ Sending(t)' <=> Sending(t)
      BY <2>1, <2>2 DEF Delivered, Sending
    <2>5. AtTheLog(c)'
      BY <2>1 DEF AtTheLog
    <2> QED
      BY <1>3, <1>4, <2>1, <2>3, <2>4, <2>5 DEF LogInv
  <1>8. CASE ReadLog(c)
    <2>1. /\ pc'[c] = "truncateLog" /\ nextLog'[c] = Append(delivered, mail[c])
          /\ UNCHANGED <<delivered, mail, sent, sentWhole>> /\ sentWhole
      BY <1>4, <1>8 DEF ReadLog, TypeOK, store, history
    <2>2. View' = View
      BY <1>8, LogKeepsView
    <2>3. AtTheLog(c)'
      BY <2>1 DEF AtTheLog
    <2> QED
      BY <1>3, <1>4, <1>5, <1>8, <2>1, <2>2, <2>3 DEF LogInv, ReadLog
  <1>9. CASE TruncateLog(c)
    <2>1. /\ pc[c] = "truncateLog" /\ pc'[c] = "fillLog" /\ sentWhole' = FALSE
          /\ UNCHANGED <<delivered, mail, nextLog>>
      BY <1>9 DEF TruncateLog, TypeOK, history
    <2>2. View' = View
      BY <1>9, LogKeepsView
    <2>3. AtTheLog(c)'
      BY <2>1 DEF AtTheLog, LogInv
    <2> QED
      BY <1>3, <1>5, <2>1, <2>2, <2>3 DEF LogInv
  <1>10. CASE FillLog(c)
    <2>1. /\ pc[c] = "fillLog" /\ pc'[c] = "idle"
          /\ sent' = nextLog[c] /\ delivered' = Append(delivered, mail[c])
          /\ mail[c] \in Email /\ delivered \in Seq(Email)
      BY <1>10 DEF FillLog, Return, Carries, TypeOK
    <2>2. AtTheLog(c) /\ ~sentWhole
      BY <2>1 DEF LogInv, AtTheLog
    <2>3. sent' = delivered' /\ sentWhole' = TRUE
      BY <1>10, <2>1, <2>2 DEF AtTheLog, FillLog, Rewritten
    <2>4. View' = View
      BY <1>10, LogKeepsView
    <2>5. \A t : Delivered(t) \/ Sending(t) => Delivered(t)' \/ Sending(t)'
      <3>1. /\ Len(delivered') = Len(delivered) + 1 /\ Len(delivered) \in Nat
            /\ delivered'[Len(delivered) + 1] = mail[c]
            /\ \A i \in 1..Len(delivered) : delivered'[i] = delivered[i]
        BY <2>1, AppendSeq
      <3>2. \A t : Delivered(t) => Delivered(t)'
        BY <3>1 DEF Delivered
      <3>3. PICK u : u = mail[c].token_id /\ delivered'[Len(delivered) + 1].token_id = u
        BY <3>1
      <3>4. Delivered(u)'
        BY <3>1, <3>3 DEF Delivered
      <3>5. \A t : Sending(t) => t = u
        BY <1>2, <3>3 DEF Sending, SpendInv, Resting
      <3> QED
        BY <3>2, <3>4, <3>5
    <2>6. AtTheLog(c)'
      BY <2>1 DEF AtTheLog
    <2> QED
      BY <1>3, <2>3, <2>4, <2>5, <2>6 DEF LogInv
  <1> QED
    BY <1>6, <1>7, <1>8, <1>9, <1>10 DEF Continue

\* Until the first crash every step keeps the invariant.
LEMMA NextLogInv ==
    ASSUME SingleLock, TypeOK, Carries, SpendInv, RewriteInv,
           crashes = 0 => LogInv, [Next]_vars
    PROVE  crashes' = 0 => LogInv'
  <1> SUFFICES ASSUME crashes' = 0 PROVE LogInv'
    OBVIOUS
  <1>1. ASSUME NEW c \in Client, Begin(c)
        PROVE  LogInv'
    <2>1. crashes' = crashes
      BY <1>1 DEF Begin, RequestSendToken, SendEmail, ChooseTokens, AuthorizeSend,
         AuthorizeFails, history
    <2> QED
      BY <1>1, <2>1, BeginLogInv
  <1>2. ASSUME NEW c \in Client, Continue(c)
        PROVE  LogInv'
    <2>1. crashes' = crashes
      BY <1>2 DEF Continue, TruncateTokens, FillTokens, ReadLog, TruncateLog,
         FillLog, history
    <2>2. SpendInv'
      BY NextSpendInv
    <2> QED
      BY <1>2, <2>1, <2>2, ContinueLogInv
  <1>3. ~ContainerRestart /\ \A c \in Client : ~Crash(ProcessOf[c])
    BY DEF ContainerRestart, Crash, TypeOK
  <1>4. CASE UNCHANGED vars
    <2>1. View' = View
      BY <1>4 DEF vars, store, work, View
    <2>2. \A t : /\ Delivered(t)' <=> Delivered(t)
                 /\ Sending(t)' <=> Sending(t)
      BY <1>4 DEF vars, work, history, Delivered, Sending
    <2> QED
      BY <1>4, <2>1, <2>2 DEF vars, store, work, history, LogInv, AtTheLog
  <1> QED
    BY <1>1, <1>2, <1>3, <1>4 DEF Next

\* As long as nothing crashes, no token is burnt without its email: a used
\* token is in the log or its call still runs, and a whole log holds every
\* email delivered.
THEOREM SpentTokenIsSentTheorem ==
    ASSUME SingleLock
    PROVE  Spec => []SpentTokenIsSent
  <1>1. Init => (crashes = 0 => LogInv)
    BY NoTokensStore DEF Init, LogInv, AtTheLog, View
  <1>2. /\ TypeOK /\ Carries /\ GrantInv /\ SpendInv /\ RewriteInv
        /\ crashes = 0 => LogInv
        /\ [Next]_vars
        => (crashes = 0 => LogInv)'
    BY SingleLock, NextLogInv
  <1>3. (crashes = 0 => LogInv) => SpentTokenIsSent
    BY DEF LogInv, SpentTokenIsSent
  <1> QED
    BY <1>1, <1>2, <1>3, GateInvariant, SingleLock, PTL DEF Spec
================================================================================
