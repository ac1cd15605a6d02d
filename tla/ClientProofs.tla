------------------------------ MODULE ClientProofs ------------------------------
(***************************************************************************)
(* Proofs about LiveQuote, ChatClient and QuoteDraft, for any numbers of   *)
(* instances, keys, quotes, turns, failures and crashes.  The last two are *)
(* instances here, since the three modules share names; what they assume   *)
(* of their constants is a hypothesis of the theorems about them.          *)
(***************************************************************************)
EXTENDS LiveQuote, FiniteSetTheorems, TLAPS

--------------------------------------------------------------------------------
(* Sequences and sizes. *)

\* Appending to a sequence keeps its elements and adds one, the last.
LEMMA AppendSeq ==
    ASSUME NEW S, NEW s \in Seq(S), NEW e \in S
    PROVE  /\ Append(s, e) \in Seq(S)
           /\ Len(Append(s, e)) = Len(s) + 1 /\ Len(s) \in Nat
           /\ Append(s, e)[Len(s) + 1] = e
           /\ \A i \in 1..Len(s) : Append(s, e)[i] = s[i]
  OBVIOUS

\* The empty sequence is one over every set.
LEMMA EmptySequence == ASSUME NEW S PROVE <<>> \in Seq(S)
  OBVIOUS

\* An element of a sequence over S is in S.
LEMMA ElementOf ==
    ASSUME NEW S, NEW s \in Seq(S), NEW i \in 1..Len(s)
    PROVE  s[i] \in S
  OBVIOUS

\* A smaller set has no more elements, one with an element more has at most
\* one more.
LEMMA SizeOf ==
    ASSUME NEW A, IsFiniteSet(A), NEW B
    PROVE  /\ Cardinality(A) \in Nat
           /\ B \subseteq A => /\ IsFiniteSet(B) /\ Cardinality(B) \in Nat
                               /\ Cardinality(B) <= Cardinality(A)
           /\ \A x : B \subseteq A \cup {x}
                  => /\ IsFiniteSet(B) /\ Cardinality(B) \in Nat
                     /\ Cardinality(B) <= Cardinality(A) + 1
           /\ \A x \in A : B \subseteq A \ {x}
                  => Cardinality(B) + 1 <= Cardinality(A)
  <1>1. Cardinality(A) \in Nat
    BY FS_CardinalityType
  <1>2. B \subseteq A => IsFiniteSet(B) /\ Cardinality(B) \in Nat
                         /\ Cardinality(B) <= Cardinality(A)
    BY FS_Subset, FS_CardinalityType
  <1>3. ASSUME NEW x, B \subseteq A \cup {x}
        PROVE  /\ IsFiniteSet(B) /\ Cardinality(B) \in Nat
               /\ Cardinality(B) <= Cardinality(A) + 1
    <2>1. PICK R : R = A \cup {x}
      OBVIOUS
    <2>2. /\ IsFiniteSet(R) /\ Cardinality(R) \in Nat
          /\ Cardinality(R) = IF x \in A THEN Cardinality(A) ELSE Cardinality(A) + 1
      BY <2>1, FS_AddElement, FS_CardinalityType
    <2>3. /\ IsFiniteSet(B) /\ Cardinality(B) \in Nat
          /\ Cardinality(B) <= Cardinality(R)
      BY <1>3, <2>1, <2>2, FS_Subset, FS_CardinalityType
    <2> QED
      BY <1>1, <2>2, <2>3
  <1>4. ASSUME NEW x \in A, B \subseteq A \ {x}
        PROVE  Cardinality(B) + 1 <= Cardinality(A)
    <2>1. PICK R : R = A \ {x}
      OBVIOUS
    <2>2. IsFiniteSet(R) /\ Cardinality(R) \in Nat /\ Cardinality(R) = Cardinality(A) - 1
      BY <2>1, FS_RemoveElement, FS_CardinalityType
    <2>3. Cardinality(B) \in Nat /\ Cardinality(B) <= Cardinality(R)
      BY <1>4, <2>1, <2>2, FS_Subset, FS_CardinalityType
    <2> QED
      BY <1>1, <2>2, <2>3
  <1> QED
    BY <1>1, <1>2, <1>3, <1>4

--------------------------------------------------------------------------------
(* The live client: types.  TypeOK holds with room in the org for the      *)
(* calls that still have to create their quote.                            *)

Pending == {i \in Instance : pc[i] \in {"create", "retry"}}

Room == Len(org) + Cardinality(Pending) <= MaxQuotes

\* The calls under way are finitely many.
LEMMA PendingFinite == IsFiniteSet(Pending) /\ Cardinality(Pending) \in Nat
  BY LiveQuoteAssumption, FS_Subset, FS_CardinalityType DEF Pending

\* The org is a list of keys.
LEMMA OrgList ==
    ASSUME TypeOK
    PROVE  org \in Seq(Key) /\ Len(org) \in Nat /\ Len(org) <= MaxQuotes
  BY DEF TypeOK

\* What a step does to the org: a call that is pending creates its quote, is
\* answered or not, or nothing is created.
Creates(i) ==
    /\ i \in Instance /\ pc[i] \in {"create", "retry"}
    /\ org' = Append(org, key[i])
    /\ UNCHANGED <<ledger, told, key>>
    /\ \/ /\ pc' = [pc EXCEPT ![i] = "put"] /\ failures' = failures
          /\ created' = [created EXCEPT ![i] = Len(org) + 1]
       \/ pc' = [pc EXCEPT ![i] = "idle"] /\ failures' = failures + 1 /\ UNCHANGED created

\* Every step creates one quote at most.
LEMMA OrgMoves ==
    ASSUME [Next]_vars
    PROVE  org' = org \/ \E i \in Instance : Creates(i)
  BY DEF Next, Continue, CreateQuoteDraft, Replay, QuoteCreate, AnswerLost, RefreshSession,
      SessionExpired, Put, Expire, Renew, Crash, Goto, Creates, call, file, vars

\* No quote is lost, and no more are made than there is room for.
LEMMA OrgGrows ==
    ASSUME TypeOK, Room, [Next]_vars
    PROVE  /\ org' \in Seq(Key) /\ Len(org') \in Nat /\ Len(org) \in Nat
           /\ Len(org) <= Len(org') /\ Len(org') <= MaxQuotes
           /\ 0..Len(org) \subseteq 0..Len(org') /\ 1..Len(org) \subseteq 1..Len(org')
           /\ \A q \in 1..Len(org) : org'[q] = org[q]
  <1>1. CASE org' = org
    BY <1>1, OrgList
  <1>2. ASSUME NEW i \in Instance, Creates(i)
        PROVE  /\ org' \in Seq(Key) /\ Len(org') = Len(org) + 1
               /\ Len(org) + 1 <= MaxQuotes
               /\ \A q \in 1..Len(org) : org'[q] = org[q]
    <2>1. PICK k \in Key : k = key[i]
      BY DEF TypeOK
    <2>2. org' = Append(org, k)
      BY <1>2, <2>1 DEF Creates
    <2>3. i \in Pending
      BY <1>2 DEF Creates, Pending
    <2>4. PICK n \in Nat, m \in Nat, l \in Nat :
             n = Cardinality(Pending) /\ m = MaxQuotes /\ l = Len(org) /\ l + n <= m
      BY PendingFinite, OrgList, LiveQuoteAssumption DEF Room
    <2>5. n # 0
      BY <2>3, <2>4, PendingFinite, FS_EmptySet
    <2>6. l + 1 <= m
      BY <2>4, <2>5
    <2> QED
      BY <2>2, <2>4, <2>6, OrgList, AppendSeq
  <1> QED
    BY <1>1, <1>2, OrgList, OrgMoves

--------------------------------------------------------------------------------
(* The live client: the inductive invariant. *)

\* A call that has its quote holds the id of a record for its key.
Held == \A i \in Instance :
            pc[i] = "put" => created[i] \in 1..Len(org) /\ org[created[i]] = key[i]

\* The quote a ledger names for a key is a record for that key.
Known == \A i \in Instance : \A k \in Key : ledger[i][k] # None => org[ledger[i][k]] = k

\* A call is under way only for a key its ledger does not know.
Unanswered == \A i \in Instance : pc[i] # "idle" => ledger[i][key[i]] = None

LiveInv == TypeOK /\ Room /\ Held /\ Known /\ Unanswered

--------------------------------------------------------------------------------
(* The live client: types and room. *)

\* The steps that create nothing leave the org alone, and add to the pending
\* calls at most one that there is room for.
LEMMA PendingMoves ==
    ASSUME TypeOK, [Next]_vars
    PROVE  \/ \E i \in Instance : Creates(i) /\ Pending' \subseteq Pending \ {i}
           \/ org' = org /\ Pending' \subseteq Pending
           \/ /\ org' = org /\ WithinBound
              /\ \E i \in Instance : Pending' \subseteq Pending \cup {i}
  <1>1. CASE UNCHANGED vars
    BY <1>1 DEF vars, call, file, Pending
  <1>2. ASSUME NEW i \in Instance, NEW k \in Key, CreateQuoteDraft(i, k)
        PROVE  org' = org /\ WithinBound /\ Pending' \subseteq Pending \cup {i}
    BY <1>2 DEF CreateQuoteDraft, Pending, Goto, TypeOK
  <1>3. ASSUME NEW i \in Instance, QuoteCreate(i) \/ AnswerLost(i)
        PROVE  Creates(i) /\ Pending' \subseteq Pending \ {i}
    <2>1. pc' = [pc EXCEPT ![i] = "put"] \/ pc' = [pc EXCEPT ![i] = "idle"]
      BY <1>3 DEF QuoteCreate, AnswerLost, Goto
    <2>2. Pending' \subseteq Pending \ {i}
      BY <2>1 DEF Pending, TypeOK
    <2>3. Creates(i)
      BY <1>3 DEF QuoteCreate, AnswerLost, Goto, Creates, file
    <2> QED
      BY <2>2, <2>3
  <1>4. ASSUME NEW i \in Instance, RefreshSession(i)
        PROVE  org' = org /\ Pending' \subseteq Pending
    BY <1>4 DEF RefreshSession, Goto, Pending, TypeOK
  <1>5. ASSUME NEW i \in Instance, SessionExpired(i) \/ Put(i) \/ Crash(i)
        PROVE  org' = org /\ Pending' \subseteq Pending
    <2>1. org' = org /\ pc' = [pc EXCEPT ![i] = "idle"]
      BY <1>5 DEF SessionExpired, Put, Crash, Goto
    <2> QED
      BY <2>1 DEF Pending, TypeOK
  <1>6. ASSUME NEW i \in Instance, Expire(i) \/ Renew(i) \/ \E k \in Key : Replay(i, k)
        PROVE  org' = org /\ Pending' \subseteq Pending
    BY <1>6 DEF Expire, Renew, Replay, call, Pending
  <1> QED
    BY <1>1, <1>2, <1>3, <1>4, <1>5, <1>6 DEF Next, Continue

\* There is always room for the quotes of the calls under way.
LEMMA RoomStep ==
    ASSUME LiveInv, [Next]_vars
    PROVE  Room'
  <1>1. TypeOK /\ Room
    BY DEF LiveInv
  <1>2. PICK P : P = Pending'
    OBVIOUS
  <1>3. PICK n \in Nat, l \in Nat, m \in Nat :
           n = Cardinality(Pending) /\ l = Len(org) /\ m = MaxQuotes /\ l + n <= m
    BY <1>1, PendingFinite, OrgList, LiveQuoteAssumption DEF Room
  <1>4. ASSUME NEW i \in Instance, Creates(i), P \subseteq Pending \ {i}
        PROVE  Len(org') + Cardinality(P) <= MaxQuotes
    <2>1. Len(org') = l + 1
      <3>1. PICK k \in Key : k = key[i]
        BY <1>1 DEF TypeOK
      <3> QED
        BY <1>1, <1>3, <1>4, <3>1, OrgList, AppendSeq DEF Creates
    <2>2. i \in Pending
      BY <1>4 DEF Creates, Pending
    <2>3. Cardinality(P) + 1 <= n /\ Cardinality(P) \in Nat
      BY <1>3, <1>4, <2>2, PendingFinite, SizeOf
    <2> QED
      BY <1>3, <2>1, <2>3
  <1>5. ASSUME org' = org, P \subseteq Pending
        PROVE  Len(org') + Cardinality(P) <= MaxQuotes
    <2>1. Cardinality(P) <= n /\ Cardinality(P) \in Nat
      BY <1>3, <1>5, PendingFinite, SizeOf
    <2> QED
      BY <1>3, <1>5, <2>1
  <1>6. ASSUME org' = org, WithinBound, NEW i \in Instance, P \subseteq Pending \cup {i}
        PROVE  Len(org') + Cardinality(P) <= MaxQuotes
    <2>1. PICK B : B = {j \in Instance : pc[j] # "idle"}
      OBVIOUS
    <2>2. IsFiniteSet(B) /\ Pending \subseteq B
      BY <2>1, LiveQuoteAssumption, FS_Subset DEF Pending
    <2>3. PICK b \in Nat : b = Cardinality(B) /\ n <= b
      BY <1>3, <2>2, SizeOf
    <2>4. l + b < m
      BY <1>3, <1>6, <2>1, <2>3 DEF WithinBound
    <2>5. Cardinality(P) <= n + 1 /\ Cardinality(P) \in Nat
      BY <1>3, <1>6, PendingFinite, SizeOf
    <2> QED
      BY <1>3, <1>6, <2>3, <2>4, <2>5
  <1>7. Len(org') + Cardinality(P) <= MaxQuotes
    BY <1>1, <1>2, <1>4, <1>5, <1>6, PendingMoves
  <1> QED
    BY <1>2, <1>7 DEF Room

\* A ledger names quotes the org has.
LEMMA LedgerType ==
    ASSUME TypeOK, [Next]_vars
    PROVE  ledger' \in [Instance -> [Key -> 0..Len(org)]]
  <1>1. ASSUME NEW i \in Instance, Put(i)
        PROVE  ledger' \in [Instance -> [Key -> 0..Len(org)]]
    BY <1>1 DEF Put, TypeOK
  <1>2. ASSUME NEW i \in Instance, Crash(i)
        PROVE  ledger' \in [Instance -> [Key -> 0..Len(org)]]
    <2>1. None \in 0..Len(org)
      BY OrgList DEF None
    <2>2. [k \in Key |-> None] \in [Key -> 0..Len(org)]
      BY <2>1
    <2> QED
      BY <1>2, <2>2 DEF Crash, LoseLedger, file, TypeOK
  <1> QED
    BY <1>1, <1>2 DEF Next, Continue, CreateQuoteDraft, Replay, QuoteCreate, AnswerLost,
        RefreshSession, SessionExpired, Expire, Renew, call, file, vars, TypeOK

\* What an instance answers is a quote the org has, for the key it was asked.
LEMMA ToldType ==
    ASSUME LiveInv, [Next]_vars
    PROVE  told' \in [Instance -> SUBSET (Key \X (1..Len(org)))]
  <1>1. TypeOK /\ Held
    BY DEF LiveInv
  <1>2. ASSUME NEW i \in Instance, NEW k \in Key, Replay(i, k)
        PROVE  told' \in [Instance -> SUBSET (Key \X (1..Len(org)))]
    <2>1. ledger[i][k] \in 1..Len(org)
      BY <1>1, <1>2, OrgList DEF Replay, TypeOK, None
    <2> QED
      BY <1>1, <1>2, <2>1 DEF Replay, TypeOK
  <1>3. ASSUME NEW i \in Instance, Put(i)
        PROVE  told' \in [Instance -> SUBSET (Key \X (1..Len(org)))]
    <2>1. created[i] \in 1..Len(org) /\ key[i] \in Key
      BY <1>1, <1>3 DEF Put, Held, TypeOK
    <2> QED
      BY <1>1, <1>3, <2>1 DEF Put, TypeOK
  <1>4. ASSUME NEW i \in Instance, Crash(i)
        PROVE  told' \in [Instance -> SUBSET (Key \X (1..Len(org)))]
    BY <1>1, <1>4 DEF Crash, TypeOK
  <1> QED
    BY <1>1, <1>2, <1>3, <1>4 DEF Next, Continue, CreateQuoteDraft, QuoteCreate, AnswerLost,
        RefreshSession, SessionExpired, Expire, Renew, call, file, vars, TypeOK

\* A call holds the id of a quote the org has, or of none.
LEMMA CreatedType ==
    ASSUME LiveInv, [Next]_vars
    PROVE  created' \in [Instance -> 0..Len(org')]
  <1>1. TypeOK /\ Room /\ None \in 0..Len(org')
    BY OrgGrows DEF LiveInv, None
  <1>2. created \in [Instance -> 0..Len(org')]
    BY <1>1, OrgGrows DEF TypeOK
  <1>3. ASSUME NEW i \in Instance, QuoteCreate(i)
        PROVE  created' \in [Instance -> 0..Len(org')]
    <2>1. PICK k \in Key : k = key[i]
      BY <1>1 DEF TypeOK
    <2>2. Len(org) + 1 \in 0..Len(org')
      BY <1>1, <1>3, <2>1, OrgList, AppendSeq DEF QuoteCreate
    <2> QED
      BY <1>2, <1>3, <2>2 DEF QuoteCreate
  <1>4. ASSUME NEW i \in Instance, Put(i) \/ Crash(i)
        PROVE  created' \in [Instance -> 0..Len(org')]
    BY <1>1, <1>2, <1>4 DEF Put, Crash
  <1> QED
    BY <1>2, <1>3, <1>4 DEF Next, Continue, CreateQuoteDraft, Replay, AnswerLost,
        RefreshSession, SessionExpired, Expire, Renew, call, file, vars

\* Every step keeps the types.
LEMMA TypeStep ==
    ASSUME LiveInv, [Next]_vars
    PROVE  TypeOK'
  <1>1. TypeOK /\ Room
    BY DEF LiveInv
  <1>2. PICK n \in Nat : n = Len(org)
    BY <1>1, OrgList
  <1>3. PICK m \in Nat : m = Len(org')
    BY <1>1, OrgGrows
  <1>4. /\ ledger' \in [Instance -> [Key -> 0..n]]
        /\ told' \in [Instance -> SUBSET (Key \X (1..n))]
        /\ created' \in [Instance -> 0..m]
        /\ n <= m
    BY <1>1, <1>2, <1>3, LedgerType, ToldType, CreatedType, OrgGrows
  <1>5. /\ ledger' \in [Instance -> [Key -> 0..m]]
        /\ told' \in [Instance -> SUBSET (Key \X (1..m))]
    BY <1>4
  <1>6. /\ valid' \in [Instance -> BOOLEAN]
        /\ pc' \in [Instance -> {"idle", "create", "retry", "put"}]
        /\ key' \in [Instance -> Key]
    <2>1. valid' \in [Instance -> BOOLEAN]
      BY <1>1 DEF Next, Continue, CreateQuoteDraft, Replay, QuoteCreate, AnswerLost,
          RefreshSession, SessionExpired, Put, Expire, Renew, Crash, Goto, call, file,
          vars, TypeOK
    <2>2. \A i \in Instance : \A label \in {"idle", "create", "retry", "put"} :
             [pc EXCEPT ![i] = label] \in [Instance -> {"idle", "create", "retry", "put"}]
      BY <1>1 DEF TypeOK
    <2>3. \/ pc' = pc
          \/ \E i \in Instance : \E label \in {"idle", "create", "retry", "put"} :
                pc' = [pc EXCEPT ![i] = label]
      BY DEF Next, Continue, CreateQuoteDraft, Replay, QuoteCreate, AnswerLost, RefreshSession,
          SessionExpired, Put, Expire, Renew, Crash, Goto, call, file, vars
    <2>4. key' = key \/ \E i \in Instance : \E k \in Key : key' = [key EXCEPT ![i] = k]
      BY DEF Next, Continue, CreateQuoteDraft, Replay, QuoteCreate, AnswerLost, RefreshSession,
          SessionExpired, Put, Expire, Renew, Crash, Goto, call, file, vars
    <2>5. pc' \in [Instance -> {"idle", "create", "retry", "put"}]
      <3>1. pc \in [Instance -> {"idle", "create", "retry", "put"}]
        BY <1>1 DEF TypeOK
      <3> QED
        BY <2>2, <2>3, <3>1
    <2>6. key' \in [Instance -> Key]
      BY <1>1, <2>4 DEF TypeOK
    <2> QED
      BY <2>1, <2>5, <2>6
  <1>7. failures' \in 0..MaxFailures
    <2>1. failures' = failures \/ (failures < MaxFailures /\ failures' = failures + 1)
      BY DEF Next, Continue, CreateQuoteDraft, Replay, QuoteCreate, AnswerLost, RefreshSession,
          SessionExpired, Put, Expire, Renew, Crash, vars
    <2> QED
      BY <1>1, <2>1, LiveQuoteAssumption DEF TypeOK
  <1>8. whole' \in [Instance -> BOOLEAN] /\ losses' \in [Instance -> 0..failures']
    <2>1. PICK f \in Nat : f = failures
      BY <1>1, LiveQuoteAssumption DEF TypeOK
    <2>2. ASSUME NEW i \in Instance, Crash(i)
          PROVE  whole' \in [Instance -> BOOLEAN] /\ losses' \in [Instance -> 0..(f + 1)]
      <3>1. losses \in [Instance -> 0..f]
        BY <1>1, <2>1 DEF TypeOK
      <3>2. CASE UNCHANGED file
        BY <1>1, <3>1, <3>2 DEF file, TypeOK
      <3>3. ASSUME NEW parses \in BOOLEAN, LoseLedger(i, parses)
            PROVE  whole' \in [Instance -> BOOLEAN] /\ losses' \in [Instance -> 0..(f + 1)]
        BY <1>1, <3>1, <3>3 DEF LoseLedger, TypeOK
      <3> QED
        BY <2>2, <3>2, <3>3 DEF Crash
    <2>3. ASSUME NEW i \in Instance, Crash(i)
          PROVE  failures' = f + 1
      BY <2>1, <2>3 DEF Crash
    <2>4. \/ \E i \in Instance : Crash(i)
          \/ UNCHANGED <<whole, losses>> /\ (failures' = f \/ failures' = f + 1)
      BY <2>1 DEF Next, Continue, CreateQuoteDraft, Replay, QuoteCreate, AnswerLost,
          RefreshSession, SessionExpired, Put, Expire, Renew, file, vars
    <2>5. CASE UNCHANGED <<whole, losses>> /\ (failures' = f \/ failures' = f + 1)
      BY <1>1, <2>1, <2>5 DEF TypeOK
    <2> QED
      BY <2>1, <2>2, <2>3, <2>4, <2>5
  <1> QED
    BY <1>1, <1>3, <1>4, <1>5, <1>6, <1>7, <1>8, OrgGrows DEF TypeOK

--------------------------------------------------------------------------------
(* The live client: ledgers and records agree. *)

\* What a step may do to the call of an instance.
CallMove(i) ==
    \/ pc'[i] = pc[i] /\ key'[i] = key[i] /\ created'[i] = created[i]
    \/ pc'[i] = "idle"
    \/ pc'[i] = "create" /\ ledger[i][key'[i]] = None /\ UNCHANGED ledger
    \/ pc[i] # "idle" /\ pc'[i] = "retry" /\ key'[i] = key[i] /\ created'[i] = created[i]
    \/ QuoteCreate(i)

\* A step does no more to it.
LEMMA CallMoves ==
    ASSUME TypeOK, [Next]_vars, NEW i \in Instance
    PROVE  CallMove(i)
  <1>1. CASE UNCHANGED call
    BY <1>1 DEF call, CallMove
  <1>2. ASSUME NEW j \in Instance, NEW k \in Key, CreateQuoteDraft(j, k)
        PROVE  CallMove(i)
    BY <1>2 DEF CreateQuoteDraft, Goto, TypeOK, CallMove, file
  <1>3. ASSUME NEW j \in Instance, QuoteCreate(j)
        PROVE  CallMove(i)
    <2>1. i = j \/ (pc'[i] = pc[i] /\ key'[i] = key[i] /\ created'[i] = created[i])
      BY <1>3 DEF QuoteCreate, Goto, TypeOK
    <2> QED
      BY <1>3, <2>1 DEF CallMove
  <1>4. ASSUME NEW j \in Instance, RefreshSession(j)
        PROVE  CallMove(i)
    BY <1>4 DEF RefreshSession, Goto, TypeOK, CallMove
  <1>5. ASSUME NEW j \in Instance, AnswerLost(j) \/ SessionExpired(j) \/ Put(j) \/ Crash(j)
        PROVE  CallMove(i)
    <2>1. /\ pc' = [pc EXCEPT ![j] = "idle"] /\ key' = key
          /\ created' = created \/ created' = [created EXCEPT ![j] = None]
      BY <1>5 DEF AnswerLost, SessionExpired, Put, Crash, Goto
    <2> QED
      BY <2>1 DEF TypeOK, CallMove
  <1>6. ASSUME NEW j \in Instance, Expire(j) \/ Renew(j) \/ \E k \in Key : Replay(j, k)
        PROVE  UNCHANGED call
    BY <1>6 DEF Expire, Renew, Replay
  <1> QED
    BY <1>1, <1>2, <1>3, <1>4, <1>5, <1>6 DEF Next, Continue, vars

\* What a step does to the ledger of an instance.
LEMMA LedgerMoves ==
    ASSUME TypeOK, [Next]_vars, NEW i \in Instance
    PROVE  \/ ledger'[i] = ledger[i]
           \/ pc[i] = "put" /\ pc'[i] = "idle"
              /\ \A k \in Key : ledger'[i][k] = IF k = key[i] THEN created[i] ELSE ledger[i][k]
           \/ pc'[i] = "idle" /\ \A k \in Key : ledger'[i][k] = None
  <1>1. ASSUME NEW j \in Instance, Put(j)
        PROVE  \/ ledger'[i] = ledger[i]
               \/ pc[i] = "put" /\ pc'[i] = "idle"
                  /\ \A k \in Key : ledger'[i][k] = IF k = key[i] THEN created[i]
                                                                  ELSE ledger[i][k]
    BY <1>1 DEF Put, Goto, TypeOK
  <1>2. ASSUME NEW j \in Instance, Crash(j)
        PROVE  \/ ledger'[i] = ledger[i]
               \/ pc'[i] = "idle" /\ \A k \in Key : ledger'[i][k] = None
    BY <1>2 DEF Crash, LoseLedger, file, Goto, TypeOK
  <1> QED
    BY <1>1, <1>2 DEF Next, Continue, CreateQuoteDraft, Replay, QuoteCreate, AnswerLost,
        RefreshSession, SessionExpired, Expire, Renew, call, file, vars

\* A call still holds a record for its key.
LEMMA HeldStep ==
    ASSUME LiveInv, [Next]_vars
    PROVE  Held'
  <1>1. TypeOK /\ Room /\ Held
    BY DEF LiveInv
  <1> SUFFICES ASSUME NEW i \in Instance, pc'[i] = "put"
               PROVE  created'[i] \in 1..Len(org') /\ org'[created'[i]] = key'[i]
    BY DEF Held
  <1>2. CASE pc'[i] = pc[i] /\ key'[i] = key[i] /\ created'[i] = created[i]
    <2>1. created[i] \in 1..Len(org) /\ org[created[i]] = key[i]
      BY <1>1, <1>2 DEF Held
    <2> QED
      BY <1>1, <1>2, <2>1, OrgGrows
  <1>3. CASE QuoteCreate(i)
    <2>1. PICK k \in Key : k = key[i]
      BY <1>1 DEF TypeOK
    <2>2. org' = Append(org, k) /\ created'[i] = Len(org) + 1 /\ key'[i] = k
      BY <1>1, <1>3, <2>1 DEF QuoteCreate, TypeOK
    <2>3. PICK n \in Nat : n = Len(org)
      BY <1>1, OrgList
    <2>4. Len(org') = n + 1 /\ org'[n + 1] = k
      BY <1>1, <2>2, <2>3, OrgList, AppendSeq
    <2> QED
      BY <2>2, <2>3, <2>4
  <1> QED
    BY <1>1, <1>2, <1>3, CallMoves DEF CallMove

\* A ledger still names records for their keys.
LEMMA KnownStep ==
    ASSUME LiveInv, [Next]_vars
    PROVE  Known'
  <1>1. TypeOK /\ Room /\ Held /\ Known
    BY DEF LiveInv
  <1> SUFFICES ASSUME NEW i \in Instance, NEW k \in Key, ledger'[i][k] # None
               PROVE  org'[ledger'[i][k]] = k
    BY DEF Known
  <1>2. PICK q : q = ledger'[i][k]
    OBVIOUS
  <1>3. \/ q = ledger[i][k] /\ q # None
        \/ pc[i] = "put" /\ k = key[i] /\ q = created[i]
    BY <1>1, <1>2, LedgerMoves
  <1>4. q \in 1..Len(org) /\ org[q] = k
    <2>1. CASE q = ledger[i][k] /\ q # None
      <3>1. q \in 0..Len(org) /\ Len(org) \in Nat
        BY <1>1, <2>1, OrgList DEF TypeOK
      <3> QED
        BY <1>1, <2>1, <3>1 DEF Known, None
    <2>2. CASE pc[i] = "put" /\ k = key[i] /\ q = created[i]
      BY <1>1, <2>2 DEF Held
    <2> QED
      BY <1>3, <2>1, <2>2
  <1>5. org'[q] = k
    BY <1>1, <1>4, OrgGrows
  <1> QED
    BY <1>2, <1>5

\* No ledger learns of a key while a call for it is under way.
LEMMA UnansweredStep ==
    ASSUME LiveInv, [Next]_vars
    PROVE  Unanswered'
  <1>1. TypeOK /\ Unanswered
    BY DEF LiveInv
  <1> SUFFICES ASSUME NEW i \in Instance, pc'[i] # "idle"
               PROVE  ledger'[i][key'[i]] = None
    BY DEF Unanswered
  <1>2. ledger'[i] = ledger[i]
    BY <1>1, LedgerMoves
  <1>3. ledger[i][key'[i]] = None
    <2>1. CASE pc'[i] = pc[i] /\ key'[i] = key[i]
      BY <1>1, <2>1 DEF Unanswered
    <2>2. CASE pc'[i] = "create" /\ ledger[i][key'[i]] = None
      BY <2>2
    <2>3. CASE pc[i] # "idle" /\ key'[i] = key[i]
      BY <1>1, <2>3 DEF Unanswered
    <2>4. CASE QuoteCreate(i)
      <3>1. pc[i] # "idle" /\ key'[i] = key[i]
        BY <2>4 DEF QuoteCreate
      <3> QED
        BY <1>1, <3>1 DEF Unanswered
    <2> QED
      BY <1>1, <2>1, <2>2, <2>3, <2>4, CallMoves DEF CallMove
  <1> QED
    BY <1>2, <1>3

\* The org begins empty, with no call under way.
LEMMA LiveInit ==
    ASSUME Init
    PROVE  LiveInv
  <1>1. org = <<>> /\ org \in Seq(Key) /\ Len(org) = 0
    BY DEF Init
  <1>2. TypeOK
    BY <1>1, LiveQuoteAssumption DEF Init, TypeOK, None
  <1>3. Pending = {}
    BY DEF Init, Pending
  <1>4. Room
    <2>1. Cardinality(Pending) = 0
      BY <1>3, FS_EmptySet
    <2>2. PICK m \in Nat : m = MaxQuotes
      BY LiveQuoteAssumption
    <2> QED
      BY <1>1, <2>1, <2>2 DEF Room
  <1>5. Held /\ Known /\ Unanswered
    BY DEF Init, Held, Known, Unanswered
  <1> QED
    BY <1>2, <1>4, <1>5 DEF LiveInv

\* Quotes, ledgers and calls agree at all times, whatever expires, crashes
\* or is lost: the inductive invariant.
THEOREM LedgersAgree == Spec => []LiveInv
  <1>1. LiveInv /\ [Next]_vars => LiveInv'
    BY TypeStep, RoomStep, HeldStep, KnownStep, UnansweredStep DEF LiveInv
  <1> QED
    BY <1>1, LiveInit, PTL DEF Spec

\* Every variable has its type, and the org its bound.
THEOREM LiveTypeCorrect == Spec => []TypeOK
  <1>1. LiveInv => TypeOK
    BY DEF LiveInv
  <1> QED
    BY <1>1, LedgersAgree, PTL

--------------------------------------------------------------------------------
(* The live client: answers stay. *)

\* The answers of an instance for a key are those it had.
NoNewAnswer(i, k) == \A q : <<k, q>> \in told'[i] => <<k, q>> \in told[i]

\* They are those and the quote its ledger names after the step, where before
\* it named that or none.
NewAnswerKept(i, k) ==
    /\ \A q : <<k, q>> \in told'[i] => <<k, q>> \in told[i] \/ q = ledger'[i][k]
    /\ ledger[i][k] \in {ledger'[i][k], None}
    /\ ledger'[i][k] \in 1..Len(org) /\ org[ledger'[i][k]] = k

\* A step adds no answer and keeps the ledger, or adds none and loses the
\* ledger, or adds one and keeps that in the ledger.
LEMMA AnswersMove ==
    ASSUME LiveInv, [Next]_vars, NEW i \in Instance, NEW k \in Key
    PROVE  \/ NoNewAnswer(i, k) /\ ledger'[i][k] = ledger[i][k] /\ losses'[i] = losses[i]
           \/ NoNewAnswer(i, k) /\ losses'[i] = losses[i] + 1
           \/ NewAnswerKept(i, k) /\ losses'[i] = losses[i]
  <1>1. TypeOK /\ Held /\ Known /\ Unanswered
    BY DEF LiveInv
  <1>2. CASE UNCHANGED <<told, file>>
    BY <1>2 DEF file, NoNewAnswer
  <1>3. ASSUME NEW j \in Instance, Crash(j)
        PROVE  \/ NoNewAnswer(i, k) /\ ledger'[i][k] = ledger[i][k] /\ losses'[i] = losses[i]
               \/ NoNewAnswer(i, k) /\ losses'[i] = losses[i] + 1
    <2>1. told' = told
      BY <1>3 DEF Crash
    <2>2. NoNewAnswer(i, k)
      BY <2>1 DEF NoNewAnswer
    <2>3. CASE UNCHANGED file
      BY <2>2, <2>3 DEF file
    <2>4. CASE LoseLedger(j, TRUE) \/ LoseLedger(j, FALSE)
      <3>1. CASE i = j
        BY <1>1, <2>2, <2>4, <3>1 DEF LoseLedger, TypeOK
      <3>2. CASE i # j
        BY <1>1, <2>2, <2>4, <3>2 DEF LoseLedger, TypeOK
      <3> QED
        BY <3>1, <3>2
    <2> QED
      BY <1>3, <2>3, <2>4 DEF Crash
  <1>4. ASSUME NEW j \in Instance, j # i, Put(j) \/ \E c \in Key : Replay(j, c)
        PROVE  NoNewAnswer(i, k) /\ ledger'[i][k] = ledger[i][k] /\ losses'[i] = losses[i]
    <2>1. told'[i] = told[i] /\ ledger'[i] = ledger[i] /\ losses'[i] = losses[i]
      BY <1>1, <1>4 DEF Put, Replay, file, TypeOK
    <2> QED
      BY <2>1 DEF NoNewAnswer
  <1>5. ASSUME NEW c \in Key, Replay(i, c)
        PROVE  \/ NoNewAnswer(i, k) /\ ledger'[i][k] = ledger[i][k] /\ losses'[i] = losses[i]
               \/ NewAnswerKept(i, k) /\ losses'[i] = losses[i]
    <2>1. ledger' = ledger /\ losses' = losses /\ told'[i] = told[i] \cup {<<c, ledger[i][c]>>}
      BY <1>1, <1>5 DEF Replay, file, TypeOK
    <2>2. CASE c # k
      BY <2>1, <2>2 DEF NoNewAnswer
    <2>3. CASE c = k
      <3>1. ledger[i][k] \in 1..Len(org) /\ org[ledger[i][k]] = k
        BY <1>1, <1>5, <2>3, OrgList DEF Replay, Known, TypeOK, None
      <3> QED
        BY <2>1, <2>3, <3>1 DEF NewAnswerKept
    <2> QED
      BY <2>2, <2>3
  <1>6. ASSUME Put(i)
        PROVE  \/ NoNewAnswer(i, k) /\ ledger'[i][k] = ledger[i][k] /\ losses'[i] = losses[i]
               \/ NewAnswerKept(i, k) /\ losses'[i] = losses[i]
    <2>1. /\ ledger'[i][k] = IF k = key[i] THEN created[i] ELSE ledger[i][k]
          /\ told'[i] = told[i] \cup {<<key[i], created[i]>>} /\ losses' = losses
      BY <1>1, <1>6 DEF Put, TypeOK
    <2>2. CASE key[i] # k
      BY <2>1, <2>2 DEF NoNewAnswer
    <2>3. CASE key[i] = k
      <3>1. created[i] \in 1..Len(org) /\ org[created[i]] = k /\ ledger[i][k] = None
        BY <1>1, <1>6, <2>3 DEF Put, Held, Unanswered
      <3> QED
        BY <2>1, <2>3, <3>1 DEF NewAnswerKept
    <2> QED
      BY <2>2, <2>3
  <1> QED
    BY <1>2, <1>3, <1>4, <1>5, <1>6 DEF Next, Continue, CreateQuoteDraft, QuoteCreate,
        AnswerLost, RefreshSession, SessionExpired, Expire, Renew, vars

\* No step forgets an answer but with a loss of the ledger.
LEMMA AnsweredStep ==
    ASSUME LiveInv, AnsweredQuoteStays, [Next]_vars
    PROVE  AnsweredQuoteStays'
  <1>1. TypeOK /\ Room
    BY DEF LiveInv
  <1> SUFFICES ASSUME NEW i \in Instance, NEW k \in Key
               PROVE  /\ \A q \in Answers(i, k)' : org'[q] = k
                      /\ Cardinality(Answers(i, k)' \ {ledger'[i][k]}) <= losses'[i]
    BY DEF AnsweredQuoteStays
  <1>2. PICK n \in Nat, m \in Nat, l \in Nat :
           n = Len(org) /\ m = Len(org') /\ l = losses[i] /\ losses'[i] \in Nat
    BY <1>1, OrgList, TypeStep DEF TypeOK
  <1>3. PICK A, B, u, v : /\ A = Answers(i, k) /\ B = Answers(i, k)'
                          /\ u = ledger[i][k] /\ v = ledger'[i][k]
    OBVIOUS
  <1>4. /\ A \subseteq 1..n /\ \A q \in A : <<k, q>> \in told[i] /\ org[q] = k
        /\ \A q : <<k, q>> \in told[i] => q \in A
    <2>1. told[i] \subseteq Key \X (1..n)
      BY <1>1, <1>2 DEF TypeOK
    <2> QED
      BY <1>2, <1>3, <2>1 DEF Answers, AnsweredQuoteStays
  <1>5. \A q \in B : <<k, q>> \in told'[i]
    BY <1>3 DEF Answers
  <1>6. n <= m /\ \A q \in 1..n : org'[q] = org[q]
    BY <1>1, <1>2, OrgGrows
  <1>7. IsFiniteSet(1..n) /\ None \notin 1..n
    BY <1>2, FS_Interval DEF None
  <1>8. IsFiniteSet(A) /\ IsFiniteSet(A \ {u})
    BY <1>4, <1>7, FS_Subset
  <1>9. PICK c \in Nat : c = Cardinality(A \ {u}) /\ c <= l
    BY <1>2, <1>3, <1>8, FS_CardinalityType DEF AnsweredQuoteStays
  <1>10. CASE NoNewAnswer(i, k)
    <2>1. B \subseteq A
      BY <1>4, <1>5, <1>10 DEF NoNewAnswer
    <2>2. \A q \in B : org'[q] = k
      BY <1>4, <1>6, <2>1
    <2>3. CASE v = u /\ losses'[i] = l
      <3>1. B \ {v} \subseteq A \ {u}
        BY <2>1, <2>3
      <3>2. Cardinality(B \ {v}) <= c /\ Cardinality(B \ {v}) \in Nat
        BY <1>8, <1>9, <3>1, SizeOf
      <3> QED
        BY <1>2, <1>3, <1>9, <2>2, <2>3, <3>2
    <2>4. CASE losses'[i] = l + 1
      <3>1. B \ {v} \subseteq (A \ {u}) \cup {u}
        BY <2>1
      <3>2. Cardinality(B \ {v}) <= c + 1 /\ Cardinality(B \ {v}) \in Nat
        BY <1>8, <1>9, <3>1, SizeOf
      <3> QED
        BY <1>2, <1>3, <1>9, <2>2, <2>4, <3>2
    <2>5. CASE NewAnswerKept(i, k) /\ losses'[i] = l
      <3>1. B \ {v} \subseteq A \ {u}
        BY <1>3, <1>4, <1>7, <2>1, <2>5 DEF NewAnswerKept
      <3>2. Cardinality(B \ {v}) <= c /\ Cardinality(B \ {v}) \in Nat
        BY <1>8, <1>9, <3>1, SizeOf
      <3> QED
        BY <1>2, <1>3, <1>9, <2>2, <2>5, <3>2
    <2> QED
      BY <1>2, <1>3, <2>3, <2>4, <2>5, AnswersMove
  <1>11. CASE NewAnswerKept(i, k) /\ losses'[i] = l
    <2>1. /\ B \subseteq A \cup {v} /\ u \in {v, None}
          /\ v \in 1..n /\ org[v] = k
      BY <1>2, <1>3, <1>4, <1>5, <1>11 DEF NewAnswerKept
    <2>2. \A q \in B : org'[q] = k
      BY <1>4, <1>6, <2>1
    <2>3. B \ {v} \subseteq A \ {u}
      BY <1>4, <1>7, <2>1
    <2>4. Cardinality(B \ {v}) <= c /\ Cardinality(B \ {v}) \in Nat
      BY <1>8, <1>9, <2>3, SizeOf
    <2> QED
      BY <1>2, <1>3, <1>9, <1>11, <2>2, <2>4
  <1> QED
    BY <1>2, <1>10, <1>11, AnswersMove

\* A quote that was answered is a record of the org for its key, and the
\* answer to every later call with it, through lost answers and expired
\* sessions; of a key at most one is forgotten for each time the ledger goes.
THEOREM AnswersStay == Spec => []AnsweredQuoteStays
  <1>1. ASSUME Init
        PROVE  AnsweredQuoteStays
    <2>1. ASSUME NEW i \in Instance, NEW k \in Key
          PROVE  /\ Answers(i, k) = {} /\ losses[i] = 0
                 /\ Cardinality(Answers(i, k) \ {ledger[i][k]}) = 0
      <3>1. Answers(i, k) = {} /\ losses[i] = 0
        BY <1>1 DEF Init, Answers
      <3>2. Answers(i, k) \ {ledger[i][k]} = {}
        BY <3>1
      <3> QED
        BY <3>1, <3>2, FS_EmptySet
    <2> QED
      BY <2>1 DEF AnsweredQuoteStays
  <1>2. LiveInv /\ AnsweredQuoteStays /\ [Next]_vars => AnsweredQuoteStays'
    BY AnsweredStep
  <1> QED
    BY <1>1, <1>2, LedgersAgree, PTL DEF Spec

--------------------------------------------------------------------------------
(* The live client: every duplicate has a cause. *)

\* A new quote is one more for its key, and none for the others.
LEMMA QuotesMove ==
    ASSUME LiveInv, NEW i \in Instance, NEW k \in Key, Creates(i)
    PROVE  /\ QuotesOf(k)' \subseteq QuotesOf(k) \cup {Len(org) + 1}
           /\ key[i] # k => QuotesOf(k)' \subseteq QuotesOf(k)
  <1>1. TypeOK
    BY DEF LiveInv
  <1>2. PICK c \in Key : c = key[i]
    BY <1>1 DEF TypeOK
  <1>3. org' = Append(org, c)
    BY <1>2 DEF Creates
  <1>4. PICK n \in Nat : n = Len(org)
    BY <1>1, OrgList
  <1>5. /\ Len(org') = n + 1 /\ org'[n + 1] = c
        /\ \A q \in 1..n : org'[q] = org[q]
    BY <1>1, <1>3, <1>4, OrgList, AppendSeq
  <1>6. \A q \in 1..Len(org') : q = n + 1 \/ q \in 1..n
    BY <1>4, <1>5
  <1> QED
    BY <1>2, <1>4, <1>5, <1>6 DEF QuotesOf

\* An instance that does not crash stays aware of its quotes.
LEMMA AwareStays ==
    ASSUME LiveInv, [Next]_vars, NEW k \in Key,
           NEW i \in Aware(k), ~Crash(i)
    PROVE  i \in Aware(k)'
  <1>1. TypeOK /\ Held
    BY DEF LiveInv
  <1>2. i \in Instance
    BY DEF Aware
  <1>3. CASE ledger[i][k] # None
    <2>1. ledger'[i][k] # None
      <3>1. ASSUME NEW j \in Instance, Put(j)
            PROVE  ledger'[i][k] # None
        <4>1. created[j] # None
          BY <1>1, <3>1, OrgList DEF Put, Held, None
        <4> QED
          BY <1>1, <1>2, <1>3, <3>1, <4>1 DEF Put, TypeOK
      <3>2. ASSUME NEW j \in Instance, Crash(j)
            PROVE  ledger'[i][k] # None
        BY <1>1, <1>2, <1>3, <3>2 DEF Crash, LoseLedger, file, TypeOK
      <3> QED
        BY <1>1, <1>3, <3>1, <3>2 DEF Next, Continue, CreateQuoteDraft, Replay, QuoteCreate,
            AnswerLost, RefreshSession, SessionExpired, Expire, Renew, call, file, vars
    <2> QED
      BY <1>2, <2>1 DEF Aware
  <1>4. CASE pc[i] = "put" /\ key[i] = k
    <2>1. \/ pc'[i] = "put" /\ key'[i] = k
          \/ Put(i)
      <3>1. CASE UNCHANGED call
        BY <1>4, <3>1 DEF call
      <3>2. ASSUME NEW j \in Instance, j # i, NEW label, pc' = [pc EXCEPT ![j] = label],
                   key' = key \/ \E c \in Key : key' = [key EXCEPT ![j] = c]
            PROVE  pc'[i] = "put" /\ key'[i] = k
        BY <1>1, <1>2, <1>4, <3>2 DEF TypeOK
      <3>3. ASSUME NEW j \in Instance, ~Put(j), ~Crash(j), ~UNCHANGED call,
                   Continue(j) \/ \E c \in Key : CreateQuoteDraft(j, c)
            PROVE  pc'[i] = "put" /\ key'[i] = k
        <4>1. j # i
          BY <1>4, <3>3 DEF Continue, CreateQuoteDraft, QuoteCreate, AnswerLost,
              RefreshSession, SessionExpired
        <4>2. /\ \E label : pc' = [pc EXCEPT ![j] = label]
              /\ key' = key \/ \E c \in Key : key' = [key EXCEPT ![j] = c]
          BY <3>3 DEF Continue, CreateQuoteDraft, QuoteCreate, AnswerLost, RefreshSession,
              SessionExpired, Goto
        <4> QED
          BY <3>2, <4>1, <4>2
      <3>4. ASSUME NEW j \in Instance, j # i, Put(j) \/ Crash(j)
            PROVE  pc'[i] = "put" /\ key'[i] = k
        BY <3>2, <3>4 DEF Put, Crash, Goto
      <3> QED
        BY <3>1, <3>3, <3>4 DEF Next, Replay, Expire, Renew, vars
    <2>2. CASE Put(i)
      <3>1. ledger'[i][k] = created[i] /\ created[i] # None
        BY <1>1, <1>2, <1>4, <2>2, OrgList DEF Put, Held, TypeOK, None
      <3> QED
        BY <1>2, <3>1 DEF Aware
    <2> QED
      BY <1>2, <2>1, <2>2 DEF Aware
  <1> QED
    BY <1>3, <1>4 DEF Aware

\* A step makes no quote and loses no awareness of one, or it is a failure
\* that does one of the two, or an instance makes a quote and is aware of it.
LEMMA DuplicateMoves ==
    ASSUME LiveInv, [Next]_vars, NEW k \in Key
    PROVE  \/ /\ QuotesOf(k)' \subseteq QuotesOf(k) /\ Aware(k) \subseteq Aware(k)'
              /\ failures' = failures
           \/ \E n : /\ QuotesOf(k)' \subseteq QuotesOf(k) \cup {n}
                     /\ Aware(k) \subseteq Aware(k)' /\ failures' = failures + 1
           \/ \E i : /\ QuotesOf(k)' \subseteq QuotesOf(k)
                     /\ Aware(k) \subseteq Aware(k)' \cup {i} /\ failures' = failures + 1
           \/ \E n : \E i \in Aware(k)' :
                 /\ QuotesOf(k)' \subseteq QuotesOf(k) \cup {n}
                 /\ Aware(k) \subseteq Aware(k)' \ {i} /\ failures' = failures
  <1>1. TypeOK /\ Unanswered
    BY DEF LiveInv
  <1>2. ASSUME NEW i \in Instance, Crash(i)
        PROVE  /\ QuotesOf(k)' \subseteq QuotesOf(k)
               /\ Aware(k) \subseteq Aware(k)' \cup {i} /\ failures' = failures + 1
    <2>1. org' = org /\ failures' = failures + 1
      BY <1>2 DEF Crash
    <2>2. \A j \in Instance \ {i} : /\ ledger'[j] = ledger[j] /\ pc'[j] = pc[j]
                                    /\ key'[j] = key[j]
      BY <1>1, <1>2 DEF Crash, LoseLedger, file, Goto, TypeOK
    <2> QED
      BY <2>1, <2>2 DEF QuotesOf, Aware
  <1>3. ASSUME NEW i \in Instance, QuoteCreate(i), key[i] = k
        PROVE  /\ i \in Aware(k)' /\ QuotesOf(k)' \subseteq QuotesOf(k) \cup {Len(org) + 1}
               /\ Aware(k) \subseteq Aware(k)' \ {i} /\ failures' = failures
    <2>1. i \notin Aware(k)
      BY <1>1, <1>3 DEF QuoteCreate, Unanswered, Aware
    <2>2. i \in Aware(k)'
      BY <1>1, <1>3 DEF QuoteCreate, Goto, Aware, TypeOK
    <2>3. \A j \in Instance \ {i} : /\ ledger'[j] = ledger[j] /\ pc'[j] = pc[j]
                                    /\ key'[j] = key[j]
      BY <1>1, <1>3 DEF QuoteCreate, Goto, TypeOK, file
    <2>4. Creates(i) /\ failures' = failures
      BY <1>3 DEF QuoteCreate, Goto, Creates, file
    <2> QED
      BY <2>1, <2>2, <2>3, <2>4, QuotesMove DEF Aware
  <1>4. ASSUME NEW i \in Instance, AnswerLost(i)
        PROVE  /\ QuotesOf(k)' \subseteq QuotesOf(k) \cup {Len(org) + 1}
               /\ failures' = failures + 1 /\ Aware(k) \subseteq Aware(k)'
    <2>1. Creates(i) /\ failures' = failures + 1
      BY <1>4 DEF AnswerLost, Goto, Creates, file
    <2>2. Aware(k) \subseteq Aware(k)'
      BY <1>1, <1>4 DEF AnswerLost, Goto, Aware, TypeOK, file
    <2> QED
      BY <2>1, <2>2, QuotesMove
  <1>5. ASSUME NEW i \in Instance, QuoteCreate(i), key[i] # k
        PROVE  /\ QuotesOf(k)' \subseteq QuotesOf(k) /\ Aware(k) \subseteq Aware(k)'
               /\ failures' = failures
    <2>1. Creates(i) /\ failures' = failures
      BY <1>5 DEF QuoteCreate, Goto, Creates, file
    <2>2. Aware(k) \subseteq Aware(k)'
      BY <1>1, <1>5 DEF QuoteCreate, Goto, Aware, TypeOK, file
    <2> QED
      BY <1>5, <2>1, <2>2, QuotesMove
  <1>6. CASE ~ \E i \in Instance : QuoteCreate(i) \/ AnswerLost(i) \/ Crash(i)
    <2>1. org' = org /\ failures' = failures
      BY <1>6 DEF Next, Continue, CreateQuoteDraft, Replay, RefreshSession, SessionExpired,
          Put, Expire, Renew, call, file, vars
    <2>2. Aware(k) \subseteq Aware(k)'
      <3>1. \A i \in Aware(k) : i \in Instance /\ ~Crash(i)
        BY <1>6 DEF Aware
      <3> QED
        BY <3>1, AwareStays
    <2> QED
      BY <2>1, <2>2 DEF QuotesOf
  <1> QED
    BY <1>2, <1>3, <1>4, <1>5, <1>6

\* Every step keeps the count.
LEMMA DuplicateStep ==
    ASSUME LiveInv, EveryDuplicateHasACause, [Next]_vars
    PROVE  EveryDuplicateHasACause'
  <1> SUFFICES ASSUME NEW k \in Key
               PROVE  Cardinality(QuotesOf(k)') <= Cardinality(Aware(k)') + failures'
    BY DEF EveryDuplicateHasACause
  <1>1. TypeOK
    BY DEF LiveInv
  <1>2. PICK Q, A, R, B : Q = QuotesOf(k) /\ A = Aware(k) /\ R = QuotesOf(k)' /\ B = Aware(k)'
    OBVIOUS
  <1>3. IsFiniteSet(A) /\ IsFiniteSet(B)
    BY <1>2, LiveQuoteAssumption, FS_Subset DEF Aware
  <1>4. IsFiniteSet(Q)
    <2>1. PICK n \in Nat : n = Len(org)
      BY <1>1, OrgList
    <2>2. IsFiniteSet(1..n) /\ Q \subseteq 1..n
      BY <1>2, <2>1, FS_Interval DEF QuotesOf
    <2> QED
      BY <2>2, FS_Subset
  <1>5. PICK q \in Nat, a \in Nat, b \in Nat, f \in Nat :
           /\ q = Cardinality(Q) /\ a = Cardinality(A) /\ b = Cardinality(B)
           /\ f = failures /\ q <= a + f
    BY <1>1, <1>2, <1>3, <1>4, SizeOf, LiveQuoteAssumption DEF EveryDuplicateHasACause, TypeOK
  <1>6. CASE R \subseteq Q /\ A \subseteq B /\ failures' = f
    <2>1. Cardinality(R) \in Nat /\ Cardinality(R) <= q /\ a <= b
      BY <1>3, <1>4, <1>5, <1>6, SizeOf
    <2> QED
      BY <1>2, <1>5, <1>6, <2>1
  <1>7. ASSUME NEW n, R \subseteq Q \cup {n}, A \subseteq B, failures' = f + 1
        PROVE  Cardinality(R) <= Cardinality(B) + failures'
    <2>1. Cardinality(R) \in Nat /\ Cardinality(R) <= q + 1 /\ a <= b
      BY <1>3, <1>4, <1>5, <1>7, SizeOf
    <2> QED
      BY <1>5, <1>7, <2>1
  <1>8. ASSUME NEW i, R \subseteq Q, A \subseteq B \cup {i}, failures' = f + 1
        PROVE  Cardinality(R) <= Cardinality(B) + failures'
    <2>1. Cardinality(R) \in Nat /\ Cardinality(R) <= q /\ a <= b + 1
      BY <1>3, <1>4, <1>5, <1>8, SizeOf
    <2> QED
      BY <1>5, <1>8, <2>1
  <1>9. ASSUME NEW n, NEW i \in B, R \subseteq Q \cup {n}, A \subseteq B \ {i}, failures' = f
        PROVE  Cardinality(R) <= Cardinality(B) + failures'
    <2>1. Cardinality(R) \in Nat /\ Cardinality(R) <= q + 1 /\ a + 1 <= b
      BY <1>3, <1>4, <1>5, <1>9, SizeOf
    <2> QED
      BY <1>5, <1>9, <2>1
  <1>10. Cardinality(R) <= Cardinality(B) + failures'
    <2>1. \/ R \subseteq Q /\ A \subseteq B /\ failures' = f
          \/ \E n : R \subseteq Q \cup {n} /\ A \subseteq B /\ failures' = f + 1
          \/ \E i : R \subseteq Q /\ A \subseteq B \cup {i} /\ failures' = f + 1
          \/ \E n : \E i \in B :
                R \subseteq Q \cup {n} /\ A \subseteq B \ {i} /\ failures' = f
      BY <1>2, <1>5, DuplicateMoves
    <2> QED
      BY <1>2, <1>6, <1>7, <1>8, <1>9, <2>1
  <1> QED
    BY <1>2, <1>10

\* Expired sessions, refreshes, second tries and repeated calls create no
\* quote twice: beyond one quote of a key per instance, every one is the work
\* of a lost answer, a crash or a restart.
THEOREM DuplicatesHaveACause == Spec => []EveryDuplicateHasACause
  <1>1. ASSUME Init
        PROVE  EveryDuplicateHasACause
    <2>1. TypeOK /\ org = <<>> /\ failures = 0
      BY <1>1, LiveInit DEF LiveInv, Init
    <2>2. \A k \in Key : QuotesOf(k) = {}
      BY <2>1 DEF QuotesOf
    <2>3. ASSUME NEW k \in Key
          PROVE  Cardinality(QuotesOf(k)) <= Cardinality(Aware(k)) + failures
      <3>1. Cardinality(QuotesOf(k)) = 0
        BY <2>2, FS_EmptySet
      <3>2. PICK A : A = Aware(k)
        OBVIOUS
      <3>3. IsFiniteSet(A)
        BY <3>2, LiveQuoteAssumption, FS_Subset DEF Aware
      <3>4. Cardinality(A) \in Nat
        BY <3>3, FS_CardinalityType
      <3> QED
        BY <2>1, <3>1, <3>2, <3>4
    <2> QED
      BY <2>3 DEF EveryDuplicateHasACause
  <1>2. LiveInv /\ EveryDuplicateHasACause /\ [Next]_vars => EveryDuplicateHasACause'
    BY DuplicateStep
  <1> QED
    BY <1>1, <1>2, LedgersAgree, PTL DEF Spec

--------------------------------------------------------------------------------
(* The chat: its variables, and the inductive invariant. *)

CONSTANTS MaxTurns, MaxTimeouts, MaxLost

VARIABLES started, loading, session, shown, js, apex, on, turn, log, alive, running, turns,
          timeouts, lost

Chat == INSTANCE ChatClient WITH failures <- lost, MaxFailures <- MaxLost

\* The assumption of ChatClient.
ChatBounds == MaxTurns \in Nat /\ MaxTimeouts \in Nat /\ MaxLost \in Nat

\* The component waits for one call at a time, a start while it is not
\* started, a message after it is.
OneCall ==
    /\ loading <=> js # "idle"
    /\ apex # "none" => js \in {"starting", "sending"} /\ turn # 0
    /\ apex = "create" => js = "starting"
    /\ js = "starting" => ~started
    /\ ~started => shown = <<>> /\ js # "sending"

\* The message that is sent is the last one shown, on the seller's session.
SentIsShown ==
    js = "sending" =>
        on = session /\ shown # <<>> /\ shown[Len(shown)] = <<"seller", turn>>

\* A callout that was answered has its reply in the log of its session.
AnswerLogged == apex = "ok" => on # 0 /\ Chat!Contains(log[on], <<"agent", turn>>)

\* The turn whose callout is still waited for.
Awaited == IF apex = "run" THEN {<<on, turn>>} ELSE {}

\* The backend works on no other turn than that, unless a callout timed out.
OthersTimedOut == IsFiniteSet(running) /\ Cardinality(running \ Awaited) <= timeouts

ChatTypes == Chat!TypeOK

ChatInv == ChatTypes /\ OneCall /\ SentIsShown /\ AnswerLogged /\ OthersTimedOut

--------------------------------------------------------------------------------
(* The chat: types. *)

\* The turn of a callout, and every turn the backend works on, is one of the
\* seller's turns; its session one the backend has had.
LEMMA TurnsAndSessions ==
    ASSUME ChatBounds, ChatTypes, OneCall
    PROVE  /\ Len(log) \in Nat /\ turns \in 0..MaxTurns /\ turns \in Nat
           /\ apex # "none" => turn \in 1..MaxTurns /\ turn \in 1..turns
           /\ \A t \in running : /\ t[1] \in alive /\ t[1] \in 1..Len(log)
                                 /\ t[2] \in 1..MaxTurns /\ t = <<t[1], t[2]>>
           /\ alive \subseteq 1..Len(log)
  <1>0. Len(log) \in Nat
    <2>1. PICK T : T = Seq(Chat!Event)
      OBVIOUS
    <2>2. log \in Seq(T)
      BY <2>1 DEF ChatTypes, Chat!TypeOK
    <2> QED
      BY <2>2
  <1>1. PICK m \in Nat, n \in Nat, l \in Nat :
           /\ m = MaxTurns /\ n = turns /\ n \in 0..m /\ l = Len(log)
           /\ turn \in 0..n /\ alive \subseteq 1..l /\ running \subseteq alive \X (1..n)
    <2>1. /\ turn \in 0..turns /\ alive \subseteq 1..Len(log)
          /\ running \subseteq alive \X (1..turns) /\ turns \in 0..MaxTurns
      BY DEF ChatTypes, Chat!TypeOK
    <2>2. MaxTurns \in Nat /\ turns \in Nat
      BY <2>1 DEF ChatBounds
    <2> QED
      BY <1>0, <2>1, <2>2
  <1>2. \A t \in running : t[1] \in alive /\ t[2] \in 1..n /\ t = <<t[1], t[2]>>
    BY <1>1
  <1>3. \A k \in 1..n : k \in 1..m
    BY <1>1
  <1>4. apex # "none" => turn \in 1..n
    BY <1>1 DEF OneCall
  <1> QED
    BY <1>1, <1>2, <1>3, <1>4

\* A log is only ever written at its end.
LEMMA LogMoves ==
    ASSUME ChatBounds, ChatTypes, OneCall, [Chat!Next]_(Chat!vars)
    PROVE  \/ log' = log
           \/ log' = Append(log, <<>>)
           \/ \E s \in 1..Len(log), e \in Chat!Event :
                 log' = [log EXCEPT ![s] = Append(@, e)]
  <1>1. CASE Chat!RunTurn
    <2>1. on \in 1..Len(log) /\ turn \in 1..MaxTurns
      BY <1>1, TurnsAndSessions DEF Chat!RunTurn
    <2>2. <<"seller", turn>> \in Chat!Event
      BY <2>1 DEF Chat!Event
    <2> QED
      BY <1>1, <2>1, <2>2 DEF Chat!RunTurn
  <1>2. ASSUME NEW t \in running, Chat!FinishTurn(t)
        PROVE  \E s \in 1..Len(log), e \in Chat!Event : log' = [log EXCEPT ![s] = Append(@, e)]
    <2>1. t[1] \in 1..Len(log) /\ t[2] \in 1..MaxTurns
      BY TurnsAndSessions
    <2>2. <<"agent", t[2]>> \in Chat!Event
      BY <2>1 DEF Chat!Event
    <2> QED
      BY <1>2, <2>1, <2>2 DEF Chat!FinishTurn
  <1> QED
    BY <1>1, <1>2 DEF Chat!Next, Chat!HandleStart, Chat!HandleSend, Chat!CallReturns,
        Chat!CallFails, Chat!Refreshed, Chat!CreateSession, Chat!CreateTimesOut,
        Chat!SessionNotFound, Chat!TurnFails, Chat!TurnTimesOut, Chat!Restart, Chat!vars,
        Chat!component, Chat!bridge, Chat!backend, Chat!counters

\* No session and no event is ever forgotten.
LEMMA LogGrows ==
    ASSUME ChatBounds, ChatTypes, OneCall, [Chat!Next]_(Chat!vars)
    PROVE  /\ log' \in Seq(Seq(Chat!Event)) /\ Len(log') \in Nat /\ Len(log) \in Nat
           /\ Len(log) <= Len(log')
           /\ \A s \in 1..Len(log) : \A e :
                 Chat!Contains(log[s], e) => Chat!Contains(log'[s], e)
  <1>1. PICK E : E = Chat!Event
    OBVIOUS
  <1>2. log \in Seq(Seq(E)) /\ Len(log) \in Nat
    BY <1>1 DEF ChatTypes, Chat!TypeOK
  <1>3. ASSUME NEW s \in 1..Len(log), NEW e \in E,
               log' = [log EXCEPT ![s] = Append(@, e)]
        PROVE  /\ log' \in Seq(Seq(E)) /\ Len(log') \in Nat /\ Len(log) <= Len(log')
               /\ \A r \in 1..Len(log) : \A x :
                     Chat!Contains(log[r], x) => Chat!Contains(log'[r], x)
    <2>1. PICK h \in Seq(E) : h = log[s]
      BY <1>2, ElementOf
    <2>2. /\ Append(h, e) \in Seq(E) /\ Len(Append(h, e)) = Len(h) + 1 /\ Len(h) \in Nat
          /\ \A i \in 1..Len(h) : Append(h, e)[i] = h[i]
      BY AppendSeq
    <2>3. PICK g \in Seq(E) : g = Append(h, e)
      BY <2>2
    <2>4. log' = [log EXCEPT ![s] = g]
      BY <1>3, <2>1, <2>3
    <2>5. \A x : Chat!Contains(h, x) => Chat!Contains(g, x)
      BY <2>2, <2>3 DEF Chat!Contains
    <2>6. /\ log' \in Seq(Seq(E)) /\ Len(log') = Len(log)
          /\ \A r \in 1..Len(log) : log'[r] = IF r = s THEN g ELSE log[r]
      BY <1>2, <2>4
    <2>7. Len(log') \in Nat /\ Len(log) <= Len(log')
      BY <1>2, <2>6
    <2> QED
      BY <2>1, <2>5, <2>6, <2>7
  <1>4. ASSUME log' = Append(log, <<>>)
        PROVE  /\ log' \in Seq(Seq(E)) /\ Len(log') = Len(log) + 1
               /\ \A r \in 1..Len(log) : log'[r] = log[r]
    <2>1. PICK n : n = <<>>
      OBVIOUS
    <2>2. log' = Append(log, n)
      BY <1>4, <2>1
    <2>3. PICK T : T = Seq(E)
      OBVIOUS
    <2>4. log \in Seq(T) /\ n \in T
      BY <1>2, <2>1, <2>3, EmptySequence
    <2>5. /\ Append(log, n) \in Seq(T) /\ Len(Append(log, n)) = Len(log) + 1
          /\ \A i \in 1..Len(log) : Append(log, n)[i] = log[i]
      BY <2>4, AppendSeq
    <2> QED
      BY <2>2, <2>3, <2>5
  <1>5. CASE log' = log
    BY <1>1, <1>2, <1>5
  <1>6. CASE log' = Append(log, <<>>)
    BY <1>1, <1>2, <1>4, <1>6
  <1> QED
    BY <1>1, <1>2, <1>3, <1>5, <1>6, LogMoves

\* Sessions are sessions the backend has, turns are turns the seller took.
LEMMA ChatCountersType ==
    ASSUME ChatBounds, ChatTypes, OneCall, [Chat!Next]_(Chat!vars)
    PROVE  /\ turns' \in 0..MaxTurns /\ turns \in Nat /\ turns' \in Nat /\ turns <= turns'
           /\ turn' \in 0..turns'
           /\ timeouts' \in 0..MaxTimeouts /\ lost' \in 0..MaxLost
  <1>1. /\ turns \in 0..MaxTurns /\ turn \in 0..turns /\ timeouts \in 0..MaxTimeouts
        /\ lost \in 0..MaxLost
    BY DEF ChatTypes, Chat!TypeOK
  <1>2. turns \in Nat /\ turn \in Nat /\ timeouts \in Nat /\ lost \in Nat
    BY <1>1
  <1>3. \/ turns' = turns /\ turn' = turn
        \/ turns < MaxTurns /\ turns' = turns + 1 /\ turn' = turns + 1
    BY DEF Chat!Next, Chat!HandleStart, Chat!HandleSend, Chat!StartDisabled, Chat!SendDisabled,
        Chat!Begin, Chat!CallReturns, Chat!CallFails, Chat!Refreshed, Chat!CreateSession,
        Chat!CreateTimesOut, Chat!RunTurn, Chat!SessionNotFound, Chat!FinishTurn,
        Chat!TurnFails, Chat!TurnTimesOut, Chat!Restart, Chat!vars, Chat!component,
        Chat!bridge, Chat!backend, Chat!counters
  <1>4. timeouts' = timeouts \/ (timeouts < MaxTimeouts /\ timeouts' = timeouts + 1)
    BY DEF Chat!Next, Chat!HandleStart, Chat!HandleSend, Chat!StartDisabled, Chat!SendDisabled,
        Chat!Begin, Chat!CallReturns, Chat!CallFails, Chat!Refreshed, Chat!CreateSession,
        Chat!CreateTimesOut, Chat!RunTurn, Chat!SessionNotFound, Chat!FinishTurn,
        Chat!TurnFails, Chat!TurnTimesOut, Chat!Restart, Chat!vars, Chat!component,
        Chat!bridge, Chat!backend, Chat!counters
  <1>5. lost' = lost \/ (lost < MaxLost /\ lost' = lost + 1)
    BY DEF Chat!Next, Chat!HandleStart, Chat!HandleSend, Chat!StartDisabled, Chat!SendDisabled,
        Chat!Begin, Chat!CallReturns, Chat!CallFails, Chat!Refreshed, Chat!CreateSession,
        Chat!CreateTimesOut, Chat!RunTurn, Chat!SessionNotFound, Chat!FinishTurn,
        Chat!TurnFails, Chat!TurnTimesOut, Chat!Restart, Chat!vars, Chat!component,
        Chat!bridge, Chat!backend, Chat!counters
  <1> QED
    BY <1>1, <1>2, <1>3, <1>4, <1>5 DEF ChatBounds

\* The component's session, and that of a callout, are sessions of the log.
LEMMA ChatSessionsType ==
    ASSUME ChatBounds, ChatTypes, OneCall, [Chat!Next]_(Chat!vars)
    PROVE  session' \in 0..Len(log') /\ on' \in 0..Len(log')
  <1>1. PICK n \in Nat : n = Len(log)
    BY LogGrows
  <1>2. PICK m \in Nat : m = Len(log') /\ n <= m
    BY <1>1, LogGrows
  <1>3. session \in 0..n /\ on \in 0..n
    BY <1>1 DEF ChatTypes, Chat!TypeOK
  <1>4. CASE Chat!CreateSession
    <2>1. PICK T : T = Seq(Chat!Event)
      OBVIOUS
    <2>2. log \in Seq(T) /\ log' = Append(log, <<>>)
      BY <1>4, <2>1 DEF ChatTypes, Chat!TypeOK, Chat!CreateSession
    <2>3. Len(log') = n + 1
      BY <1>1, <2>1, <2>2, EmptySequence, AppendSeq
    <2>4. on' = n + 1 /\ session' = session
      BY <1>1, <1>4 DEF Chat!CreateSession, Chat!component
    <2> QED
      BY <1>2, <1>3, <2>3, <2>4
  <1>5. Chat!CreateSession \/ (on' \in {on, session} /\ session' \in {on, session})
    BY DEF Chat!Next, Chat!HandleStart, Chat!HandleSend, Chat!StartDisabled, Chat!SendDisabled,
        Chat!Begin, Chat!CallReturns, Chat!CallFails, Chat!Refreshed, Chat!CreateTimesOut,
        Chat!RunTurn, Chat!SessionNotFound, Chat!FinishTurn, Chat!TurnFails, Chat!TurnTimesOut,
        Chat!Restart, Chat!vars, Chat!component, Chat!bridge, Chat!backend, Chat!counters
  <1> QED
    BY <1>2, <1>3, <1>4, <1>5

\* What is shown are messages and replies.
LEMMA ShownType ==
    ASSUME ChatBounds, ChatTypes, OneCall, [Chat!Next]_(Chat!vars)
    PROVE  shown' \in Seq(Chat!Event)
  <1>1. PICK E : E = Chat!Event
    OBVIOUS
  <1>2. shown \in Seq(E)
    BY <1>1 DEF ChatTypes, Chat!TypeOK
  <1>3. CASE Chat!HandleSend
    <2>1. turns + 1 \in 1..MaxTurns
      BY <1>3, TurnsAndSessions DEF Chat!HandleSend, Chat!Begin, ChatBounds
    <2>2. PICK e \in E : e = <<"seller", turns + 1>>
      BY <1>1, <2>1 DEF Chat!Event
    <2>3. shown' = Append(shown, e)
      BY <1>3, <2>2 DEF Chat!HandleSend
    <2> QED
      BY <1>1, <1>2, <2>3
  <1>4. CASE Chat!CallReturns
    <2>1. turn \in 1..MaxTurns
      BY <1>4, TurnsAndSessions DEF Chat!CallReturns
    <2>2. PICK e \in E : e = <<"agent", turn>>
      BY <1>1, <2>1 DEF Chat!Event
    <2>3. shown' = Append(shown, e)
      BY <1>4, <2>2 DEF Chat!CallReturns
    <2> QED
      BY <1>1, <1>2, <2>3
  <1>5. Chat!HandleSend \/ Chat!CallReturns \/ shown' = shown
    BY DEF Chat!Next, Chat!HandleStart, Chat!StartDisabled, Chat!SendDisabled, Chat!Begin,
        Chat!CallFails, Chat!Refreshed, Chat!CreateSession, Chat!CreateTimesOut, Chat!RunTurn,
        Chat!SessionNotFound, Chat!FinishTurn, Chat!TurnFails, Chat!TurnTimesOut, Chat!Restart,
        Chat!vars, Chat!component, Chat!bridge, Chat!backend, Chat!counters
  <1> QED
    BY <1>1, <1>2, <1>3, <1>4, <1>5

\* The backend works on turns of sessions it has.
LEMMA RunningType ==
    ASSUME ChatBounds, ChatTypes, OneCall, [Chat!Next]_(Chat!vars)
    PROVE  alive' \subseteq 1..Len(log') /\ running' \subseteq alive' \X (1..turns')
  <1>1. PICK n \in Nat, m \in Nat : n = Len(log) /\ m = Len(log') /\ n <= m
    BY LogGrows
  <1>2. PICK k \in Nat, l \in Nat : k = turns /\ l = turns' /\ k <= l
    BY ChatCountersType
  <1>3. alive \subseteq 1..n /\ running \subseteq alive \X (1..k)
    BY <1>1, <1>2 DEF ChatTypes, Chat!TypeOK
  <1>4. 1..n \subseteq 1..m /\ 1..k \subseteq 1..l
    BY <1>1, <1>2
  <1>5. ASSUME NEW N, alive' = alive \cup {N}, log' = Append(log, <<>>), N = n + 1,
               running' = running
        PROVE  alive' \subseteq 1..m /\ running' \subseteq alive' \X (1..l)
    <2>1. PICK T : T = Seq(Chat!Event)
      OBVIOUS
    <2>2. log \in Seq(T)
      BY <2>1 DEF ChatTypes, Chat!TypeOK
    <2>3. m = n + 1
      BY <1>1, <1>5, <2>1, <2>2, EmptySequence, AppendSeq
    <2>4. N \in 1..m
      BY <1>5, <2>3
    <2> QED
      BY <1>3, <1>4, <1>5, <2>4
  <1>6. CASE Chat!CreateSession \/ Chat!CreateTimesOut
    <2>1. \/ alive' = alive \cup {n + 1} /\ log' = Append(log, <<>>)
          \/ alive' = alive
      BY <1>1, <1>6 DEF Chat!CreateSession, Chat!CreateTimesOut
    <2>2. running' = running
      BY <1>6 DEF Chat!CreateSession, Chat!CreateTimesOut
    <2> QED
      BY <1>1, <1>2, <1>3, <1>4, <1>5, <2>1, <2>2
  <1>7. CASE Chat!RunTurn
    <2>1. turn \in 1..k /\ on \in alive
      BY <1>2, <1>7, TurnsAndSessions DEF Chat!RunTurn
    <2>2. alive' = alive /\ running' = running \cup {<<on, turn>>}
      BY <1>7 DEF Chat!RunTurn
    <2> QED
      BY <1>1, <1>2, <1>3, <1>4, <2>1, <2>2
  <1>8. CASE Chat!Restart
    BY <1>8 DEF Chat!Restart
  <1>9. \/ Chat!CreateSession \/ Chat!CreateTimesOut \/ Chat!RunTurn \/ Chat!Restart
        \/ alive' = alive /\ running' \subseteq running
    BY DEF Chat!Next, Chat!HandleStart, Chat!HandleSend, Chat!StartDisabled, Chat!SendDisabled,
        Chat!Begin, Chat!CallReturns, Chat!CallFails, Chat!Refreshed, Chat!SessionNotFound,
        Chat!FinishTurn, Chat!TurnFails, Chat!TurnTimesOut, Chat!vars, Chat!component,
        Chat!bridge, Chat!backend, Chat!counters
  <1> QED
    BY <1>1, <1>2, <1>3, <1>4, <1>6, <1>7, <1>8, <1>9

\* Every step of the chat keeps the types.
LEMMA ChatTypeStep ==
    ASSUME ChatBounds, ChatTypes, OneCall, [Chat!Next]_(Chat!vars)
    PROVE  ChatTypes'
  <1>1. started' \in BOOLEAN /\ loading' \in BOOLEAN
    <2>1. started \in BOOLEAN /\ loading \in BOOLEAN
      BY DEF ChatTypes, Chat!TypeOK
    <2>2. started' \in {started, TRUE} /\ loading' \in {loading, TRUE, FALSE}
      BY DEF Chat!Next, Chat!HandleStart, Chat!HandleSend, Chat!StartDisabled,
          Chat!SendDisabled, Chat!Begin, Chat!CallReturns, Chat!CallFails, Chat!Refreshed,
          Chat!CreateSession, Chat!CreateTimesOut, Chat!RunTurn, Chat!SessionNotFound,
          Chat!FinishTurn, Chat!TurnFails, Chat!TurnTimesOut, Chat!Restart, Chat!vars,
          Chat!component, Chat!bridge, Chat!backend, Chat!counters
    <2> QED
      BY <2>1, <2>2
  <1>2. /\ js' \in {"idle", "starting", "sending", "refreshing"}
        /\ apex' \in {"none", "create", "request", "run", "ok", "failed"}
    BY DEF ChatTypes, Chat!TypeOK, Chat!Next, Chat!HandleStart, Chat!HandleSend,
        Chat!StartDisabled, Chat!SendDisabled, Chat!Begin, Chat!CallReturns, Chat!CallFails,
        Chat!Refreshed, Chat!CreateSession, Chat!CreateTimesOut, Chat!RunTurn,
        Chat!SessionNotFound, Chat!FinishTurn, Chat!TurnFails, Chat!TurnTimesOut, Chat!Restart,
        Chat!vars, Chat!component, Chat!bridge, Chat!backend, Chat!counters
  <1> QED
    BY <1>1, <1>2, LogGrows, ChatCountersType, ChatSessionsType, ShownType, RunningType
    DEF ChatTypes, Chat!TypeOK

--------------------------------------------------------------------------------
(* The chat: one call, one turn. *)

\* The component still waits for one call at most.
LEMMA OneCallStep ==
    ASSUME ChatBounds, ChatTypes, OneCall, [Chat!Next]_(Chat!vars)
    PROVE  OneCall'
  <1>1. /\ turns \in Nat /\ loading \in BOOLEAN
        /\ started \in BOOLEAN
    BY TurnsAndSessions DEF ChatTypes, Chat!TypeOK
  <1>2. turns + 1 # 0
    BY <1>1
  <1> QED
    BY <1>1, <1>2 DEF OneCall, Chat!Next, Chat!HandleStart, Chat!HandleSend,
        Chat!StartDisabled, Chat!SendDisabled, Chat!Begin, Chat!CallReturns, Chat!CallFails,
        Chat!Refreshed, Chat!CreateSession, Chat!CreateTimesOut, Chat!RunTurn,
        Chat!SessionNotFound, Chat!FinishTurn, Chat!TurnFails, Chat!TurnTimesOut, Chat!Restart,
        Chat!vars, Chat!component, Chat!bridge, Chat!backend, Chat!counters

\* A turn begins when the callout of the one before is no longer waited for,
\* and ends for the callout when it ends.
LEMMA OthersStep ==
    ASSUME ChatBounds, ChatTypes, OneCall, OthersTimedOut, [Chat!Next]_(Chat!vars)
    PROVE  OthersTimedOut'
  <1>1. PICK R, S : R = running /\ S = running'
    OBVIOUS
  <1>2. PICK A, B : A = Awaited /\ B = Awaited'
    OBVIOUS
  <1>3. IsFiniteSet(R) /\ IsFiniteSet(R \ A)
    BY <1>1, <1>2, FS_Subset DEF OthersTimedOut
  <1>4. PICK n \in Nat, k \in Nat : n = Cardinality(R \ A) /\ k = timeouts /\ n <= k
    BY <1>1, <1>2, <1>3, FS_CardinalityType
    DEF OthersTimedOut, ChatTypes, Chat!TypeOK, ChatBounds
  <1>5. \/ S \ B \subseteq R \ A /\ timeouts' = k
        \/ S \ B \subseteq (R \ A) \cup {<<on, turn>>} /\ timeouts' = k + 1
    <2>1. CASE Chat!RunTurn
      <3>1. A = {} /\ S = R \cup {<<on, turn>>} /\ B = {<<on, turn>>} /\ timeouts' = k
        BY <1>1, <1>2, <1>4, <2>1 DEF Chat!RunTurn, Awaited, Chat!counters
      <3> QED
        BY <3>1
    <2>2. ASSUME NEW t \in running, Chat!FinishTurn(t) \/ Chat!TurnFails(t)
          PROVE  S \ B \subseteq R \ A /\ timeouts' = k
      <3>1. S = R \ {t} /\ timeouts' = k /\ on' = on /\ turn' = turn
        BY <1>1, <1>4, <2>2 DEF Chat!FinishTurn, Chat!TurnFails, Chat!counters
      <3>2. \/ apex' = apex
            \/ apex' # "run" /\ apex = "run" /\ t = <<on, turn>>
        BY <2>2 DEF Chat!FinishTurn, Chat!TurnFails
      <3>3. B = A \/ (B = {} /\ A = {t})
        BY <1>2, <3>1, <3>2 DEF Awaited
      <3> QED
        BY <3>1, <3>3
    <2>3. CASE Chat!TurnTimesOut \/ Chat!CreateTimesOut
      <3>1. S = R /\ timeouts' = k + 1 /\ A \subseteq {<<on, turn>>}
        BY <1>1, <1>2, <1>4, <2>3
        DEF Chat!TurnTimesOut, Chat!CreateTimesOut, Chat!backend, Awaited
      <3> QED
        BY <3>1
    <2>4. CASE Chat!Restart
      BY <1>1, <1>4, <2>4 DEF Chat!Restart
    <2>5. ASSUME running' = running, timeouts' = timeouts, apex # "run", apex' # "run"
          PROVE  S \ B \subseteq R \ A /\ timeouts' = k
      BY <1>1, <1>2, <1>4, <2>5 DEF Awaited
    <2>6. ASSUME running' = running, timeouts' = timeouts, UNCHANGED <<apex, on, turn>>
          PROVE  S \ B \subseteq R \ A /\ timeouts' = k
      BY <1>1, <1>2, <1>4, <2>6 DEF Awaited
    <2>7. \/ Chat!RunTurn \/ Chat!TurnTimesOut \/ Chat!CreateTimesOut \/ Chat!Restart
          \/ \E t \in running : Chat!FinishTurn(t) \/ Chat!TurnFails(t)
          \/ /\ running' = running /\ timeouts' = timeouts
             /\ (apex # "run" /\ apex' # "run") \/ UNCHANGED <<apex, on, turn>>
      <3>1. loading \in BOOLEAN
        BY DEF ChatTypes, Chat!TypeOK
      <3> QED
        BY <3>1 DEF OneCall, Chat!Next, Chat!HandleStart, Chat!HandleSend, Chat!StartDisabled,
            Chat!SendDisabled, Chat!Begin, Chat!CallReturns, Chat!CallFails, Chat!Refreshed,
            Chat!CreateSession, Chat!SessionNotFound, Chat!vars, Chat!component, Chat!bridge,
            Chat!backend, Chat!counters
    <2> QED
      BY <2>1, <2>2, <2>3, <2>4, <2>5, <2>6, <2>7
  <1>6. IsFiniteSet(S)
    <2>1. running' \subseteq running \cup {<<on, turn>>}
      BY DEF Chat!Next, Chat!HandleStart, Chat!HandleSend, Chat!StartDisabled,
          Chat!SendDisabled, Chat!Begin, Chat!CallReturns, Chat!CallFails, Chat!Refreshed,
          Chat!CreateSession, Chat!CreateTimesOut, Chat!RunTurn, Chat!SessionNotFound,
          Chat!FinishTurn, Chat!TurnFails, Chat!TurnTimesOut, Chat!Restart, Chat!vars,
          Chat!component, Chat!bridge, Chat!backend, Chat!counters
    <2>2. IsFiniteSet(R \cup {<<on, turn>>})
      BY <1>3, FS_AddElement
    <2> QED
      BY <1>1, <2>1, <2>2, FS_Subset
  <1>7. Cardinality(S \ B) <= timeouts'
    <2>1. PICK D : D = S \ B
      OBVIOUS
    <2>2. PICK C : C = R \ A /\ IsFiniteSet(C)
      BY <1>3
    <2>3. CASE D \subseteq C /\ timeouts' = k
      <3>1. Cardinality(D) \in Nat /\ Cardinality(D) <= n
        BY <1>4, <2>2, <2>3, SizeOf
      <3> QED
        BY <1>4, <2>1, <2>3, <3>1
    <2>4. CASE D \subseteq C \cup {<<on, turn>>} /\ timeouts' = k + 1
      <3>1. PICK x : x = <<on, turn>>
        OBVIOUS
      <3>2. Cardinality(D) \in Nat /\ Cardinality(D) <= n + 1
        BY <1>4, <2>2, <2>4, <3>1, SizeOf
      <3> QED
        BY <1>4, <2>1, <2>4, <3>2
    <2> QED
      BY <1>5, <2>1, <2>2, <2>3, <2>4
  <1> QED
    BY <1>1, <1>2, <1>6, <1>7 DEF OthersTimedOut

--------------------------------------------------------------------------------
(* The chat: replies stand under their messages. *)

\* What a step does to what is shown: a message is sent, a call returns, or
\* the list is as it was.
LEMMA ShownMoves ==
    ASSUME ChatTypes, OneCall, [Chat!Next]_(Chat!vars)
    PROVE  \/ Chat!HandleSend \/ Chat!CallReturns
           \/ /\ shown' = shown /\ session' = session
              /\ js' = "sending" => js = "sending" /\ on' = on /\ turn' = turn
  <1>1. loading \in BOOLEAN
    BY DEF ChatTypes, Chat!TypeOK
  <1> QED
    BY <1>1 DEF OneCall, Chat!Next, Chat!HandleStart, Chat!StartDisabled, Chat!SendDisabled,
        Chat!Begin, Chat!CallFails, Chat!Refreshed, Chat!CreateSession, Chat!CreateTimesOut,
        Chat!RunTurn, Chat!SessionNotFound, Chat!FinishTurn, Chat!TurnFails, Chat!TurnTimesOut,
        Chat!Restart, Chat!vars, Chat!component, Chat!bridge, Chat!backend, Chat!counters

\* A message stays the last one shown until its call is over.
LEMMA SentStep ==
    ASSUME ChatBounds, ChatTypes, OneCall, SentIsShown, [Chat!Next]_(Chat!vars)
    PROVE  SentIsShown'
  <1> SUFFICES ASSUME js' = "sending"
               PROVE  /\ on' = session' /\ shown' # <<>>
                      /\ shown'[Len(shown')] = <<"seller", turn'>>
    BY DEF SentIsShown
  <1>1. CASE Chat!HandleSend
    <2>1. PICK E : E = Chat!Event
      OBVIOUS
    <2>2. shown \in Seq(E) /\ shown' \in Seq(E)
      BY <2>1, ShownType DEF ChatTypes, Chat!TypeOK
    <2>3. PICK e : e = <<"seller", turns + 1>>
      OBVIOUS
    <2>4. e \in E
      <3>1. turns + 1 \in 1..MaxTurns
        BY <1>1, TurnsAndSessions DEF Chat!HandleSend, Chat!Begin, ChatBounds
      <3> QED
        BY <2>1, <2>3, <3>1 DEF Chat!Event
    <2>5. /\ shown' = Append(shown, e) /\ turn' = turns + 1 /\ on' = session
          /\ session' = session
      BY <1>1, <2>3 DEF Chat!HandleSend, Chat!Begin
    <2>6. Len(shown') = Len(shown) + 1 /\ Len(shown) \in Nat /\ shown'[Len(shown) + 1] = e
      BY <2>2, <2>4, <2>5, AppendSeq
    <2>7. shown' # <<>>
      BY <2>6
    <2> QED
      BY <2>3, <2>5, <2>6, <2>7
  <1>2. ~Chat!CallReturns
    BY DEF Chat!CallReturns
  <1>3. CASE /\ shown' = shown /\ session' = session
             /\ js = "sending" /\ on' = on /\ turn' = turn
    BY <1>3 DEF SentIsShown
  <1> QED
    BY <1>1, <1>2, <1>3, ShownMoves

\* A callout is answered when its reply is in the log, where it stays.
LEMMA AnswerStep ==
    ASSUME ChatBounds, ChatTypes, OneCall, AnswerLogged, [Chat!Next]_(Chat!vars)
    PROVE  AnswerLogged'
  <1> SUFFICES ASSUME apex' = "ok"
               PROVE  on' # 0 /\ Chat!Contains(log'[on'], <<"agent", turn'>>)
    BY DEF AnswerLogged, Chat!Contains
  <1>1. ASSUME NEW t \in running, Chat!FinishTurn(t), apex # "ok"
        PROVE  on' # 0 /\ Chat!Contains(log'[on'], <<"agent", turn'>>)
    <2>1. t = <<on, turn>> /\ on' = on /\ turn' = turn
      BY <1>1 DEF Chat!FinishTurn
    <2>2. PICK s, k : s = on /\ k = turn
      OBVIOUS
    <2>3. s \in 1..Len(log) /\ k \in 1..MaxTurns
      BY <2>1, <2>2, TurnsAndSessions
    <2>4. PICK E, e : E = Chat!Event /\ e = <<"agent", k>>
      OBVIOUS
    <2>5. e \in E
      BY <2>3, <2>4 DEF Chat!Event
    <2>6. PICK T : T = Seq(E)
      OBVIOUS
    <2>7. log \in Seq(T)
      BY <2>4, <2>6 DEF ChatTypes, Chat!TypeOK
    <2>8. PICK h \in T : h = log[s]
      BY <2>3, <2>7, ElementOf
    <2>9. log'[s] = Append(h, e)
      BY <1>1, <2>1, <2>2, <2>3, <2>4, <2>7, <2>8 DEF Chat!FinishTurn
    <2>10. Append(h, e)[Len(h) + 1] = e /\ Len(Append(h, e)) = Len(h) + 1 /\ Len(h) \in Nat
      BY <2>5, <2>6, <2>8, AppendSeq
    <2>11. Chat!Contains(log'[s], e)
      BY <2>9, <2>10 DEF Chat!Contains
    <2>12. s # 0
      BY <2>3
    <2> QED
      BY <2>1, <2>2, <2>4, <2>11, <2>12
  <1>2. CASE apex = "ok"
    <2>1. PICK s, e : s = on /\ e = <<"agent", turn>>
      OBVIOUS
    <2>2. s # 0 /\ Chat!Contains(log[s], e)
      BY <1>2, <2>1 DEF AnswerLogged
    <2>3. s \in 1..Len(log)
      BY <2>1, <2>2, LogGrows DEF ChatTypes, Chat!TypeOK
    <2>4. Chat!Contains(log'[s], e)
      BY <2>2, <2>3, LogGrows
    <2>5. on' = on /\ turn' = turn
      <3>1. loading \in BOOLEAN
        BY DEF ChatTypes, Chat!TypeOK
      <3> QED
        BY <1>2, <3>1 DEF OneCall, Chat!Next, Chat!HandleStart, Chat!HandleSend,
            Chat!StartDisabled, Chat!SendDisabled, Chat!Begin, Chat!CallReturns,
            Chat!CallFails, Chat!Refreshed, Chat!CreateSession, Chat!CreateTimesOut,
            Chat!RunTurn, Chat!SessionNotFound, Chat!FinishTurn, Chat!TurnFails,
            Chat!TurnTimesOut, Chat!Restart, Chat!vars, Chat!component, Chat!bridge,
            Chat!backend, Chat!counters
    <2> QED
      BY <2>1, <2>2, <2>4, <2>5
  <1>3. apex = "ok" \/ \E t \in running : Chat!FinishTurn(t)
    BY DEF Chat!Next, Chat!HandleStart, Chat!HandleSend, Chat!StartDisabled, Chat!SendDisabled,
        Chat!Begin, Chat!CallReturns, Chat!CallFails, Chat!Refreshed, Chat!CreateSession,
        Chat!CreateTimesOut, Chat!RunTurn, Chat!SessionNotFound, Chat!TurnFails,
        Chat!TurnTimesOut, Chat!Restart, Chat!vars, Chat!component, Chat!bridge, Chat!backend,
        Chat!counters
  <1> QED
    BY <1>1, <1>2, <1>3

Replies == Chat!RepliesBelong

\* A reply is shown under its message.
LEMMA RepliesStep ==
    ASSUME ChatBounds, ChatInv, Replies, [Chat!Next]_(Chat!vars)
    PROVE  Replies'
  <1>1. ChatTypes /\ OneCall /\ SentIsShown /\ AnswerLogged
    BY DEF ChatInv
  <1>2. PICK E : E = Chat!Event
    OBVIOUS
  <1>3. shown \in Seq(E) /\ Len(shown) \in Nat /\ shown' \in Seq(E)
    BY <1>1, <1>2, ShownType DEF ChatTypes, Chat!TypeOK
  <1>4. ASSUME NEW i \in 1..Len(shown), shown[i][1] = "agent", session' = session
        PROVE  /\ session' # 0 /\ Chat!Contains(log'[session'], shown[i])
               /\ i = 1 \/ shown[i - 1] = <<"seller", shown[i][2]>>
    <2>1. PICK s : s = session
      OBVIOUS
    <2>2. /\ s # 0 /\ Chat!Contains(log[s], shown[i])
          /\ i = 1 \/ shown[i - 1] = <<"seller", shown[i][2]>>
      BY <1>4, <2>1 DEF Replies, Chat!RepliesBelong
    <2>3. s \in 1..Len(log)
      BY <1>1, <2>1, <2>2, LogGrows DEF ChatTypes, Chat!TypeOK
    <2>4. Chat!Contains(log'[s], shown[i])
      BY <1>1, <2>2, <2>3, LogGrows
    <2> QED
      BY <1>4, <2>1, <2>2, <2>4
  <1>5. ASSUME NEW e \in E, shown' = Append(shown, e)
        PROVE  /\ Len(shown') = Len(shown) + 1 /\ shown'[Len(shown) + 1] = e
               /\ \A i \in 1..Len(shown) : shown'[i] = shown[i]
               /\ \A i \in 1..Len(shown') : i \in 1..Len(shown) \/ i = Len(shown) + 1
    <2>1. /\ Len(shown') = Len(shown) + 1 /\ shown'[Len(shown) + 1] = e
          /\ \A i \in 1..Len(shown) : shown'[i] = shown[i]
      BY <1>3, <1>5, AppendSeq
    <2> QED
      BY <1>3, <2>1
  <1>6. CASE shown' = shown /\ session' = session
    BY <1>4, <1>6 DEF Replies, Chat!RepliesBelong, Chat!Contains
  <1>7. CASE Chat!HandleSend
    <2>1. turns + 1 \in 1..MaxTurns
      BY <1>1, <1>7, TurnsAndSessions DEF Chat!HandleSend, Chat!Begin, ChatBounds
    <2>2. PICK e \in E : e = <<"seller", turns + 1>>
      BY <1>2, <2>1 DEF Chat!Event
    <2>3. shown' = Append(shown, e) /\ session' = session
      BY <1>7, <2>2 DEF Chat!HandleSend
    <2>4. e[1] # "agent"
      BY <2>2
    <2>5. ASSUME NEW i \in 1..Len(shown'), shown'[i][1] = "agent"
          PROVE  /\ session' # 0 /\ Chat!Contains(log'[session'], shown'[i])
                 /\ i = 1 \/ shown'[i - 1] = <<"seller", shown'[i][2]>>
      <3>1. i \in 1..Len(shown) /\ shown'[i] = shown[i]
        BY <1>5, <2>3, <2>4, <2>5
      <3>2. i = 1 \/ i - 1 \in 1..Len(shown)
        BY <1>3, <3>1
      <3>3. i = 1 \/ shown'[i - 1] = shown[i - 1]
        BY <1>5, <2>3, <3>2
      <3> QED
        BY <1>4, <2>3, <2>5, <3>1, <3>3
    <2> QED
      BY <2>5 DEF Replies, Chat!RepliesBelong, Chat!Contains
  <1>8. CASE Chat!CallReturns
    <2>1. turn \in 1..MaxTurns
      BY <1>1, <1>8, TurnsAndSessions DEF Chat!CallReturns
    <2>2. PICK e \in E : e = <<"agent", turn>>
      BY <1>2, <2>1 DEF Chat!Event
    <2>3. shown' = Append(shown, e) /\ log' = log
      BY <1>8, <2>2 DEF Chat!CallReturns, Chat!backend
    <2>4. on # 0 /\ Chat!Contains(log[on], e) /\ e[2] = turn
      BY <1>1, <1>8, <2>2 DEF Chat!CallReturns, AnswerLogged
    <2>5. CASE js = "starting"
      <3>1. shown = <<>> /\ session' = on
        BY <1>1, <1>8, <2>5 DEF Chat!CallReturns, OneCall
      <3>2. Len(shown) = 0
        BY <3>1
      <3>3. \A i \in 1..Len(shown') : i = 1 /\ shown'[i] = e
        BY <1>5, <2>3, <3>2
      <3>4. \A i \in 1..Len(shown') :
               /\ session' # 0 /\ Chat!Contains(log'[session'], shown'[i])
               /\ i = 1
        BY <2>3, <2>4, <3>1, <3>3
      <3> QED
        BY <3>4 DEF Replies, Chat!RepliesBelong, Chat!Contains
    <2>6. CASE js = "sending"
      <3>1. /\ session' = session /\ on = session /\ shown # <<>>
            /\ shown[Len(shown)] = <<"seller", turn>>
        BY <1>1, <1>8, <2>6 DEF Chat!CallReturns, SentIsShown
      <3>2. ASSUME NEW i \in 1..Len(shown'), shown'[i][1] = "agent"
            PROVE  /\ session' # 0 /\ Chat!Contains(log'[session'], shown'[i])
                   /\ i = 1 \/ shown'[i - 1] = <<"seller", shown'[i][2]>>
        <4>1. CASE i \in 1..Len(shown)
          <5>1. shown'[i] = shown[i]
            BY <1>5, <2>3, <4>1
          <5>2. i = 1 \/ i - 1 \in 1..Len(shown)
            BY <1>3, <4>1
          <5>3. i = 1 \/ shown'[i - 1] = shown[i - 1]
            BY <1>5, <2>3, <5>2
          <5> QED
            BY <1>4, <3>1, <3>2, <4>1, <5>1, <5>3
        <4>2. CASE i = Len(shown) + 1
          <5>1. shown'[i] = e
            BY <1>5, <2>3, <4>2
          <5>2. Len(shown) \in 1..Len(shown) /\ i - 1 = Len(shown)
            BY <1>3, <3>1, <4>2
          <5>3. shown'[i - 1] = <<"seller", turn>>
            BY <1>5, <2>3, <3>1, <5>2
          <5>4. Chat!Contains(log'[session'], e)
            BY <2>3, <2>4, <3>1
          <5> QED
            BY <2>4, <3>1, <5>1, <5>3, <5>4
        <4> QED
          BY <1>5, <2>3, <4>1, <4>2
      <3> QED
        BY <3>2 DEF Replies, Chat!RepliesBelong, Chat!Contains
    <2> QED
      BY <1>1, <1>8, <2>5, <2>6 DEF Chat!CallReturns, OneCall
  <1> QED
    BY <1>1, <1>6, <1>7, <1>8, ShownMoves

--------------------------------------------------------------------------------
(* The chat: theorems. *)

\* The chat begins with nothing shown, called or running.
LEMMA ChatBegins ==
    ASSUME ChatBounds, Chat!Init
    PROVE  ChatInv /\ Replies
  <1>1. shown = <<>> /\ log = <<>> /\ Len(shown) = 0 /\ Len(log) = 0
    BY DEF Chat!Init
  <1>2. shown \in Seq(Chat!Event) /\ log \in Seq(Seq(Chat!Event))
    BY <1>1, EmptySequence
  <1>3. ChatTypes
    <2>1. /\ started \in BOOLEAN /\ loading \in BOOLEAN
          /\ js \in {"idle", "starting", "sending", "refreshing"}
          /\ apex \in {"none", "create", "request", "run", "ok", "failed"}
          /\ alive \subseteq 1..Len(log) /\ running \subseteq alive \X (1..turns)
      BY DEF Chat!Init
    <2>2. /\ session = 0 /\ on = 0 /\ turn = 0
          /\ turns = 0 /\ timeouts = 0 /\ lost = 0
      BY DEF Chat!Init
    <2>3. /\ session \in 0..Len(log) /\ on \in 0..Len(log) /\ turn \in 0..turns
          /\ turns \in 0..MaxTurns /\ timeouts \in 0..MaxTimeouts /\ lost \in 0..MaxLost
      BY <1>1, <2>2 DEF ChatBounds
    <2> QED
      BY <1>2, <2>1, <2>3 DEF ChatTypes, Chat!TypeOK
  <1>4. OneCall /\ SentIsShown /\ AnswerLogged
    BY DEF Chat!Init, OneCall, SentIsShown, AnswerLogged
  <1>5. OthersTimedOut
    <2>1. running \ Awaited = {} /\ running = {} /\ timeouts = 0
      BY DEF Chat!Init
    <2>2. Cardinality(running \ Awaited) = 0 /\ IsFiniteSet(running)
      BY <2>1, FS_EmptySet
    <2> QED
      BY <2>1, <2>2 DEF OthersTimedOut
  <1>6. Replies
    BY <1>1 DEF Replies, Chat!RepliesBelong
  <1> QED
    BY <1>3, <1>4, <1>5, <1>6 DEF ChatInv

\* Component, bridge and backend agree on the call, the message and the
\* answer, through every timeout, failure and restart: the inductive
\* invariant.
THEOREM ChatAgrees == ChatBounds => (Chat!Spec => []ChatInv)
  <1> SUFFICES ASSUME ChatBounds PROVE Chat!Spec => []ChatInv
    OBVIOUS
  <1>1. Chat!Init => ChatInv
    BY ChatBegins
  <1>2. ChatInv /\ [Chat!Next]_(Chat!vars) => ChatInv'
    BY ChatTypeStep, OneCallStep, SentStep, AnswerStep, OthersStep DEF ChatInv
  <1> QED
    BY <1>1, <1>2, PTL DEF Chat!Spec

\* Every variable of the chat has its type.
THEOREM ChatTypeCorrect == ChatBounds => (Chat!Spec => []Chat!TypeOK)
  <1> SUFFICES ASSUME ChatBounds PROVE Chat!Spec => []Chat!TypeOK
    OBVIOUS
  <1>1. ChatInv => Chat!TypeOK
    BY DEF ChatInv, ChatTypes
  <1> QED
    BY <1>1, ChatAgrees, PTL

\* The backend works on two turns of the seller only if the callout of one
\* timed out: at most one more turn than timeouts runs.
THEOREM ChatOneTurnAtATime == ChatBounds => (Chat!Spec => []Chat!OneTurnAtATime)
  <1> SUFFICES ASSUME ChatBounds PROVE Chat!Spec => []Chat!OneTurnAtATime
    OBVIOUS
  <1>1. ASSUME ChatInv
        PROVE  Chat!OneTurnAtATime
    <2>1. PICK R, C, x : R = running /\ C = running \ Awaited /\ x = <<on, turn>>
      OBVIOUS
    <2>2. R \subseteq C \cup {x}
      BY <2>1 DEF Awaited
    <2>3. IsFiniteSet(C) /\ Cardinality(C) <= timeouts
      BY <1>1, <2>1, FS_Subset DEF ChatInv, OthersTimedOut
    <2>4. /\ Cardinality(C) \in Nat /\ Cardinality(R) \in Nat
          /\ Cardinality(R) <= Cardinality(C) + 1
      BY <2>2, <2>3, SizeOf
    <2>5. timeouts \in Nat
      BY <1>1 DEF ChatInv, ChatTypes, Chat!TypeOK, ChatBounds
    <2>6. Cardinality(R) <= 1 + timeouts
      BY <2>3, <2>4, <2>5
    <2>7. Chat!Cardinality(R) = Cardinality(R)
      BY DEF Chat!Cardinality, Cardinality
    <2> QED
      BY <2>1, <2>6, <2>7 DEF Chat!OneTurnAtATime
  <1> QED
    BY <1>1, ChatAgrees, PTL

\* A reply shown is in the log of the seller's session and stands under the
\* message it replies to: no late reply of an abandoned turn appears under
\* another message.
THEOREM ChatRepliesBelong == ChatBounds => (Chat!Spec => []Chat!RepliesBelong)
  <1> SUFFICES ASSUME ChatBounds PROVE Chat!Spec => []Chat!RepliesBelong
    OBVIOUS
  <1>1. Chat!Init => Replies
    BY ChatBegins
  <1>2. ChatInv /\ Replies /\ [Chat!Next]_(Chat!vars) => Replies'
    BY RepliesStep
  <1>3. Replies => Chat!RepliesBelong
    BY DEF Replies
  <1> QED
    BY <1>1, <1>2, <1>3, ChatAgrees, PTL DEF Chat!Spec

--------------------------------------------------------------------------------
(* Pricing and drafting: its variables, and the inductive invariant. *)

CONSTANTS Bundle, Region, UnitPrice, Restricted, EligibleRegions, Quantity, Discount, Slip,
          MaxPriced, MaxDrafts

VARIABLES priced, line, drafts

Draft == INSTANCE QuoteDraft

\* The assumption of QuoteDraft, as far as it is needed.
DraftBounds ==
    /\ UnitPrice \in [Bundle -> Nat]
    /\ Quantity \subseteq Int /\ Discount \subseteq Int /\ Slip \subseteq Int

\* A quote line has its four fields, and numbers under known names.
WellFormed(l) ==
    /\ l = [bundle |-> l.bundle, number |-> l.number,
            requires_discount_approval |-> l.requires_discount_approval,
            signature |-> l.signature]
    /\ Draft!IsLine(l)

\* A quote that is signed, with all its numbers, for a region its bundle may
\* go to.
SignedQuote(l, residency) ==
    /\ WellFormed(l) /\ residency \in Draft!Residency
    /\ l.number["discount_pct"].value \in Draft!Percentages
    /\ l.signature = Draft!Sign(l)
    /\ Draft!Allowed(l.bundle, residency)

\* Every quote that was priced is signed.
PricedSigned == \A p \in priced : SignedQuote(p[1], p[2])

\* Whatever the model makes of a line, it has no signature but those of
\* quotes that were priced.
SignatureIsPriced ==
    \/ line = Draft!NoLine
    \/ WellFormed(line) /\ \E p \in priced : line.signature = p[1].signature

\* The store numbers its drafts from 1, each under its own key.
DraftsStored ==
    /\ IsFiniteSet(DOMAIN drafts)
    /\ \A k \in DOMAIN drafts : k = Draft!Key(drafts[k].line) /\ Draft!IsLine(drafts[k].line)
    /\ {drafts[k].id : k \in DOMAIN drafts} = 1..Cardinality(DOMAIN drafts)

DraftsPriced == Draft!DraftIsPriced

DraftInv == PricedSigned /\ SignatureIsPriced /\ DraftsStored /\ DraftsPriced

--------------------------------------------------------------------------------
(* Pricing and drafting: what a signature says. *)

\* Two numbers that round or cut to the same one are close.
LEMMA SameQuotient ==
    ASSUME NEW a \in Int, NEW b \in Int
    PROVE  /\ a \div 1000 = b \div 1000 => Draft!Abs(a - b) < 1000
           /\ (a + 5) \div 10 = (b + 5) \div 10 => Draft!Abs(a - b) < 10
  <1>1. a \div 1000 = b \div 1000 => a - b < 1000 /\ b - a < 1000
    OBVIOUS
  <1>2. (a + 5) \div 10 = (b + 5) \div 10 => a - b < 10 /\ b - a < 10
    OBVIOUS
  <1>3. PICK d \in Int : d = a - b
    OBVIOUS
  <1>4. a - b < 1000 /\ b - a < 1000 => Draft!Abs(d) < 1000
    BY <1>3 DEF Draft!Abs
  <1>5. a - b < 10 /\ b - a < 10 => Draft!Abs(d) < 10
    BY <1>3 DEF Draft!Abs
  <1> QED
    BY <1>1, <1>2, <1>3, <1>4, <1>5

\* Lines with one signature have the same terms.
LEMMA SameSignature ==
    ASSUME NEW l, NEW m, Draft!IsLine(l), Draft!IsLine(m), Draft!Sign(l) = Draft!Sign(m)
    PROVE  Draft!SameTerms(l, m) /\ l.bundle = m.bundle
  <1>1. PICK F, G : /\ F = [f \in DOMAIN l.number |-> Draft!Canonical(f, l.number[f])]
                    /\ G = [f \in DOMAIN m.number |-> Draft!Canonical(f, m.number[f])]
    OBVIOUS
  <1>2. /\ l.bundle = m.bundle /\ F = G
        /\ l.requires_discount_approval = m.requires_discount_approval
    BY <1>1 DEF Draft!Sign
  <1>3. DOMAIN l.number = DOMAIN m.number
    BY <1>1, <1>2
  <1>4. ASSUME NEW f \in DOMAIN l.number
        PROVE  Draft!Abs(l.number[f].value - m.number[f].value)
                   < IF f = "quantity" THEN 1000 ELSE 10
    <2>1. Draft!Canonical(f, l.number[f]) = Draft!Canonical(f, m.number[f])
      BY <1>1, <1>2, <1>3
    <2>2. PICK a \in Int, b \in Int : a = l.number[f].value /\ b = m.number[f].value
      BY <1>3 DEF Draft!IsLine, Draft!IsNumber
    <2>3. CASE f = "quantity"
      <3>1. a \div 1000 = b \div 1000
        BY <2>1, <2>2, <2>3 DEF Draft!Canonical
      <3>2. Draft!Abs(a - b) < 1000
        BY <3>1, SameQuotient
      <3> QED
        BY <2>2, <2>3, <3>2
    <2>4. CASE f # "quantity"
      <3>1. (a + 5) \div 10 = (b + 5) \div 10
        BY <2>1, <2>2, <2>4 DEF Draft!Canonical, Draft!Hundredths
      <3>2. Draft!Abs(a - b) < 10
        BY <3>1, SameQuotient
      <3> QED
        BY <2>2, <2>4, <3>2
    <2> QED
      BY <2>3, <2>4
  <1> QED
    BY <1>2, <1>3, <1>4 DEF Draft!SameTerms

\* A line of four fields is well formed when its fields are.
LEMMA LineOf ==
    ASSUME NEW b \in Bundle, NEW n, NEW r \in BOOLEAN, NEW s,
           DOMAIN n \subseteq Draft!Numbers, \A f \in DOMAIN n : Draft!IsNumber(n[f])
    PROVE  WellFormed([bundle |-> b, number |-> n, requires_discount_approval |-> r,
                       signature |-> s])
  <1>1. PICK l : l = [bundle |-> b, number |-> n, requires_discount_approval |-> r,
                      signature |-> s]
    OBVIOUS
  <1>2. l.bundle = b /\ l.number = n /\ l.requires_discount_approval = r /\ l.signature = s
    BY <1>1
  <1>3. WellFormed(l)
    BY <1>1, <1>2 DEF WellFormed, Draft!IsLine
  <1> QED
    BY <1>1, <1>3

\* What the model makes of a quote is a line, with its signature or that of
\* another quote.
LEMMA RewrittenLine ==
    ASSUME DraftBounds, NEW l, WellFormed(l),
           NEW m \in Draft!Retyped(l) \cup Draft!Altered(l)
    PROVE  /\ WellFormed(m)
           /\ m.signature = l.signature \/ \E p \in priced : m.signature = p[1].signature
  <1>1. PICK x, n, r, y : l = [bundle |-> x, number |-> n, requires_discount_approval |-> r,
                               signature |-> y]
    BY DEF WellFormed
  <1>2. l.bundle = x /\ l.number = n /\ l.requires_discount_approval = r /\ l.signature = y
    BY <1>1
  <1>3. /\ x \in Bundle /\ r \in BOOLEAN
        /\ DOMAIN n \subseteq Draft!Numbers /\ \A f \in DOMAIN n : Draft!IsNumber(n[f])
    BY <1>2 DEF WellFormed, Draft!IsLine
  <1>4. ASSUME NEW t \in [DOMAIN l.number -> {"int", "float"}],
               m = [l EXCEPT !.number =
                       [f \in DOMAIN @ |-> [type |-> t[f], value |-> @[f].value]]]
        PROVE  WellFormed(m) /\ m.signature = y
    <2>1. PICK k : k = [f \in DOMAIN n |-> [type |-> t[f], value |-> n[f].value]]
      OBVIOUS
    <2>2. m = [bundle |-> x, number |-> k, requires_discount_approval |-> r, signature |-> y]
      BY <1>1, <1>2, <1>4, <2>1
    <2>3. DOMAIN k = DOMAIN n
      BY <2>1
    <2>4. \A f \in DOMAIN k : Draft!IsNumber(k[f])
      BY <1>2, <1>3, <1>4, <2>1, <2>3 DEF Draft!IsNumber
    <2> QED
      BY <1>3, <2>2, <2>3, <2>4, LineOf
  <1>5. ASSUME NEW g \in DOMAIN l.number, NEW d \in Slip,
               m = [l EXCEPT !.number[g] = Draft!Float(@.value + d)]
        PROVE  WellFormed(m) /\ m.signature = y
    <2>1. PICK k : k = [n EXCEPT ![g] = Draft!Float(@.value + d)]
      OBVIOUS
    <2>2. m = [bundle |-> x, number |-> k, requires_discount_approval |-> r, signature |-> y]
      BY <1>1, <1>2, <1>5, <2>1
    <2>3. DOMAIN k = DOMAIN n
      BY <2>1
    <2>4. ASSUME NEW f \in DOMAIN k
          PROVE  Draft!IsNumber(k[f])
      <3>1. CASE f # g
        BY <1>2, <1>3, <2>1, <2>3, <3>1
      <3>2. CASE f = g
        <4>1. n[g].value + d \in Int
          BY <1>2, <1>3 DEF DraftBounds, Draft!IsNumber
        <4>2. k[f] = [type |-> "float", value |-> n[g].value + d]
          BY <1>2, <2>1, <2>3, <3>2 DEF Draft!Float
        <4> QED
          BY <4>1, <4>2 DEF Draft!IsNumber
      <3> QED
        BY <3>1, <3>2
    <2> QED
      BY <1>3, <2>2, <2>3, <2>4, LineOf
  <1>6. ASSUME NEW g \in DOMAIN l.number,
               m = [l EXCEPT !.number = Draft!Restrict(@, DOMAIN @ \ {g})]
        PROVE  WellFormed(m) /\ m.signature = y
    <2>1. PICK k : k = [f \in DOMAIN n \ {g} |-> n[f]]
      OBVIOUS
    <2>2. m = [bundle |-> x, number |-> k, requires_discount_approval |-> r, signature |-> y]
      BY <1>1, <1>2, <1>6, <2>1 DEF Draft!Restrict
    <2>3. DOMAIN k \subseteq DOMAIN n /\ \A f \in DOMAIN k : k[f] = n[f]
      BY <2>1
    <2> QED
      BY <1>3, <2>2, <2>3, LineOf
  <1>7. ASSUME NEW c \in Bundle, m = [l EXCEPT !.bundle = c]
        PROVE  WellFormed(m) /\ m.signature = y
    <2>1. m = [bundle |-> c, number |-> n, requires_discount_approval |-> r, signature |-> y]
      BY <1>1, <1>7
    <2> QED
      BY <1>3, <2>1, LineOf
  <1>8. ASSUME m = [l EXCEPT !.requires_discount_approval = ~@]
        PROVE  WellFormed(m) /\ m.signature = y
    <2>1. PICK v \in BOOLEAN : v = ~r
      OBVIOUS
    <2>2. m = [bundle |-> x, number |-> n, requires_discount_approval |-> v, signature |-> y]
      BY <1>1, <1>8, <2>1
    <2> QED
      BY <1>3, <2>2, LineOf
  <1>9. ASSUME NEW p \in priced, m = [l EXCEPT !.signature = p[1].signature]
        PROVE  WellFormed(m) /\ m.signature = p[1].signature
    <2>1. PICK v : v = p[1].signature
      OBVIOUS
    <2>2. m = [bundle |-> x, number |-> n, requires_discount_approval |-> r, signature |-> v]
      BY <1>1, <1>9, <2>1
    <2> QED
      BY <1>3, <2>1, <2>2, LineOf
  <1>10. CASE m \in Draft!Retyped(l)
    <2>1. \E t \in [DOMAIN l.number -> {"int", "float"}] :
             m = [l EXCEPT !.number =
                     [f \in DOMAIN @ |-> [type |-> t[f], value |-> @[f].value]]]
      BY <1>10, Zenon DEF Draft!Retyped
    <2> QED
      BY <1>2, <1>4, <2>1
  <1>11. CASE m \in Draft!Altered(l)
    <2> DEFINE A == {[l EXCEPT !.number[f] = Draft!Float(@.value + s)] :
                        f \in DOMAIN l.number, s \in Slip}
               B == {[l EXCEPT !.number = Draft!Restrict(@, DOMAIN @ \ {f})] :
                        f \in DOMAIN l.number}
               C == {[l EXCEPT !.bundle = b] : b \in Bundle}
               D == {[l EXCEPT !.requires_discount_approval = ~@]}
               E == {[l EXCEPT !.signature = p[1].signature] : p \in priced}
    <2>1. Draft!Altered(l) = A \cup B \cup C \cup D \cup E
      BY DEF Draft!Altered
    <2>2. m \in A \/ m \in B \/ m \in C \/ m \in D \/ m \in E
      <3> HIDE DEF A, B, C, D, E
      <3> QED
        BY <1>11, <2>1
    <2>3. CASE m \in A
      <3>1. \E f \in DOMAIN l.number, d \in Slip :
               m = [l EXCEPT !.number[f] = Draft!Float(@.value + d)]
        BY <2>3
      <3> QED
        BY <1>2, <1>5, <3>1
    <2>4. CASE m \in B
      <3>1. \E f \in DOMAIN l.number :
               m = [l EXCEPT !.number = Draft!Restrict(@, DOMAIN @ \ {f})]
        BY <2>4
      <3> QED
        BY <1>2, <1>6, <3>1
    <2>5. CASE m \in C
      BY <1>2, <1>7, <2>5
    <2>6. CASE m \in D
      BY <1>2, <1>8, <2>6, Zenon
    <2>7. CASE m \in E
      BY <1>2, <1>9, <2>7
    <2> HIDE DEF A, B, C, D, E
    <2> QED
      BY <2>2, <2>3, <2>4, <2>5, <2>6, <2>7
  <1> QED
    BY <1>10, <1>11

--------------------------------------------------------------------------------
(* Pricing and drafting: steps. *)

\* The total of a quote is a number.
LEMMA TotalIsNumber ==
    ASSUME DraftBounds, NEW b \in Bundle, NEW q \in Int, NEW d \in Int
    PROVE  Draft!GrandTotal(b, q, d) \in Int
  <1>1. PICK u \in Int, w \in Int : u = UnitPrice[b] /\ w = q \div 1000
    BY DEF DraftBounds
  <1>2. PICK t \in Int : t = u * w
    OBVIOUS
  <1>3. PICK v \in Int : v = t * d
    OBVIOUS
  <1>4. PICK a \in Int : a = (v + 500000) \div 1000000
    OBVIOUS
  <1>5. Draft!GrandTotal(b, q, d) = t - 10 * a
    BY <1>1, <1>2, <1>3, <1>4 DEF Draft!GrandTotal
  <1> QED
    BY <1>5

\* A step of price_bundle returns a signed quote.
Prices(quote, residency) ==
    /\ line' = quote /\ priced' = priced \cup {<<quote, residency>>} /\ drafts' = drafts
    /\ SignedQuote(quote, residency)

\* What is signed is a line with all its numbers.
LEMMA SignedLine ==
    ASSUME DraftBounds, NEW b \in Bundle, NEW q \in Quantity, NEW d \in Discount,
           NEW quote, quote = Draft!Signed(Draft!Unsigned(b, q, d))
    PROVE  /\ WellFormed(quote) /\ quote.signature = Draft!Sign(quote)
           /\ quote.bundle = b /\ quote.number["discount_pct"].value = d
  <1>1. PICK n :
           n = [f \in Draft!Numbers |->
                   CASE f = "quantity" -> Draft!Whole(q)
                     [] f = "discount_pct" -> Draft!Float(d)
                     [] f = "grand_total" -> Draft!Float(Draft!GrandTotal(b, q, d))]
    OBVIOUS
  <1>2. PICK r : r = (d > Draft!Threshold)
    OBVIOUS
  <1>3. PICK u : u = Draft!Unsigned(b, q, d)
    OBVIOUS
  <1>4. u = [bundle |-> b, number |-> n, requires_discount_approval |-> r,
             signature |-> "none"]
    BY <1>1, <1>2, <1>3 DEF Draft!Unsigned
  <1>5. PICK y : y = Draft!Sign(u)
    OBVIOUS
  <1>6. quote = [u EXCEPT !.signature = y]
    BY <1>3, <1>5, Zenon DEF Draft!Signed
  <1>7. quote = [bundle |-> b, number |-> n, requires_discount_approval |-> r, signature |-> y]
    BY <1>4, <1>6
  <1>8. /\ quote.bundle = u.bundle /\ quote.number = u.number
        /\ quote.requires_discount_approval = u.requires_discount_approval
        /\ quote.signature = y /\ quote.bundle = b /\ quote.number = n
    BY <1>4, <1>7
  <1>9. quote.signature = Draft!Sign(quote)
    BY <1>5, <1>8 DEF Draft!Sign
  <1>10. PICK t : t = Draft!GrandTotal(b, q, d)
    OBVIOUS
  <1>11. q \in Int /\ d \in Int /\ t \in Int
    BY <1>10, TotalIsNumber DEF DraftBounds
  <1>12. DOMAIN n = Draft!Numbers
    BY <1>1
  <1>13. /\ n["quantity"] = Draft!Whole(q) /\ n["discount_pct"] = Draft!Float(d)
         /\ n["grand_total"] = Draft!Float(t)
    BY <1>1, <1>10 DEF Draft!Numbers
  <1>14. \A v \in Int : Draft!IsNumber(Draft!Whole(v)) /\ Draft!IsNumber(Draft!Float(v))
    BY DEF Draft!IsNumber, Draft!Whole, Draft!Float
  <1>15. \A f \in DOMAIN n : Draft!IsNumber(n[f])
    BY <1>11, <1>12, <1>13, <1>14 DEF Draft!Numbers
  <1>16. r \in BOOLEAN
    BY <1>2
  <1>17. WellFormed(quote)
    BY <1>7, <1>12, <1>15, <1>16, LineOf
  <1>18. n["discount_pct"].value = d
    BY <1>13 DEF Draft!Float
  <1> QED
    BY <1>8, <1>9, <1>17, <1>18

\* What price_bundle returns is a signed quote.
LEMMA PriceBundleSigns ==
    ASSUME DraftBounds, NEW b \in Bundle, NEW residency \in Draft!Residency,
           NEW q \in Quantity, NEW d \in Discount, Draft!PriceBundle(b, q, d, residency)
    PROVE  \E quote : Prices(quote, residency)
  <1>1. PICK quote : quote = Draft!Signed(Draft!Unsigned(b, q, d))
    OBVIOUS
  <1>2. /\ line' = quote /\ priced' = priced \cup {<<quote, residency>>} /\ drafts' = drafts
        /\ d \in Draft!Percentages /\ Draft!Allowed(b, residency)
    BY <1>1, Zenon DEF Draft!PriceBundle
  <1>3. /\ WellFormed(quote) /\ quote.signature = Draft!Sign(quote)
        /\ quote.bundle = b /\ quote.number["discount_pct"].value = d
    BY <1>1, SignedLine
  <1>4. SignedQuote(quote, residency)
    BY <1>2, <1>3 DEF SignedQuote
  <1> QED
    BY <1>2, <1>4 DEF Prices

\* Every step prices, rewrites or drafts, or does nothing.
LEMMA DraftMoves ==
    ASSUME DraftBounds, [Draft!Next]_(Draft!vars)
    PROVE  \/ \E quote, residency : Prices(quote, residency)
           \/ Draft!Reemit
           \/ Draft!CreateQuoteDraft
           \/ UNCHANGED <<priced, line, drafts>>
  <1>1. ASSUME NEW b \in Bundle, NEW residency \in Draft!Residency, NEW q \in Quantity,
               NEW d \in Discount, Draft!PriceBundle(b, q, d, residency)
        PROVE  \E quote, r : Prices(quote, r)
    BY <1>1, PriceBundleSigns
  <1> QED
    BY <1>1, Zenon DEF Draft!Next, Draft!vars

\* A quote is signed when it is priced, and stays priced.
LEMMA PricedStep ==
    ASSUME DraftBounds, PricedSigned, [Draft!Next]_(Draft!vars)
    PROVE  PricedSigned' /\ priced \subseteq priced'
  <1>1. ASSUME NEW quote, NEW residency, Prices(quote, residency)
        PROVE  PricedSigned' /\ priced \subseteq priced'
    <2>1. \A p \in priced' : p \in priced \/ (p[1] = quote /\ p[2] = residency)
      BY <1>1 DEF Prices
    <2> QED
      BY <1>1, <2>1 DEF PricedSigned, Prices
  <1>2. CASE priced' = priced
    BY <1>2 DEF PricedSigned
  <1>3. Draft!Reemit \/ Draft!CreateQuoteDraft => priced' = priced
    BY DEF Draft!Reemit, Draft!CreateQuoteDraft
  <1> QED
    BY <1>1, <1>2, <1>3, DraftMoves

\* The model has no way to sign.
LEMMA SignatureStep ==
    ASSUME DraftBounds, PricedSigned, SignatureIsPriced, [Draft!Next]_(Draft!vars)
    PROVE  SignatureIsPriced'
  <1>1. CASE line' = line
    BY <1>1, PricedStep DEF SignatureIsPriced
  <1>2. CASE Draft!Reemit
    <2>1. PICK p \in priced : line' \in Draft!Retyped(p[1]) \cup Draft!Altered(p[1])
      BY <1>2 DEF Draft!Reemit
    <2>2. PICK l : l = p[1]
      OBVIOUS
    <2>3. PICK m : m = line'
      OBVIOUS
    <2>4. WellFormed(l) /\ m \in Draft!Retyped(l) \cup Draft!Altered(l)
      <3>1. WellFormed(l)
        BY <2>2, Zenon DEF PricedSigned, SignedQuote
      <3> QED
        BY <2>1, <2>2, <2>3, <3>1, Zenon
    <2>5. WellFormed(m) /\ \E o \in priced : m.signature = o[1].signature
      BY <2>2, <2>4, RewrittenLine
    <2>6. priced' = priced
      BY <1>2 DEF Draft!Reemit
    <2> QED
      BY <2>3, <2>5, <2>6 DEF SignatureIsPriced
  <1>3. ASSUME NEW quote, NEW residency, Prices(quote, residency)
        PROVE  SignatureIsPriced'
    <2>1. <<quote, residency>>[1] = quote /\ <<quote, residency>> \in priced'
      BY <1>3 DEF Prices
    <2>2. \E p \in priced' : quote.signature = p[1].signature
      BY <2>1
    <2>3. WellFormed(quote) /\ line' = quote
      BY <1>3, Zenon DEF Prices, SignedQuote
    <2> QED
      BY <2>2, <2>3 DEF SignatureIsPriced
  <1>4. Draft!CreateQuoteDraft => line' = line
    BY DEF Draft!CreateQuoteDraft
  <1> QED
    BY <1>1, <1>2, <1>3, <1>4, DraftMoves

\* A draft is stored under its key, with the next number.
LEMMA StoredStep ==
    ASSUME DraftBounds, SignatureIsPriced, DraftsStored, [Draft!Next]_(Draft!vars)
    PROVE  DraftsStored'
  <1>1. CASE drafts' = drafts
    BY <1>1 DEF DraftsStored
  <1>2. CASE Draft!CreateQuoteDraft
    <2>1. PICK K, k, n, e :
             /\ K = DOMAIN drafts /\ k = Draft!Key(line) /\ n = Cardinality(K)
             /\ e = [id |-> n + 1, line |-> line]
      OBVIOUS
    <2>2. IsFiniteSet(K) /\ n \in Nat
      BY <2>1, FS_CardinalityType DEF DraftsStored
    <2>3. Draft!Cardinality(K) = n
      BY <2>1 DEF Draft!Cardinality, Cardinality
    <2>4. k \notin K /\ drafts' = [j \in K \cup {k} |-> IF j \in K THEN drafts[j] ELSE e]
      BY <1>2, <2>1, <2>3 DEF Draft!CreateQuoteDraft
    <2>5. PICK L : L = K \cup {k}
      OBVIOUS
    <2>6. /\ IsFiniteSet(L) /\ Cardinality(L) = n + 1 /\ DOMAIN drafts' = L
          /\ drafts'[k] = e /\ \A j \in K : drafts'[j] = drafts[j]
      BY <2>1, <2>2, <2>4, <2>5, FS_AddElement
    <2>7. line # Draft!NoLine /\ Draft!IsLine(line)
      BY <1>2 DEF Draft!CreateQuoteDraft, Draft!HasKey, SignatureIsPriced, WellFormed
    <2>8. ASSUME NEW j \in L
          PROVE  j = Draft!Key(drafts'[j].line) /\ Draft!IsLine(drafts'[j].line)
      <3>1. CASE j \in K
        <4>1. PICK l : l = drafts[j].line
          OBVIOUS
        <4>2. j = Draft!Key(l) /\ Draft!IsLine(l)
          BY <2>1, <3>1, <4>1 DEF DraftsStored
        <4>3. drafts'[j].line = l
          BY <2>6, <3>1, <4>1
        <4> QED
          BY <4>2, <4>3
      <3>2. CASE j = k
        <4>1. drafts'[j].line = line
          BY <2>1, <2>6, <3>2
        <4> QED
          BY <2>1, <2>7, <3>2, <4>1
      <3> QED
        BY <2>5, <3>1, <3>2
    <2>9. {drafts'[j].id : j \in L} = 1..(n + 1)
      <3>1. {drafts[j].id : j \in K} = 1..n
        BY <2>1 DEF DraftsStored
      <3>2. drafts'[k].id = n + 1 /\ \A j \in K : drafts'[j].id = drafts[j].id
        BY <2>1, <2>6
      <3>3. {drafts'[j].id : j \in L} = {drafts[j].id : j \in K} \cup {n + 1}
        BY <2>5, <3>2
      <3>4. 1..(n + 1) = (1..n) \cup {n + 1}
        BY <2>2
      <3> QED
        BY <3>1, <3>3, <3>4
    <2> QED
      BY <2>6, <2>8, <2>9 DEF DraftsStored
  <1>3. Draft!Reemit \/ (\E quote, residency : Prices(quote, residency)) => drafts' = drafts
    BY DEF Draft!Reemit, Prices
  <1> QED
    BY <1>1, <1>2, <1>3, DraftMoves

\* A draft has the terms of a quote, which stays priced.
LEMMA DraftsStep ==
    ASSUME DraftBounds, PricedSigned, SignatureIsPriced, DraftsPriced, [Draft!Next]_(Draft!vars)
    PROVE  DraftsPriced'
  <1>1. ASSUME NEW k \in DOMAIN drafts
        PROVE  \E p \in priced' : /\ Draft!SameTerms(drafts[k].line, p[1])
                                  /\ p[1].bundle \in Restricted
                                         => p[2] \in EligibleRegions[p[1].bundle]
    BY PricedStep DEF DraftsPriced, Draft!DraftIsPriced
  <1>2. CASE drafts' = drafts
    BY <1>1, <1>2 DEF DraftsPriced, Draft!DraftIsPriced
  <1>3. CASE Draft!CreateQuoteDraft
    <2>1. PICK l : l = line
      OBVIOUS
    <2>2. /\ priced' = priced /\ l # Draft!NoLine /\ l.signature = Draft!Sign(l)
      BY <1>3, <2>1 DEF Draft!CreateQuoteDraft, Draft!HasKey, Draft!VerifySignature
    <2>3. Draft!IsLine(l) /\ \E p \in priced : l.signature = p[1].signature
      BY <2>1, <2>2 DEF SignatureIsPriced, WellFormed
    <2>4. PICK p \in priced : l.signature = p[1].signature
      BY <2>3
    <2>5. PICK m, residency : m = p[1] /\ residency = p[2]
      OBVIOUS
    <2>6. SignedQuote(m, residency)
      BY <2>5 DEF PricedSigned
    <2>7. Draft!IsLine(m) /\ m.signature = Draft!Sign(m) /\ Draft!Allowed(m.bundle, residency)
      BY <2>6 DEF SignedQuote, WellFormed
    <2>8. Draft!Sign(l) = Draft!Sign(m)
      BY <2>2, <2>4, <2>5, <2>7
    <2>9. Draft!SameTerms(l, m)
      BY <2>3, <2>7, <2>8, SameSignature
    <2>10. m.bundle \in Restricted => residency \in EligibleRegions[m.bundle]
      BY <2>7 DEF Draft!Allowed
    <2>11. \E o \in priced' : /\ Draft!SameTerms(l, o[1])
                              /\ o[1].bundle \in Restricted
                                     => o[2] \in EligibleRegions[o[1].bundle]
      BY <2>2, <2>5, <2>9, <2>10
    <2>12. \A k \in DOMAIN drafts' :
              \/ k \in DOMAIN drafts /\ drafts'[k] = drafts[k]
              \/ drafts'[k].line = l
      BY <1>3, <2>1 DEF Draft!CreateQuoteDraft
    <2>13. ASSUME NEW k \in DOMAIN drafts'
           PROVE  \E o \in priced' : /\ Draft!SameTerms(drafts'[k].line, o[1])
                                     /\ o[1].bundle \in Restricted
                                            => o[2] \in EligibleRegions[o[1].bundle]
      <3>1. CASE k \in DOMAIN drafts /\ drafts'[k] = drafts[k]
        BY <1>1, <3>1
      <3>2. CASE drafts'[k].line = l
        BY <2>11, <3>2
      <3> QED
        BY <2>12, <3>1, <3>2
    <2> QED
      BY <2>13 DEF DraftsPriced, Draft!DraftIsPriced
  <1>4. Draft!Reemit \/ (\E quote, residency : Prices(quote, residency)) => drafts' = drafts
    BY DEF Draft!Reemit, Prices
  <1> QED
    BY <1>2, <1>3, <1>4, DraftMoves

--------------------------------------------------------------------------------
(* Pricing and drafting: theorems. *)

\* Nothing is priced and nothing drafted at first.
LEMMA DraftBegins ==
    ASSUME Draft!Init
    PROVE  DraftInv
  <1>1. priced = {} /\ line = Draft!NoLine /\ DOMAIN drafts = {}
    BY DEF Draft!Init
  <1>2. PricedSigned /\ SignatureIsPriced /\ DraftsPriced
    BY <1>1 DEF PricedSigned, SignatureIsPriced, DraftsPriced, Draft!DraftIsPriced
  <1>3. DraftsStored
    <2>1. IsFiniteSet({}) /\ Cardinality({}) = 0
      BY FS_EmptySet
    <2>2. PICK K : K = DOMAIN drafts
      OBVIOUS
    <2>3. IsFiniteSet(K) /\ Cardinality(K) = 0 /\ K = {}
      BY <1>1, <2>1, <2>2
    <2>4. {drafts[k].id : k \in K} = {} /\ 1..0 = {}
      BY <2>3
    <2> QED
      BY <2>2, <2>3, <2>4 DEF DraftsStored
  <1> QED
    BY <1>2, <1>3 DEF DraftInv

\* Only priced quotes are signed, only their signatures are about, and only
\* what they sign is drafted: the inductive invariant.
THEOREM SignaturesAreGenuine == DraftBounds => (Draft!Spec => []DraftInv)
  <1> SUFFICES ASSUME DraftBounds PROVE Draft!Spec => []DraftInv
    OBVIOUS
  <1>1. Draft!Init => DraftInv
    BY DraftBegins
  <1>2. DraftInv /\ [Draft!Next]_(Draft!vars) => DraftInv'
    BY PricedStep, SignatureStep, StoredStep, DraftsStep DEF DraftInv
  <1> QED
    BY <1>1, <1>2, PTL DEF Draft!Spec

\* Every variable has its type, and a draft is one the store can look up.
THEOREM DraftTypeCorrect == DraftBounds => (Draft!Spec => []Draft!TypeOK)
  <1> SUFFICES ASSUME DraftBounds PROVE Draft!Spec => []Draft!TypeOK
    OBVIOUS
  <1>1. ASSUME DraftInv
        PROVE  Draft!TypeOK
    <2>1. \A p \in priced : /\ Draft!IsLine(p[1]) /\ p[2] \in Draft!Residency
                            /\ p[1].number["discount_pct"].value \in Draft!Percentages
      BY <1>1 DEF DraftInv, PricedSigned, SignedQuote, WellFormed
    <2>2. line = Draft!NoLine \/ Draft!IsLine(line)
      BY <1>1 DEF DraftInv, SignatureIsPriced, WellFormed
    <2>3. PICK K : K = DOMAIN drafts
      OBVIOUS
    <2>4. Draft!Cardinality(K) = Cardinality(K)
      BY DEF Draft!Cardinality, Cardinality
    <2>5. /\ \A k \in K : k = Draft!Key(drafts[k].line) /\ Draft!IsLine(drafts[k].line)
          /\ {drafts[k].id : k \in K} = 1..Cardinality(K)
      BY <1>1, <2>3 DEF DraftInv, DraftsStored
    <2> QED
      BY <2>1, <2>2, <2>3, <2>4, <2>5 DEF Draft!TypeOK
  <1> QED
    BY <1>1, SignaturesAreGenuine, PTL

\* Whatever the model makes of the quotes on the way, a draft has the terms
\* of one that price_bundle returned, for a region its bundle may go to.
THEOREM DraftsArePriced == DraftBounds => (Draft!Spec => []Draft!DraftIsPriced)
  <1> SUFFICES ASSUME DraftBounds PROVE Draft!Spec => []Draft!DraftIsPriced
    OBVIOUS
  <1>1. DraftInv => Draft!DraftIsPriced
    BY DEF DraftInv, DraftsPriced
  <1> QED
    BY <1>1, SignaturesAreGenuine, PTL

================================================================================
