---------------------------- MODULE LiveUpdateProofs ----------------------------
(***************************************************************************)
(* Proofs about LiveUpdate, for any opportunities and accounts, any number *)
(* of edits, seconds, failures and crashes.                                *)
(***************************************************************************)
EXTENDS LiveUpdate, TLAPS

--------------------------------------------------------------------------------
(* Types. *)

AnyChange == UNION {Changes(o) : o \in Opportunity}
AnyVersion == UNION {[RecordsOf(o) -> Nat] : o \in Opportunity}
KeyRecord == [opp : Opportunity, change : AnyChange, version : AnyVersion]
EditRecord == [stamp : Nat, key : KeyRecord \cup {Nothing}]
OrgRecord == [value : {"Yes", "No", ""} \cup Region, stamp : Nat, edits : Seq(EditRecord)]

\* A key is a record, as KeyOf makes them.
Keyed(k) == k \in KeyRecord /\ IsKey(k)

OrgType ==
    /\ org \in [Record -> OrgRecord]
    /\ now \in 1..MaxSeconds
    /\ \A x \in Record :
          /\ org[x].value \in Value(x) \cup {""}
          /\ org[x].stamp \in 1..now
          /\ Len(org[x].edits) \in 0..MaxEdits

BasisType ==
    basis # Nothing =>
        /\ basis.opp \in Opportunity
        /\ basis.version \in [RecordsOf(basis.opp) -> 1..now]
        /\ basis.seen \in [RecordsOf(basis.opp) -> Nat]

\* A call under way has a key made of what the caller read last.
CallType ==
    /\ (\A k \in ledger : Keyed(k)) /\ whole \in BOOLEAN
    /\ pc \in {"idle", "check", "opportunity", "account", "put", "answer"}
    /\ IF pc = "idle" THEN key = Nothing
       ELSE /\ Keyed(key) /\ basis # Nothing
            /\ key.opp = basis.opp /\ key.version = basis.version
    /\ failures \in 0..MaxFailures

\* There is room for the edits a call still has to make.
RoomInv ==
    /\ pc \in {"check", "opportunity"} =>
          \A x \in DOMAIN key.change : Len(org[x].edits) < MaxEdits
    /\ pc = "account" /\ AccountOf[key.opp] \in DOMAIN key.change =>
          Len(org[AccountOf[key.opp]].edits) < MaxEdits

TypeInv == OrgType /\ BasisType /\ CallType /\ RoomInv

--------------------------------------------------------------------------------
(* What is true of the edits. *)

\* No edit is later than the record's last; what is not read yet is not
\* earlier than what is.
StampInv ==
    /\ \A x \in Record : \A n \in 1..Len(org[x].edits) :
          org[x].edits[n].stamp <= org[x].stamp
    /\ basis # Nothing => \A x \in RecordsOf(basis.opp) :
          /\ basis.version[x] <= org[x].stamp
          /\ \A n \in (basis.seen[x] + 1)..Len(org[x].edits) :
                basis.version[x] <= org[x].edits[n].stamp

\* A record has the value of its last edit, if a call made that.
LastInv ==
    \A x \in Record : \A n \in 1..Len(org[x].edits) :
        LET k == org[x].edits[n].key IN
        n = Len(org[x].edits) /\ k # Nothing =>
            /\ x \in DOMAIN k.change /\ x \in RecordsOf(k.opp)
            /\ org[x].value = k.change[x] /\ k.change[x] \in Value(x)

WrittenBy(k, x) == \E n \in 1..Len(org[x].edits) : org[x].edits[n].key = k

AllWritten(k) == \A x \in DOMAIN k.change : WrittenBy(k, x)

\* How far a call has written; a key in the ledger is written.
DoneInv ==
    /\ pc = "account" /\ key.opp \in DOMAIN key.change => WrittenBy(key, key.opp)
    /\ pc \in {"put", "answer"} => AllWritten(key)
    /\ \A k \in ledger : AllWritten(k)

\* What was answered was true, and the edits it counted are still there.
AnswerInv ==
    answer # Nothing =>
        /\ Keyed(answer.key)
        /\ \A x \in DOMAIN answer.key.change :
              /\ answer.upto[x] \in 1..Len(org[x].edits)
              /\ \E n \in 1..answer.upto[x] : org[x].edits[n].key = answer.key

--------------------------------------------------------------------------------
(* What Edit does. *)

\* The bounds are numbers.
LEMMA Bounds ==
    MaxEdits \in Nat /\ MaxSeconds \in Nat /\ MaxSeconds >= 1 /\ MaxFailures \in Nat
  BY LiveUpdateAssumption

\* A record of the org has its fields.
LEMMA RecordFields ==
    ASSUME NEW r \in OrgRecord
    PROVE  /\ r.value \in {"Yes", "No", ""} \cup Region /\ r.stamp \in Nat
           /\ r.edits \in Seq(EditRecord) /\ Len(r.edits) \in Nat
  <1>1. r.edits \in Seq(EditRecord) /\ r.stamp \in Nat
        /\ r.value \in {"Yes", "No", ""} \cup Region
    BY DEF OrgRecord
  <1>2. \A s \in Seq(EditRecord) : Len(s) \in Nat
    OBVIOUS
  <1> QED
    BY <1>1, <1>2

\* The clock is a number.
LEMMA NowNat ==
    ASSUME now \in 1..MaxSeconds
    PROVE  now \in Nat /\ now >= 1 /\ now <= MaxSeconds
  <1>1. PICK m \in Nat : m = MaxSeconds
    BY Bounds
  <1>2. now \in 1..m
    BY <1>1
  <1> QED
    BY <1>1, <1>2

\* What the types say of a record.
LEMMA OrgFields ==
    ASSUME OrgType, NEW x \in Record
    PROVE  /\ org[x] \in OrgRecord /\ org[x].value \in Value(x) \cup {""}
           /\ now \in Nat /\ now >= 1 /\ now <= MaxSeconds
           /\ org[x].edits \in Seq(EditRecord) /\ Len(org[x].edits) \in Nat
           /\ Len(org[x].edits) <= MaxEdits
           /\ org[x].stamp \in Nat /\ org[x].stamp >= 1 /\ org[x].stamp <= now
  <1>1. /\ org[x] \in OrgRecord /\ org[x].value \in Value(x) \cup {""}
        /\ org[x].stamp \in 1..now /\ Len(org[x].edits) \in 0..MaxEdits
        /\ now \in 1..MaxSeconds
    BY DEF OrgType
  <1>2. now \in Nat /\ now >= 1 /\ now <= MaxSeconds
    BY <1>1, NowNat
  <1>3. org[x].edits \in Seq(EditRecord) /\ Len(org[x].edits) \in Nat /\ org[x].stamp \in Nat
    BY <1>1, RecordFields
  <1>4. PICK n \in Nat, c \in Nat, l \in Nat, m \in Nat :
            n = now /\ c = org[x].stamp /\ l = Len(org[x].edits) /\ m = MaxEdits
    BY <1>2, <1>3, Bounds
  <1>5. c \in 1..n /\ l \in 0..m
    BY <1>1, <1>4
  <1>6. c >= 1 /\ c <= n /\ l <= m
    BY <1>5
  <1> QED
    BY <1>1, <1>2, <1>3, <1>4, <1>6

\* A nothing is no record of a key.
LEMMA KeysAreSomething == \A k \in KeyRecord : k # Nothing
  BY DEF KeyRecord, Nothing

\* A key names records of its opportunity, and values they may have.
LEMMA RecordsOfKey ==
    ASSUME NEW k, IsKey(k)
    PROVE  /\ k.opp \in Record /\ AccountOf[k.opp] \in Record
           /\ AccountOf[k.opp] # k.opp
           /\ DOMAIN k.change \subseteq {k.opp, AccountOf[k.opp]}
           /\ \A x \in DOMAIN k.change :
                 x \in Record /\ x \in RecordsOf(k.opp) /\ k.change[x] \in Value(x)
  BY LiveUpdateAssumption DEF IsKey, Changes, RecordsOf, Record

\* The record x has one more edit, of value v and key k, at this second; the
\* others are as they were.
Edited(x, v, k) ==
    /\ org'[x].value = v /\ org'[x].stamp = now
    /\ Len(org'[x].edits) = Len(org[x].edits) + 1
    /\ org'[x].edits[Len(org[x].edits) + 1].stamp = now
    /\ org'[x].edits[Len(org[x].edits) + 1].key = k
    /\ \A n \in 1..Len(org[x].edits) : org'[x].edits[n] = org[x].edits[n]
    /\ \A y \in Record \ {x} : org'[y] = org[y]

\* What Append does to a list of edits.
LEMMA AppendEdit ==
    ASSUME NEW s \in Seq(EditRecord), NEW e \in EditRecord
    PROVE  /\ Append(s, e) \in Seq(EditRecord)
           /\ Len(Append(s, e)) = Len(s) + 1 /\ Len(s) \in Nat
           /\ Append(s, e)[Len(s) + 1] = e
           /\ \A i \in 1..Len(s) : Append(s, e)[i] = s[i]
  OBVIOUS

\* An edit of a record is at the end of its edits.
LEMMA EditEdits ==
    ASSUME OrgType, NEW x \in Record, NEW v \in Value(x) \cup {""},
           NEW k \in KeyRecord \cup {Nothing}, Edit(x, v, k)
    PROVE  org' \in [Record -> OrgRecord] /\ Edited(x, v, k)
  <1>1. now \in Nat
    BY OrgFields
  <1>2. PICK s \in Seq(EditRecord) : s = org[x].edits
    BY OrgFields
  <1>3. PICK e \in EditRecord : e = [stamp |-> now, key |-> k] /\ e.stamp = now /\ e.key = k
    <2>1. [stamp |-> now, key |-> k] \in EditRecord
      BY <1>1 DEF EditRecord
    <2> QED
      BY <2>1
  <1>4. PICK t \in Seq(EditRecord) :
            /\ t = Append(s, e) /\ Len(t) = Len(s) + 1 /\ Len(s) \in Nat
            /\ t[Len(s) + 1] = e /\ \A i \in 1..Len(s) : t[i] = s[i]
    <2>1. Append(s, e) \in Seq(EditRecord)
      BY AppendEdit
    <2> QED
      BY <2>1, AppendEdit
  <1>5. PICK r \in OrgRecord : /\ r = [value |-> v, stamp |-> now, edits |-> t]
                               /\ r.value = v /\ r.stamp = now /\ r.edits = t
    <2>1. v \in {"Yes", "No", ""} \cup Region
      BY DEF Value
    <2>2. [value |-> v, stamp |-> now, edits |-> t] \in OrgRecord
      BY <1>1, <2>1 DEF OrgRecord
    <2> QED
      BY <2>2
  <1>6. org' = [org EXCEPT ![x] = r]
    BY <1>2, <1>3, <1>4, <1>5 DEF Edit
  <1>7. /\ org' \in [Record -> OrgRecord] /\ org'[x] = r
        /\ \A y \in Record \ {x} : org'[y] = org[y]
    BY <1>6 DEF OrgType
  <1>8. org'[x].value = v /\ org'[x].stamp = now /\ org'[x].edits = t
    BY <1>5, <1>7
  <1>9. /\ Len(org'[x].edits) = Len(org[x].edits) + 1
        /\ org'[x].edits[Len(org[x].edits) + 1] = e
        /\ \A n \in 1..Len(org[x].edits) : org'[x].edits[n] = org[x].edits[n]
    BY <1>2, <1>4, <1>8
  <1> QED
    BY <1>3, <1>7, <1>8, <1>9 DEF Edited

--------------------------------------------------------------------------------
(* The steps, by what they do to the org: nothing, an edit of the call, or   *)
(* one of somebody else.                                                     *)

CallWrites ==
    \E x \in Record :
        /\ pc = IF x = key.opp THEN "opportunity" ELSE "account"
        /\ x = key.opp \/ x = AccountOf[key.opp]
        /\ x \in DOMAIN key.change
        /\ Edited(x, key.change[x], key)
        /\ \/ pc' = "idle"
           \/ key' = key /\ pc' = IF x = key.opp THEN "account" ELSE "put"
        /\ UNCHANGED <<now, ledger, basis, answer>>

OthersEdit ==
    \E x \in Record, v \in {"Yes", "No", ""} \cup Region :
        /\ v \in Value(x) \cup {""} /\ Room(x) /\ Edited(x, v, Nothing)
        /\ UNCHANGED <<now, ledger, basis, pc, key, answer>>

\* What the write of one record does.
LEMMA WriteEdits ==
    ASSUME TypeInv, pc # "idle", NEW x \in RecordsOf(key.opp), Write(x)
    PROVE  /\ org' \in [Record -> OrgRecord]
           /\ IF x \in DOMAIN key.change THEN Edited(x, key.change[x], key) ELSE org' = org
  <1>1. Keyed(key) /\ OrgType
    BY DEF TypeInv, CallType
  <1>2. CASE x \in DOMAIN key.change
    <2>1. x \in Record /\ key.change[x] \in Value(x) /\ key \in KeyRecord
      BY <1>1, <1>2, RecordsOfKey DEF Keyed
    <2>2. PICK v \in Value(x) \cup {""}, k \in KeyRecord \cup {Nothing} :
              v = key.change[x] /\ k = key
      BY <2>1
    <2>3. Edit(x, v, k)
      BY <1>2, <2>2 DEF Write
    <2> QED
      BY <1>1, <1>2, <2>1, <2>2, <2>3, EditEdits
  <1>3. CASE x \notin DOMAIN key.change
    BY <1>1, <1>3 DEF Write, OrgType
  <1> QED
    BY <1>2, <1>3

\* A step leaves the org, or makes one edit.
LEMMA OrgMoves ==
    ASSUME TypeInv, [Next]_vars
    PROVE  org' \in [Record -> OrgRecord] /\ (org' = org \/ CallWrites \/ OthersEdit)
  <1>1. OrgType /\ org \in [Record -> OrgRecord]
    BY DEF TypeInv, OrgType
  <1>2. ASSUME pc = "opportunity", Write(key.opp), UNCHANGED <<now, ledger, basis, answer>>,
               pc' = "idle" \/ (key' = key /\ pc' = "account")
        PROVE  org' \in [Record -> OrgRecord] /\ (org' = org \/ CallWrites)
    <2>1. Keyed(key) /\ key.opp \in RecordsOf(key.opp) /\ key.opp \in Record
      BY <1>2, RecordsOfKey DEF TypeInv, CallType, RecordsOf, Keyed
    <2> QED
      BY <1>2, <2>1, WriteEdits DEF CallWrites
  <1>3. ASSUME pc = "account", Write(AccountOf[key.opp]),
               UNCHANGED <<now, ledger, basis, answer>>,
               pc' = "idle" \/ (key' = key /\ pc' = "put")
        PROVE  org' \in [Record -> OrgRecord] /\ (org' = org \/ CallWrites)
    <2>1. /\ AccountOf[key.opp] \in RecordsOf(key.opp)
          /\ AccountOf[key.opp] \in Record /\ AccountOf[key.opp] # key.opp
      BY <1>3, RecordsOfKey DEF TypeInv, CallType, RecordsOf, Keyed
    <2> QED
      BY <1>3, <2>1, WriteEdits DEF CallWrites
  <1>4. ASSUME NEW x \in Record, SomebodyEdits(x)
        PROVE  org' \in [Record -> OrgRecord] /\ OthersEdit
    <2>1. PICK v \in Value(x) \cup {""} : Edit(x, v, Nothing)
      BY <1>4 DEF SomebodyEdits
    <2>2. PICK k \in KeyRecord \cup {Nothing} : k = Nothing
      OBVIOUS
    <2>3. org' \in [Record -> OrgRecord] /\ Edited(x, v, Nothing)
      BY <1>1, <2>1, <2>2, EditEdits
    <2>4. v \in {"Yes", "No", ""} \cup Region /\ Room(x)
      BY <1>4 DEF Value, SomebodyEdits
    <2> QED
      BY <1>4, <2>3, <2>4 DEF OthersEdit, SomebodyEdits, call, log
  <1>5. CASE UpdateOpportunity
    BY <1>2, <1>5 DEF UpdateOpportunity, log
  <1>6. CASE UpdateAccount
    BY <1>3, <1>6 DEF UpdateAccount, log
  <1>7. CASE OrgCallFails
    BY <1>1, <1>2, <1>3, <1>7 DEF OrgCallFails, Return, log
  <1>8. CASE UNCHANGED org
    BY <1>1, <1>8
  <1> QED
    BY <1>4, <1>5, <1>6, <1>7, <1>8
    DEF Next, GetOpportunity, Replay, Update, Begin, CheckVersion, VersionConflict, Put,
        Answer, Crash, Tick, vars

\* Edits are kept, and a new one is of this second.
LEMMA EditsStay ==
    ASSUME TypeInv, [Next]_vars, NEW x \in Record
    PROVE  /\ Len(org[x].edits) \in Nat /\ Len(org'[x].edits) \in Nat
           /\ \A n \in 1..Len(org[x].edits) : org'[x].edits[n] = org[x].edits[n]
           /\ \/ org'[x] = org[x]
              \/ /\ Len(org'[x].edits) = Len(org[x].edits) + 1
                 /\ org'[x].edits[Len(org[x].edits) + 1].stamp = now
                 /\ org'[x].stamp = now
  <1>1. org[x] \in OrgRecord /\ org'[x] \in OrgRecord
    BY OrgMoves DEF TypeInv, OrgType
  <1>2. Len(org[x].edits) \in Nat /\ Len(org'[x].edits) \in Nat
    BY <1>1, RecordFields
  <1>3. org' = org \/ \E y \in Record : \E v, k : Edited(y, v, k)
    BY OrgMoves DEF CallWrites, OthersEdit
  <1> QED
    BY <1>2, <1>3 DEF Edited

--------------------------------------------------------------------------------
(* Types. *)

\* The clock goes on, to its bound.
LEMMA NowStep ==
    ASSUME now \in 1..MaxSeconds, [Next]_vars
    PROVE  /\ now' \in 1..MaxSeconds /\ now' \in Nat
           /\ now' = now \/ now' = now + 1
  <1>1. PICK m \in Nat, n \in Nat : m = MaxSeconds /\ n = now /\ n >= 1 /\ n <= m
    BY Bounds, NowNat
  <1>2. CASE Tick
    <2>1. n < m /\ now' = n + 1
      BY <1>1, <1>2 DEF Tick
    <2>2. n + 1 \in 1..m /\ n + 1 \in Nat
      BY <1>1, <2>1
    <2> QED
      BY <1>1, <2>1, <2>2
  <1>3. CASE UNCHANGED now
    BY <1>1, <1>3
  <1> QED
    BY <1>2, <1>3
    DEF Next, GetOpportunity, Replay, Update, Begin, CheckVersion, VersionConflict, Put,
        Answer, Crash, OrgCallFails, UpdateOpportunity, UpdateAccount, SomebodyEdits, vars

\* Room for an edit, and for the call's.
LEMMA RoomLeft ==
    ASSUME OrgType, NEW x \in Record, Room(x)
    PROVE  /\ Len(org[x].edits) < MaxEdits
           /\ pc # "idle" /\ x \in DOMAIN key.change => Len(org[x].edits) + 1 < MaxEdits
  <1>1. PICK l \in Nat, m \in Nat : l = Len(org[x].edits) /\ m = MaxEdits
    BY OrgFields, Bounds
  <1>2. CASE pc # "idle" /\ x \in DOMAIN key.change
    <2>1. l + 1 < m
      BY <1>1, <1>2 DEF Room
    <2> QED
      BY <1>1, <2>1
  <1>3. CASE ~(pc # "idle" /\ x \in DOMAIN key.change)
    <2>1. l + 0 < m
      BY <1>1, <1>3 DEF Room
    <2> QED
      BY <1>1, <1>3, <2>1
  <1> QED
    BY <1>2, <1>3

\* The value, the time and the number of edits of a record.
Good(x) ==
    /\ org[x].value \in Value(x) \cup {""}
    /\ org[x].stamp \in 1..now
    /\ Len(org[x].edits) \in 0..MaxEdits

\* The two ranges an edit stays in.
LEMMA Ranges ==
    /\ \A n, b \in Nat : n >= 1 /\ (b = n \/ b = n + 1) => n \in 1..b
    /\ \A l, m \in Nat : l < m => l + 1 \in 0..m
  OBVIOUS

\* An edited record has a value, a time and a number of edits in range.
LEMMA EditIsGood ==
    ASSUME TypeInv, [Next]_vars, NEW x \in Record,
           NEW v \in Value(x) \cup {""}, NEW k, Edited(x, v, k),
           Len(org[x].edits) < MaxEdits
    PROVE  Good(x)'
  <1>1. OrgType
    BY DEF TypeInv
  <1>2. PICK n \in Nat, l \in Nat, m \in Nat :
            n = now /\ l = Len(org[x].edits) /\ m = MaxEdits /\ n >= 1
    BY <1>1, OrgFields, Bounds
  <1>3. PICK b \in Nat : b = now' /\ (b = n \/ b = n + 1)
    BY <1>1, <1>2, NowStep DEF OrgType
  <1>4. org'[x].value = v /\ org'[x].stamp = n /\ Len(org'[x].edits) = l + 1
    BY <1>2 DEF Edited
  <1>5. l < m
    BY <1>2
  <1>6. n >= 1
    BY <1>2
  <1>7. n \in 1..b
    BY <1>3, <1>6, Ranges
  <1>8. l + 1 \in 0..m
    BY <1>5, Ranges
  <1> QED
    BY <1>2, <1>3, <1>4, <1>7, <1>8 DEF Good

\* The values, times and numbers of edits stay in their bounds.
LEMMA OrgTypeStep ==
    ASSUME TypeInv, [Next]_vars
    PROVE  OrgType'
  <1>1. OrgType /\ RoomInv /\ CallType
    BY DEF TypeInv
  <1>2. now' \in 1..MaxSeconds /\ now' \in Nat /\ now \in Nat
        /\ (now' = now \/ now' = now + 1)
    BY <1>1, NowStep, NowNat DEF OrgType
  <1>3. ASSUME NEW x \in Record
        PROVE  Good(x)'
    <2>1. /\ org[x].value \in Value(x) \cup {""}
          /\ Len(org[x].edits) \in Nat /\ Len(org[x].edits) <= MaxEdits
          /\ org[x].stamp \in Nat /\ org[x].stamp >= 1 /\ org[x].stamp <= now
      BY <1>1, OrgFields
    <2>2. CASE org'[x] = org[x]
      <3>1. org[x].stamp \in 1..now' /\ Len(org[x].edits) \in 0..MaxEdits
        <4>1. PICK a \in Nat, b \in Nat, c \in Nat, l \in Nat, m \in Nat :
                 /\ a = now /\ b = now' /\ c = org[x].stamp /\ l = Len(org[x].edits)
                 /\ m = MaxEdits
          BY <1>2, <2>1, Bounds
        <4>2. c >= 1 /\ c <= a /\ l <= m /\ (b = a \/ b = a + 1)
          BY <1>2, <2>1, <4>1
        <4>3. c \in 1..b /\ l \in 0..m
          BY <4>2
        <4> QED
          BY <4>1, <4>3
      <3> QED
        BY <2>1, <2>2, <3>1 DEF Good
    <2>3. ASSUME CallWrites, org'[x] # org[x]
          PROVE  Good(x)'
      <3>1. /\ x = key.opp \/ x = AccountOf[key.opp]
            /\ pc = IF x = key.opp THEN "opportunity" ELSE "account"
            /\ x \in DOMAIN key.change /\ Edited(x, key.change[x], key)
        BY <2>3 DEF CallWrites, Edited
      <3>2. key.change[x] \in Value(x)
        BY <1>1, <3>1, RecordsOfKey DEF CallType, Keyed
      <3>3. Len(org[x].edits) < MaxEdits
        BY <1>1, <3>1 DEF RoomInv
      <3> QED
        BY <3>1, <3>2, <3>3, EditIsGood
    <2>4. ASSUME OthersEdit, org'[x] # org[x]
          PROVE  Good(x)'
      <3>1. PICK v \in Value(x) \cup {""} : Room(x) /\ Edited(x, v, Nothing)
        BY <2>4 DEF OthersEdit, Edited
      <3>2. Len(org[x].edits) < MaxEdits
        BY <1>1, <3>1, RoomLeft
      <3> QED
        BY <3>1, <3>2, EditIsGood
    <2> QED
      BY <2>2, <2>3, <2>4, OrgMoves
  <1> QED
    BY <1>2, <1>3, OrgMoves DEF OrgType, Good

\* The basis of the next call is what was read.
LEMMA BasisTypeStep ==
    ASSUME TypeInv, [Next]_vars
    PROVE  BasisType'
  <1>1. OrgType /\ BasisType
    BY DEF TypeInv
  <1>2. PICK a \in Nat, b \in Nat : a = now /\ b = now' /\ (b = a \/ b = a + 1)
    BY <1>1, NowStep, NowNat DEF OrgType
  <1>3. 1..now \subseteq 1..now'
    <2>1. 1..a \subseteq 1..b
      BY <1>2
    <2> QED
      BY <1>2, <2>1
  <1>4. ASSUME NEW o \in Opportunity, GetOpportunity(o)
        PROVE  BasisType'
    <2>1. basis' = [opp |-> o, version |-> Version(o), seen |-> EditsOf(o)]
      BY <1>4 DEF GetOpportunity
    <2>2. RecordsOf(o) \subseteq Record
      BY LiveUpdateAssumption DEF RecordsOf, Record
    <2>3. Version(o) \in [RecordsOf(o) -> 1..now']
      BY <1>1, <1>3, <2>2 DEF Version, OrgType
    <2>4. EditsOf(o) \in [RecordsOf(o) -> Nat]
      BY <1>1, <2>2, OrgFields DEF EditsOf
    <2> QED
      BY <2>1, <2>3, <2>4 DEF BasisType
  <1>5. CASE basis' = basis \/ basis' = Nothing
    BY <1>1, <1>3, <1>5 DEF BasisType
  <1> QED
    BY <1>4, <1>5
    DEF Next, Replay, Update, Begin, CheckVersion, VersionConflict, Put, Tick,
        Answer, Crash, OrgCallFails, UpdateOpportunity, UpdateAccount, SomebodyEdits, vars

\* The key of a call is made of what was read last.
LEMMA KeyIsOfBasis ==
    ASSUME TypeInv, basis # Nothing, NEW ch \in Changes(basis.opp)
    PROVE  /\ Keyed(KeyOf(ch)) /\ KeyOf(ch).change = ch
           /\ KeyOf(ch).opp = basis.opp /\ KeyOf(ch).version = basis.version
  <1>1. PICK o \in Opportunity : o = basis.opp
    BY DEF TypeInv, BasisType
  <1>2. PICK v \in [RecordsOf(o) -> 1..now] : v = basis.version
    BY <1>1 DEF TypeInv, BasisType
  <1>3. 1..now \subseteq 1..MaxSeconds /\ 1..now \subseteq Nat
    <2>1. PICK n \in Nat, m \in Nat : n = now /\ m = MaxSeconds /\ n <= m
      BY NowNat, Bounds DEF TypeInv, OrgType
    <2>2. 1..n \subseteq 1..m /\ 1..n \subseteq Nat
      BY <2>1
    <2> QED
      BY <2>1, <2>2
  <1>4. v \in [RecordsOf(o) -> 1..MaxSeconds] /\ v \in [RecordsOf(o) -> Nat]
    BY <1>3
  <1>5. PICK k : k = [opp |-> o, change |-> ch, version |-> v]
    OBVIOUS
  <1>6. k.opp = o /\ k.change = ch /\ k.version = v
    BY <1>5
  <1>7. k \in KeyRecord
    <2>1. ch \in AnyChange /\ v \in AnyVersion
      BY <1>1, <1>4 DEF AnyChange, AnyVersion
    <2> QED
      BY <1>5, <2>1 DEF KeyRecord
  <1>8. IsKey(k)
    BY <1>1, <1>4, <1>6 DEF IsKey
  <1>9. k = KeyOf(ch)
    BY <1>1, <1>2, <1>5 DEF KeyOf
  <1> QED
    BY <1>1, <1>2, <1>6, <1>7, <1>8, <1>9 DEF Keyed

\* The failures stay in their bound.
LEMMA FailuresStep ==
    ASSUME failures \in 0..MaxFailures, [Next]_vars
    PROVE  failures' \in 0..MaxFailures
  <1>1. PICK m \in Nat : m = MaxFailures
    BY Bounds
  <1>2. CASE failures < MaxFailures /\ failures' = failures + 1
    BY <1>1, <1>2
  <1> QED
    BY <1>2
    DEF Next, GetOpportunity, Replay, Update, Begin, CheckVersion, VersionConflict, Put,
        Answer, Crash, OrgCallFails, UpdateOpportunity, UpdateAccount, SomebodyEdits, Tick,
        vars

\* How a call goes on: a call begins with a key of its own, goes on with it,
\* or ends.
CallGoesOn ==
    \/ /\ pc' = pc /\ key' = key
       /\ basis' = basis \/ (pc = "idle" /\ \E o \in Opportunity : GetOpportunity(o))
    \/ /\ pc = "idle" /\ basis # Nothing /\ basis' = basis /\ answer' = Nothing
       /\ org' = org
       /\ \E ch \in Changes(basis.opp) :
             /\ key' = KeyOf(ch)
             /\ \/ pc' = "check" /\ \A x \in DOMAIN ch : Room(x)
                \/ pc' = "answer" /\ key' \in ledger
    \/ /\ key' = key /\ basis' = basis
       /\ \/ CheckVersion \/ UpdateOpportunity \/ UpdateAccount \/ Put
    \/ pc' = "idle" /\ key' = Nothing

\* Every step is one of these for the call.
LEMMA CallMoves ==
    ASSUME [Next]_vars
    PROVE  /\ CallGoesOn
           /\ \/ ledger' = ledger \/ ledger' = {}
              \/ pc = "put" /\ ledger' = ledger \cup {key}
  <1>1. ASSUME basis # Nothing, NEW ch \in Changes(basis.opp), Replay(ch) \/ Update(ch)
        PROVE  CallGoesOn /\ ledger' = ledger
    BY <1>1 DEF Replay, Update, Begin, log, CallGoesOn
  <1>2. CASE OrgCallFails \/ Crash \/ Answer \/ VersionConflict
    BY <1>2 DEF OrgCallFails, Crash, Answer, VersionConflict, Return, log, CallGoesOn
  <1>3. CASE CheckVersion \/ UpdateOpportunity \/ UpdateAccount \/ Put
    BY <1>3 DEF CheckVersion, UpdateOpportunity, UpdateAccount, Put, log, CallGoesOn
  <1>4. ASSUME NEW o \in Opportunity, GetOpportunity(o)
        PROVE  CallGoesOn /\ ledger' = ledger
    BY <1>4 DEF GetOpportunity, call, log, CallGoesOn
  <1>5. CASE Tick \/ UNCHANGED vars \/ \E x \in Record : SomebodyEdits(x)
    BY <1>5 DEF Tick, SomebodyEdits, vars, call, log, CallGoesOn
  <1> QED
    BY <1>1, <1>2, <1>3, <1>4, <1>5 DEF Next

\* What is in the ledger and under way is made of what was read.
LEMMA CallTypeStep ==
    ASSUME TypeInv, [Next]_vars
    PROVE  CallType'
  <1>1. CallType
    BY DEF TypeInv
  <1>2. failures' \in 0..MaxFailures
    BY <1>1, FailuresStep DEF CallType
  <1>3. \A k \in ledger' : Keyed(k)
    BY <1>1, CallMoves DEF CallType
  <1>4. pc' \in {"idle", "check", "opportunity", "account", "put", "answer"}
    BY <1>1, CallMoves
    DEF CallGoesOn, CallType, CheckVersion, UpdateOpportunity, UpdateAccount, Put
  <1>5. IF pc' = "idle" THEN key' = Nothing
        ELSE /\ Keyed(key') /\ basis' # Nothing
             /\ key'.opp = basis'.opp /\ key'.version = basis'.version
    <2>1. CASE pc' = pc /\ key' = key
               /\ (basis' = basis \/ (pc = "idle" /\ \E o \in Opportunity : GetOpportunity(o)))
      BY <1>1, <2>1 DEF CallType
    <2>2. ASSUME pc' # "idle", basis # Nothing, basis' = basis,
                 NEW ch \in Changes(basis.opp), key' = KeyOf(ch)
          PROVE  /\ Keyed(key') /\ basis' # Nothing
                 /\ key'.opp = basis'.opp /\ key'.version = basis'.version
      BY <2>2, KeyIsOfBasis
    <2>3. CASE /\ key' = key /\ basis' = basis
               /\ CheckVersion \/ UpdateOpportunity \/ UpdateAccount \/ Put
      BY <1>1, <2>3 DEF CallType, CheckVersion, UpdateOpportunity, UpdateAccount, Put
    <2> QED
      BY <2>1, <2>2, <2>3, CallMoves DEF CallGoesOn
  <1>6. whole' \in BOOLEAN
    <2>1. whole' = whole \/ whole' = TRUE \/ whole' = FALSE
      BY DEF Next, GetOpportunity, Replay, Update, Begin, CheckVersion, VersionConflict, Put,
          Answer, Crash, OrgCallFails, UpdateOpportunity, UpdateAccount, SomebodyEdits, Tick,
          log, vars
    <2> QED
      BY <1>1, <2>1 DEF CallType
  <1> QED
    BY <1>2, <1>3, <1>4, <1>5, <1>6 DEF CallType, Keyed, IsKey

\* The room for a call's edits is not taken by somebody else's.
LEMMA RoomStep ==
    ASSUME TypeInv, [Next]_vars
    PROVE  RoomInv'
  <1>1. OrgType /\ RoomInv /\ CallType
    BY DEF TypeInv
  <1>2. CASE pc' = "idle"
    BY <1>2 DEF RoomInv
  <1>3. ASSUME basis # Nothing, NEW ch \in Changes(basis.opp), org' = org, key' = KeyOf(ch),
               \/ pc' = "check" /\ \A x \in DOMAIN ch : Room(x)
               \/ pc' = "answer"
        PROVE  RoomInv'
    <2>1. Keyed(key') /\ key'.change = ch
      BY <1>3, KeyIsOfBasis
    <2>2. \A x \in DOMAIN ch : x \in Record
      BY <2>1, RecordsOfKey DEF Keyed
    <2>3. pc' = "check" => \A x \in DOMAIN ch : Len(org[x].edits) < MaxEdits
      BY <1>1, <1>3, <2>2, RoomLeft
    <2> QED
      BY <1>3, <2>1, <2>3 DEF RoomInv
  <1>4. ASSUME org' = org, key' = key,
               pc' = pc \/ CheckVersion \/ UpdateOpportunity \/ UpdateAccount \/ Put
        PROVE  RoomInv'
    BY <1>1, <1>4 DEF RoomInv, CheckVersion, UpdateOpportunity, UpdateAccount, Put
  <1>5. CASE CallWrites /\ pc' # "idle"
    <2>1. PICK y \in Record :
             /\ pc = IF y = key.opp THEN "opportunity" ELSE "account"
             /\ \A z \in Record \ {y} : org'[z] = org[z]
             /\ key' = key /\ pc' = IF y = key.opp THEN "account" ELSE "put"
      BY <1>5 DEF CallWrites, Edited
    <2>2. /\ Keyed(key)
      BY <1>1, <2>1 DEF CallType
    <2>3. AccountOf[key.opp] \in Record /\ AccountOf[key.opp] # key.opp
      BY <2>2, RecordsOfKey DEF Keyed
    <2> QED
      BY <1>1, <2>1, <2>3 DEF RoomInv
  <1>6. CASE OthersEdit
    <2>1. PICK y \in Record :
             /\ Room(y) /\ pc' = pc /\ key' = key
             /\ Len(org'[y].edits) = Len(org[y].edits) + 1
             /\ \A z \in Record \ {y} : org'[z] = org[z]
      BY <1>6 DEF OthersEdit, Edited
    <2>2. pc # "idle" /\ y \in DOMAIN key.change => Len(org'[y].edits) < MaxEdits
      BY <1>1, <2>1, RoomLeft
    <2>3. pc # "idle" => /\ \A x \in DOMAIN key.change : x \in Record
                         /\ AccountOf[key.opp] \in Record
      BY <1>1, RecordsOfKey DEF CallType, Keyed
    <2> QED
      BY <1>1, <2>1, <2>2, <2>3 DEF RoomInv
  <1> QED
    BY <1>2, <1>3, <1>4, <1>5, <1>6, CallMoves, OrgMoves DEF CallGoesOn

\* The types are an inductive invariant.
LEMMA TypeStart ==
    ASSUME Init
    PROVE  TypeInv
  <1>1. PICK n \in Nat, m \in Nat, f \in Nat :
           n = MaxSeconds /\ m = MaxEdits /\ f = MaxFailures /\ n >= 1
    BY Bounds
  <1>2. 1 \in 1..n /\ 0 \in 0..m /\ 0 \in 0..f /\ 1 \in 1..1
    BY <1>1
  <1>3. PICK e \in Seq(EditRecord) : e = <<>> /\ Len(e) = 0
    <2>1. <<>> \in Seq(EditRecord) /\ Len(<<>>) = 0
      OBVIOUS
    <2> QED
      BY <2>1
  <1>4. PICK r \in OrgRecord : /\ r = [value |-> "", stamp |-> 1, edits |-> e]
                               /\ r.value = "" /\ r.stamp = 1 /\ r.edits = e
    <2>1. [value |-> "", stamp |-> 1, edits |-> e] \in OrgRecord
      BY DEF OrgRecord
    <2> QED
      BY <2>1
  <1>5. org = [x \in Record |-> r]
    BY <1>3, <1>4 DEF Init
  <1>6. OrgType
    BY <1>1, <1>2, <1>3, <1>4, <1>5 DEF Init, OrgType
  <1>7. CallType
    BY <1>1, <1>2 DEF Init, CallType
  <1> QED
    BY <1>6, <1>7 DEF Init, TypeInv, BasisType, RoomInv

\* Every step keeps the types.
LEMMA TypeStep ==
    ASSUME TypeInv, [Next]_vars
    PROVE  TypeInv'
  BY OrgTypeStep, BasisTypeStep, CallTypeStep, RoomStep DEF TypeInv

\* The invariant TypeInv holds: what is stored, read and under way has its
\* type, and a call that writes has the room for it.
THEOREM TypeInvariant == Spec => []TypeInv
  <1>1. Init => TypeInv
    BY TypeStart
  <1>2. TypeInv /\ [Next]_vars => TypeInv'
    BY TypeStep
  <1> QED
    BY <1>1, <1>2, PTL DEF Spec

\* Every variable has its type, however users, calls, failures and crashes
\* interleave: a key in the ledger or under way names fields of its
\* opportunity, and no record has more edits than its bound.
THEOREM TypeCorrect == Spec => []TypeOK
  <1>1. TypeInv => TypeOK
    BY DEF TypeInv, OrgType, CallType, TypeOK, Keyed
  <1> QED
    BY <1>1, TypeInvariant, PTL

--------------------------------------------------------------------------------
(* The check of the version. *)

\* An edit of a record has a time.
LEMMA StampNat ==
    ASSUME OrgType, NEW x \in Record, NEW n \in 1..Len(org[x].edits)
    PROVE  org[x].edits[n].stamp \in Nat /\ n \in Nat
  <1>1. PICK s \in Seq(EditRecord) : s = org[x].edits
    BY OrgFields
  <1>2. \A i \in 1..Len(s) : s[i] \in EditRecord /\ i \in Nat
    OBVIOUS
  <1> QED
    BY <1>1, <1>2 DEF EditRecord

\* A step leaves a record as it is, or edits it at a time no earlier than its
\* last edit.
LEMMA LaterEdit ==
    ASSUME TypeInv, [Next]_vars, NEW x \in Record
    PROVE  /\ org[x].stamp \in Nat /\ org'[x].stamp \in Nat
           /\ org[x].stamp <= org'[x].stamp
           /\ \A n \in 1..Len(org'[x].edits) :
                 \/ n \in 1..Len(org[x].edits) /\ org'[x].edits[n] = org[x].edits[n]
                 \/ /\ n = Len(org[x].edits) + 1
                    /\ org'[x].edits[n].stamp = org'[x].stamp
  <1>1. PICK c \in Nat, a \in Nat, l \in Nat :
            c = org[x].stamp /\ a = now /\ l = Len(org[x].edits) /\ c <= a
    BY OrgFields DEF TypeInv
  <1>2. \A n \in 1..l : org'[x].edits[n] = org[x].edits[n]
    BY <1>1, EditsStay
  <1>3. CASE org'[x] = org[x]
    BY <1>1, <1>3
  <1>4. CASE Len(org'[x].edits) = l + 1 /\ org'[x].edits[l + 1].stamp = a /\ org'[x].stamp = a
    <2>1. \A n \in 1..(l + 1) : n \in 1..l \/ n = l + 1
      OBVIOUS
    <2> QED
      BY <1>1, <1>2, <1>4, <2>1
  <1> QED
    BY <1>1, <1>3, <1>4, EditsStay

\* Every step keeps the times in order.
LEMMA StampStep ==
    ASSUME TypeInv, StampInv, [Next]_vars
    PROVE  StampInv'
  <1>1. OrgType /\ OrgType' /\ BasisType
    BY TypeStep DEF TypeInv
  <1>2. ASSUME NEW x \in Record, NEW n \in 1..Len(org'[x].edits)
        PROVE  org'[x].edits[n].stamp <= org'[x].stamp
    <2>1. PICK c \in Nat, d \in Nat : c = org[x].stamp /\ d = org'[x].stamp /\ c <= d
      BY LaterEdit
    <2>2. CASE n \in 1..Len(org[x].edits) /\ org'[x].edits[n] = org[x].edits[n]
      <3>1. PICK e \in Nat : e = org[x].edits[n].stamp
        BY <1>1, <2>2, StampNat
      <3>2. e <= c
        BY <2>1, <2>2, <3>1 DEF StampInv
      <3> QED
        BY <2>1, <2>2, <3>1, <3>2
    <2>3. CASE org'[x].edits[n].stamp = d
      BY <2>1, <2>3
    <2> QED
      BY <2>1, <2>2, <2>3, LaterEdit
  <1>3. ASSUME basis' = basis, basis # Nothing, NEW x \in RecordsOf(basis.opp)
        PROVE  /\ basis.version[x] <= org'[x].stamp
               /\ \A n \in (basis.seen[x] + 1)..Len(org'[x].edits) :
                     basis.version[x] <= org'[x].edits[n].stamp
    <2>1. x \in Record
      BY <1>1, <1>3, LiveUpdateAssumption DEF BasisType, RecordsOf, Record
    <2>2. PICK c \in Nat, d \in Nat, l \in Nat, h \in Nat :
             /\ c = org[x].stamp /\ d = org'[x].stamp /\ c <= d
             /\ l = Len(org[x].edits) /\ h = Len(org'[x].edits)
      BY <2>1, LaterEdit, EditsStay
    <2>3. PICK b \in Nat : b = basis.seen[x]
      BY <1>1, <1>3 DEF BasisType
    <2>4. PICK v \in Nat : v = basis.version[x]
      <3>1. PICK a \in Nat : a = now
        BY <1>1, NowNat DEF OrgType
      <3>2. basis.version[x] \in 1..a
        BY <1>1, <1>3, <3>1 DEF BasisType
      <3> QED
        BY <3>2
    <2>5. v <= c
      BY <1>3, <2>2, <2>4 DEF StampInv
    <2>6. v <= d
      BY <2>2, <2>5
    <2>7. ASSUME NEW n \in (b + 1)..h
          PROVE  v <= org'[x].edits[n].stamp
      <3>1. n \in 1..h /\ n \in Nat
        OBVIOUS
      <3>2. CASE n \in 1..l /\ org'[x].edits[n] = org[x].edits[n]
        <4>1. n \in (b + 1)..l
          BY <3>2
        <4> QED
          BY <1>3, <2>2, <2>3, <2>4, <3>2, <4>1 DEF StampInv
      <3>3. CASE org'[x].edits[n].stamp = d
        BY <2>6, <3>3
      <3> QED
        BY <2>1, <2>2, <3>1, <3>2, <3>3, LaterEdit
    <2> QED
      BY <2>2, <2>3, <2>4, <2>6, <2>7
  <1>4. ASSUME NEW o \in Opportunity, GetOpportunity(o), NEW x \in RecordsOf(o)
        PROVE  /\ basis'.version[x] <= org'[x].stamp
               /\ \A n \in (basis'.seen[x] + 1)..Len(org'[x].edits) :
                     basis'.version[x] <= org'[x].edits[n].stamp
    <2>1. x \in Record
      BY LiveUpdateAssumption DEF RecordsOf, Record
    <2>2. /\ org' = org
          /\ basis'.version[x] = org[x].stamp /\ basis'.seen[x] = Len(org[x].edits)
      BY <1>4 DEF GetOpportunity, Version, EditsOf
    <2>3. PICK c \in Nat, l \in Nat : c = org[x].stamp /\ l = Len(org[x].edits)
      BY <1>1, <2>1, OrgFields
    <2>4. (l + 1)..l = {} /\ c <= c
      OBVIOUS
    <2> QED
      BY <2>2, <2>3, <2>4
  <1>5. \/ basis' = basis \/ basis' = Nothing
        \/ \E o \in Opportunity : GetOpportunity(o)
    BY DEF Next, Replay, Update, Begin, CheckVersion, VersionConflict, Put,
        Tick, Answer, Crash, OrgCallFails, UpdateOpportunity, UpdateAccount, SomebodyEdits,
        vars
  <1>6. ASSUME NEW o \in Opportunity, GetOpportunity(o)
        PROVE  basis'.opp = o
    BY <1>6 DEF GetOpportunity
  <1>7. basis' # Nothing => \A x \in RecordsOf(basis'.opp) :
          /\ basis'.version[x] <= org'[x].stamp
          /\ \A n \in (basis'.seen[x] + 1)..Len(org'[x].edits) :
                basis'.version[x] <= org'[x].edits[n].stamp
    <2>1. CASE basis' = basis
      BY <1>3, <2>1
    <2>2. CASE \E o \in Opportunity : GetOpportunity(o)
      BY <1>4, <1>6, <2>2
    <2> QED
      BY <1>5, <2>1, <2>2
  <1> QED
    BY <1>2, <1>7 DEF StampInv, RecordsOf

\* A step past the check was taken with the records as they were read.
LEMMA CheckPassed ==
    ASSUME TypeInv, StampInv, [Next]_vars, pc = "check", pc' = "opportunity"
    PROVE  \A x \in RecordsOf(basis.opp) :
              \A n \in (basis.seen[x] + 1)..Len(org[x].edits) :
                  org[x].edits[n].stamp = basis.version[x]
  <1>1. OrgType /\ BasisType /\ CallType
    BY DEF TypeInv
  <1>2. CheckVersion
    BY CallMoves DEF CallGoesOn, UpdateOpportunity, UpdateAccount, Put
  <1>3. /\ basis # Nothing /\ key.opp = basis.opp /\ key.version = basis.version
        /\ basis.opp \in Opportunity
    BY <1>1 DEF CallType, BasisType
  <1>4. Version(basis.opp) = basis.version
    BY <1>2, <1>3 DEF CheckVersion
  <1>5. SUFFICES ASSUME NEW x \in RecordsOf(basis.opp),
                        NEW n \in (basis.seen[x] + 1)..Len(org[x].edits)
                 PROVE  org[x].edits[n].stamp = basis.version[x]
    OBVIOUS
  <1>6. x \in Record
    BY <1>3, LiveUpdateAssumption DEF RecordsOf, Record
  <1>7. org[x].stamp = basis.version[x]
    BY <1>4 DEF Version
  <1>8. PICK l \in Nat, b \in Nat, c \in Nat :
            l = Len(org[x].edits) /\ b = basis.seen[x] /\ c = org[x].stamp
    BY <1>1, <1>3, <1>6, OrgFields DEF BasisType
  <1>9. n \in 1..l
    BY <1>8
  <1>10. PICK e \in Nat : e = org[x].edits[n].stamp
    BY <1>1, <1>6, <1>8, <1>9, StampNat
  <1>11. c <= e /\ e <= c
    BY <1>3, <1>6, <1>7, <1>8, <1>9, <1>10 DEF StampInv
  <1> QED
    BY <1>7, <1>8, <1>10, <1>11

\* At first there are no edits.
LEMMA StampStart ==
    ASSUME Init
    PROVE  StampInv
  <1>1. \A x \in Record : Len(org[x].edits) = 0
    BY DEF Init
  <1>2. 1..0 = {}
    OBVIOUS
  <1> QED
    BY <1>1, <1>2 DEF Init, StampInv

\* A call passes the check of its version only when every edit it has not
\* read, on the opportunity or its account, is of the second of the last edit
\* it has read: update_opportunity refuses a stale version of either record.
THEOREM StaleReadRefusedTheorem == Spec => StaleReadRefused
  <1>1. Init => StampInv
    BY StampStart
  <1>2. TypeInv /\ StampInv /\ [Next]_vars => StampInv'
    BY StampStep
  <1>3. TypeInv /\ StampInv /\ [Next]_vars =>
           [pc = "check" /\ pc' = "opportunity" =>
              \A x \in RecordsOf(basis.opp) :
                  \A n \in (basis.seen[x] + 1)..Len(org[x].edits) :
                      org[x].edits[n].stamp = basis.version[x]]_vars
    BY CheckPassed
  <1> QED
    BY <1>1, <1>2, <1>3, TypeInvariant, PTL DEF Spec, StaleReadRefused

--------------------------------------------------------------------------------
(* What an answer says was written. *)

\* What is written stays written.
LEMMA WrittenStays ==
    ASSUME TypeInv, [Next]_vars, NEW k, NEW x \in Record, WrittenBy(k, x)
    PROVE  WrittenBy(k, x)'
  <1>1. PICK l \in Nat, h \in Nat :
            l = Len(org[x].edits) /\ h = Len(org'[x].edits) /\ l <= h
    <2>1. PICK l \in Nat, h \in Nat : l = Len(org[x].edits) /\ h = Len(org'[x].edits)
      BY EditsStay
    <2>2. h = l \/ h = l + 1
      BY <2>1, EditsStay
    <2> QED
      BY <2>1, <2>2
  <1>2. PICK n \in 1..l : org[x].edits[n].key = k
    BY <1>1 DEF WrittenBy
  <1>3. n \in 1..h /\ org'[x].edits[n] = org[x].edits[n]
    BY <1>1, EditsStay
  <1> QED
    BY <1>1, <1>2, <1>3 DEF WrittenBy

\* So does what is written for a whole key.
LEMMA AllWrittenStays ==
    ASSUME TypeInv, [Next]_vars, NEW k, IsKey(k), AllWritten(k)
    PROVE  AllWritten(k)'
  BY RecordsOfKey, WrittenStays DEF AllWritten

\* An edit made is written.
LEMMA EditedIsWritten ==
    ASSUME OrgType, NEW x \in Record, NEW v, NEW k, Edited(x, v, k)
    PROVE  WrittenBy(k, x)'
  <1>1. PICK l \in Nat : l = Len(org[x].edits)
    BY OrgFields
  <1>2. l + 1 \in 1..(l + 1)
    OBVIOUS
  <1> QED
    BY <1>1, <1>2 DEF Edited, WrittenBy

\* A call that writes a record has written it.
LEMMA WriteIsWritten ==
    ASSUME TypeInv, pc # "idle", NEW x \in RecordsOf(key.opp), Write(x),
           x \in DOMAIN key.change, NEW k, k = key
    PROVE  WrittenBy(k, x)'
  <1>1. OrgType /\ x \in Record
    BY RecordsOfKey DEF TypeInv, CallType, Keyed
  <1>2. PICK v : v = key.change[x]
    OBVIOUS
  <1>3. Edited(x, v, k)
    BY <1>2, WriteEdits
  <1> QED
    BY <1>1, <1>3, EditedIsWritten

\* How far the call with key k has written.
Done(k) ==
    /\ pc = "account" /\ k.opp \in DOMAIN k.change => WrittenBy(k, k.opp)
    /\ pc \in {"put", "answer"} => AllWritten(k)

\* Every step keeps the account of what is written.
LEMMA DoneStep ==
    ASSUME TypeInv, DoneInv, [Next]_vars
    PROVE  DoneInv'
  <1>1. OrgType /\ CallType
    BY DEF TypeInv
  <1>2. PICK q : q = key'
    OBVIOUS
  <1>3. ASSUME NEW k \in ledger'
        PROVE  AllWritten(k)'
    <2>1. k \in ledger \/ (k = key /\ pc = "put")
      BY <1>3, CallMoves
    <2>2. Keyed(k) /\ AllWritten(k)
      BY <1>1, <2>1 DEF CallType, DoneInv
    <2> QED
      BY <2>2, AllWrittenStays DEF Keyed
  <1>4. Done(q)'
    <2>1. CASE pc' = "idle"
      BY <2>1 DEF Done
    <2>2. CASE pc' = pc /\ key' = key /\ pc # "idle"
      <3>1. Keyed(q) /\ q.opp \in Record /\ Done(q)
        BY <1>1, <1>2, <2>2, RecordsOfKey DEF CallType, Keyed, DoneInv, Done
      <3> QED
        BY <2>2, <3>1, WrittenStays, AllWrittenStays DEF Done, Keyed
    <2>3. CASE pc' = "check" \/ pc' = "opportunity"
      BY <2>3 DEF Done
    <2>4. CASE pc' = "answer" /\ key' \in ledger
      <3>1. Keyed(q) /\ AllWritten(q)
        BY <1>1, <1>2, <2>4 DEF CallType, DoneInv
      <3> QED
        BY <2>4, <3>1, AllWrittenStays DEF Done, Keyed
    <2>5. CASE UpdateOpportunity
      <3>1. /\ pc = "opportunity" /\ pc' = "account" /\ Write(key.opp) /\ q = key
        BY <1>2, <2>5 DEF UpdateOpportunity
      <3>2. key.opp \in RecordsOf(key.opp)
        BY DEF RecordsOf
      <3>3. PICK x \in RecordsOf(key.opp) : x = key.opp
        BY <3>2
      <3>4. x \in DOMAIN key.change => WrittenBy(q, x)'
        BY <3>1, <3>3, WriteIsWritten
      <3> QED
        BY <3>1, <3>3, <3>4 DEF Done
    <2>6. CASE UpdateAccount
      <3>1. /\ pc = "account" /\ pc' = "put" /\ Write(AccountOf[key.opp]) /\ q = key
        BY <1>2, <2>6 DEF UpdateAccount
      <3>2. Keyed(q)
        BY <1>1, <3>1 DEF CallType
      <3>3. PICK x \in RecordsOf(key.opp) : x = AccountOf[key.opp]
        BY DEF RecordsOf
      <3>4. x \in DOMAIN q.change => WrittenBy(q, x)'
        BY <3>1, <3>3, WriteIsWritten
      <3>5. PICK y \in Record : y = q.opp
        BY <3>2, RecordsOfKey DEF Keyed
      <3>6. y \in DOMAIN q.change => WrittenBy(q, y)'
        BY <3>1, <3>5, WrittenStays DEF DoneInv
      <3>7. DOMAIN q.change \subseteq {x, y}
        BY <3>1, <3>2, <3>3, <3>5, RecordsOfKey DEF Keyed
      <3> QED
        BY <3>1, <3>4, <3>6, <3>7 DEF Done, AllWritten
    <2>7. CASE Put
      <3>1. pc = "put" /\ pc' = "answer" /\ q = key
        BY <1>2, <2>7 DEF Put
      <3>2. Keyed(q) /\ AllWritten(q)
        BY <1>1, <3>1 DEF CallType, DoneInv
      <3> QED
        BY <3>1, <3>2, AllWrittenStays DEF Done, Keyed
    <2>8. CASE CheckVersion
      BY <2>8 DEF CheckVersion, Done
    <2> QED
      BY <2>1, <2>2, <2>3, <2>4, <2>5, <2>6, <2>7, <2>8, CallMoves DEF CallGoesOn
  <1> QED
    BY <1>2, <1>3, <1>4 DEF Done, DoneInv, AllWritten, WrittenBy

\* How an answer comes about: it is kept, forgotten, or made of the key.
LEMMA AnswerMoves ==
    ASSUME [Next]_vars
    PROVE  answer' = answer \/ answer' = Nothing \/ Answer
  BY DEF Next, GetOpportunity, Replay, Update, Begin, CheckVersion, VersionConflict, Put,
      Tick, Crash, OrgCallFails, UpdateOpportunity, UpdateAccount, SomebodyEdits, vars

\* Every step keeps what was answered true.
LEMMA AnswerStep ==
    ASSUME TypeInv, DoneInv, AnswerInv, [Next]_vars
    PROVE  AnswerInv'
  <1>1. OrgType /\ CallType
    BY DEF TypeInv
  <1>2. CASE answer' = answer /\ answer # Nothing
    <2>1. PICK k \in KeyRecord : k = answer.key /\ IsKey(k)
      BY <1>2 DEF AnswerInv, Keyed
    <2>2. ASSUME NEW x \in DOMAIN k.change
          PROVE  /\ answer.upto[x] \in 1..Len(org'[x].edits)
                 /\ \E n \in 1..answer.upto[x] : org'[x].edits[n].key = k
      <3>1. x \in Record
        BY <2>1, RecordsOfKey
      <3>2. PICK l \in Nat, h \in Nat :
               l = Len(org[x].edits) /\ h = Len(org'[x].edits) /\ (h = l \/ h = l + 1)
        BY <3>1, EditsStay
      <3>3. PICK u \in 1..l : u = answer.upto[x]
        BY <1>2, <2>1, <3>2 DEF AnswerInv
      <3>4. PICK n \in 1..u : org[x].edits[n].key = k
        BY <1>2, <2>1, <3>3 DEF AnswerInv
      <3>5. u \in 1..h /\ n \in 1..l
        BY <3>2
      <3>6. org'[x].edits[n] = org[x].edits[n]
        BY <3>1, <3>2, <3>5, EditsStay
      <3> QED
        BY <3>2, <3>3, <3>4, <3>5, <3>6
    <2> QED
      BY <1>2, <2>1, <2>2 DEF AnswerInv, Keyed, IsKey
  <1>3. CASE Answer
    <2>1. PICK k \in KeyRecord : k = key /\ IsKey(k) /\ AllWritten(k)
      BY <1>1, <1>3 DEF Answer, CallType, Keyed, DoneInv
    <2>2. answer'.key = k /\ answer'.upto = EditsOf(k.opp) /\ org' = org
      BY <1>3, <2>1 DEF Answer
    <2>3. ASSUME NEW x \in DOMAIN k.change
          PROVE  /\ answer'.upto[x] \in 1..Len(org[x].edits)
                 /\ \E n \in 1..answer'.upto[x] : org[x].edits[n].key = k
      <3>1. x \in Record /\ x \in RecordsOf(k.opp)
        BY <2>1, RecordsOfKey
      <3>2. PICK l \in Nat : l = Len(org[x].edits)
        BY <1>1, <3>1, OrgFields
      <3>3. PICK n \in 1..l : org[x].edits[n].key = k
        BY <2>1, <3>2 DEF AllWritten, WrittenBy
      <3>4. answer'.upto[x] = l
        BY <2>2, <3>1, <3>2 DEF EditsOf
      <3>5. l \in 1..l
        BY <3>3
      <3> QED
        BY <3>2, <3>3, <3>4, <3>5
    <2> QED
      BY <2>1, <2>2, <2>3 DEF AnswerInv, Keyed, IsKey
  <1>4. CASE answer' = Nothing
    BY <1>4 DEF AnswerInv
  <1> QED
    BY <1>2, <1>3, <1>4, AnswerMoves

\* What is written, under way and answered agree, in every state.
LEMMA WritingInvariant == Spec => [](TypeInv /\ DoneInv /\ AnswerInv)
  <1>1. Init => DoneInv /\ AnswerInv
    BY DEF Init, DoneInv, AnswerInv
  <1>2. TypeInv /\ DoneInv /\ AnswerInv /\ [Next]_vars => DoneInv' /\ AnswerInv'
    BY DoneStep, AnswerStep
  <1> QED
    BY <1>1, <1>2, TypeInvariant, PTL DEF Spec

\* Every answer is earned: a call of update_opportunity that was answered,
\* the first time or from the ledger, has written all its fields, on both
\* records, under its key, whatever failed or crashed in between.
THEOREM AnsweredIsWrittenTheorem == Spec => []AnsweredIsWritten
  <1>1. AnswerInv => AnsweredIsWritten
    BY DEF AnswerInv, AnsweredIsWritten
  <1> QED
    BY <1>1, WritingInvariant, PTL

--------------------------------------------------------------------------------
(* What an answer lists as missing. *)

\* At first there is no last edit.
LEMMA LastStart ==
    ASSUME Init
    PROVE  LastInv
  <1>1. \A x \in Record : Len(org[x].edits) = 0
    BY DEF Init
  <1>2. 1..0 = {}
    OBVIOUS
  <1> QED
    BY <1>1, <1>2 DEF LastInv

\* Every step keeps a record's value that of its last edit.
LEMMA LastStep ==
    ASSUME TypeInv, LastInv, [Next]_vars
    PROVE  LastInv'
  <1>1. OrgType /\ CallType
    BY DEF TypeInv
  <1>2. SUFFICES ASSUME NEW x \in Record, NEW n \in 1..Len(org'[x].edits),
                        n = Len(org'[x].edits), org'[x].edits[n].key # Nothing
                 PROVE  LET k == org'[x].edits[n].key IN
                        /\ x \in DOMAIN k.change /\ x \in RecordsOf(k.opp)
                        /\ org'[x].value = k.change[x] /\ k.change[x] \in Value(x)
    BY DEF LastInv, RecordsOf, Value
  <1>3. CASE org'[x] = org[x]
    BY <1>2, <1>3 DEF LastInv
  <1>4. ASSUME CallWrites, org'[x] # org[x]
        PROVE  LET k == org'[x].edits[n].key IN
               /\ x \in DOMAIN k.change /\ x \in RecordsOf(k.opp)
               /\ org'[x].value = k.change[x] /\ k.change[x] \in Value(x)
    <2>1. /\ pc # "idle" /\ x \in DOMAIN key.change /\ Edited(x, key.change[x], key)
      BY <1>4 DEF CallWrites, Edited
    <2>2. x \in RecordsOf(key.opp) /\ key.change[x] \in Value(x)
      BY <1>1, <2>1, RecordsOfKey DEF CallType, Keyed
    <2>3. org'[x].edits[n].key = key /\ org'[x].value = key.change[x]
      BY <1>2, <2>1 DEF Edited
    <2> QED
      BY <2>1, <2>2, <2>3
  <1>5. ASSUME OthersEdit, org'[x] # org[x]
        PROVE  org'[x].edits[n].key = Nothing
    BY <1>2, <1>5 DEF OthersEdit, Edited
  <1> QED
    BY <1>2, <1>3, <1>4, <1>5, OrgMoves

\* What the answer is told of a record the call wrote last.
LEMMA WrittenLastIsThere ==
    ASSUME "" \notin Region, OrgType, LastInv, NEW k, IsKey(k), k # Nothing,
           NEW x \in DOMAIN k.change, Len(org[x].edits) \in 1..Len(org[x].edits),
           org[x].edits[Len(org[x].edits)].key = k
    PROVE  x \notin Missing(k.opp)
  <1>1. /\ x \in Record /\ k.opp \in Opportunity
        /\ x = k.opp \/ (x = AccountOf[k.opp] /\ x \notin Opportunity /\ x # k.opp)
    <2>1. /\ k.opp \in Opportunity /\ x \in Record /\ AccountOf[k.opp] # k.opp
          /\ x \in {k.opp, AccountOf[k.opp]}
      BY RecordsOfKey DEF IsKey
    <2>2. AccountOf[k.opp] \notin Opportunity
      BY <2>1, LiveUpdateAssumption
    <2> QED
      BY <2>1, <2>2
  <1>2. org[x].value = k.change[x] /\ k.change[x] \in Value(x)
    BY <1>1 DEF LastInv
  <1>3. CASE x = k.opp
    <2>1. org[x].value = "Yes" \/ org[x].value = "No"
      BY <1>1, <1>2, <1>3 DEF Value
    <2>2. Coerce(org[x].value) # ""
      BY <2>1 DEF Coerce
    <2> QED
      BY <1>3, <2>2 DEF Missing
  <1>4. CASE x # k.opp
    BY <1>1, <1>2, <1>4 DEF Value, Missing
  <1> QED
    BY <1>3, <1>4

\* An answer lists no record as missing that its call wrote last.
LEMMA NotMissingStep ==
    ASSUME "" \notin Region, TypeInv, DoneInv, AnswerInv, LastInv, ConfirmedNotMissing,
           [Next]_vars
    PROVE  ConfirmedNotMissing'
  <1>1. OrgType /\ CallType
    BY DEF TypeInv
  <1>2. CASE answer' = answer /\ answer # Nothing
    <2>1. PICK k \in KeyRecord : k = answer.key /\ IsKey(k)
      BY <1>2 DEF AnswerInv, Keyed
    <2>2. ASSUME NEW x \in DOMAIN k.change \cap answer.missing
          PROVE  org'[x].edits[answer.upto[x]].key # k
      <3>1. x \in Record
        BY <2>1, RecordsOfKey
      <3>2. answer.upto[x] \in 1..Len(org[x].edits)
        BY <1>2, <2>1 DEF AnswerInv
      <3>3. org'[x].edits[answer.upto[x]] = org[x].edits[answer.upto[x]]
        BY <3>1, <3>2, EditsStay
      <3> QED
        BY <1>2, <2>1, <3>3 DEF ConfirmedNotMissing
    <2> QED
      BY <1>2, <2>1, <2>2 DEF ConfirmedNotMissing
  <1>3. CASE Answer
    <2>1. PICK k \in KeyRecord : k = key /\ IsKey(k) /\ k # Nothing
      BY <1>1, <1>3, KeysAreSomething DEF Answer, CallType, Keyed
    <2>2. /\ answer'.key = k /\ answer'.upto = EditsOf(k.opp) /\ org' = org
          /\ answer'.missing = Missing(k.opp)
      BY <1>3, <2>1 DEF Answer
    <2>3. AnswerInv' /\ answer' # Nothing
      BY <1>3, AnswerStep DEF Answer, Nothing
    <2>4. ASSUME NEW x \in DOMAIN k.change \cap Missing(k.opp)
          PROVE  org[x].edits[answer'.upto[x]].key # k
      <3>1. x \in Record /\ x \in RecordsOf(k.opp)
        BY <2>1, RecordsOfKey
      <3>2. answer'.upto[x] = Len(org[x].edits)
        BY <2>2, <3>1 DEF EditsOf
      <3>3. Len(org[x].edits) \in 1..Len(org[x].edits)
        BY <2>2, <2>3, <3>2 DEF AnswerInv
      <3> QED
        BY <1>1, <2>1, <3>2, <3>3, WrittenLastIsThere
    <2> QED
      BY <2>2, <2>4 DEF ConfirmedNotMissing
  <1>4. CASE answer' = Nothing
    BY <1>4 DEF ConfirmedNotMissing
  <1> QED
    BY <1>2, <1>3, <1>4, AnswerMoves

\* A field that was confirmed is not asked for again, a "no" no more than a
\* "yes", on either record: where the answer still lists it as missing, an
\* edit of somebody else came after the call's.  A region is not the blank.
THEOREM ConfirmedNotMissingTheorem ==
    ASSUME "" \notin Region
    PROVE  Spec => []ConfirmedNotMissing
  <1>1. Init => LastInv /\ ConfirmedNotMissing
    BY LastStart DEF Init, ConfirmedNotMissing
  <1>2. TypeInv /\ DoneInv /\ AnswerInv /\ LastInv /\ ConfirmedNotMissing /\ [Next]_vars
           => LastInv' /\ ConfirmedNotMissing'
    BY LastStep, NotMissingStep
  <1> QED
    BY <1>1, <1>2, WritingInvariant, PTL DEF Spec

================================================================================
