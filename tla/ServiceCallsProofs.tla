--------------------------- MODULE ServiceCallsProofs ---------------------------
(***************************************************************************)
(* Proofs about ServiceCalls, for any number of operator calls, lost       *)
(* answers, refused tokens, failures and crashes.                          *)
(***************************************************************************)
EXTENDS ServiceCalls, FiniteSetTheorems, TLAPS

--------------------------------------------------------------------------------
(* The tools. *)

\* The tools that ask, and what they ask for: a tool that asks nobody.
LEMMA AskingTools ==
    /\ DOMAIN Asks = {"create_quote", "create_proposal_draft",
                      "attach_proposal_to_opportunity"}
    /\ Asks["create_quote"] = "verify_quote_signature"
    /\ Asks["create_proposal_draft"] = "get_quote_by_id"
    /\ Asks["attach_proposal_to_opportunity"] = "attach_content_version"
  BY DEF Asks

\* All the tools there are.
LEMMA AllTools ==
    Tool = {"create_quote", "get_quote_by_id", "attach_content_version",
            "create_proposal_draft", "attach_proposal_to_opportunity",
            "verify_quote_signature"}
  BY DEF Tool, ServiceOf

\* What is asked for is a tool that asks nobody.
LEMMA AskedTools ==
    ASSUME NEW t \in DOMAIN Asks
    PROVE  t \in Tool /\ Asks[t] \in Tool /\ Asks[t] \notin DOMAIN Asks
  BY AskingTools, AllTools

--------------------------------------------------------------------------------
(* What a step does to the calls there are: nothing but their state and    *)
(* their id, and those only forward.                                       *)

Kept(i) ==
    /\ calls'[i].tool = calls[i].tool /\ calls'[i].good = calls[i].good
    /\ calls'[i].header = calls[i].header /\ calls'[i].parent = calls[i].parent

Moves(i) ==
    \/ calls'[i].state = calls[i].state /\ calls'[i].id = calls[i].id
    \/ /\ calls[i].state = "sent" /\ calls'[i].state = "running"
       /\ calls'[i].id = CorrelationId(i)
    \/ /\ ~Ended(i) /\ calls'[i].state = "failed" /\ calls'[i].id = calls[i].id
    \/ /\ calls[i].state \in {"running", "waiting"} /\ calls'[i].state = "ok"
       /\ calls'[i].id = calls[i].id
    \/ /\ calls[i].state = "running" /\ calls'[i].state = "waiting"
       /\ calls'[i].id = calls[i].id

Forward == \A i \in Sent : i \in Sent' /\ Kept(i) /\ Moves(i)

\* The indices of a log of calls, and what they index.
LEMMA Indices ==
    ASSUME NEW s \in Seq(Call)
    PROVE  /\ Len(s) \in Nat /\ DOMAIN s = 1..Len(s)
           /\ \A i \in DOMAIN s : i \in Nat /\ i >= 1 /\ s[i] \in Call
  OBVIOUS

\* A call has its fields.
LEMMA CallFields ==
    ASSUME NEW c \in Call
    PROVE  /\ c.tool \in Tool /\ c.good \in BOOLEAN /\ c.header \in Nat
           /\ c.id \in Nat /\ c.parent \in Nat /\ c.state \in State
  BY DEF Call

\* Appending a call keeps the ones before it.
LEMMA AppendCall ==
    ASSUME NEW s \in Seq(Call), NEW c \in Call
    PROVE  /\ Append(s, c) \in Seq(Call)
           /\ Len(Append(s, c)) = Len(s) + 1 /\ Len(s) \in Nat
           /\ Append(s, c)[Len(s) + 1] = c
           /\ \A i \in 1..Len(s) : Append(s, c)[i] = s[i]
  OBVIOUS

\* A function on the indices of a log whose values are calls is such a log.
LEMMA SameLength ==
    ASSUME NEW s \in Seq(Call), NEW r \in [DOMAIN s -> Call]
    PROVE  r \in Seq(Call) /\ Len(r) = Len(s) /\ DOMAIN r = DOMAIN s
  <1>1. PICK n \in Nat : n = Len(s) /\ DOMAIN s = 1..n
    BY Indices
  <1>2. r \in [1..n -> Call]
    BY <1>1
  <1>3. r \in Seq(Call) /\ Len(r) = n
    BY <1>2
  <1> QED
    BY <1>1, <1>2, <1>3

\* The log r is the log s with another state and id of call i.
Updated(r, s, i, state, id) ==
    /\ r = [j \in DOMAIN s |-> r[j]]
    /\ \A j \in DOMAIN s \ {i} : r[j] = s[j]
    /\ r[i] = [s[i] EXCEPT !.state = state, !.id = id]

\* Setting the state and the id of one call leaves the rest of it, and the
\* other calls.
LEMMA UpdateCall ==
    ASSUME NEW s \in Seq(Call), NEW i \in DOMAIN s, NEW state \in State, NEW id \in Nat,
           NEW r, Updated(r, s, i, state, id)
    PROVE  /\ r \in Seq(Call) /\ DOMAIN r = DOMAIN s /\ Len(r) = Len(s)
           /\ \A j \in DOMAIN s \ {i} : r[j] = s[j]
           /\ r[i].tool = s[i].tool /\ r[i].good = s[i].good
           /\ r[i].header = s[i].header /\ r[i].parent = s[i].parent
           /\ r[i].state = state /\ r[i].id = id
  <1>1. \A j \in DOMAIN s : s[j] \in Call
    BY Indices
  <1>2. DOMAIN r = DOMAIN s /\ \A j \in DOMAIN s \ {i} : r[j] = s[j]
    BY DEF Updated
  <1>3. /\ r[i] \in Call
        /\ r[i].tool = s[i].tool /\ r[i].good = s[i].good
        /\ r[i].header = s[i].header /\ r[i].parent = s[i].parent
        /\ r[i].state = state /\ r[i].id = id
    BY <1>1 DEF Updated, Call
  <1>4. r \in [DOMAIN s -> Call]
    <2>1. r = [j \in DOMAIN s |-> r[j]]
      BY DEF Updated
    <2>2. \A j \in DOMAIN s : r[j] \in Call
      BY <1>1, <1>2, <1>3
    <2> QED
      BY <2>1, <2>2
  <1>5. r \in Seq(Call) /\ Len(r) = Len(s)
    BY <1>4, SameLength
  <1> QED
    BY <1>2, <1>3, <1>5

\* Setting the state of a call alone keeps its id.
LEMMA UpdateState ==
    ASSUME NEW s \in Seq(Call), NEW i \in DOMAIN s, NEW state,
           NEW r, r = [s EXCEPT ![i].state = state]
    PROVE  s[i].id \in Nat /\ Updated(r, s, i, state, s[i].id)
  <1>1. s[i] \in Call
    BY Indices
  <1> QED
    BY <1>1 DEF Updated, Call

\* Setting both.
LEMMA UpdateBoth ==
    ASSUME NEW s \in Seq(Call), NEW i \in DOMAIN s, NEW state, NEW id,
           NEW r, r = [s EXCEPT ![i].state = state, ![i].id = id]
    PROVE  Updated(r, s, i, state, id)
  <1>1. s[i] \in Call
    BY Indices
  <1>2. PICK q : q = [s EXCEPT ![i].state = state] /\ r = [q EXCEPT ![i].id = id]
    OBVIOUS
  <1>3. DOMAIN q = DOMAIN s /\ (\A j \in DOMAIN s \ {i} : q[j] = s[j])
        /\ q[i] = [s[i] EXCEPT !.state = state]
    BY <1>2
  <1>4. DOMAIN r = DOMAIN s /\ (\A j \in DOMAIN s \ {i} : r[j] = s[j])
        /\ r[i] = [q[i] EXCEPT !.id = id]
    BY <1>2, <1>3
  <1>5. r = [j \in DOMAIN s |-> r[j]]
    BY <1>2, <1>4
  <1>6. r[i] = [s[i] EXCEPT !.state = state, !.id = id]
    BY <1>1, <1>3, <1>4 DEF Call
  <1> QED
    BY <1>4, <1>5, <1>6 DEF Updated

\* Starting the handler moves its call forward.
LEMMA HandleForward ==
    ASSUME calls \in Seq(Call), NEW i \in Sent, Handle(i)
    PROVE  /\ calls' \in Seq(Call) /\ Sent' = Sent /\ Len(calls') = Len(calls) /\ Forward
           /\ \A j \in Sent \ {i} : calls'[j] = calls[j]
           /\ calls'[i].state = "running" /\ calls'[i].id = CorrelationId(i)
  <1>1. CorrelationId(i) \in Nat /\ "running" \in State
    BY Indices, CallFields DEF CorrelationId, Sent, State
  <1>2. PICK id \in Nat : id = CorrelationId(i)
    BY <1>1
  <1>3. calls' = [calls EXCEPT ![i].state = "running", ![i].id = id]
    BY <1>2 DEF Handle
  <1>4. /\ calls' \in Seq(Call) /\ DOMAIN calls' = DOMAIN calls /\ Len(calls') = Len(calls)
        /\ \A j \in DOMAIN calls \ {i} : calls'[j] = calls[j]
        /\ Kept(i) /\ calls'[i].state = "running" /\ calls'[i].id = id
    <2>1. PICK state \in State : state = "running"
      BY <1>1
    <2>2. i \in DOMAIN calls
      BY DEF Sent
    <2> DEFINE r == calls'
    <2>0. r = [calls EXCEPT ![i].state = state, ![i].id = id]
      BY <1>3, <2>1
    <2> HIDE DEF r
    <2>4. Updated(r, calls, i, state, id)
      BY <2>0, <2>2, UpdateBoth
    <2>3. /\ r \in Seq(Call) /\ DOMAIN r = DOMAIN calls /\ Len(r) = Len(calls)
          /\ \A j \in DOMAIN calls \ {i} : r[j] = calls[j]
          /\ r[i].tool = calls[i].tool /\ r[i].good = calls[i].good
          /\ r[i].header = calls[i].header /\ r[i].parent = calls[i].parent
          /\ r[i].state = state /\ r[i].id = id
      BY <2>2, <2>4, UpdateCall
    <2> QED
      BY <2>1, <2>3 DEF Kept, r
  <1> QED
    BY <1>2, <1>4 DEF Handle, Forward, Kept, Moves, Sent

\* A call that ends moves forward, and no other moves.
LEMMA BecomeForward ==
    ASSUME calls \in Seq(Call), NEW i \in Sent, NEW state \in {"ok", "failed"},
           Become(i, state),
           state = "failed" => ~Ended(i),
           state = "ok" => calls[i].state \in {"running", "waiting"}
    PROVE  /\ calls' \in Seq(Call) /\ Sent' = Sent /\ Len(calls') = Len(calls) /\ Forward
           /\ \A j \in Sent \ {i} : calls'[j] = calls[j]
           /\ calls'[i].state = state /\ calls'[i].id = calls[i].id
  <1>1. state \in State
    BY DEF State
  <1>2. calls' = [calls EXCEPT ![i].state = state]
    BY DEF Become
  <1>3. /\ calls' \in Seq(Call) /\ DOMAIN calls' = DOMAIN calls /\ Len(calls') = Len(calls)
        /\ \A j \in DOMAIN calls \ {i} : calls'[j] = calls[j]
        /\ Kept(i) /\ calls'[i].state = state /\ calls'[i].id = calls[i].id
    <2>1. i \in DOMAIN calls
      BY DEF Sent
    <2>2. PICK r : r = calls' /\ r = [calls EXCEPT ![i].state = state]
      BY <1>2
    <2>3. PICK id \in Nat : id = calls[i].id /\ Updated(r, calls, i, state, id)
      BY <2>1, <2>2, UpdateState
    <2>4. /\ r \in Seq(Call) /\ DOMAIN r = DOMAIN calls /\ Len(r) = Len(calls)
          /\ \A j \in DOMAIN calls \ {i} : r[j] = calls[j]
          /\ r[i].tool = calls[i].tool /\ r[i].good = calls[i].good
          /\ r[i].header = calls[i].header /\ r[i].parent = calls[i].parent
          /\ r[i].state = state /\ r[i].id = id
      BY <1>1, <2>1, <2>3, UpdateCall
    <2> QED
      BY <2>2, <2>3, <2>4 DEF Kept
  <1> QED
    BY <1>3 DEF Forward, Kept, Moves, Sent

\* A crash moves the calls of its server forward, to failed.
LEMMA CrashForward ==
    ASSUME calls \in Seq(Call), NEW s, Crash(s)
    PROVE  /\ calls' \in Seq(Call) /\ Sent' = Sent /\ Len(calls') = Len(calls) /\ Forward
           /\ \A j \in Sent : calls'[j] = calls[j] \/ (At(j) = s /\ calls'[j].state = "failed")
  <1>1. \A j \in Sent : calls[j] \in Call /\ [calls[j] EXCEPT !.state = "failed"] \in Call
    <2> TAKE j \in Sent
    <2>1. calls[j] \in Call
      BY Indices DEF Sent
    <2> QED
      BY <2>1 DEF Call, State
  <1>2. DOMAIN calls' = DOMAIN calls
    BY DEF Crash, Sent
  <1>3. \A j \in Sent : calls'[j] = IF At(j) = s /\ ~Ended(j)
                                    THEN [calls[j] EXCEPT !.state = "failed"] ELSE calls[j]
    BY DEF Crash
  <1>4. \A j \in Sent : calls'[j] \in Call
    BY <1>1, <1>3
  <1>5. calls' \in Seq(Call) /\ Len(calls') = Len(calls)
    <2>1. Len(calls) \in Nat /\ Sent = 1..Len(calls)
      BY Indices DEF Sent
    <2>2. calls' = [j \in Sent |-> calls'[j]]
      BY DEF Crash
    <2>3. calls' \in [1..Len(calls) -> Call]
      BY <1>4, <2>1, <2>2
    <2> QED
      BY <2>1, <2>3
  <1>6. \A j \in Sent : Kept(j) /\ Moves(j)
    BY <1>1, <1>3 DEF Kept, Moves, Call
  <1>7. \A j \in Sent : calls'[j] = calls[j] \/ (At(j) = s /\ calls'[j].state = "failed")
    BY <1>1, <1>3 DEF Call
  <1> QED
    BY <1>2, <1>5, <1>6, <1>7 DEF Forward, Sent

\* An operator's call is appended, and no other moves.
LEMMA SendRootForward ==
    ASSUME calls \in Seq(Call), NEW tool \in RootTool, NEW good \in BOOLEAN,
           NEW header \in Chain \cup {NoId}, SendRoot(tool, good, header)
    PROVE  /\ calls' \in Seq(Call) /\ Len(calls') = Len(calls) + 1 /\ Forward
           /\ calls'[Len(calls) + 1] = NewCall(tool, good, header, 0)
           /\ \A j \in Sent : calls'[j] = calls[j]
  <1>1. PICK c \in Call : c = NewCall(tool, good, header, 0)
    <2>1. tool \in Tool /\ header \in Nat
      BY ServiceCallsAssumption DEF NoId
    <2>2. NewCall(tool, good, header, 0) \in Call
      BY <2>1 DEF NewCall, Call, State, NoId
    <2> QED
      BY <2>2
  <1>2. calls' = Append(calls, c)
    BY <1>1 DEF SendRoot
  <1>3. /\ calls' \in Seq(Call) /\ Len(calls') = Len(calls) + 1
        /\ calls'[Len(calls) + 1] = c
        /\ \A j \in 1..Len(calls) : calls'[j] = calls[j]
    <2>1. /\ Append(calls, c) \in Seq(Call) /\ Len(Append(calls, c)) = Len(calls) + 1
          /\ Append(calls, c)[Len(calls) + 1] = c
          /\ \A j \in 1..Len(calls) : Append(calls, c)[j] = calls[j]
      BY AppendCall
    <2> QED
      BY <1>2, <2>1
  <1>4. Sent = 1..Len(calls) /\ Sent' = 1..(Len(calls) + 1) /\ Len(calls) \in Nat
    BY <1>3, Indices DEF Sent
  <1> QED
    BY <1>1, <1>3, <1>4 DEF Forward, Kept, Moves

\* A remote call is appended, its caller waits, and no other call moves.
LEMMA CallRemoteForward ==
    ASSUME calls \in Seq(Call), NEW i \in Sent, CallRemote(i)
    PROVE  /\ calls' \in Seq(Call) /\ Len(calls') = Len(calls) + 1 /\ Forward
           /\ calls'[Len(calls) + 1] =
                 NewCall(Asks[calls[i].tool], calls[i].good, calls[i].id, i)
           /\ \A j \in Sent \ {i} : calls'[j] = calls[j]
           /\ calls'[i].state = "waiting" /\ calls'[i].id = calls[i].id
  <1>1. PICK c \in Call : c = NewCall(Asks[calls[i].tool], calls[i].good, calls[i].id, i)
    <2>1. calls[i] \in Call /\ i \in Nat
      BY Indices DEF Sent
    <2>2. /\ calls[i].good \in BOOLEAN /\ calls[i].id \in Nat
          /\ Asks[calls[i].tool] \in Tool
      BY <2>1, CallFields, AskedTools DEF CallRemote
    <2>3. NewCall(Asks[calls[i].tool], calls[i].good, calls[i].id, i) \in Call
      BY <2>1, <2>2 DEF NewCall, Call, State, NoId
    <2> QED
      BY <2>3
  <1>2. PICK m : m = [calls EXCEPT ![i].state = "waiting"]
    OBVIOUS
  <1>3. /\ m \in Seq(Call) /\ DOMAIN m = DOMAIN calls /\ Len(m) = Len(calls)
        /\ \A j \in DOMAIN calls \ {i} : m[j] = calls[j]
        /\ m[i].tool = calls[i].tool /\ m[i].good = calls[i].good
        /\ m[i].header = calls[i].header /\ m[i].parent = calls[i].parent
        /\ m[i].state = "waiting" /\ m[i].id = calls[i].id
    <2>1. "waiting" \in State /\ i \in DOMAIN calls
      BY DEF State, Sent
    <2>2. PICK id \in Nat : id = calls[i].id /\ Updated(m, calls, i, "waiting", id)
      BY <1>2, <2>1, UpdateState
    <2> QED
      BY <2>1, <2>2, UpdateCall
  <1>4. calls' = Append(m, c)
    BY <1>1, <1>2 DEF CallRemote
  <1>5. /\ calls' \in Seq(Call) /\ Len(calls') = Len(calls) + 1
        /\ calls'[Len(calls) + 1] = c
        /\ \A j \in 1..Len(calls) : calls'[j] = m[j]
    <2>1. /\ Append(m, c) \in Seq(Call) /\ Len(Append(m, c)) = Len(m) + 1
          /\ Append(m, c)[Len(m) + 1] = c
          /\ \A j \in 1..Len(m) : Append(m, c)[j] = m[j]
      BY <1>3, AppendCall
    <2> QED
      BY <1>3, <1>4, <2>1
  <1>6. Sent = 1..Len(calls) /\ Sent' = 1..(Len(calls) + 1) /\ Len(calls) \in Nat
    BY <1>5, Indices DEF Sent
  <1>7. \A j \in Sent \ {i} : calls'[j] = calls[j]
    BY <1>3, <1>5, <1>6 DEF Sent
  <1>8. /\ calls'[i].tool = calls[i].tool /\ calls'[i].good = calls[i].good
        /\ calls'[i].header = calls[i].header /\ calls'[i].parent = calls[i].parent
        /\ calls'[i].state = "waiting" /\ calls'[i].id = calls[i].id
    BY <1>3, <1>5, <1>6
  <1>9. Forward
    BY <1>6, <1>7, <1>8 DEF Forward, Kept, Moves, CallRemote
  <1> QED
    BY <1>1, <1>5, <1>7, <1>8, <1>9

--------------------------------------------------------------------------------
(* The steps, by what they do to the log of calls. *)

\* A call fails; no other call moves.
Fails(i) == ~Ended(i) /\ Become(i, "failed")

\* A call answers, and has written if it is one that writes.
Answers(i) ==
    /\ calls[i].state \in {"running", "waiting"}
    /\ Return(i)

\* The calls that fail on their own or with what they asked for, without a
\* fault.
FailsInOrder(i) ==
    /\ Fails(i) /\ written' = written
    /\ \/ calls[i].state = "running"
       \/ calls[i].state = "waiting" /\ calls[i].tool = "create_quote"
       \/ \E j \in Sent : calls[j].parent = i /\ calls[j].state = "failed"

\* A writer of server s gets no further, but the org has done its work.
WritesAndFails(i, s) ==
    /\ MayHaveWritten(i) /\ At(i) = s
    /\ written' = written \cup {i} /\ faults' = faults + 1
    /\ Fails(i) \/ Crash(s)

\* A step of the handler of call i is one of four.
LEMMA ServeKinds ==
    ASSUME NEW i \in Sent, Serve(i)
    PROVE  \/ Handle(i)
           \/ CallRemote(i)
           \/ FailsInOrder(i) /\ faults' = faults
           \/ /\ Answers(i) /\ faults' = faults
              /\ AnswerCall(i) \/ Proceed(i)
  <1>1. CASE RefuseDocument(i)
    BY <1>1 DEF RefuseDocument, FailsInOrder, Fails, Ended
  <1>2. CASE AnswerCall(i)
    BY <1>2 DEF AnswerCall, Answers, Return, Raise, FailsInOrder, Fails, Ended
  <1>3. CASE Proceed(i)
    BY <1>3 DEF Proceed, Answers, Return, Raise, FailsInOrder, Fails, Ended
  <1>4. CASE RemoteFailed(i)
    BY <1>4 DEF RemoteFailed, Raise, FailsInOrder, Fails, Ended
  <1> QED
    BY <1>1, <1>2, <1>3, <1>4 DEF Serve

\* Whatever the step, it is one of these.
LEMMA StepKinds ==
    ASSUME [Next]_vars
    PROVE  \/ UNCHANGED vars
           \/ \E tool \in RootTool, good \in BOOLEAN, header \in Chain \cup {NoId} :
                 SendRoot(tool, good, header)
           \/ \E i \in Sent : Handle(i) \/ CallRemote(i) \/ Fails(i) \/ Answers(i)
           \/ \E s \in Service : Crash(s)
  <1>1. ASSUME NEW i \in Sent, Refused(i) \/ WorkFails(i) \/ ConnectionLost(i)
        PROVE  Fails(i)
    BY <1>1 DEF Refused, WorkFails, AtWork, ConnectionLost, Fails, Ended
  <1>2. ASSUME NEW i \in Sent, Serve(i)
        PROVE  Handle(i) \/ CallRemote(i) \/ Fails(i) \/ Answers(i)
    BY <1>2, ServeKinds DEF FailsInOrder
  <1> QED
    BY <1>1, <1>2 DEF Next

\* The index of the next call.
NextCall == Len(calls) + 1

\* One call is appended.
Appended(c) ==
    /\ Sent' = Sent \cup {NextCall} /\ NextCall \notin Sent /\ NextCall \in Nat
    /\ calls'[NextCall] = c

\* A call to write down by a fresh index.
LEMMA AppendedAtTheEnd ==
    ASSUME calls \in Seq(Call), calls' \in Seq(Call), Len(calls') = Len(calls) + 1
    PROVE  Appended(calls'[Len(calls) + 1])
  <1>1. Sent = 1..Len(calls) /\ Sent' = 1..(Len(calls) + 1) /\ Len(calls) \in Nat
    BY Indices DEF Sent
  <1> QED
    BY <1>1 DEF Appended, NextCall

\* Whatever the step, the calls there are move forward, and what is new is
\* an operator's call or one hop of a running call.
LEMMA StepForward ==
    ASSUME calls \in Seq(Call), [Next]_vars
    PROVE  /\ calls' \in Seq(Call) /\ Forward
           /\ \/ Sent' = Sent
              \/ \E tool \in RootTool, good \in BOOLEAN, header \in Chain \cup {NoId} :
                    /\ SendRoot(tool, good, header)
                    /\ Appended(NewCall(tool, good, header, 0))
              \/ \E i \in Sent :
                    /\ CallRemote(i)
                    /\ Appended(NewCall(Asks[calls[i].tool], calls[i].good, calls[i].id, i))
  <1>1. CASE UNCHANGED vars
    BY <1>1 DEF vars, Forward, Kept, Moves, Sent
  <1>2. ASSUME NEW tool \in RootTool, NEW good \in BOOLEAN,
               NEW header \in Chain \cup {NoId}, SendRoot(tool, good, header)
        PROVE  /\ calls' \in Seq(Call) /\ Forward
               /\ Appended(NewCall(tool, good, header, 0))
    BY <1>2, SendRootForward, AppendedAtTheEnd
  <1>3. ASSUME NEW i \in Sent, CallRemote(i)
        PROVE  /\ calls' \in Seq(Call) /\ Forward
               /\ Appended(NewCall(Asks[calls[i].tool], calls[i].good, calls[i].id, i))
    BY <1>3, CallRemoteForward, AppendedAtTheEnd
  <1>4. ASSUME NEW i \in Sent, Handle(i)
        PROVE  calls' \in Seq(Call) /\ Forward /\ Sent' = Sent
    BY <1>4, HandleForward
  <1>5. ASSUME NEW i \in Sent, Fails(i)
        PROVE  calls' \in Seq(Call) /\ Forward /\ Sent' = Sent
    BY <1>5, BecomeForward DEF Fails
  <1>6. ASSUME NEW i \in Sent, Answers(i)
        PROVE  calls' \in Seq(Call) /\ Forward /\ Sent' = Sent
    BY <1>6, BecomeForward DEF Answers, Return
  <1>7. ASSUME NEW s \in Service, Crash(s)
        PROVE  calls' \in Seq(Call) /\ Forward /\ Sent' = Sent
    BY <1>7, CrashForward
  <1> QED
    BY <1>1, <1>2, <1>3, <1>4, <1>5, <1>6, <1>7, StepKinds

\* What a step writes is the work of one call that answers, or fails at it.
LEMMA StepWrites ==
    ASSUME [Next]_vars
    PROVE  \/ written' = written
           \/ \E i \in Sent :
                 /\ Answers(i) /\ Writes(i) /\ (AnswerCall(i) \/ Proceed(i))
                 /\ written' = written \cup {i} /\ faults' = faults
           \/ \E i \in Sent, s \in Service : WritesAndFails(i, s)
  <1>1. ASSUME NEW i \in Sent, Serve(i)
        PROVE  \/ written' = written
               \/ /\ Answers(i) /\ Writes(i) /\ (AnswerCall(i) \/ Proceed(i))
                  /\ written' = written \cup {i} /\ faults' = faults
    BY <1>1, ServeKinds DEF FailsInOrder, Fails, Answers, Return, Handle, CallRemote
  <1>2. ASSUME NEW i \in Sent, Refused(i) \/ ConnectionLost(i)
        PROVE  written' = written
    BY <1>2 DEF Refused, ConnectionLost
  <1>3. ASSUME NEW i \in Sent, WorkFails(i)
        PROVE  \/ written' = written
               \/ \E s \in Service : WritesAndFails(i, s)
    <2>1. CASE written' = written
      BY <2>1
    <2>2. CASE MayHaveWritten(i) /\ written' = written \cup {i}
      <3>1. Fails(i) /\ faults' = faults + 1
        BY <1>3 DEF WorkFails, AtWork, Fails, Ended
      <3>2. calls[i].tool \in Tool
        BY <2>2, AllTools DEF MayHaveWritten, Writes
      <3>3. At(i) \in Service
        BY <3>2 DEF At, Service
      <3> QED
        BY <2>2, <3>1, <3>3 DEF WritesAndFails
    <2> QED
      BY <1>3, <2>1, <2>2 DEF WorkFails
  <1>4. ASSUME NEW s \in Service, Crash(s)
        PROVE  \/ written' = written
               \/ \E i \in Sent : WritesAndFails(i, s)
    <2>1. CASE written' = written
      BY <2>1
    <2>2. ASSUME NEW i \in Sent, At(i) = s /\ MayHaveWritten(i) /\ written' = written \cup {i}
          PROVE  WritesAndFails(i, s)
      <3>1. faults' = faults + 1
        BY <1>4 DEF Crash
      <3> QED
        BY <1>4, <2>2, <3>1 DEF WritesAndFails
    <2> QED
      BY <1>4, <2>1, <2>2 DEF Crash
  <1>5. CASE UNCHANGED vars
    BY <1>5 DEF vars
  <1>6. ASSUME NEW tool, NEW good, NEW header, SendRoot(tool, good, header)
        PROVE  written' = written
    BY <1>6 DEF SendRoot
  <1> QED
    BY <1>1, <1>2, <1>3, <1>4, <1>5, <1>6 DEF Next

\* Faults are counted, up to the bound.
LEMMA StepFaults ==
    ASSUME faults \in 0..MaxFaults, [Next]_vars
    PROVE  faults' \in 0..MaxFaults /\ faults' \in {faults, faults + 1}
  <1> USE ServiceCallsAssumption
  <1>1. ASSUME NEW i \in Sent, Serve(i)
        PROVE  faults' = faults
    BY <1>1, ServeKinds DEF Handle, CallRemote
  <1>2. ASSUME NEW i \in Sent, Refused(i) \/ WorkFails(i) \/ ConnectionLost(i)
        PROVE  faults' \in 0..MaxFaults /\ faults' = faults + 1
    BY <1>2 DEF Refused, WorkFails, ConnectionLost
  <1>3. ASSUME NEW s \in Service, Crash(s)
        PROVE  faults' \in 0..MaxFaults /\ faults' = faults + 1
    BY <1>3 DEF Crash
  <1> QED
    BY <1>1, <1>2, <1>3 DEF Next, SendRoot, vars

\* The id a handler logs is one.
LEMMA AnIdIsLogged ==
    ASSUME calls \in Seq(Call), NEW i \in Sent
    PROVE  CorrelationId(i) \in Nat /\ CorrelationId(i) # NoId
  BY Indices, CallFields DEF CorrelationId, NoId, Sent

\* No step breaks a type.
LEMMA TypeStep ==
    ASSUME TypeOK, [Next]_vars
    PROVE  TypeOK'
  <1>1. calls \in Seq(Call) /\ calls' \in Seq(Call) /\ Forward
    BY StepForward DEF TypeOK
  <1>2. ASSUME NEW i \in Sent
        PROVE  /\ calls'[i].parent < i
               /\ calls'[i].state \in {"running", "waiting", "ok"} => calls'[i].id # NoId
    <2>1. /\ calls[i].parent < i
          /\ calls[i].state \in {"running", "waiting", "ok"} => calls[i].id # NoId
      BY DEF TypeOK
    <2> QED
      BY <1>1, <2>1, AnIdIsLogged DEF Forward, Kept, Moves
  <1>3. ASSUME NEW c, Appended(c),
               c.state = "sent" /\ (c.parent = 0 \/ c.parent \in Sent)
        PROVE  /\ calls'[NextCall].parent < NextCall
               /\ calls'[NextCall].state \notin {"running", "waiting", "ok"}
    <2>1. Sent = 1..Len(calls) /\ Len(calls) \in Nat
      BY <1>1, Indices DEF Sent
    <2> QED
      BY <1>3, <2>1 DEF Appended, NextCall
  <1>4. \A i \in Sent' :
          /\ calls'[i].parent < i
          /\ calls'[i].state \in {"running", "waiting", "ok"} => calls'[i].id # NoId
    <2>1. CASE Sent' = Sent
      BY <1>2, <2>1
    <2>2. ASSUME NEW tool, NEW good, NEW header, NEW parent \in Sent \cup {0},
                 Appended(NewCall(tool, good, header, parent))
          PROVE  \A i \in Sent' :
                   /\ calls'[i].parent < i
                   /\ calls'[i].state \in {"running", "waiting", "ok"}
                        => calls'[i].id # NoId
      <3>1. PICK c : c = NewCall(tool, good, header, parent)
        OBVIOUS
      <3>2. c.state = "sent" /\ c.parent = parent
        BY <3>1 DEF NewCall
      <3> QED
        BY <1>2, <1>3, <2>2, <3>1, <3>2 DEF Appended
    <2> QED
      BY <1>1, <2>1, <2>2, StepForward
  <1>5. written' \subseteq {i \in Sent' : Writes(i)'}
    <2>1. \A i \in Sent : i \in Sent' /\ (Writes(i) => Writes(i)')
      BY <1>1 DEF Forward, Kept, Writes
    <2>2. written \subseteq {i \in Sent : Writes(i)}
      BY DEF TypeOK
    <2>3. \/ written' = written
          \/ \E i \in Sent : Writes(i) /\ written' = written \cup {i}
      BY StepWrites DEF WritesAndFails, MayHaveWritten
    <2> QED
      BY <2>1, <2>2, <2>3
  <1>6. faults' \in 0..MaxFaults
    BY StepFaults DEF TypeOK
  <1> QED
    BY <1>1, <1>4, <1>5, <1>6 DEF TypeOK

\* Every variable keeps its type, whoever is lost and whatever crashes.
THEOREM TypeCorrect == Spec => []TypeOK
  <1>1. Init => TypeOK
    <2> SUFFICES ASSUME Init PROVE TypeOK
      OBVIOUS
    <2>1. calls = <<>> /\ Sent = {} /\ calls \in Seq(Call)
      BY DEF Init, Sent
    <2> QED
      BY <2>1, ServiceCallsAssumption DEF Init, TypeOK
  <1>2. TypeOK /\ [Next]_vars => TypeOK'
    BY TypeStep
  <1> QED
    BY <1>1, <1>2, PTL DEF Spec

--------------------------------------------------------------------------------
(* Who asked whom. *)

\* A call of an operator is of a tool operators call, with an id of theirs
\* or none.
RootInv ==
    \A i \in Sent : Root(i) => /\ calls[i].tool \in RootTool
                               /\ calls[i].header \in Chain \cup {NoId}

\* A remote call was asked for by an operator's call that got so far: past
\* its own checks, with its arguments and its id, and not at work since.
Hop(i, p) ==
    /\ p \in Sent /\ Root(p)
    /\ calls[p].tool \in DOMAIN Asks /\ ~ChecksFirst(p)
    /\ calls[i].tool = Asks[calls[p].tool] /\ calls[i].good = calls[p].good
    /\ calls[i].header = calls[p].id /\ calls[p].id # NoId
    /\ calls[p].state \notin {"sent", "running"}

HopInv == \A i \in Sent : ~Root(i) => Hop(i, calls[i].parent)

\* A call asks once.
OneHop ==
    \A i, j \in Sent : ~Root(i) /\ calls[i].parent = calls[j].parent => i = j

\* A call logs the id it was sent, or its own.
IdInv == \A i \in Sent : calls[i].id = NoId \/ calls[i].id = CorrelationId(i)

\* A server works on one call at a time.
LoopOne ==
    \A i, j \in Sent :
        /\ calls[i].state \in {"running", "waiting"} /\ At(i) = At(j)
        /\ calls[j].state \in {"running", "waiting"}
        => i = j

Roots == {i \in Sent : Root(i)}
Hops == {i \in Sent : ~Root(i)}

ChainInv == RootInv /\ HopInv /\ OneHop /\ IdInv /\ Cardinality(Roots) <= MaxRoots

\* What has written has ended, was granted, and, if it is a quote, has its
\* verdict.
WriteInv ==
    \A i \in written :
        /\ Ended(i) /\ calls[i].good
        /\ calls[i].tool = "create_quote" => Answer(i) # {}

\* A call that writes, or has written, for a caller that has failed.
Deserted(i) ==
    /\ ~Root(i) /\ Writes(i)
    /\ calls[i].state # "failed" /\ calls[calls[i].parent].state = "failed"

\* A call that has written, and failed after all.
Undone(i) == i \in written /\ calls[i].state = "failed"

Orphans == {i \in Sent : Deserted(i) \/ Undone(i)}

OrphanInv == Cardinality(Orphans) <= faults

\* The call a step adds, if it adds one: an operator's, or the hop of a
\* call at work.
Fresh ==
    /\ Sent' = Sent \cup {NextCall} /\ NextCall \notin Sent
    /\ calls'[NextCall].state = "sent" /\ calls'[NextCall].id = NoId

NewRoot ==
    /\ calls'[NextCall].parent = 0
    /\ calls'[NextCall].tool \in RootTool
    /\ calls'[NextCall].header \in Chain \cup {NoId}
    /\ Cardinality(Roots) < MaxRoots

NewHop(i) ==
    /\ calls'[NextCall].parent = i /\ i # 0
    /\ calls[i].state = "running" /\ calls[i].tool \in DOMAIN Asks /\ ~ChecksFirst(i)
    /\ calls'[i].state = "waiting" /\ calls'[i].id = calls[i].id
    /\ calls'[NextCall].tool = Asks[calls[i].tool]
    /\ calls'[NextCall].good = calls[i].good
    /\ calls'[NextCall].header = calls[i].id

\* A step adds no call, or one of these.
LEMMA StepAdds ==
    ASSUME TypeOK, [Next]_vars
    PROVE  /\ Forward
           /\ Sent' = Sent \/ (Fresh /\ (NewRoot \/ \E i \in Sent : NewHop(i)))
  <1>1. calls \in Seq(Call)
    BY DEF TypeOK
  <1>2. ASSUME NEW tool, NEW good, NEW header, NEW parent, NEW c,
               c = NewCall(tool, good, header, parent)
        PROVE  /\ c.tool = tool /\ c.good = good /\ c.header = header /\ c.parent = parent
               /\ c.state = "sent" /\ c.id = NoId
    BY <1>2 DEF NewCall
  <1>3. ASSUME NEW tool \in RootTool, NEW good \in BOOLEAN,
               NEW header \in Chain \cup {NoId}, SendRoot(tool, good, header),
               Appended(NewCall(tool, good, header, 0))
        PROVE  Fresh /\ NewRoot
    <2>1. PICK c : c = NewCall(tool, good, header, 0)
      OBVIOUS
    <2>2. c.tool = tool /\ c.header = header /\ c.parent = 0 /\ c.state = "sent" /\ c.id = NoId
      BY <1>2, <2>1
    <2> QED
      BY <1>3, <2>1, <2>2 DEF Appended, Fresh, NewRoot, SendRoot, Roots
  <1>4. ASSUME NEW i \in Sent, CallRemote(i),
               Appended(NewCall(Asks[calls[i].tool], calls[i].good, calls[i].id, i))
        PROVE  Fresh /\ NewHop(i)
    <2>1. PICK c : c = NewCall(Asks[calls[i].tool], calls[i].good, calls[i].id, i)
      OBVIOUS
    <2>2. /\ c.tool = Asks[calls[i].tool] /\ c.good = calls[i].good
          /\ c.header = calls[i].id /\ c.parent = i /\ c.state = "sent" /\ c.id = NoId
      BY <1>2, <2>1
    <2>3. i # 0
      BY <1>1, Indices DEF Sent
    <2>4. calls'[i].state = "waiting" /\ calls'[i].id = calls[i].id
      BY <1>1, <1>4, CallRemoteForward
    <2> QED
      BY <1>4, <2>1, <2>2, <2>3, <2>4 DEF Appended, Fresh, NewHop, CallRemote
  <1> QED
    BY <1>1, <1>3, <1>4, StepForward

\* What asks a call is not itself asked for.
LEMMA AskersAreRoots ==
    ASSUME HopInv, NEW i \in Sent, calls[i].tool \in DOMAIN Asks
    PROVE  Root(i)
  BY AskedTools DEF HopInv, Hop

\* Every step keeps what is true of the first calls.
LEMMA RootStep ==
    ASSUME TypeOK, RootInv, [Next]_vars
    PROVE  RootInv'
  <1>1. ASSUME NEW i \in Sent, Root(i)'
        PROVE  calls'[i].tool \in RootTool /\ calls'[i].header \in Chain \cup {NoId}
    BY <1>1, StepAdds DEF RootInv, Root, Forward, Kept
  <1> QED
    BY <1>1, StepAdds DEF RootInv, Root, Fresh, NewRoot, NewHop

\* A hop stays one: its caller waits for it, or has ended.
LEMMA HopStays ==
    ASSUME Forward, NEW i \in Sent, NEW p \in Sent, Hop(i, p)
    PROVE  Hop(i, p)'
  <1>1. Kept(i) /\ Kept(p) /\ Moves(p) /\ p \in Sent'
    BY DEF Forward
  <1>2. calls'[p].id = calls[p].id /\ calls'[p].state \notin {"sent", "running"}
    BY <1>1 DEF Hop, Moves
  <1> QED
    BY <1>1, <1>2 DEF Hop, Kept, Root, ChecksFirst

\* Every step keeps what is true of the calls a tool made.
LEMMA HopStep ==
    ASSUME TypeOK, HopInv, [Next]_vars
    PROVE  HopInv'
  <1>1. Forward
    BY StepAdds
  <1>2. ASSUME NEW i \in Sent, ~Root(i)'
        PROVE  Hop(i, calls[i].parent)' /\ calls'[i].parent = calls[i].parent
    <2>1. ~Root(i) /\ calls'[i].parent = calls[i].parent
      BY <1>1, <1>2 DEF Root, Forward, Kept
    <2>2. PICK p \in Sent : p = calls[i].parent /\ Hop(i, p)
      BY <2>1 DEF HopInv, Hop
    <2>3. Hop(i, p)'
      BY <1>1, <2>2, HopStays
    <2> QED
      BY <2>1, <2>2, <2>3 DEF Hop, Root, ChecksFirst
  <1>3. ASSUME NEW n, n = NextCall, NEW p \in Sent, Fresh, NewHop(p)
        PROVE  Hop(n, p)' /\ p = calls'[n].parent
    <2>1. calls[p].id # NoId
      BY <1>3 DEF TypeOK, NewHop
    <2>2. Root(p)
      BY <1>3, AskersAreRoots DEF NewHop
    <2>3. Kept(p) /\ p \in Sent'
      BY <1>1 DEF Forward
    <2> QED
      BY <1>3, <2>1, <2>2, <2>3 DEF Hop, NewHop, Kept, Root, ChecksFirst
  <1>4. PICK n : n = NextCall
    OBVIOUS
  <1>5. ASSUME NEW i \in Sent', ~Root(i)'
        PROVE  Hop(i, calls[i].parent)'
    <2>1. CASE i \in Sent
      BY <1>2, <1>5, <2>1
    <2>2. CASE i \notin Sent
      <3>1. i = n /\ Fresh /\ \E p \in Sent : NewHop(p)
        BY <1>4, <1>5, <2>2, StepAdds DEF Fresh, NewRoot, Root
      <3> QED
        BY <1>3, <1>4, <3>1
    <2> QED
      BY <2>1, <2>2
  <1> QED
    BY <1>5 DEF HopInv

\* No step lets a call make a second one.
LEMMA OneHopStep ==
    ASSUME TypeOK, HopInv, OneHop, [Next]_vars
    PROVE  OneHop'
  <1>1. Forward
    BY StepAdds
  <1>2. \A i \in Sent : calls'[i].parent = calls[i].parent
    BY <1>1 DEF Forward, Kept
  <1>3. PICK n : n = NextCall
    OBVIOUS
  <1>4. ASSUME NEW p \in Sent, Fresh, NewHop(p)
        PROVE  \A j \in Sent : calls[j].parent # p
    BY <1>4 DEF HopInv, Hop, NewHop, Root
  <1>5. Sent' = Sent \/ (Sent' = Sent \cup {n} /\ (calls'[n].parent = 0
                          \/ \A j \in Sent : calls[j].parent # calls'[n].parent))
    BY <1>3, <1>4, StepAdds DEF Fresh, NewRoot, NewHop
  <1> SUFFICES ASSUME NEW i \in Sent', NEW j \in Sent',
                      calls'[i].parent # 0, calls'[i].parent = calls'[j].parent
               PROVE  i = j
    BY DEF OneHop, Root
  <1>6. CASE i \in Sent /\ j \in Sent
    BY <1>2, <1>6 DEF OneHop, Root
  <1> QED
    BY <1>2, <1>5, <1>6

\* No step gives two chains one id.
LEMMA IdStep ==
    ASSUME TypeOK, IdInv, [Next]_vars
    PROVE  IdInv'
  <1>1. ASSUME NEW i \in Sent
        PROVE  calls'[i].id = NoId \/ calls'[i].id = CorrelationId(i)'
    <2>1. Kept(i) /\ Moves(i)
      BY StepAdds DEF Forward
    <2> QED
      BY <2>1 DEF Kept, Moves, IdInv, CorrelationId
  <1> QED
    BY <1>1, StepAdds DEF IdInv, Fresh

\* The calls are finitely many.
LEMMA FiniteCalls ==
    ASSUME calls \in Seq(Call)
    PROVE  IsFiniteSet(Sent) /\ Cardinality(Sent) = Len(calls)
  BY Indices, FS_Interval DEF Sent

\* No step starts more chains than may be started.
LEMMA RootsStep ==
    ASSUME TypeOK, Cardinality(Roots) <= MaxRoots, [Next]_vars
    PROVE  Cardinality(Roots') <= MaxRoots
  <1> USE ServiceCallsAssumption
  <1>1. IsFiniteSet(Roots) /\ Cardinality(Roots) \in Nat
    BY FiniteCalls, FS_Subset, FS_CardinalityType DEF Roots, TypeOK
  <1>2. \A i \in Sent : Root(i)' <=> Root(i)
    BY StepAdds DEF Forward, Kept, Root
  <1>3. CASE Sent' = Sent
    <2>1. Roots' = Roots
      BY <1>2, <1>3 DEF Roots
    <2> QED
      BY <2>1
  <1>4. CASE Fresh /\ NewRoot
    <2>1. PICK n : n = NextCall
      OBVIOUS
    <2>2. Roots' = Roots \cup {n}
      BY <1>2, <1>4, <2>1 DEF Roots, Root, Fresh, NewRoot
    <2>3. Cardinality(Roots \cup {n}) <= Cardinality(Roots) + 1
      <3>1. PICK R : R = Roots
        OBVIOUS
      <3>2. Cardinality(R \cup {n}) = IF n \in R THEN Cardinality(R) ELSE Cardinality(R) + 1
        BY <1>1, <3>1, FS_AddElement
      <3> QED
        BY <1>1, <3>1, <3>2
    <2>4. Cardinality(Roots \cup {n}) \in Nat
      BY <1>1, FS_AddElement, FS_CardinalityType
    <2> QED
      BY <1>1, <1>4, <2>2, <2>3, <2>4 DEF NewRoot
  <1>5. CASE Fresh /\ \E p \in Sent : NewHop(p)
    <2>1. Roots' = Roots
      BY <1>2, <1>5 DEF Roots, Root, Fresh, NewHop
    <2> QED
      BY <2>1
  <1> QED
    BY <1>3, <1>4, <1>5, StepAdds

\* Every step keeps the chains.
LEMMA ChainStep ==
    ASSUME TypeOK, ChainInv, [Next]_vars
    PROVE  ChainInv'
  <1>1. RootInv' /\ HopInv' /\ OneHop' /\ IdInv'
    BY RootStep, HopStep, OneHopStep, IdStep DEF ChainInv
  <1>2. Cardinality(Roots)' <= MaxRoots
    BY RootsStep DEF ChainInv
  <1> QED
    BY <1>1, <1>2 DEF ChainInv

\* A call belongs to one chain, begun by one of the first calls.
LEMMA ChainInvariant == Spec => []ChainInv
  <1>1. Init => ChainInv
    <2> SUFFICES ASSUME Init PROVE ChainInv
      OBVIOUS
    <2>1. Sent = {}
      BY DEF Init, Sent
    <2>2. Roots = {} /\ Cardinality({}) = 0
      BY <2>1, FS_EmptySet DEF Roots
    <2> QED
      BY <2>1, <2>2, ServiceCallsAssumption
      DEF ChainInv, RootInv, HopInv, OneHop, IdInv
  <1>2. TypeOK /\ TypeOK' /\ ChainInv /\ [Next]_vars => ChainInv'
    BY ChainStep
  <1> QED
    BY <1>1, <1>2, TypeCorrect, PTL DEF Spec

--------------------------------------------------------------------------------
(* One chain, one id. *)

\* There are at most two calls for each call of an operator.
LEMMA CallsAreBounded ==
    ASSUME TypeOK, ChainInv
    PROVE  Len(calls) <= 2 * MaxRoots
  <1> USE ServiceCallsAssumption
  <1>1. IsFiniteSet(Sent) /\ Cardinality(Sent) = Len(calls) /\ Len(calls) \in Nat
    BY FiniteCalls, Indices DEF TypeOK
  <1>2. Roots \subseteq Sent /\ Hops \subseteq Sent
        /\ Sent = Roots \cup Hops /\ Roots \cap Hops = {}
    BY DEF Roots, Hops
  <1>3. IsFiniteSet(Roots) /\ IsFiniteSet(Hops)
    BY <1>1, <1>2, FS_Subset
  <1>4. Cardinality(Roots) \in Nat /\ Cardinality(Hops) \in Nat
    BY <1>3, FS_CardinalityType
  <1>5. Cardinality(Hops) <= Cardinality(Roots)
    <2> DEFINE f == [i \in Hops |-> calls[i].parent]
    <2>1. f \in [Hops -> Roots]
      BY DEF Hops, Roots, ChainInv, HopInv, Hop
    <2>2. \A i, j \in Hops : f[i] = f[j] => i = j
      BY DEF Hops, ChainInv, OneHop
    <2>3. f \in Injection(Hops, Roots)
      BY <2>1, <2>2 DEF Injection, IsInjective
    <2> HIDE DEF f
    <2> QED
      BY <1>3, <2>3, FS_Injection
  <1>6. Cardinality(Sent) = Cardinality(Roots) + Cardinality(Hops)
    <2>1. Cardinality(Roots \cup Hops)
            = Cardinality(Roots) + Cardinality(Hops) - Cardinality(Roots \cap Hops)
      BY <1>3, FS_Union
    <2>2. Cardinality(Roots \cap Hops) = 0
      BY <1>2, FS_EmptySet
    <2>3. PICK a \in Nat, b \in Nat : a = Cardinality(Roots) /\ b = Cardinality(Hops)
      BY <1>4
    <2>4. Cardinality(Sent) = a + b - 0
      BY <1>2, <2>1, <2>2, <2>3
    <2> QED
      BY <2>3, <2>4
  <1>7. Cardinality(Roots) <= MaxRoots
    BY DEF ChainInv
  <1> QED
    BY <1>1, <1>4, <1>5, <1>6, <1>7

\* An operator who shares an id with another call sent it: a minted id is
\* the index of one call, and no id an operator sends is as small.
LEMMA SharedIdWasSent ==
    ASSUME TypeOK, ChainInv, NEW i \in Logged, NEW j \in Logged,
           Root(i), Root(j), i # j, calls[i].id = calls[j].id
    PROVE  calls[i].header = calls[i].id
  <1> USE ServiceCallsAssumption
  <1>1. i \in Sent /\ j \in Sent /\ calls[i].id # NoId /\ calls[j].id # NoId
    BY DEF Logged
  <1>2. i \in Nat /\ i <= 2 * MaxRoots
    BY <1>1, CallsAreBounded, Indices DEF Sent, TypeOK
  <1>3. calls[i].id = CorrelationId(i) /\ calls[j].id = CorrelationId(j)
    BY <1>1 DEF ChainInv, IdInv
  <1>4. calls[j].header = NoId \/ (calls[j].header \in Nat /\ calls[j].header > 2 * MaxRoots)
    BY <1>1 DEF ChainInv, RootInv
  <1>5. CASE calls[i].header # NoId
    BY <1>3, <1>5 DEF CorrelationId
  <1>6. CASE calls[i].header = NoId
    <2>1. calls[j].id = i
      BY <1>3, <1>6 DEF CorrelationId
    <2>2. calls[j].header # NoId /\ calls[j].header = i
      BY <1>3, <2>1 DEF CorrelationId
    <2>3. PICK b \in Nat : b = 2 * MaxRoots
      OBVIOUS
    <2> QED
      BY <1>2, <1>4, <2>2, <2>3
  <1> QED
    BY <1>5, <1>6

\* One search finds the hops of a request and no other request: a remote
\* call logs the id its caller logged (documents to salesforce, salesforce
\* to pricing), and two requests share an id only if the operator sent it.
THEOREM OneChainOneIdTheorem == Spec => []OneChainOneId
  <1>1. TypeOK /\ ChainInv => OneChainOneId
    <2> SUFFICES ASSUME TypeOK, ChainInv, NEW i \in Logged, NEW j \in Logged
                 PROVE  /\ calls[j].parent = i => calls[j].id = calls[i].id
                        /\ Root(i) /\ Root(j) /\ i # j /\ calls[i].id = calls[j].id
                             => /\ calls[i].header = calls[i].id
                                /\ calls[j].header = calls[j].id
      BY DEF OneChainOneId
    <2>1. i \in Sent /\ j \in Sent /\ i # 0 /\ calls[j].id # NoId
      BY Indices DEF Logged, Sent, TypeOK
    <2>2. ASSUME calls[j].parent = i
          PROVE  calls[j].id = calls[i].id
      <3>1. Hop(j, i)
        BY <2>1, <2>2 DEF ChainInv, HopInv, Root
      <3>2. calls[j].id = CorrelationId(j)
        BY <2>1 DEF ChainInv, IdInv
      <3> QED
        BY <3>1, <3>2 DEF Hop, CorrelationId
    <2>3. ASSUME Root(i), Root(j), i # j, calls[i].id = calls[j].id
          PROVE  calls[i].header = calls[i].id /\ calls[j].header = calls[j].id
      BY <2>3, SharedIdWasSent
    <2> QED
      BY <2>2, <2>3
  <1> QED
    BY <1>1, TypeCorrect, ChainInvariant, PTL

--------------------------------------------------------------------------------
(* One call at a time in each server. *)

\* Only Handle starts a call.
LEMMA StepStarts ==
    ASSUME calls \in Seq(Call), [Next]_vars, NEW i \in Sent,
           calls'[i].state \in {"running", "waiting"}, ~Handle(i)
    PROVE  calls[i].state \in {"running", "waiting"}
  <1>1. CASE UNCHANGED vars
    BY <1>1 DEF vars
  <1>2. ASSUME NEW tool \in RootTool, NEW good \in BOOLEAN,
               NEW header \in Chain \cup {NoId}, SendRoot(tool, good, header)
        PROVE  calls'[i] = calls[i]
    BY <1>2, SendRootForward
  <1>3. ASSUME NEW j \in Sent, CallRemote(j)
        PROVE  calls'[i] = calls[i] \/ (i = j /\ calls[i].state = "running")
    BY <1>3, CallRemoteForward DEF CallRemote
  <1>4. ASSUME NEW j \in Sent, Handle(j)
        PROVE  calls'[i] = calls[i]
    BY <1>4, HandleForward
  <1>5. ASSUME NEW j \in Sent, Fails(j)
        PROVE  calls'[i] = calls[i] \/ calls'[i].state = "failed"
    BY <1>5, BecomeForward DEF Fails
  <1>6. ASSUME NEW j \in Sent, Answers(j)
        PROVE  calls'[i] = calls[i] \/ calls'[i].state = "ok"
    BY <1>6, BecomeForward DEF Answers, Return
  <1>7. ASSUME NEW s \in Service, Crash(s)
        PROVE  calls'[i] = calls[i] \/ calls'[i].state = "failed"
    BY <1>7, CrashForward
  <1> QED
    BY <1>1, <1>2, <1>3, <1>4, <1>5, <1>6, <1>7, StepKinds

\* No step has two calls of a loop under way.
LEMMA LoopOneStep ==
    ASSUME TypeOK, LoopOne, [Next]_vars
    PROVE  LoopOne'
  <1>1. Forward /\ calls \in Seq(Call)
    BY StepAdds DEF TypeOK
  <1>2. \A i \in Sent : At(i)' = At(i)
    BY <1>1 DEF Forward, Kept, At
  <1>3. ASSUME NEW i \in Sent, Handle(i)
        PROVE  LoopOne'
    <2>1. /\ Sent' = Sent /\ \A j \in Sent \ {i} : calls'[j] = calls[j]
      BY <1>1, <1>3, HandleForward
    <2>2. \A j \in Sent : At(j) = At(i) => calls[j].state \notin {"running", "waiting"}
      BY <1>3 DEF Handle, LoopFree
    <2> QED
      BY <1>2, <2>1, <2>2 DEF LoopOne
  <1>4. ASSUME \A i \in Sent : ~Handle(i)
        PROVE  LoopOne'
    <2>1. ASSUME NEW i \in Sent, calls'[i].state \in {"running", "waiting"}
          PROVE  calls[i].state \in {"running", "waiting"}
      BY <1>1, <1>4, <2>1, StepStarts
    <2>2. \A i \in Sent' \ Sent : calls'[i].state = "sent"
      BY StepAdds DEF Fresh
    <2> QED
      BY <1>2, <2>1, <2>2 DEF LoopOne
  <1> QED
    BY <1>3, <1>4

\* An event loop makes one call at a time.
LEMMA LoopOneInvariant == Spec => []LoopOne
  <1>1. Init => LoopOne
    BY DEF Init, LoopOne, Sent
  <1>2. TypeOK /\ LoopOne /\ [Next]_vars => LoopOne'
    BY LoopOneStep
  <1> QED
    BY <1>1, <1>2, TypeCorrect, PTL DEF Spec

--------------------------------------------------------------------------------
(* What is written was granted. *)

\* A file is attached only behind documents, which compares its checksum;
\* an operator who calls salesforce for it is compared with nobody.
OnlyDocumentsAttaches == "attach_content_version" \notin RootTool

\* What has answered stays.
LEMMA AnswersStay ==
    ASSUME Forward, NEW i, Answer(i) # {}
    PROVE  Answer(i)' # {}
  <1>1. PICK j \in Sent : calls[j].parent = i /\ calls[j].state = "ok"
    BY DEF Answer
  <1>2. Kept(j) /\ Moves(j) /\ j \in Sent'
    BY DEF Forward
  <1>3. calls'[j].parent = i /\ calls'[j].state = "ok"
    BY <1>1, <1>2 DEF Kept, Moves, Ended
  <1> QED
    BY <1>2, <1>3 DEF Answer

\* A writer that answers could as well have failed at it.
LEMMA WhoAnswersMayWrite ==
    ASSUME calls \in Seq(Call), ChainInv, NEW i \in Sent, Writes(i),
           Answers(i), AnswerCall(i) \/ Proceed(i)
    PROVE  MayHaveWritten(i)
  <1>1. i # 0
    BY Indices DEF Sent
  <1>2. \A j \in Answer(i) : Hop(j, i)
    BY <1>1 DEF Answer, ChainInv, HopInv, Root
  <1>3. CASE AnswerCall(i)
    BY <1>2, <1>3 DEF AnswerCall, Hop, MayHaveWritten, AtWork
  <1>4. CASE Proceed(i)
    <2>1. calls[i].tool = "create_quote"
      BY <1>2, <1>4, AskingTools DEF Proceed, Writes, Hop
    <2>2. ~Raise(i)
      <3>1. ASSUME Raise(i)
            PROVE  calls'[i].state = "failed"
        BY <3>1, BecomeForward DEF Raise, Answers, Ended
      <3>2. calls'[i].state = "ok"
        BY BecomeForward DEF Answers, Return
      <3> QED
        BY <3>1, <3>2
    <2> QED
      BY <1>4, <2>1, <2>2 DEF Proceed, MayHaveWritten, AtWork
  <1> QED
    BY <1>3, <1>4

\* A call that writes does so on good arguments.
LEMMA WhoWritesIsGranted ==
    ASSUME OnlyDocumentsAttaches, TypeOK, ChainInv, NEW i \in Sent, MayHaveWritten(i)
    PROVE  calls[i].good /\ (calls[i].tool = "create_quote" => Answer(i) # {})
  <1>1. CASE calls[i].tool \notin DOMAIN Asks
    <2>1. calls[i].tool = "attach_content_version"
      BY <1>1, AskingTools DEF MayHaveWritten, Writes
    <2>2. ~Root(i)
      BY <2>1 DEF ChainInv, RootInv, OnlyDocumentsAttaches
    <2>3. PICK p \in Sent : Hop(i, p)
      BY <2>2 DEF ChainInv, HopInv, Hop
    <2>4. calls[p].tool = "attach_proposal_to_opportunity"
      BY <2>1, <2>3, AskingTools DEF Hop
    <2> QED
      BY <2>1, <2>3, <2>4 DEF Hop, ChecksFirst
  <1>2. CASE calls[i].tool \in DOMAIN Asks
    <2>1. calls \in Seq(Call) /\ i # 0
      BY Indices DEF Sent, TypeOK
    <2>2. \A j \in Answer(i) : Hop(j, i)
      BY <2>1 DEF Answer, ChainInv, HopInv, Root
    <2>3. Answer(i) # {} /\ \A j \in Answer(i) : calls[j].good
      BY <1>2 DEF MayHaveWritten, AtWork
    <2> QED
      BY <2>2, <2>3 DEF Hop
  <1> QED
    BY <1>1, <1>2

\* A writer that gets no further has failed.
LEMMA WhoFailsHasFailed ==
    ASSUME calls \in Seq(Call), NEW i \in Sent, NEW s, WritesAndFails(i, s)
    PROVE  ~Ended(i) /\ calls'[i].state = "failed"
  <1>1. ~Ended(i)
    BY DEF WritesAndFails, MayHaveWritten, AtWork, Ended
  <1>2. CASE Fails(i)
    BY <1>1, <1>2, BecomeForward DEF Fails
  <1>3. CASE Crash(s)
    <2>1. calls'[i] = [calls[i] EXCEPT !.state = "failed"]
      BY <1>1, <1>3 DEF Crash, WritesAndFails
    <2>2. calls[i] \in Call
      BY Indices DEF Sent
    <2> QED
      BY <1>1, <2>1, <2>2 DEF Call
  <1> QED
    BY <1>1, <1>2, <1>3 DEF WritesAndFails

\* Every step keeps the account of the writes.
LEMMA WriteStep ==
    ASSUME OnlyDocumentsAttaches, TypeOK, ChainInv, WriteInv, [Next]_vars
    PROVE  WriteInv'
  <1>1. calls \in Seq(Call) /\ Forward
    BY StepAdds DEF TypeOK
  <1>2. ASSUME NEW i \in Sent,
               calls[i].good, calls[i].tool = "create_quote" => Answer(i) # {}
        PROVE  calls'[i].good /\ (calls'[i].tool = "create_quote" => Answer(i)' # {})
    BY <1>1, <1>2, AnswersStay DEF Forward, Kept
  <1>3. ASSUME NEW i \in written
        PROVE  /\ Ended(i)' /\ calls'[i].good
               /\ calls'[i].tool = "create_quote" => Answer(i)' # {}
    <2>1. i \in Sent
      BY DEF TypeOK
    <2>2. Ended(i)
      BY DEF WriteInv
    <2>3. Ended(i)'
      BY <1>1, <2>1, <2>2 DEF Forward, Moves, Ended
    <2> QED
      BY <1>2, <2>1, <2>3 DEF WriteInv
  <1>4. ASSUME NEW i \in Sent, Answers(i), Writes(i), AnswerCall(i) \/ Proceed(i)
        PROVE  /\ Ended(i)' /\ calls'[i].good
               /\ calls'[i].tool = "create_quote" => Answer(i)' # {}
    <2>1. Ended(i)'
      BY <1>1, <1>4, BecomeForward DEF Answers, Return, Ended
    <2> QED
      BY <1>1, <1>2, <1>4, <2>1, WhoAnswersMayWrite, WhoWritesIsGranted
  <1>5. ASSUME NEW i \in Sent, NEW s \in Service, WritesAndFails(i, s)
        PROVE  /\ Ended(i)' /\ calls'[i].good
               /\ calls'[i].tool = "create_quote" => Answer(i)' # {}
    <2>1. Ended(i)'
      BY <1>1, <1>5, WhoFailsHasFailed DEF Ended
    <2> QED
      BY <1>2, <1>5, <2>1, WhoWritesIsGranted DEF WritesAndFails
  <1> QED
    BY <1>3, <1>4, <1>5, StepWrites DEF WriteInv, WritesAndFails

\* What is written is accounted for by a call.
LEMMA WriteInvariant ==
    ASSUME OnlyDocumentsAttaches
    PROVE  Spec => []WriteInv
  <1>1. Init => WriteInv
    BY DEF Init, WriteInv
  <1>2. TypeOK /\ ChainInv /\ WriteInv /\ [Next]_vars => WriteInv'
    BY WriteStep
  <1> QED
    BY <1>1, <1>2, TypeCorrect, ChainInvariant, PTL DEF Spec

--------------------------------------------------------------------------------
(* What is written for a request that failed. *)

NewlyFailed(p) ==
    p \in Sent /\ calls[p].state # "failed" /\ calls'[p].state = "failed"

\* Calls that fail in one step fail in order, without a fault, or fail by
\* one, and then all in one server.
LEMMA StepFails ==
    ASSUME TypeOK, [Next]_vars, NEW p, NewlyFailed(p)
    PROVE  \/ FailsInOrder(p)
           \/ /\ ~Ended(p) /\ faults' = faults + 1
              /\ \A q : NewlyFailed(q) => At(q) = At(p)
  <1>1. calls \in Seq(Call) /\ p \in Sent
    BY DEF TypeOK, NewlyFailed
  <1>2. CASE UNCHANGED vars
    BY <1>2 DEF vars, NewlyFailed
  <1>3. ASSUME NEW tool \in RootTool, NEW good \in BOOLEAN,
               NEW header \in Chain \cup {NoId}, SendRoot(tool, good, header)
        PROVE  FALSE
    BY <1>1, <1>3, SendRootForward DEF NewlyFailed
  <1>4. ASSUME NEW i \in Sent, Handle(i) \/ CallRemote(i) \/ Answers(i)
        PROVE  FALSE
    <2>1. CASE Handle(i)
      BY <1>1, <2>1, HandleForward DEF NewlyFailed
    <2>2. CASE CallRemote(i)
      BY <1>1, <2>2, CallRemoteForward DEF NewlyFailed
    <2>3. CASE Answers(i)
      BY <1>1, <2>3, BecomeForward DEF NewlyFailed, Answers, Return
    <2> QED
      BY <1>4, <2>1, <2>2, <2>3
  <1>5. ASSUME NEW i \in Sent, Fails(i)
        PROVE  ~Ended(i) /\ \A q : NewlyFailed(q) => q = i
    BY <1>1, <1>5, BecomeForward DEF NewlyFailed, Fails
  <1>6. ASSUME NEW i \in Sent, FailsInOrder(i)
        PROVE  FailsInOrder(p)
    BY <1>5, <1>6 DEF FailsInOrder
  <1>7. ASSUME NEW i \in Sent, Refused(i) \/ WorkFails(i) \/ ConnectionLost(i)
        PROVE  /\ ~Ended(p) /\ faults' = faults + 1
               /\ \A q : NewlyFailed(q) => At(q) = At(p)
    <2>1. Fails(i) /\ faults' = faults + 1
      BY <1>7 DEF Refused, WorkFails, AtWork, ConnectionLost, Fails, Ended
    <2> QED
      BY <1>5, <2>1
  <1>8. ASSUME NEW s \in Service, Crash(s)
        PROVE  /\ ~Ended(p) /\ faults' = faults + 1
               /\ \A q : NewlyFailed(q) => At(q) = At(p)
    <2>1. faults' = faults + 1
      BY <1>8 DEF Crash
    <2>2. \A q : NewlyFailed(q) => At(q) = s
      BY <1>1, <1>8, CrashForward DEF NewlyFailed
    <2>3. ~Ended(p)
      BY <1>1, <1>8, CrashForward DEF NewlyFailed, Forward, Moves
    <2> QED
      BY <2>1, <2>2, <2>3
  <1>9. ASSUME NEW i \in Sent, Serve(i)
        PROVE  Handle(i) \/ CallRemote(i) \/ Answers(i) \/ FailsInOrder(i)
    BY <1>9, ServeKinds
  <1> QED
    BY <1>2, <1>3, <1>4, <1>6, <1>7, <1>8, <1>9 DEF Next

\* A step deserts the hop of a call that fails in it.
LEMMA WhatIsDeserted ==
    ASSUME TypeOK, ChainInv, [Next]_vars, NEW j \in Sent', Deserted(j)', ~Deserted(j)
    PROVE  \E p : /\ j \in Sent /\ p = calls[j].parent /\ p # 0 /\ Hop(j, p)
                  /\ Writes(j) /\ calls[j].state # "failed"
                  /\ NewlyFailed(p)
  <1>1. Forward
    BY StepAdds
  <1>2. PICK p : p = calls'[j].parent
    OBVIOUS
  <1>3. /\ j \in Sent' /\ p # 0 /\ Writes(j)' /\ calls'[j].state # "failed"
        /\ calls'[p].state = "failed"
    BY <1>2 DEF Deserted, Root
  <1>4. j \in Sent
    BY <1>2, <1>3, StepAdds DEF Fresh, NewRoot, NewHop
  <1>5. /\ calls[j].parent = p /\ Writes(j) /\ calls[j].state # "failed"
    BY <1>1, <1>2, <1>3, <1>4 DEF Forward, Kept, Moves, Ended, Writes
  <1>6. Hop(j, p)
    BY <1>3, <1>4, <1>5 DEF ChainInv, HopInv, Root
  <1>7. calls[p].state # "failed"
    BY <1>3, <1>4, <1>5 DEF Deserted, Root
  <1> QED
    BY <1>3, <1>4, <1>5, <1>6, <1>7 DEF NewlyFailed, Hop

\* A step undoes what it writes and fails at.
LEMMA WhatIsUndone ==
    ASSUME TypeOK, WriteInv, [Next]_vars, NEW j, Undone(j)', ~Undone(j)
    PROVE  \E s \in Service : j \in Sent /\ j \notin written /\ WritesAndFails(j, s)
  <1>1. calls \in Seq(Call) /\ Forward /\ written \subseteq Sent
    BY StepAdds DEF TypeOK
  <1>2. calls'[j].state = "failed" /\ j \in written'
    BY DEF Undone
  <1>3. j \notin written
    <2>1. ASSUME j \in written
          PROVE  calls[j].state = "ok" /\ j \in Sent
      BY <1>1, <2>1 DEF WriteInv, Undone, Ended
    <2> QED
      BY <1>1, <1>2, <2>1 DEF Forward, Moves, Ended
  <1>4. ~Answers(j) \/ j \notin Sent
    BY <1>1, <1>2, BecomeForward DEF Answers, Return
  <1> QED
    BY <1>2, <1>3, <1>4, StepWrites DEF WritesAndFails

\* A call just sent is nobody's orphan.
LEMMA NewIsNoOrphan ==
    ASSUME TypeOK, [Next]_vars, NEW k \in Sent', Deserted(k)' \/ Undone(k)'
    PROVE  k \in Sent
  <1>1. CASE Undone(k)'
    <2>1. k \in written' /\ written \subseteq Sent
      BY <1>1 DEF Undone, TypeOK
    <2>2. written' = written \/ \E i \in Sent : written' = written \cup {i}
      BY StepWrites DEF WritesAndFails
    <2> QED
      BY <2>1, <2>2
  <1>2. CASE Deserted(k)'
    <2>1. calls'[k].parent # 0 /\ calls'[calls'[k].parent].state = "failed"
      BY <1>2 DEF Deserted, Root
    <2> QED
      BY <2>1, StepAdds DEF Fresh, NewRoot, NewHop
  <1> QED
    BY <1>1, <1>2

\* Whoever is deserted, its caller was waiting for it, and fails by a fault:
\* what fails in order fails before it asks, with what it asked, or asked
\* pricing, which writes nothing.
LEMMA WhoDeserts ==
    ASSUME TypeOK, ChainInv, [Next]_vars, NEW k \in Sent', Deserted(k)', ~Deserted(k)
    PROVE  \E p : /\ k \in Sent /\ p = calls[k].parent /\ p # 0 /\ p \in Sent
                  /\ NewlyFailed(p) /\ calls[p].state = "waiting"
                  /\ calls[p].tool = "attach_proposal_to_opportunity"
                  /\ faults' = faults + 1
                  /\ \A q : NewlyFailed(q) => At(q) = At(p)
  <1>1. PICK p : /\ k \in Sent /\ p = calls[k].parent /\ p # 0 /\ Hop(k, p)
                 /\ Writes(k) /\ calls[k].state # "failed"
                 /\ NewlyFailed(p)
    BY WhatIsDeserted
  <1>2. calls[p].tool = "attach_proposal_to_opportunity"
    BY <1>1, AskingTools DEF Hop, Writes
  <1>3. ~FailsInOrder(p)
    <2>1. calls[p].state # "running"
      BY <1>1 DEF Hop
    <2>2. \A i \in Sent : calls[i].parent = p => calls[i].state # "failed"
      BY <1>1 DEF ChainInv, OneHop, Root
    <2> QED
      BY <1>2, <2>1, <2>2 DEF FailsInOrder
  <1>4. /\ ~Ended(p) /\ faults' = faults + 1
        /\ \A q : NewlyFailed(q) => At(q) = At(p)
    BY <1>1, <1>3, StepFails
  <1>5. calls[p].state = "waiting"
    <2>1. calls[p].state \in State
      BY <1>1, Indices, CallFields DEF Hop, Sent, TypeOK
    <2> QED
      BY <1>1, <1>4, <2>1 DEF Hop, Ended, State
  <1> QED
    BY <1>1, <1>2, <1>4, <1>5 DEF Hop

\* A server that dies or fails was waiting for one call: one is deserted.
LEMMA OneIsDeserted ==
    ASSUME TypeOK, ChainInv, LoopOne, [Next]_vars,
           NEW j \in Sent', Deserted(j)', ~Deserted(j),
           NEW k \in Sent', Deserted(k)', ~Deserted(k)
    PROVE  k = j
  <1>1. PICK p : /\ j \in Sent /\ p = calls[j].parent /\ p # 0 /\ p \in Sent
                 /\ NewlyFailed(p) /\ calls[p].state = "waiting"
                 /\ \A q : NewlyFailed(q) => At(q) = At(p)
    BY WhoDeserts
  <1>2. PICK q : /\ k \in Sent /\ q = calls[k].parent /\ q \in Sent
                 /\ NewlyFailed(q) /\ calls[q].state = "waiting"
    BY WhoDeserts
  <1>3. q = p
    BY <1>1, <1>2 DEF LoopOne
  <1> QED
    BY <1>1, <1>2, <1>3 DEF ChainInv, OneHop, Root

\* A writer works at salesforce, and what it writes and fails at is one.
LEMMA OneIsUndone ==
    ASSUME TypeOK, ChainInv, WriteInv, [Next]_vars, NEW j, Undone(j)', ~Undone(j)
    PROVE  /\ faults' = faults + 1
           /\ \A k : Undone(k)' /\ ~Undone(k) => k = j
           /\ \A k \in Sent' : Deserted(k)' => Deserted(k)
  <1>1. PICK s \in Service : j \in Sent /\ j \notin written /\ WritesAndFails(j, s)
    BY WhatIsUndone
  <1>2. ASSUME NEW k, Undone(k)', ~Undone(k)
        PROVE  k = j
    <2>1. k \notin written /\ k \in written'
      BY <1>2, WhatIsUndone DEF Undone
    <2> QED
      BY <1>1, <2>1 DEF WritesAndFails
  <1>3. ASSUME NEW k \in Sent', Deserted(k)', ~Deserted(k)
        PROVE  FALSE
    <2>1. PICK p : /\ calls[p].tool = "attach_proposal_to_opportunity"
                   /\ \A q : NewlyFailed(q) => At(q) = At(p)
      BY <1>3, WhoDeserts
    <2>2. NewlyFailed(j)
      BY <1>1, WhoFailsHasFailed DEF NewlyFailed, Ended, TypeOK
    <2>3. At(p) = "documents"
      BY <2>1 DEF At, ServiceOf
    <2>4. Writes(j)
      BY <1>1 DEF WritesAndFails, MayHaveWritten
    <2>5. At(j) = "salesforce"
      BY <2>4 DEF At, ServiceOf, Writes
    <2> QED
      BY <2>1, <2>2, <2>3, <2>5
  <1> QED
    BY <1>1, <1>2, <1>3 DEF WritesAndFails

\* A step orphans one call at most, and not without a fault.
LEMMA OneIsOrphaned ==
    ASSUME TypeOK, ChainInv, WriteInv, LoopOne, [Next]_vars,
           NEW j \in Orphans', j \notin Orphans
    PROVE  /\ faults' = faults + 1
           /\ \A k \in Orphans' : k \notin Orphans => k = j
  <1>1. /\ j \in Sent' /\ (Deserted(j)' \/ Undone(j)')
        /\ \A k \in Orphans' : k \in Sent' /\ (Deserted(k)' \/ Undone(k)')
    BY DEF Orphans
  <1>2. \A k : k \notin Orphans => (k \notin Sent \/ (~Deserted(k) /\ ~Undone(k)))
    BY DEF Orphans
  <1>3. ASSUME NEW k \in Orphans', k \notin Orphans
        PROVE  /\ k \in Sent' /\ ~Deserted(k) /\ ~Undone(k)
               /\ Deserted(k)' \/ Undone(k)'
    <2>1. k \in Sent
      BY <1>1, <1>3, NewIsNoOrphan
    <2> QED
      BY <1>1, <1>2, <1>3, <2>1
  <1>4. CASE Undone(j)'
    BY <1>3, <1>4, OneIsUndone
  <1>5. CASE Deserted(j)'
    <2>1. faults' = faults + 1
      BY <1>3, <1>5, WhoDeserts
    <2>2. ASSUME NEW k \in Orphans', k \notin Orphans
          PROVE  k = j
      <3>1. CASE Deserted(k)'
        BY <1>3, <1>5, <2>2, <3>1, OneIsDeserted
      <3>2. CASE Undone(k)'
        BY <1>3, <1>5, <2>2, <3>2, OneIsUndone
      <3> QED
        BY <1>3, <2>2, <3>1, <3>2
    <2> QED
      BY <2>1, <2>2
  <1> QED
    BY <1>1, <1>4, <1>5

\* No step leaves a call without its answer but by a fault.
LEMMA OrphanStep ==
    ASSUME TypeOK, ChainInv, WriteInv, LoopOne, OrphanInv, [Next]_vars
    PROVE  OrphanInv'
  <1>1. PICK O : O = Orphans
    OBVIOUS
  <1>2. PICK P : P = Orphans'
    OBVIOUS
  <1>3. IsFiniteSet(O) /\ Cardinality(O) \in Nat /\ Cardinality(O) <= faults
    BY <1>1, FiniteCalls, FS_Subset, FS_CardinalityType DEF Orphans, OrphanInv, TypeOK
  <1>4. faults \in Nat /\ faults' \in Nat /\ faults' >= faults
    BY StepFaults, ServiceCallsAssumption DEF TypeOK
  <1>5. CASE P \subseteq O
    <2>1. Cardinality(P) <= Cardinality(O) /\ Cardinality(P) \in Nat
      BY <1>3, <1>5, FS_Subset, FS_CardinalityType
    <2> QED
      BY <1>2, <1>3, <1>4, <2>1 DEF OrphanInv
  <1>6. ASSUME NEW j \in P, j \notin O
        PROVE  OrphanInv'
    <2>1. faults' = faults + 1 /\ P \subseteq O \cup {j}
      BY <1>1, <1>2, <1>6, OneIsOrphaned
    <2>2. PICK R : R = O \cup {j}
      OBVIOUS
    <2>3. IsFiniteSet(R) /\ Cardinality(R) = Cardinality(O) + 1
      BY <1>3, <1>6, <2>2, FS_AddElement
    <2>4. Cardinality(P) <= Cardinality(R) /\ Cardinality(P) \in Nat
      BY <2>1, <2>2, <2>3, FS_Subset, FS_CardinalityType
    <2> QED
      BY <1>2, <1>3, <1>4, <2>1, <2>3, <2>4 DEF OrphanInv
  <1> QED
    BY <1>5, <1>6

\* There are no more calls without an answer than faults.
LEMMA OrphanInvariant ==
    ASSUME OnlyDocumentsAttaches
    PROVE  Spec => []OrphanInv
  <1>1. Init => OrphanInv
    <2> SUFFICES ASSUME Init PROVE OrphanInv
      OBVIOUS
    <2>1. Orphans = {} /\ faults = 0
      BY DEF Init, Orphans, Sent
    <2> QED
      BY <2>1, FS_EmptySet DEF OrphanInv
  <1>2. TypeOK /\ ChainInv /\ WriteInv /\ LoopOne /\ OrphanInv /\ [Next]_vars
            => OrphanInv'
    BY OrphanStep
  <1> QED
    BY <1>1, <1>2, TypeCorrect, ChainInvariant, WriteInvariant, LoopOneInvariant, PTL DEF Spec

\* What is written was asked for and granted, and a request that failed has
\* written nothing, unless an answer was lost, the org failed or a server
\* died: then one quote or file at most for each of these.
THEOREM WritesAreAccountedTheorem ==
    ASSUME OnlyDocumentsAttaches
    PROVE  Spec => []WritesAreAccounted
  <1>1. TypeOK /\ ChainInv /\ WriteInv /\ OrphanInv => WritesAreAccounted
    <2> SUFFICES ASSUME TypeOK, ChainInv, WriteInv, OrphanInv
                 PROVE  WritesAreAccounted
      OBVIOUS
    <2>1. PICK F : F = {i \in written : calls[RootOf(i)].state = "failed"}
      OBVIOUS
    <2>2. F \subseteq Orphans
      <3> SUFFICES ASSUME NEW i \in F
                   PROVE  i \in Orphans
        OBVIOUS
      <3>1. i \in Sent /\ Writes(i) /\ i \in written /\ calls[RootOf(i)].state = "failed"
        BY <2>1 DEF TypeOK
      <3>2. CASE calls[i].state = "failed"
        BY <3>1, <3>2 DEF Orphans, Undone
      <3>3. CASE calls[i].state # "failed"
        BY <3>1, <3>3 DEF Orphans, Deserted, RootOf
      <3> QED
        BY <3>2, <3>3
    <2>3. IsFiniteSet(Orphans) /\ Cardinality(Orphans) \in Nat
      BY FiniteCalls, FS_Subset, FS_CardinalityType DEF Orphans, TypeOK
    <2>4. Cardinality(F) <= Cardinality(Orphans) /\ Cardinality(F) \in Nat
      BY <2>2, <2>3, FS_Subset, FS_CardinalityType
    <2>5. Cardinality(F) <= faults
      <3>1. faults \in Nat /\ Cardinality(Orphans) <= faults
        BY ServiceCallsAssumption DEF TypeOK, OrphanInv
      <3> QED
        BY <2>3, <2>4, <3>1
    <2> QED
      BY <2>1, <2>5 DEF WritesAreAccounted, WriteInv
  <1> QED
    BY <1>1, TypeCorrect, ChainInvariant, WriteInvariant, OrphanInvariant, PTL

================================================================================
