------------------------------ MODULE ServiceCalls ------------------------------
(***************************************************************************)
(* Calls between the deployed services: documents asks salesforce, and     *)
(* salesforce asks pricing, over MCP on HTTP.                              *)
(*                                                                         *)
(* A tool is a plain function in its server's event loop, and waits there  *)
(* for the thread that makes the remote call: a server that waits serves   *)
(* nobody.  A caller that breaks off does not stop the server it called.   *)
(* Every handler logs the correlation id it was sent, or a new one, and    *)
(* sends it on.  What a tool computes is reduced to whether its arguments  *)
(* are good: a signature that verifies, a checksum that matches, a quote   *)
(* that exists.                                                            *)
(***************************************************************************)
EXTENDS Naturals, Sequences, FiniteSets

CONSTANTS RootTool,    \* the tools an operator calls
          Chain,       \* correlation ids an operator sends along, none a minted one
          MaxRoots,    \* bound on the calls of operators
          MaxFaults    \* bound on lost answers, refused tokens, failures, crashes

VARIABLES calls,    \* every call, in the order they are sent
          written,  \* the calls that wrote a quote or a file
          faults

vars == <<calls, written, faults>>

--------------------------------------------------------------------------------
ServiceOf == [create_quote |-> "salesforce", get_quote_by_id |-> "salesforce",
              attach_content_version |-> "salesforce",
              create_proposal_draft |-> "documents",
              attach_proposal_to_opportunity |-> "documents",
              verify_quote_signature |-> "pricing"]

Tool == DOMAIN ServiceOf
Service == {ServiceOf[t] : t \in Tool}

ASSUME ServiceCallsAssumption ==
    /\ RootTool \subseteq Tool
    /\ MaxRoots \in Nat /\ MaxFaults \in Nat
    /\ Chain \subseteq Nat /\ \A id \in Chain : id > 2 * MaxRoots

\* Faulty variants, named after the definition they could stand for, exist
\* only to show that the properties notice them.
Asks_Back == [create_quote |-> "verify_quote_signature",
              create_proposal_draft |-> "get_quote_by_id",
              attach_proposal_to_opportunity |-> "attach_content_version",
              verify_quote_signature |-> "get_quote_by_id"]

\* The tools that make a remote call, and what they ask for.
Asks == [create_quote |-> "verify_quote_signature",
         create_proposal_draft |-> "get_quote_by_id",
         attach_proposal_to_opportunity |-> "attach_content_version"]

NoId == 0
State == {"sent", "running", "waiting", "ok", "failed"}
Call == [tool : Tool, good : BOOLEAN, header : Nat, id : Nat, parent : Nat, state : State]

Sent == DOMAIN calls
Root(i) == calls[i].parent = 0
At(i) == ServiceOf[calls[i].tool]
Ended(i) == calls[i].state \in {"ok", "failed"}
Answer(i) == {j \in Sent : calls[j].parent = i /\ calls[j].state = "ok"}

NewCall(tool, good, header, parent) ==
    [tool |-> tool, good |-> good, header |-> header, id |-> NoId,
     parent |-> parent, state |-> "sent"]

Init == calls = <<>> /\ written = {} /\ faults = 0

Become(i, state) == calls' = [calls EXCEPT ![i].state = state]

\* Nothing is running or waiting in the server's loop.
LoopFree(s) == \A j \in Sent : At(j) = s => calls[j].state \notin {"running", "waiting"}

--------------------------------------------------------------------------------
\* An operator, trusted by every service, with or without an id.
SendRoot(tool, good, header) ==
    /\ Cardinality({i \in Sent : Root(i)}) < MaxRoots
    /\ calls' = Append(calls, NewCall(tool, good, header, 0))
    /\ UNCHANGED <<written, faults>>

CorrelationId_HeaderOnly(i) == calls[i].header

\* correlation_id_from: the id sent, or a fresh one; i stands for uuid4.
CorrelationId(i) == IF calls[i].header = NoId THEN i ELSE calls[i].header

\* The handler starts: it logs its call.
Handle(i) ==
    /\ calls[i].state = "sent"
    /\ LoopFree(At(i))
    /\ calls' = [calls EXCEPT ![i].state = "running", ![i].id = CorrelationId(i)]
    /\ UNCHANGED <<written, faults>>

\* No id token could be minted: 403 before the server sees the call.
Refused(i) ==
    /\ calls[i].state = "sent" /\ ~Root(i)
    /\ faults < MaxFaults /\ faults' = faults + 1
    /\ Become(i, "failed")
    /\ UNCHANGED written

\* attach_proposal compares the checksum before it asks for anything.
ChecksFirst(i) == calls[i].tool = "attach_proposal_to_opportunity" /\ ~calls[i].good

CallRemote_NoHeader(i) ==
    /\ calls[i].state = "running"
    /\ calls[i].tool \in DOMAIN Asks /\ ~ChecksFirst(i)
    /\ calls' = Append([calls EXCEPT ![i].state = "waiting"],
                       NewCall(Asks[calls[i].tool], calls[i].good, NoId, i))
    /\ UNCHANGED <<written, faults>>

CallRemote(i) ==
    /\ calls[i].state = "running"
    /\ calls[i].tool \in DOMAIN Asks /\ ~ChecksFirst(i)
    /\ calls' = Append([calls EXCEPT ![i].state = "waiting"],
                       NewCall(Asks[calls[i].tool], calls[i].good, calls[i].id, i))
    /\ UNCHANGED <<written, faults>>

RefuseDocument(i) ==
    /\ calls[i].state = "running" /\ ChecksFirst(i)
    /\ Become(i, "failed")
    /\ UNCHANGED <<written, faults>>

Writes(i) == calls[i].tool \in {"create_quote", "attach_content_version"}

\* The handler returns; a tool that writes has written.
Return(i) ==
    /\ Become(i, "ok")
    /\ written' = IF Writes(i) THEN written \cup {i} ELSE written
    /\ UNCHANGED faults

Raise(i) == Become(i, "failed") /\ UNCHANGED <<written, faults>>

\* A tool that asks nobody.  get_quote_by_id raises for a quote there is
\* not; verify_quote_signature answers false to what does not verify, or
\* raises when a field is no number; attach_content_version takes the text
\* as given.
AnswerCall(i) ==
    /\ calls[i].state = "running" /\ calls[i].tool \notin DOMAIN Asks
    /\ \/ /\ calls[i].tool = "get_quote_by_id" => calls[i].good
          /\ Return(i)
       \/ /\ calls[i].tool \in {"get_quote_by_id", "verify_quote_signature"}
          /\ ~calls[i].good
          /\ Raise(i)

Proceed_AnyVerdict(i) ==
    /\ calls[i].state = "waiting" /\ Answer(i) # {}
    /\ Return(i)

\* The answer is there: create_quote wants it true.
Proceed(i) ==
    /\ calls[i].state = "waiting" /\ Answer(i) # {}
    /\ IF calls[i].tool = "create_quote" /\ \E j \in Answer(i) : ~calls[j].good
       THEN Raise(i) ELSE Return(i)

\* All there is to ask is answered: what is left is the handler's own work.
AtWork(i) ==
    \/ calls[i].state = "running" /\ calls[i].tool \notin DOMAIN Asks
    \/ calls[i].state = "waiting" /\ Answer(i) # {}

\* What the org may have when a writer at work gets no further.
MayHaveWritten(i) ==
    Writes(i) /\ AtWork(i) /\ \A j \in Answer(i) : calls[j].good

\* The org, its session or the ledger fails the handler, for a writer maybe
\* after the org has done it.
WorkFails(i) ==
    /\ AtWork(i)
    /\ faults < MaxFaults /\ faults' = faults + 1
    /\ Become(i, "failed")
    /\ \/ UNCHANGED written
       \/ MayHaveWritten(i) /\ written' = written \cup {i}

\* isError, or an HTTP error: RuntimeError in the caller.
RemoteFailed(i) ==
    /\ calls[i].state = "waiting"
    /\ \E j \in Sent : calls[j].parent = i /\ calls[j].state = "failed"
    /\ Raise(i)

\* The connection breaks or its read times out; the other end goes on.
ConnectionLost(i) ==
    /\ calls[i].state = "waiting"
    /\ faults < MaxFaults /\ faults' = faults + 1
    /\ Become(i, "failed")
    /\ UNCHANGED written

\* A container dies with all it was asked, in or after a write of its.
Crash(s) ==
    /\ \E i \in Sent : At(i) = s /\ ~Ended(i)
    /\ faults < MaxFaults /\ faults' = faults + 1
    /\ calls' = [i \in Sent |-> IF At(i) = s /\ ~Ended(i)
                                THEN [calls[i] EXCEPT !.state = "failed"] ELSE calls[i]]
    /\ \/ UNCHANGED written
       \/ \E i \in Sent : At(i) = s /\ MayHaveWritten(i) /\ written' = written \cup {i}

Serve(i) ==
    \/ Handle(i) \/ CallRemote(i) \/ RefuseDocument(i)
    \/ AnswerCall(i) \/ Proceed(i) \/ RemoteFailed(i)

Next ==
    \/ \E tool \in RootTool, good \in BOOLEAN, header \in Chain \cup {NoId} :
            SendRoot(tool, good, header)
    \/ \E i \in Sent : Serve(i) \/ Refused(i) \/ WorkFails(i) \/ ConnectionLost(i)
    \/ \E s \in Service : Crash(s)

Spec == Init /\ [][Next]_vars

\* A server goes on with what it can go on with.
FairSpec == Spec /\ WF_vars(\E i \in Sent : Serve(i))

--------------------------------------------------------------------------------
(* Properties. *)

\* Every variable has its type; a parent is an earlier call, a handler at
\* work has logged an id, and only tools that write have written.
TypeOK ==
    /\ calls \in Seq(Call)
    /\ \A i \in Sent :
          /\ calls[i].parent < i
          /\ calls[i].state \in {"running", "waiting", "ok"} => calls[i].id # NoId
    /\ written \subseteq {i \in Sent : Writes(i)}
    /\ faults \in 0..MaxFaults

Logged == {i \in Sent : calls[i].id # NoId}

\* One search finds the hops of a request and no other request: a remote
\* call logs the id its caller logged, also after crashes and retries, and
\* two requests share an id only if the operator sent it with both.
OneChainOneId ==
    \A i, j \in Logged :
        /\ calls[j].parent = i => calls[j].id = calls[i].id
        /\ Root(i) /\ Root(j) /\ i # j /\ calls[i].id = calls[j].id
               => calls[i].header = calls[i].id /\ calls[j].header = calls[j].id

\* The call an operator made, behind i.
RootOf(i) == IF Root(i) THEN i ELSE calls[i].parent

\* What is written was asked for and granted: no quote without a verdict of
\* pricing on it, no file whose checksum documents did not match; and a
\* request that failed has written nothing, unless an answer was lost, the
\* org failed or a server died on its way: only then does repeating it
\* write twice.
WritesAreAccounted ==
    /\ \A i \in written :
          calls[i].good /\ (calls[i].tool = "create_quote" => Answer(i) # {})
    /\ Cardinality({i \in written : calls[RootOf(i)].state = "failed"}) <= faults

\* Servers that wait for each other never wait for ever: the calls under way
\* all end.
EveryCallEnds == LET AllEnded == \A i \in Sent : Ended(i) IN ~AllEnded ~> AllEnded
================================================================================
