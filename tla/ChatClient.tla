-------------------------------- MODULE ChatClient --------------------------------
(***************************************************************************)
(* The chat on the Opportunity record page: the component dealPilotAgent,  *)
(* its Apex bridge DealPilotAgentController, and the sessions and turns of *)
(* the agent backend behind it.                                            *)
(*                                                                         *)
(* The component gates its buttons by "loading" and awaits one Apex call   *)
(* after the other; an Apex call is a callout with a timeout (start makes  *)
(* two).  When it times out the turn behind it goes on.  The backend keeps *)
(* its sessions in memory.  The status rail is left out; that the          *)
(* component waits for its refresh is not.                                 *)
(***************************************************************************)
EXTENDS Naturals, FiniteSets, SequencesExt

CONSTANTS MaxTurns,     \* bound on the starts and messages of the seller
          MaxTimeouts,  \* bound on callouts that time out
          MaxFailures   \* bound on failed callouts and backend restarts

ASSUME ChatClientAssumption ==
    MaxTurns \in Nat /\ MaxTimeouts \in Nat /\ MaxFailures \in Nat

VARIABLES started, loading,
          session,      \* sessionId; 0 while undefined
          shown,        \* messages: <<author, turn>>
          js,           \* what the component awaits
          apex,         \* where the Apex call is
          on, turn,     \* the session and the turn it is about
          log,          \* the events of each session ever created
          alive,        \* the sessions the backend still has
          running,      \* the turns the backend works on: <<session, turn>>
          turns,        \* history: turns begun
          timeouts, failures

component == <<started, loading, session, shown, js>>
bridge == <<apex, on, turn>>
backend == <<log, alive, running>>
counters == <<turns, timeouts, failures>>
vars == <<component, bridge, backend, counters>>

--------------------------------------------------------------------------------
Init ==
    /\ started = FALSE /\ loading = FALSE /\ session = 0 /\ shown = <<>>
    /\ js = "idle" /\ apex = "none" /\ on = 0 /\ turn = 0
    /\ log = <<>> /\ alive = {} /\ running = {}
    /\ turns = 0 /\ timeouts = 0 /\ failures = 0

--------------------------------------------------------------------------------
(* The component. *)

\* Faulty variants, named after the definition they could stand for, exist
\* only to show that the properties notice them.
StartDisabled == loading \/ started

SendDisabled_StartedOnly == ~started

\* With a draft to send: sendDisabled, which the Enter key asks too.
SendDisabled == loading \/ ~started

Begin(call) ==
    /\ turns < MaxTurns /\ turns' = turns + 1
    /\ turn' = turns + 1
    /\ loading' = TRUE /\ js' = call

HandleStart ==
    /\ ~StartDisabled
    /\ Begin("starting")
    /\ apex' = "create"
    /\ UNCHANGED <<started, session, shown, on, backend, timeouts, failures>>

\* The message is shown before it is sent.
HandleSend ==
    /\ ~SendDisabled
    /\ Begin("sending")
    /\ shown' = Append(shown, <<"seller", turns + 1>>)
    /\ apex' = "request" /\ on' = session
    /\ UNCHANGED <<started, session, backend, timeouts, failures>>

\* The call returned: a start keeps the session, the reply is shown, and the
\* status refreshed before the buttons come back.
CallReturns ==
    /\ apex = "ok"
    /\ IF js = "starting" THEN session' = on /\ started' = TRUE
                          ELSE UNCHANGED <<session, started>>
    /\ shown' = Append(shown, <<"agent", turn>>)
    /\ js' = "refreshing" /\ apex' = "none"
    /\ UNCHANGED <<loading, on, turn, backend, counters>>

CallFails_NoFinally ==
    /\ apex = "failed"
    /\ js' = "idle" /\ apex' = "none"
    /\ UNCHANGED <<started, loading, session, shown, on, turn, backend, counters>>

\* catch: a toast.  finally: loading ends.
CallFails ==
    /\ apex = "failed"
    /\ js' = "idle" /\ loading' = FALSE /\ apex' = "none"
    /\ UNCHANGED <<started, session, shown, on, turn, backend, counters>>

\* refreshStatus came back; its errors are swallowed.
Refreshed ==
    /\ js = "refreshing"
    /\ js' = "idle" /\ loading' = FALSE
    /\ UNCHANGED <<started, session, shown, bridge, backend, counters>>

--------------------------------------------------------------------------------
(* The bridge and the backend. *)

\* createSession, the first callout of startConversation.
CreateSession ==
    /\ apex = "create"
    /\ log' = Append(log, <<>>)
    /\ alive' = alive \cup {Len(log) + 1}
    /\ on' = Len(log) + 1
    /\ apex' = "request"
    /\ UNCHANGED <<component, turn, running, counters>>

CreateTimesOut ==
    /\ apex = "create"
    /\ timeouts < MaxTimeouts /\ timeouts' = timeouts + 1
    /\ apex' = "failed"
    /\ \/ UNCHANGED <<log, alive>>
       \/ log' = Append(log, <<>>) /\ alive' = alive \cup {Len(log) + 1}
    /\ UNCHANGED <<component, on, turn, running, turns, failures>>

RunTurn_AnySession ==
    /\ apex = "request"
    /\ log' = [log EXCEPT ![on] = Append(@, <<"seller", turn>>)]
    /\ running' = running \cup {<<on, turn>>}
    /\ apex' = "run"
    /\ UNCHANGED <<component, on, turn, alive, counters>>

\* runTurn: the backend has the session, notes the message and works on it.
RunTurn ==
    /\ apex = "request"
    /\ on \in alive
    /\ log' = [log EXCEPT ![on] = Append(@, <<"seller", turn>>)]
    /\ running' = running \cup {<<on, turn>>}
    /\ apex' = "run"
    /\ UNCHANGED <<component, on, turn, alive, counters>>

\* The backend does not know the session: an HTTP error.
SessionNotFound ==
    /\ apex = "request"
    /\ on \notin alive
    /\ apex' = "failed"
    /\ UNCHANGED <<component, on, turn, backend, counters>>

FinishTurn_AnyCallout(t) ==
    /\ t \in running
    /\ log' = [log EXCEPT ![t[1]] = Append(@, <<"agent", t[2]>>)]
    /\ running' = running \ {t}
    /\ apex' = IF apex = "run" THEN "ok" ELSE apex
    /\ UNCHANGED <<component, on, turn, alive, counters>>

\* The reply is noted, and answers the callout if that still waits for it.
FinishTurn(t) ==
    /\ t \in running
    /\ log' = [log EXCEPT ![t[1]] = Append(@, <<"agent", t[2]>>)]
    /\ running' = running \ {t}
    /\ apex' = IF apex = "run" /\ t = <<on, turn>> THEN "ok" ELSE apex
    /\ UNCHANGED <<component, on, turn, alive, counters>>

\* The turn raises; the callout gets an HTTP error if it still waits.
TurnFails(t) ==
    /\ t \in running
    /\ failures < MaxFailures /\ failures' = failures + 1
    /\ running' = running \ {t}
    /\ apex' = IF apex = "run" /\ t = <<on, turn>> THEN "failed" ELSE apex
    /\ UNCHANGED <<component, on, turn, log, alive, turns, timeouts>>

\* CALLOUT_TIMEOUT_MS have passed: the Apex call throws; a turn that began
\* goes on.
TurnTimesOut ==
    /\ apex \in {"request", "run"}
    /\ timeouts < MaxTimeouts /\ timeouts' = timeouts + 1
    /\ apex' = "failed"
    /\ UNCHANGED <<component, on, turn, backend, turns, failures>>

\* The container restarts: sessions and turns are gone, callouts fail.
Restart ==
    /\ failures < MaxFailures /\ failures' = failures + 1
    /\ alive' = {} /\ running' = {}
    /\ apex' = IF apex \in {"create", "request", "run"} THEN "failed" ELSE apex
    /\ UNCHANGED <<component, on, turn, log, turns, timeouts>>

--------------------------------------------------------------------------------
Answer ==
    \/ CreateSession \/ CreateTimesOut
    \/ RunTurn \/ SessionNotFound
    \/ FinishTurn(<<on, turn>>) \/ TurnFails(<<on, turn>>) \/ TurnTimesOut

Next ==
    \/ HandleStart \/ HandleSend
    \/ CallReturns \/ CallFails \/ Refreshed
    \/ CreateSession \/ CreateTimesOut
    \/ RunTurn \/ SessionNotFound
    \/ \E t \in running : FinishTurn(t) \/ TurnFails(t)
    \/ TurnTimesOut \/ Restart

Spec == Init /\ [][Next]_vars

\* A callout is answered, fails or times out, and the component goes on from
\* there; nobody is obliged to start or to send.
FairSpec ==
    /\ Spec
    /\ WF_vars(Answer)
    /\ WF_vars(CallReturns) /\ WF_vars(CallFails) /\ WF_vars(Refreshed)

--------------------------------------------------------------------------------
(* Properties. *)

Event == {"seller", "agent"} \X (1..MaxTurns)

\* Every variable has its type.
TypeOK ==
    /\ started \in BOOLEAN /\ loading \in BOOLEAN
    /\ session \in 0..Len(log) /\ on \in 0..Len(log) /\ turn \in 0..turns
    /\ shown \in Seq(Event) /\ log \in Seq(Seq(Event))
    /\ js \in {"idle", "starting", "sending", "refreshing"}
    /\ apex \in {"none", "create", "request", "run", "ok", "failed"}
    /\ alive \subseteq 1..Len(log) /\ running \subseteq alive \X (1..turns)
    /\ turns \in 0..MaxTurns /\ timeouts \in 0..MaxTimeouts /\ failures \in 0..MaxFailures

\* The seller drives one turn at a time: the backend works on two only if
\* the callout of the first timed out.
OneTurnAtATime == Cardinality(running) <= 1 + timeouts

\* When callouts fail and time out, a reply shown is a reply of the
\* seller's session, and stands under the message it replies to: the late
\* reply of an abandoned turn never appears under another message.
RepliesBelong ==
    \A i \in 1..Len(shown) :
        shown[i][1] = "agent" =>
            /\ session # 0 /\ Contains(log[session], shown[i])
            /\ i = 1 \/ shown[i - 1] = <<"seller", shown[i][2]>>

\* The buttons always come back.
LoadingEnds == loading ~> ~loading
================================================================================
