---------------------------- MODULE ApprovalDecision ----------------------------
(***************************************************************************)
(* What mcp-services/approval promises: a request waits until somebody     *)
(* decides it, the first decision is the decision, and whoever read it may *)
(* rely on it.  A crash can lose requests; it cannot change one.           *)
(***************************************************************************)
CONSTANTS ApprovalId, Decision, Reader

VARIABLES status,   \* the life of each request
          seen      \* the decided requests each reader knows: <<id, decision>>

vars == <<status, seen>>

Life == {"none", "PENDING", "lost"} \cup Decision

TypeOK ==
    /\ status \in [ApprovalId -> Life]
    /\ seen \in [Reader -> SUBSET (ApprovalId \X Decision)]

Init ==
    /\ status = [a \in ApprovalId |-> "none"]
    /\ seen = [r \in Reader |-> {}]

Become(a, from, to) ==
    /\ status[a] = from
    /\ status' = [status EXCEPT ![a] = to]
    /\ UNCHANGED seen

Request(a) == Become(a, "none", "PENDING")

Decide(a, d) == Become(a, "PENDING", d)

Read(r, a) ==
    /\ status[a] \in Decision
    /\ seen' = [seen EXCEPT ![r] = @ \cup {<<a, status[a]>>}]
    /\ UNCHANGED status

Lose ==
    /\ status' = [a \in ApprovalId |-> IF status[a] = "none" THEN "none" ELSE "lost"]
    /\ UNCHANGED seen

Next ==
    \/ \E a \in ApprovalId : Request(a) \/ \E d \in Decision : Decide(a, d)
    \/ \E r \in Reader, a \in ApprovalId : Read(r, a)
    \/ Lose

Spec == Init /\ [][Next]_vars
================================================================================
