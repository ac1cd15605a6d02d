--------------------------- MODULE MCOpportunityStore ---------------------------
(* Instances of OpportunityStore for TLC. *)
EXTENDS OpportunityStore

CONSTANTS c1, c2, o1, budget, residency, amount, yes, no

\* One field or two at once, a field with two values, one not writable.
MCOffered == {budget :> yes, budget :> no, (budget :> no) @@ (residency :> yes), amount :> yes}

\* One server.py over HTTP, or the one process of the agents.
OneProcess == [c \in Caller |-> "server"]
================================================================================
