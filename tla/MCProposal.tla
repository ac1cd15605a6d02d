------------------------------- MODULE MCProposal -------------------------------
(* Instances of Proposal for TLC. *)
EXTENDS Proposal, TLC

CONSTANTS p1, p2,      \* conversations
          q1, q2,      \* quotes
          mail, note   \* evidence

\* Both conversations are in one process, with one lock.
OneProcess == [a \in Agent |-> "agents"]

Conversations == Permutations(Agent)
================================================================================
