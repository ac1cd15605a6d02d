----------------------------- MODULE MCApprovalStore -----------------------------
(* Instances of ApprovalStore for TLC. *)
EXTENDS ApprovalStore

CONSTANTS s1, s2,   \* agents
          d1, d2,   \* deciders
          r1, r2, r3, \* approvals
          q1        \* quotes

\* One process, one lock.
OneProcess == [c \in Client |-> "agents"]
================================================================================
