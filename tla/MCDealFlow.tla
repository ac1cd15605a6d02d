------------------------------- MODULE MCDealFlow -------------------------------
(* Instances of DealFlow for TLC. *)
EXTENDS DealFlow, TLC

CONSTANTS s1, s2, a1, a2, k1, k2

\* Ids are alike and so are sellers; the properties are invariants.
Alike == Permutations({s1, s2}) \cup Permutations(ApprovalId) \cup Permutations(TokenId)
================================================================================
