------------------------------ MODULE MCLiveUpdate ------------------------------
(* An instance of LiveUpdate for TLC: one opportunity and its account. *)
EXTENDS LiveUpdate

CONSTANTS o1, a1

OneAccount == [o \in Opportunity |-> a1]
================================================================================
