------------------------------ MODULE MCQuoteDraft ------------------------------
(* Instances of QuoteDraft for TLC: a restricted and a free bundle at a thousandth of their *)
(* catalogue prices; discounts at the threshold, a hair above it, and over.   *)
EXTENDS QuoteDraft

CONSTANTS euSecure, global

Prices == [b \in Bundle |-> IF b = euSecure THEN 3200 ELSE 2400]
Regions == [b \in Restricted |-> {"EU"}]
Slips == {-10, 4, 500}
================================================================================
