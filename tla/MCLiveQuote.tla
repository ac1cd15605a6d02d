------------------------------- MODULE MCLiveQuote -------------------------------
(* Instances of LiveQuote for TLC: i1 a developer's machine, i2 a container. *)
EXTENDS LiveQuote

CONSTANTS i1, i2, k1, k2
================================================================================
