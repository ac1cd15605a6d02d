---------------------------- MODULE VersionedRecord ----------------------------
(***************************************************************************)
(* What update_opportunity promises ("a stale read must never silently     *)
(* overwrite newer state"): a writer changes a record only on top of the   *)
(* very version it has read, in one indivisible step.  A lost store starts *)
(* over, and no writer keeps what it has read of the old one.              *)
(***************************************************************************)
EXTENDS Naturals

CONSTANTS Writer, Opportunity,
          Blank,                \* the fields of a new record
          Changes,              \* what a write may change
          Merge(_, _)           \* fields after a change

VARIABLES record,   \* [version, fields] of each opportunity
          basis     \* the version each writer read last, per opportunity

vars == <<record, basis>>

NoBasis == [o \in Opportunity |-> 0]

Init ==
    /\ record = [o \in Opportunity |-> [version |-> 1, fields |-> Blank]]
    /\ basis = [w \in Writer |-> NoBasis]

Read(w, o) ==
    /\ basis' = [basis EXCEPT ![w] = [NoBasis EXCEPT ![o] = record[o].version]]
    /\ UNCHANGED record

CompareAndSet(w, o, change) ==
    /\ basis[w][o] = record[o].version
    /\ record' = [record EXCEPT ![o] = [version |-> @.version + 1,
                                        fields |-> Merge(@.fields, change)]]
    /\ UNCHANGED basis

ForgetBasis(W) ==
    /\ basis' = [w \in Writer |-> IF w \in W THEN NoBasis ELSE basis[w]]
    /\ UNCHANGED record

Next ==
    \/ \E w \in Writer, o \in Opportunity :
          \/ Read(w, o)
          \/ \E change \in Changes : CompareAndSet(w, o, change)
    \/ \E W \in SUBSET Writer : ForgetBasis(W)
    \/ Init'

Spec == Init /\ [][Next]_vars
================================================================================
