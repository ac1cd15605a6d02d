------------------------------- MODULE MCSendGate -------------------------------
(* Instances of SendGate for TLC. *)
EXTENDS SendGate

CONSTANTS a1, a2, h1,       \* clients
          t1, t2,           \* tokens
          q1, q2,           \* quotes
          one, One, two     \* addresses: two spellings of one mailbox, another

MCLower == [a \in Address |-> IF a = One THEN one ELSE a]

\* One process, one lock: the web container, or a single agent process.
OneProcess == [c \in Client |-> "web"]

\* Agents in one process and approve_pending.py in another.
TwoProcesses == [c \in Client |-> IF c \in Agent THEN "agents" ELSE "script"]
================================================================================
