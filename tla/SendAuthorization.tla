--------------------------- MODULE SendAuthorization ---------------------------
(***************************************************************************)
(* What the send gate of mcp-services/communication promises, with no      *)
(* file, lock or process in sight: a send token moves forward through its  *)
(* life, a human's grant comes before AUTHORIZED, and an email leaves only *)
(* on the single step from "spent" to "sent".  A store may be lost (a      *)
(* crash, a wiped container), and what is lost never sends again.          *)
(***************************************************************************)
EXTENDS Sequences

CONSTANTS TokenId,  \* token identifiers, never reused
          Grant,    \* what a human can approve: [token_id, quote, mailbox]
          Email,    \* what can be sent: [token_id, quote, to]
          Mailbox   \* the mailbox an address belongs to, as a function

VARIABLES state,    \* the life of each token
          grants,   \* the approvals humans have given
          outbox    \* the emails sent, oldest first

vars == <<state, grants, outbox>>

Life == {"none", "pending", "authorized", "spent", "sent", "lost"}

TypeOK ==
    /\ state \in [TokenId -> Life]
    /\ grants \subseteq Grant
    /\ outbox \in Seq(Email)

Init ==
    /\ state = [t \in TokenId |-> "none"]
    /\ grants = {}
    /\ outbox = <<>>

Become(t, from, to) ==
    /\ state[t] = from
    /\ state' = [state EXCEPT ![t] = to]

Mint(t) ==
    /\ Become(t, "none", "pending")
    /\ UNCHANGED <<grants, outbox>>

Approve(g) ==
    /\ state[g.token_id] = "pending"
    /\ grants' = grants \cup {g}
    /\ UNCHANGED <<state, outbox>>

Authorize(t) ==
    /\ \E g \in grants : g.token_id = t
    /\ Become(t, "pending", "authorized")
    /\ UNCHANGED <<grants, outbox>>

Spend(t) ==
    /\ Become(t, "authorized", "spent")
    /\ UNCHANGED <<grants, outbox>>

\* The one step that sends: the email is the one some grant describes.
Deliver(e) ==
    /\ \E g \in grants : /\ g.token_id = e.token_id
                         /\ g.quote = e.quote
                         /\ g.mailbox = Mailbox[e.to]
    /\ Become(e.token_id, "spent", "sent")
    /\ outbox' = Append(outbox, e)
    /\ UNCHANGED grants

Lose ==
    /\ state' = [t \in TokenId |-> IF state[t] = "none" THEN "none" ELSE "lost"]
    /\ UNCHANGED <<grants, outbox>>

Next ==
    \/ \E t \in TokenId : Mint(t) \/ Authorize(t) \/ Spend(t)
    \/ \E g \in Grant : Approve(g)
    \/ \E e \in Email : Deliver(e)
    \/ Lose

Spec == Init /\ [][Next]_vars
================================================================================
