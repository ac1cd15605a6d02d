------------------------------- MODULE QuoteDraft -------------------------------
(***************************************************************************)
(* From a price to a quote draft: price_bundle and verify_signature of the *)
(* pricing service, create_quote_draft of the solution and pricing agent   *)
(* and of the Salesforce service, and the quote store of fixture mode.     *)
(* list_eligible_bundles is left out: price_bundle does not rely on it.    *)
(*                                                                         *)
(* Between pricing and drafting the quote is in a language model's hands,  *)
(* which writes it out as JSON: a number may come back as the other of int *)
(* and float, and nothing but the signature keeps a field from changing.   *)
(*                                                                         *)
(* Numbers are thousandths; the code rounds to hundredths, and no input is *)
(* half-way between two.  grand_total stands for unit_price, subtotal and  *)
(* discount_amount too, which are signed alike.  HMAC is taken as          *)
(* injective.  The files' own hazards are in OpportunityStore.             *)
(***************************************************************************)
EXTENDS Integers, FiniteSets, Functions

CONSTANTS Bundle, Region,
          UnitPrice,              \* of a bundle
          Restricted,             \* bundles with eligible_regions
          EligibleRegions,        \* those regions
          Quantity, Discount,     \* what is asked for, valid or not
          Slip,                   \* by how much the model changes a number
          MaxPriced, MaxDrafts    \* bounds

ASSUME QuoteDraftAssumption ==
    /\ Restricted \subseteq Bundle
    /\ UnitPrice \in [Bundle -> Nat]
    /\ EligibleRegions \in [Restricted -> SUBSET Region]
    /\ Quantity \cup Discount \cup Slip \subseteq Int
    /\ \A d \in Discount \cup Slip : d % 10 # 5
    /\ MaxPriced \in Nat /\ MaxDrafts \in Nat

Threshold == 10000     \* DISCOUNT_APPROVAL_THRESHOLD_PCT

NoResidency == "none"
Residency == Region \cup {NoResidency}

VARIABLES priced,   \* history: <<quote, residency>> price_bundle returned
          line,     \* the quote_line in the model's hands
          drafts    \* the quote store: id and line by key

vars == <<priced, line, drafts>>

NoLine == [signature |-> "none"]

--------------------------------------------------------------------------------
(* The pricing service. *)

\* The residencies price_bundle accepts for a bundle.
Allowed(b, residency) == b \in Restricted => residency \in EligibleRegions[b]

Hundredths(v) == (v + 5) \div 10

\* subtotal - discount_amount, each rounded to cents.
GrandTotal(b, quantity, discount) ==
    LET subtotal == UnitPrice[b] * (quantity \div 1000)
        discount_amount == 10 * ((subtotal * discount + 500000) \div 1000000)
    IN  subtotal - discount_amount

\* A number as it is signed: a quantity cut to a whole one, an amount with
\* two decimals, whatever its type.
Canonical(f, n) ==
    IF f = "quantity" THEN n.value \div 1000 ELSE Hundredths(n.value)

\* Faulty variants, named after the definition they could stand for, exist
\* only to show that the properties notice them.
Sign_AmountsOnly(l) ==
    <<[f \in DOMAIN l.number |-> Canonical(f, l.number[f])], l.requires_discount_approval>>

\* _sign: all the fields there are, in canonical form.
Sign(l) ==
    <<l.bundle, [f \in DOMAIN l.number |-> Canonical(f, l.number[f])],
      l.requires_discount_approval>>

VerifySignature(l) == l # NoLine /\ l.signature = Sign(l)

Float(v) == [type |-> "float", value |-> v]
Whole(v) == [type |-> "int", value |-> v]

Numbers == {"quantity", "discount_pct", "grand_total"}

Unsigned(b, quantity, discount) ==
    [bundle |-> b,
     number |-> [f \in Numbers |->
                    CASE f = "quantity" -> Whole(quantity)
                      [] f = "discount_pct" -> Float(discount)
                      [] f = "grand_total" -> Float(GrandTotal(b, quantity, discount))],
     requires_discount_approval |-> discount > Threshold,
     signature |-> "none"]

Signed(l) == [l EXCEPT !.signature = Sign(l)]

\* The discounts there are, from 0 to 100 percent.
Percentages == 0..100000

--------------------------------------------------------------------------------
Init ==
    /\ priced = {} /\ line = NoLine
    /\ drafts = <<>>

PriceBundle_AnyDiscount(b, quantity, discount, residency) ==
    /\ Cardinality(priced) < MaxPriced
    /\ Allowed(b, residency)
    /\ quantity > 0
    /\ line' = Signed(Unsigned(b, quantity, discount))
    /\ priced' = priced \cup {<<line', residency>>}
    /\ UNCHANGED drafts

\* price_bundle; refused for another region, a quantity that is not positive,
\* or a discount that is no percentage.
PriceBundle(b, quantity, discount, residency) ==
    /\ Cardinality(priced) < MaxPriced
    /\ Allowed(b, residency)
    /\ quantity > 0 /\ discount \in Percentages
    /\ line' = Signed(Unsigned(b, quantity, discount))
    /\ priced' = priced \cup {<<line', residency>>}
    /\ UNCHANGED drafts

\* What the model may make of a quote: the same numbers in other types, one
\* number changed or left out, another bundle, flag or signature.
Retyped(l) ==
    {[l EXCEPT !.number = [f \in DOMAIN @ |-> [type |-> t[f], value |-> @[f].value]]] :
        t \in {u \in [DOMAIN l.number -> {"int", "float"}] :
                  \A f \in DOMAIN u : u[f] = "int" => l.number[f].value % 1000 = 0}}

Altered(l) ==
    {[l EXCEPT !.number[f] = Float(@.value + s)] : f \in DOMAIN l.number, s \in Slip}
    \cup {[l EXCEPT !.number = Restrict(@, DOMAIN @ \ {f})] : f \in DOMAIN l.number}
    \cup {[l EXCEPT !.bundle = b] : b \in Bundle}
    \cup {[l EXCEPT !.requires_discount_approval = ~@]}
    \cup {[l EXCEPT !.signature = p[1].signature] : p \in priced}

Reemit ==
    /\ \E p \in priced : line' \in Retyped(p[1]) \cup Altered(p[1])
    /\ UNCHANGED <<priced, drafts>>

--------------------------------------------------------------------------------
(* Drafting. *)

\* The idempotency key, which spells the numbers as they come.
Key(l) == <<l.bundle, l.number["quantity"], l.number["discount_pct"]>>

\* A line without quantity or discount raises before it has a key.
HasKey(l) == l # NoLine /\ {"quantity", "discount_pct"} \subseteq DOMAIN l.number

\* The signature is verified first, then the key looked up: a known one is
\* answered with its draft and changes nothing.
CreateQuoteDraft ==
    /\ HasKey(line) /\ VerifySignature(line)
    /\ Key(line) \notin DOMAIN drafts
    /\ Cardinality(DOMAIN drafts) < MaxDrafts
    /\ drafts' = [k \in DOMAIN drafts \cup {Key(line)} |->
                     IF k \in DOMAIN drafts THEN drafts[k]
                     ELSE [id |-> Cardinality(DOMAIN drafts) + 1, line |-> line]]
    /\ UNCHANGED <<priced, line>>

--------------------------------------------------------------------------------
Next ==
    \/ \E b \in Bundle, residency \in Residency, q \in Quantity, d \in Discount :
          PriceBundle(b, q, d, residency)
    \/ Reemit
    \/ CreateQuoteDraft

Spec == Init /\ [][Next]_vars

--------------------------------------------------------------------------------
(* Properties. *)

IsNumber(n) == n.type \in {"int", "float"} /\ n.value \in Int

IsLine(l) ==
    /\ l.bundle \in Bundle
    /\ DOMAIN l.number \subseteq Numbers /\ \A f \in DOMAIN l.number : IsNumber(l.number[f])
    /\ l.requires_discount_approval \in BOOLEAN

\* Every variable has its type, and a draft is one the store can look up.
TypeOK ==
    /\ \A p \in priced :
          /\ IsLine(p[1]) /\ p[2] \in Residency
          /\ p[1].number["discount_pct"].value \in Percentages
    /\ line = NoLine \/ IsLine(line)
    /\ \A k \in DOMAIN drafts : k = Key(drafts[k].line) /\ IsLine(drafts[k].line)
    /\ {drafts[k].id : k \in DOMAIN drafts} = 1..Cardinality(DOMAIN drafts)

Abs(n) == IF n < 0 THEN -n ELSE n

\* Two lines with the same terms, to the cent and the hundredth of a percent.
SameTerms(l, m) ==
    /\ l.bundle = m.bundle
    /\ l.requires_discount_approval = m.requires_discount_approval
    /\ DOMAIN l.number = DOMAIN m.number
    /\ \A f \in DOMAIN l.number :
          Abs(l.number[f].value - m.number[f].value) < IF f = "quantity" THEN 1000 ELSE 10

\* "Totals must match": whatever the model does to a quote on the way, or
\* mixes from two, a draft has the terms of a quote price_bundle returned for
\* a region its bundle may go to, and needs an approval when that one does.
DraftIsPriced ==
    \A k \in DOMAIN drafts : \E p \in priced :
        /\ SameTerms(drafts[k].line, p[1])
        /\ p[1].bundle \in Restricted => p[2] \in EligibleRegions[p[1].bundle]

\* "A retried call returns the exact same quote_id instead of creating a
\* duplicate": no two drafts of one bundle, quantity and discount.
OneDraftPerTerms ==
    \A j, k \in DOMAIN drafts :
        /\ j[1] = k[1] /\ j[2].value = k[2].value /\ j[3].value = k[3].value
        => j = k
================================================================================
