--------------------------- MODULE QuoteContract ----------------------------
(***************************************************************************)
(* What the funnel promises a customer, with no forms, no store and no     *)
(* step table: the terms a quote offers are terms the rules accept, that   *)
(* the customer first confirmed and then consented to have processed, and  *)
(* that nothing altered in between.  Going back on any of it reopens the   *)
(* negotiation and withdraws the offer.  Only the coverage of a standing   *)
(* offer may be renegotiated in place.                                     *)
(***************************************************************************)
CONSTANTS Risks,      \* the risks the rules accept
          Coverages,  \* complete choices of tier and deductible
          NoTerms     \* nothing settled, or nothing offered

VARIABLES stage, terms, offer

vars == <<stage, terms, offer>>

Terms == [risk : Risks, coverage : Coverages]

Init == /\ stage = "gathering"
        /\ terms = NoTerms
        /\ offer = NoTerms

Confirm(t) == /\ stage = "gathering"
              /\ stage' = "confirmed"
              /\ terms' = t
              /\ UNCHANGED offer

Consent == /\ stage = "confirmed"
           /\ stage' = "consented"
           /\ UNCHANGED <<terms, offer>>

Quote == /\ stage = "consented"
         /\ stage' = "quoted"
         /\ offer' = terms
         /\ UNCHANGED terms

Adjust(c) == /\ stage = "quoted"
             /\ terms' = [terms EXCEPT !.coverage = c]
             /\ offer' = terms'
             /\ UNCHANGED stage

Reopen == /\ stage # "gathering"
          /\ stage' = "gathering"
          /\ terms' = NoTerms
          /\ offer' = NoTerms

Next == \/ \E t \in Terms : Confirm(t)
        \/ Consent
        \/ Quote
        \/ \E c \in Coverages : Adjust(c)
        \/ Reopen

Spec == Init /\ [][Next]_vars
=============================================================================
