--------------------------- MODULE MCSubscriptions ---------------------------
(***************************************************************************)
(* Subscriptions on small instances: terms of two periods of two days.     *)
(* A subscription begins with a customer who may be paid, and may be moved *)
(* to a later start or transferred to a customer who may not.              *)
(***************************************************************************)
EXTENDS Subscriptions

CONSTANTS c1, c2

Pricing == { [NoChange EXCEPT !.price = p] : p \in Prices }
Moving == { [NoChange EXCEPT !.start = d] : d \in StartDays \ {0} }
Transfers == { [NoChange EXCEPT !.customer = c] : c \in Customers \ Payees }

Changes == Pricing \union Moving \union Transfers

WithinBounds == sub.status = "none" /\ sub'.status # "none" => sub'.customer \in Payees

MCSpec == Init /\ [][Next /\ WithinBounds]_vars
=============================================================================
