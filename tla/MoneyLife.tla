------------------------------ MODULE MoneyLife ------------------------------
(***************************************************************************)
(* What the shop promises about the money of a paid order, whatever        *)
(* refunds, returns, retries and lost answers are in flight: what it cost  *)
(* is fixed with the order, money goes back at the provider first and on   *)
(* record after that, each never beyond the one before, and neither is     *)
(* ever undone (admin/refunds/route.ts lines 61 to 76 call the provider    *)
(* before the transaction that writes the RefundRequest).                  *)
(***************************************************************************)
EXTENDS Integers

CONSTANT Orders

VARIABLES cost,    \* what the customer pays for the order, 0 before it exists
          back,    \* what the provider has given back
          booked   \* what the shop has on record as given back by the provider

vars == <<cost, back, booked>>

Init == /\ cost   = [o \in Orders |-> 0]
        /\ back   = [o \in Orders |-> 0]
        /\ booked = [o \in Orders |-> 0]

(* The order is placed at its price, which stays.                          *)
Place(o) == /\ cost[o] = 0
            /\ cost' = [cost EXCEPT ![o] = cost'[o]]
            /\ cost'[o] > 0
            /\ UNCHANGED <<back, booked>>

(* The provider gives some of it back, on the shop's call or by hand in    *)
(* its console.                                                            *)
GiveBack(o) == /\ back' = [back EXCEPT ![o] = back'[o]]
               /\ back[o] < back'[o] /\ back'[o] <= cost[o]
               /\ UNCHANGED <<cost, booked>>

(* The shop puts on record what has gone back.                             *)
Book(o) == /\ booked' = [booked EXCEPT ![o] = booked'[o]]
           /\ booked[o] < booked'[o] /\ booked'[o] <= back[o]
           /\ UNCHANGED <<cost, back>>

Next == \E o \in Orders : Place(o) \/ GiveBack(o) \/ Book(o)

Spec == Init /\ [][Next]_vars
=============================================================================
