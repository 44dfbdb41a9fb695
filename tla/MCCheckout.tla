----------------------------- MODULE MCCheckout -----------------------------
(***************************************************************************)
(* Small instances of Checkout for TLC: two orders, one member with one    *)
(* coupon and one point, a guest, two skus.  The member's order takes a    *)
(* unit of both skus, uses the coupon and the point and earns a point; the *)
(* guest's takes a unit of s2 only.  There is stock for one member's order *)
(* and one guest's, so two orders can compete for it.                      *)
(***************************************************************************)
EXTENDS CheckoutClaims, TLC

CONSTANTS o1, o2, u1, c1, s1, s2

MCOwner       == c1 :> u1
MCStock       == s1 :> 1 @@ s2 :> 2
MCAmpleStock  == s1 :> 2 @@ s2 :> 2
MCPoints      == u1 :> 1

Member(provider) ==
  [user |-> u1, coupon |-> c1, provider |-> provider, items |-> (s1 :> 1 @@ s2 :> 1),
   total |-> 2, spend |-> 1, pointUsed |-> 1, pointEarned |-> 1]

Guest(provider) ==
  [user |-> None, coupon |-> None, provider |-> provider, items |-> (s1 :> 0 @@ s2 :> 1),
   total |-> 2, spend |-> 2, pointUsed |-> 0, pointEarned |-> 0]

MCFormsToss  == {Member("TOSS"), Guest("TOSS")}
MCFormsNaver == {Member("NAVERPAY")}
MCFormsMixed == {Member("INICIS"), Member("NAVERPAY"), Guest("TOSS")}

MCSymmetry == Permutations(Orders)
=============================================================================
