------------------------------- MODULE MCShop -------------------------------
(***************************************************************************)
(* Small instances, for TLC, of the shop's requests around the checkout:   *)
(* OrderRequests (with SiteSettings and Pricing), CouponIssue, Wishlist,   *)
(* CategoryTree, Accounts, PhoneCode and ResetLink.  They share no         *)
(* state, so each is checked alone: the initial choice of part decides     *)
(* which one runs.                                                         *)
(***************************************************************************)
EXTENDS OrderRequests, CouponIssue, Wishlist, CategoryTree, Accounts, PhoneCode, ResetLink, TLC

CONSTANTS i1, i2, q1, q2, page,
          Parts   \* the parts to be checked

(* The basket is worth a little more than the free shipping minimum of     *)
(* some of the settings and less than that of the others; the coupon is    *)
(* worth more than the basket, the points typed are no whole thousand.     *)
(* Of the two carts one carries the coupon, which refuses a second order   *)
(* whatever the key says; with the other only the key is in the way.       *)
MCBig == [type |-> Fixed, value |-> 9000, min |-> 0, max |-> 0]
MCCart(coupon, typed) ==
  [items |-> 4000, catalog |-> 4000, coupon |-> coupon, typed |-> typed, balance |-> 4000]
MCCarts == {MCCart(MCBig, 100), MCCart(NoCoupon, 100)}

VARIABLE part

MCInit ==
  /\ part \in Parts
  /\ RequestsInit /\ IssueInit /\ WishInit /\ TreeInit /\ AccountsInit /\ CodesInit /\ LinksInit
  /\ part # "coupon"  => couponRow.total = Unlimited
  /\ part # "wish"    => saved = {}
  /\ part # "account" => user.password /\ ~user.linked

MCNext ==
  \/ /\ part = "order" /\ RequestsNext
     /\ UNCHANGED <<part, issueVars, wishVars, treeVars, accountVars, codeVars, linkVars>>
  \/ /\ part = "coupon" /\ IssueNext
     /\ UNCHANGED <<part, shopVars, wishVars, treeVars, accountVars, codeVars, linkVars>>
  \/ /\ part = "wish" /\ WishNext
     /\ UNCHANGED <<part, shopVars, issueVars, treeVars, accountVars, codeVars, linkVars>>
  \/ /\ part = "tree" /\ TreeNext
     /\ UNCHANGED <<part, shopVars, issueVars, wishVars, accountVars, codeVars, linkVars>>
  \/ /\ part = "account" /\ AccountsNext
     /\ UNCHANGED <<part, shopVars, issueVars, wishVars, treeVars, codeVars, linkVars>>
  \/ /\ part = "code" /\ CodesNext
     /\ UNCHANGED <<part, shopVars, issueVars, wishVars, treeVars, accountVars, linkVars>>
  \/ /\ part = "link" /\ LinksNext
     /\ UNCHANGED <<part, shopVars, issueVars, wishVars, treeVars, accountVars, codeVars>>

MCVars == <<part, shopVars, issueVars, wishVars, treeVars, accountVars, codeVars, linkVars>>

MCSpec == MCInit /\ [][MCNext]_MCVars

(* Every part keeps its variables in their types.                          *)
ShopTypeOK ==
  /\ RequestsTypeOK /\ IssueTypeOK /\ WishTypeOK /\ TreeTypeOK
  /\ AccountsTypeOK /\ CodesTypeOK /\ LinksTypeOK

MCSym == Permutations({i1, i2}) \cup Permutations({q1, q2})
=============================================================================
