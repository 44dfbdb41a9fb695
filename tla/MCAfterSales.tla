---------------------------- MODULE MCAfterSales ----------------------------
(***************************************************************************)
(* A small instance of AfterSales for TLC: one order of a member for two   *)
(* units of s1 (price 1), with a coupon, a point used and a point earned.  *)
(* Its total is 2 (a return of both units is a full refund) or 3 (it never *)
(* is, and a refund can be made in three parts).                           *)
(***************************************************************************)
EXTENDS AfterSales, TLC

CONSTANTS o1, u1, c1, s1, s2, r1, r2

MCOwner  == c1 :> u1
MCStock  == s1 :> 2 @@ s2 :> 1
MCPoints == u1 :> 1
MCPrice  == s1 :> 1 @@ s2 :> 1

MCForms == [user : {u1}, coupon : {c1}, provider : {"TOSS"}, items : {s1 :> 2 @@ s2 :> 0},
            total : {2, 3}, spend : {1}, pointUsed : {1}, pointEarned : {1}]

MCOptions == [points : {TRUE}, coupon : BOOLEAN, skipPgCall : BOOLEAN]
MCDesks   == {{"refund"}, {"return"}, {"refund", "manual"}, {"manual", "self", "edit"}}
MCTwoDesks == {{"refund", "return"}}
MCRefundDesk == {{"refund"}}
=============================================================================
