---------------------------- MODULE CouponIssue ----------------------------
(***************************************************************************)
(* Giving out one coupon: POST /api/coupons/redeem reads the coupon and    *)
(* the member's own row, then in one transaction creates the row and       *)
(* counts it.  Meanwhile the administrator changes totalQuantity or        *)
(* isActive, or deletes the coupon, which deactivates it instead when rows *)
(* of it exist.  (userId, couponId) is unique and the rows' foreign key    *)
(* restricts the deletion; validFrom and validUntil are one flag, inTime.  *)
(***************************************************************************)
EXTENDS Naturals, FiniteSets

CONSTANTS
  Members,
  Takers,      \* redeem requests that may be under way at once
  Nobody,
  Quantities,  \* the numbers that totalQuantity takes
  Unlimited,   \* a totalQuantity of null
  MaxEdits     \* bound: the administrator's edits

ASSUME IssueAssumption ==
  /\ Nobody \notin Members /\ Quantities \subseteq Nat /\ Unlimited \notin Nat
  /\ IsFiniteSet(Takers) /\ Takers # {}

VARIABLES
  couponRow,   \* Gone or the row [active, inTime, total, issued]
  issuedTo,    \* the members with a UserCoupon row of it
  taking,      \* by request: the member whose checks passed, or Nobody
  deleting,    \* the administrator's DELETE: "idle" or "delete" (none counted)
  edits,
  allowed      \* history: the largest totalQuantity so far, Unlimited once it was null

issueVars == <<couponRow, issuedTo, taking, deleting, edits, allowed>>

Gone == [active |-> FALSE]

Limits == Quantities \cup {Unlimited}

IssueTypeOK ==
  /\ couponRow = Gone \/
     couponRow \in [active : BOOLEAN, inTime : BOOLEAN, total : Limits, issued : Nat]
  /\ issuedTo \subseteq Members
  /\ taking \in [Takers -> Members \cup {Nobody}]
  /\ deleting \in {"idle", "delete"}

IssueInit ==
  /\ \E q \in Limits :
       /\ couponRow = [active |-> TRUE, inTime |-> TRUE, total |-> q, issued |-> 0]
       /\ allowed = q
  /\ issuedTo = {}
  /\ taking = [t \in Takers |-> Nobody]
  /\ deleting = "idle"
  /\ edits = 0

-----------------------------------------------------------------------------
Redeemable_OneMore(m) ==
  /\ couponRow # Gone
  /\ couponRow.active /\ couponRow.inTime
  /\ couponRow.total # Unlimited => couponRow.issued <= couponRow.total
  /\ m \notin issuedTo

Redeemable(m) ==
  /\ couponRow # Gone
  /\ couponRow.active /\ couponRow.inTime
  /\ couponRow.total # Unlimited => couponRow.issued < couponRow.total
  /\ m \notin issuedTo

(* The two reads and the checks; a refused request changes nothing.        *)
RedeemRead(t, m) ==
  /\ taking[t] = Nobody
  /\ Redeemable(m)
  /\ taking' = [taking EXCEPT ![t] = m]
  /\ UNCHANGED <<couponRow, issuedTo, deleting, edits, allowed>>

(* The count outside the transaction, and before the row.                  *)
RedeemCommit_Apart(t) ==
  /\ taking[t] # Nobody
  /\ taking' = [taking EXCEPT ![t] = Nobody]
  /\ issuedTo' = IF couponRow = Gone THEN issuedTo ELSE issuedTo \cup {taking[t]}
  /\ couponRow' = IF couponRow = Gone THEN couponRow ELSE [couponRow EXCEPT !.issued = @ + 1]
  /\ UNCHANGED <<deleting, edits, allowed>>

(* The transaction: it fails as a whole when the member got the row in the *)
(* meantime or the coupon is no longer there.                              *)
RedeemCommit(t) ==
  /\ taking[t] # Nobody
  /\ taking' = [taking EXCEPT ![t] = Nobody]
  /\ IF couponRow # Gone /\ taking[t] \notin issuedTo
     THEN /\ issuedTo' = issuedTo \cup {taking[t]}
          /\ couponRow' = [couponRow EXCEPT !.issued = @ + 1]
     ELSE UNCHANGED <<couponRow, issuedTo>>
  /\ UNCHANGED <<deleting, edits, allowed>>

EditCoupon ==
  /\ couponRow # Gone
  /\ edits < MaxEdits
  /\ edits' = edits + 1
  /\ \E active \in BOOLEAN, inTime \in BOOLEAN, total \in Limits :
       /\ couponRow' = [couponRow EXCEPT !.active = active, !.inTime = inTime, !.total = total]
       /\ allowed' = IF Unlimited \in {total, allowed} THEN Unlimited
                     ELSE IF total > allowed THEN total ELSE allowed
  /\ UNCHANGED <<issuedTo, taking, deleting>>

CountIssued ==
  /\ deleting = "idle"
  /\ couponRow # Gone
  /\ edits < MaxEdits
  /\ edits' = edits + 1
  /\ IF issuedTo = {}
     THEN deleting' = "delete" /\ UNCHANGED couponRow
     ELSE couponRow' = [couponRow EXCEPT !.active = FALSE] /\ UNCHANGED deleting
  /\ UNCHANGED <<issuedTo, taking, allowed>>

DeleteCoupon ==
  /\ deleting = "delete"
  /\ deleting' = "idle"
  /\ couponRow' = IF issuedTo = {} THEN Gone ELSE couponRow
  /\ UNCHANGED <<issuedTo, taking, edits, allowed>>

IssueNext ==
  \/ \E t \in Takers : RedeemCommit(t) \/ \E m \in Members : RedeemRead(t, m)
  \/ EditCoupon
  \/ CountIssued
  \/ DeleteCoupon

IssueSpec == IssueInit /\ [][IssueNext]_issueVars

-----------------------------------------------------------------------------
(* issuedCount is the number of rows given out, one to a member, whatever  *)
(* redemptions and edits overlap; a coupon somebody holds is never gone.   *)
IssuedCountTrue ==
  IF couponRow = Gone THEN issuedTo = {} ELSE couponRow.issued = Cardinality(issuedTo)

(* While totalQuantity is a number, more may be given out than it ever     *)
(* allowed (the limit is checked before the transaction, route line 31),   *)
(* but at most one for every request that can be in flight besides the one *)
(* that reaches it.                                                        *)
OverIssueBounded ==
  allowed # Unlimited =>
    Cardinality(issuedTo) + Cardinality({t \in Takers : taking[t] # Nobody})
      <= allowed + Cardinality(Takers) - 1
=============================================================================
