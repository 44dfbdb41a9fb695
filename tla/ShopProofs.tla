---------------------------- MODULE ShopProofs ----------------------------
(***************************************************************************)
(* Proofs about the small protocols around the checkout that share no      *)
(* state with each other: giving out a coupon (CouponIssue), the codes     *)
(* sent to a phone number (PhoneCode), the password reset links            *)
(* (ResetLink), the wish list (Wishlist) and the category tree             *)
(* (CategoryTree); and that what is proved of each, and of the order       *)
(* requests (RequestsProofs) and the account (AccountsProofs), holds in    *)
(* the composition that MCShop checks.                                     *)
(***************************************************************************)
EXTENDS MCShop, RequestsProofs, AccountsProofs, FiniteSums, FiniteSetTheorems, TLAPS

-----------------------------------------------------------------------------
(***************************************************************************)
(* Proofs about giving out a coupon (CouponIssue), for any number of       *)
(* members and of requests at once.                                        *)
(***************************************************************************)

CouponRow == [active : BOOLEAN, inTime : BOOLEAN, total : Limits, issued : Nat]

InFlight == {t \in Takers : taking[t] # Nobody}

(* totalQuantity never exceeds the largest it was: the limit that the      *)
(* bound on the rows refers to.                                            *)
WithinAllowed ==
  allowed # Unlimited =>
    /\ allowed \in Nat
    /\ couponRow # Gone => couponRow.total # Unlimited /\ couponRow.total <= allowed

IssueInv ==
  /\ IssueTypeOK
  /\ IsFiniteSet(issuedTo)
  /\ WithinAllowed
  /\ IssuedCountTrue
  /\ OverIssueBounded

LEMMA Countable ==
  ASSUME IssueInv
  PROVE  /\ Cardinality(issuedTo) \in Nat /\ Cardinality(InFlight) \in Nat
         /\ IsFiniteSet(InFlight)
         /\ Cardinality(Takers) \in Nat /\ Cardinality(Takers) >= 1
<1>1. IsFiniteSet(Takers) /\ InFlight \subseteq Takers
  BY IssueAssumption DEF InFlight
<1>2. IsFiniteSet(InFlight)
  BY <1>1, FS_Subset
<1>3. Cardinality(Takers) \in Nat /\ Cardinality(Takers) # 0
  BY <1>1, IssueAssumption, FS_CardinalityType, FS_EmptySet
<1>. QED
  BY <1>2, <1>3, FS_CardinalityType DEF IssueInv

LEMMA GoneIsNoRow == \A r \in CouponRow : r # Gone
<1>. SUFFICES ASSUME NEW r \in CouponRow, r = Gone PROVE FALSE
  OBVIOUS
<1>1. DOMAIN r = {"active", "inTime", "total", "issued"}
  BY DEF CouponRow
<1>2. DOMAIN Gone = {"active"}
  BY DEF Gone
<1>. QED
  BY <1>1, <1>2

LEMMA IssueInitial == IssueInit => IssueInv
<1>. SUFFICES ASSUME IssueInit PROVE IssueInv
  OBVIOUS
<1>1. PICK q \in Limits :
        /\ couponRow = [active |-> TRUE, inTime |-> TRUE, total |-> q, issued |-> 0]
        /\ allowed = q
  BY DEF IssueInit
<1>2. couponRow \in CouponRow /\ (q # Unlimited => q \in Nat)
  BY <1>1, IssueAssumption DEF CouponRow, Limits
<1>3. IssueTypeOK
  BY <1>2 DEF IssueInit, IssueTypeOK, CouponRow
<1>4. IsFiniteSet(issuedTo) /\ Cardinality(issuedTo) = 0
  BY FS_EmptySet DEF IssueInit
<1>5. WithinAllowed
  BY <1>1, <1>2 DEF WithinAllowed
<1>6. IssuedCountTrue
  BY <1>1, <1>2, <1>4, GoneIsNoRow DEF IssuedCountTrue
<1>7. InFlight = {}
  BY DEF IssueInit, InFlight
<1>8. Cardinality(InFlight) = 0
  BY <1>7, FS_EmptySet
<1>9. Cardinality(Takers) \in Nat /\ Cardinality(Takers) # 0
  BY IssueAssumption, FS_CardinalityType, FS_EmptySet
<1>10. OverIssueBounded
  BY <1>1, <1>2, <1>4, <1>8, <1>9 DEF OverIssueBounded, InFlight
<1>. QED
  BY <1>3, <1>4, <1>5, <1>6, <1>10 DEF IssueInv

(* One request joins those in flight, or leaves them.                      *)
LEMMA RedeemReadKeeps ==
  ASSUME IssueInv, NEW t \in Takers, NEW m \in Members, RedeemRead(t, m)
  PROVE  IssueInv'
<1>1. /\ taking[t] = Nobody /\ m # Nobody
      /\ taking' = [taking EXCEPT ![t] = m] /\ UNCHANGED <<couponRow, issuedTo, deleting, allowed>>
  BY IssueAssumption DEF RedeemRead
<1>2. IssueTypeOK' /\ IsFiniteSet(issuedTo)' /\ WithinAllowed' /\ IssuedCountTrue'
  BY <1>1 DEF IssueInv, IssueTypeOK, WithinAllowed, IssuedCountTrue
<1>3. InFlight' = InFlight \cup {t} /\ t \notin InFlight
  BY <1>1 DEF InFlight, IssueInv, IssueTypeOK
<1>4. Cardinality(InFlight') = Cardinality(InFlight) + 1
  BY <1>3, Countable, FS_AddElement
<1>5. Cardinality(InFlight) + 1 <= Cardinality(Takers)
  <2>1. InFlight \subseteq Takers \ {t}
    BY <1>3 DEF InFlight
  <2>2. IsFiniteSet(Takers \ {t}) /\ Cardinality(Takers \ {t}) = Cardinality(Takers) - 1
    BY IssueAssumption, FS_RemoveElement
  <2>3. Cardinality(InFlight) <= Cardinality(Takers \ {t})
    BY <2>1, <2>2, FS_Subset
  <2>. QED
    BY <2>2, <2>3, Countable
<1>6. allowed # Unlimited => Cardinality(issuedTo) < allowed /\ allowed \in Nat
  <2>0. SUFFICES ASSUME allowed # Unlimited PROVE Cardinality(issuedTo) < allowed /\ allowed \in Nat
    OBVIOUS
  <2>1. couponRow # Gone /\ couponRow.total # Unlimited /\ couponRow.issued < couponRow.total
    BY <2>0 DEF IssueInv, WithinAllowed, RedeemRead, Redeemable
  <2>2. couponRow.issued = Cardinality(issuedTo) /\ couponRow.total <= allowed /\ allowed \in Nat
    BY <2>0, <2>1 DEF IssueInv, IssuedCountTrue, WithinAllowed
  <2>3. couponRow.total \in Nat
    BY <2>1, IssueAssumption DEF IssueInv, IssueTypeOK, Limits
  <2>. QED
    BY <2>1, <2>2, <2>3, Countable
<1>7. OverIssueBounded'
  BY <1>1, <1>4, <1>5, <1>6, Countable DEF OverIssueBounded, InFlight
<1>. QED
  BY <1>2, <1>7 DEF IssueInv

LEMMA RedeemCommitKeeps ==
  ASSUME IssueInv, NEW t \in Takers, RedeemCommit(t)
  PROVE  IssueInv'
<1>1. /\ taking[t] # Nobody /\ taking' = [taking EXCEPT ![t] = Nobody]
      /\ UNCHANGED <<deleting, allowed>>
  BY DEF RedeemCommit
<1>2. taking' \in [Takers -> Members \cup {Nobody}] /\ taking[t] \in Members
  BY <1>1 DEF IssueInv, IssueTypeOK
<1>3. InFlight' = InFlight \ {t} /\ t \in InFlight
  BY <1>1 DEF InFlight, IssueInv, IssueTypeOK
<1>4. Cardinality(InFlight') = Cardinality(InFlight) - 1
  BY <1>3, Countable, FS_RemoveElement
<1>5. allowed # Unlimited =>
        /\ Cardinality(issuedTo) + Cardinality(InFlight) <= allowed + Cardinality(Takers) - 1
        /\ allowed \in Nat
  BY DEF IssueInv, OverIssueBounded, InFlight, WithinAllowed
<1>6. CASE couponRow # Gone /\ taking[t] \notin issuedTo
  <2>1. /\ issuedTo' = issuedTo \cup {taking[t]}
        /\ couponRow' = [couponRow EXCEPT !.issued = @ + 1]
    BY <1>6 DEF RedeemCommit
  <2>2. couponRow \in CouponRow
    BY <1>6 DEF IssueInv, IssueTypeOK, CouponRow
  <2>3. /\ couponRow' \in CouponRow /\ couponRow'.issued = couponRow.issued + 1
        /\ couponRow'.total = couponRow.total
    BY <2>1, <2>2 DEF CouponRow
  <2>4. IsFiniteSet(issuedTo') /\ Cardinality(issuedTo') = Cardinality(issuedTo) + 1
    BY <2>1, <1>6, FS_AddElement DEF IssueInv
  <2>5. IssueTypeOK'
    BY <1>1, <1>2, <2>1, <2>3 DEF IssueInv, IssueTypeOK, CouponRow
  <2>6. couponRow' # Gone
    BY <2>3, GoneIsNoRow
  <2>7. WithinAllowed' /\ IssuedCountTrue'
    BY <1>1, <1>6, <2>3, <2>4, <2>6 DEF IssueInv, WithinAllowed, IssuedCountTrue, Gone
  <2>8. OverIssueBounded'
    BY <1>1, <1>4, <1>5, <2>4, Countable DEF OverIssueBounded, InFlight
  <2>. QED
    BY <2>4, <2>5, <2>7, <2>8 DEF IssueInv
<1>7. CASE ~(couponRow # Gone /\ taking[t] \notin issuedTo)
  <2>1. UNCHANGED <<couponRow, issuedTo>>
    BY <1>7 DEF RedeemCommit
  <2>2. OverIssueBounded'
    BY <1>1, <1>4, <1>5, <2>1, Countable DEF OverIssueBounded, InFlight
  <2>. QED
    BY <1>1, <1>2, <2>1, <2>2 DEF IssueInv, IssueTypeOK, WithinAllowed, IssuedCountTrue
<1>. QED
  BY <1>6, <1>7

(* The administrator's steps change neither the rows nor the requests.     *)
LEMMA OthersKeep ==
  ASSUME IssueInv, EditCoupon \/ CountIssued \/ DeleteCoupon \/ UNCHANGED issueVars
  PROVE  IssueInv'
<1>1. ASSUME EditCoupon
      PROVE  IssueInv'
  <2>1. PICK active \in BOOLEAN, inTime \in BOOLEAN, total \in Limits :
          /\ couponRow' = [couponRow EXCEPT !.active = active, !.inTime = inTime, !.total = total]
          /\ allowed' = IF Unlimited \in {total, allowed} THEN Unlimited
                        ELSE IF total > allowed THEN total ELSE allowed
    BY <1>1 DEF EditCoupon
  <2>2. couponRow # Gone /\ couponRow \in CouponRow /\ UNCHANGED <<issuedTo, taking, deleting>>
    BY <1>1 DEF EditCoupon, IssueInv, IssueTypeOK, CouponRow
  <2>3. couponRow' \in CouponRow /\ couponRow'.issued = couponRow.issued /\ couponRow'.total = total
    BY <2>1, <2>2 DEF CouponRow
  <2>4. allowed' # Unlimited =>
          /\ allowed # Unlimited /\ total # Unlimited
          /\ allowed' \in Nat /\ allowed' >= allowed /\ total <= allowed' /\ allowed \in Nat
    BY <2>1, IssueAssumption DEF IssueInv, WithinAllowed, Limits
  <2>5. IssueTypeOK' /\ IsFiniteSet(issuedTo)'
    BY <2>2, <2>3 DEF IssueInv, IssueTypeOK, CouponRow
  <2>6. WithinAllowed' /\ IssuedCountTrue'
    BY <2>2, <2>3, <2>4, GoneIsNoRow DEF IssueInv, WithinAllowed, IssuedCountTrue, Gone
  <2>7. OverIssueBounded'
    BY <2>2, <2>4, Countable DEF IssueInv, OverIssueBounded, InFlight
  <2>. QED
    BY <2>5, <2>6, <2>7 DEF IssueInv
<1>2. ASSUME CountIssued
      PROVE  IssueInv'
  <2>1. UNCHANGED <<issuedTo, taking, allowed>> /\ deleting' \in {"idle", "delete"}
        /\ couponRow # Gone /\ couponRow \in CouponRow
    BY <1>2 DEF CountIssued, IssueInv, IssueTypeOK, CouponRow
  <2>2. couponRow' = couponRow \/ couponRow' = [couponRow EXCEPT !.active = FALSE]
    BY <1>2 DEF CountIssued
  <2>3. couponRow' \in CouponRow /\ couponRow'.issued = couponRow.issued
        /\ couponRow'.total = couponRow.total
    BY <2>1, <2>2 DEF CouponRow
  <2>4. IssueTypeOK' /\ IsFiniteSet(issuedTo)'
    BY <2>1, <2>3 DEF IssueInv, IssueTypeOK, CouponRow
  <2>5. WithinAllowed' /\ IssuedCountTrue'
    BY <2>1, <2>3, GoneIsNoRow DEF IssueInv, WithinAllowed, IssuedCountTrue, Gone
  <2>6. OverIssueBounded'
    BY <2>1 DEF IssueInv, OverIssueBounded
  <2>. QED
    BY <2>4, <2>5, <2>6 DEF IssueInv
<1>3. ASSUME DeleteCoupon
      PROVE  IssueInv'
  <2>1. UNCHANGED <<issuedTo, taking, allowed>> /\ deleting' = "idle"
        /\ couponRow' = IF issuedTo = {} THEN Gone ELSE couponRow
    BY <1>3 DEF DeleteCoupon
  <2>2. IssueTypeOK' /\ IsFiniteSet(issuedTo)' /\ WithinAllowed'
    BY <2>1 DEF IssueInv, IssueTypeOK, WithinAllowed, Gone
  <2>3. IssuedCountTrue'
    BY <2>1 DEF IssueInv, IssuedCountTrue, Gone
  <2>4. OverIssueBounded'
    BY <2>1 DEF IssueInv, OverIssueBounded
  <2>. QED
    BY <2>2, <2>3, <2>4 DEF IssueInv
<1>4. ASSUME UNCHANGED issueVars
      PROVE  IssueInv'
  BY <1>4 DEF issueVars, IssueInv, IssueTypeOK, WithinAllowed, IssuedCountTrue, OverIssueBounded
<1>. QED
  BY <1>1, <1>2, <1>3, <1>4

LEMMA IssueInvariant == IssueSpec => []IssueInv
<1>1. IssueInv /\ [IssueNext]_issueVars => IssueInv'
  BY RedeemReadKeeps, RedeemCommitKeeps, OthersKeep DEF IssueNext
<1>. QED
  BY <1>1, IssueInitial, PTL DEF IssueSpec

(* The coupon, its holders and the requests for it keep their types.       *)
THEOREM IssueTypeCorrect == IssueSpec => []IssueTypeOK
<1>1. IssueInv => IssueTypeOK
  BY DEF IssueInv
<1>. QED
  BY <1>1, IssueInvariant, PTL

(* issuedCount is the number of rows whatever redeems, edits and deletions *)
(* overlap (coupons/redeem, admin/coupons).                                *)
THEOREM CountIsTrue == IssueSpec => []IssuedCountTrue
<1>1. IssueInv => IssuedCountTrue
  BY DEF IssueInv
<1>. QED
  BY <1>1, IssueInvariant, PTL

(* However many requests are in flight, while totalQuantity is a number no *)
(* more rows are given out than it ever allowed plus one for every request *)
(* besides the last.                                                       *)
THEOREM OverIssueIsBounded == IssueSpec => []OverIssueBounded
<1>1. IssueInv => OverIssueBounded
  BY DEF IssueInv
<1>. QED
  BY <1>1, IssueInvariant, PTL

-----------------------------------------------------------------------------
(***************************************************************************)
(* Proofs about the codes sent to one phone number (PhoneCode).            *)
(***************************************************************************)

CodeRow == [attempts : Nat, used : BOOLEAN, age : 0..Hour]

Asking == [gap : 0..Hour, seen : 0..NotSending]

CodeRows ==
  /\ codes \in Seq(CodeRow) /\ Len(codes) <= MaxCodes
  /\ sending \in [Senders -> 0..NotSending]
  /\ verifying \in [Verifiers -> [row : 0..Len(codes), right : BOOLEAN]]
  /\ asked \in Seq(Asking) /\ Len(asked) = Len(codes)
  /\ wrong \in Seq(Nat) /\ Len(wrong) = Len(codes)

(* The counter of a row is the number of wrong guesses: no increment is    *)
(* lost, although the row was read before.                                 *)
Counted == \A n \in DOMAIN codes : codes[n].attempts = wrong[n]

(* A sender that saw the rows as they are saw the newest one old enough.   *)
SawOldEnough ==
  \A s \in Senders : sending[s] # NotSending =>
    /\ sending[s] <= Len(codes)
    /\ sending[s] = Len(codes) /\ codes # <<>> => codes[Len(codes)].age >= ResendWindow

Guessing(n) == {v \in Verifiers : verifying[v] = [row |-> n, right |-> FALSE]}

CodesInv == CodeRows /\ Counted /\ SawOldEnough /\ CodesApart /\ GuessesBounded

(* Sequences: their entries, what Append adds and what EXCEPT changes.     *)
LEMMA SeqEntries ==
  ASSUME NEW S, NEW s \in Seq(S)
  PROVE  /\ DOMAIN s = 1..Len(s) /\ Len(s) \in Nat
         /\ \A n \in DOMAIN s : s[n] \in S
OBVIOUS

LEMMA SeqAppended ==
  ASSUME NEW S, NEW s \in Seq(S), NEW x \in S
  PROVE  /\ Append(s, x) \in Seq(S) /\ Len(Append(s, x)) = Len(s) + 1
         /\ DOMAIN Append(s, x) = 1..(Len(s) + 1)
         /\ Append(s, x)[Len(s) + 1] = x
         /\ \A n \in DOMAIN s : Append(s, x)[n] = s[n]
OBVIOUS

LEMMA SeqChanged ==
  ASSUME NEW S, NEW s \in Seq(S), NEW f, f \in [DOMAIN s -> S]
  PROVE  f \in Seq(S) /\ Len(f) = Len(s) /\ DOMAIN f = DOMAIN s
<1>1. DOMAIN s = 1..Len(s) /\ Len(s) \in Nat
  OBVIOUS
<1>2. f \in [1..Len(s) -> S]
  BY <1>1
<1>3. f \in Seq(S)
  BY <1>1, <1>2
<1>. QED
  BY <1>1, <1>2, <1>3

LEMMA RowsInOrder ==
  ASSUME CodeRows
  PROVE  /\ DOMAIN codes = 1..Len(codes) /\ DOMAIN wrong = 1..Len(codes)
         /\ DOMAIN asked = 1..Len(codes) /\ Len(codes) \in Nat
         /\ \A n \in DOMAIN codes :
              codes[n] \in CodeRow /\ wrong[n] \in Nat /\ asked[n] \in Asking
<1>1. codes \in Seq(CodeRow) /\ wrong \in Seq(Nat) /\ asked \in Seq(Asking)
      /\ Len(wrong) = Len(codes) /\ Len(asked) = Len(codes)
  BY DEF CodeRows
<1>2. /\ DOMAIN codes = 1..Len(codes) /\ Len(codes) \in Nat
      /\ \A n \in DOMAIN codes : codes[n] \in CodeRow
  BY <1>1, SeqEntries
<1>3. DOMAIN wrong = 1..Len(wrong) /\ \A n \in DOMAIN wrong : wrong[n] \in Nat
  BY <1>1, SeqEntries
<1>4. DOMAIN asked = 1..Len(asked) /\ \A n \in DOMAIN asked : asked[n] \in Asking
  BY <1>1, SeqEntries
<1>. QED
  BY <1>1, <1>2, <1>3, <1>4

LEMMA FewGuess ==
  ASSUME NEW n
  PROVE  /\ IsFiniteSet(Guessing(n)) /\ Cardinality(Guessing(n)) \in Nat
         /\ Cardinality(Verifiers) \in Nat /\ Cardinality(Verifiers) >= 1
         /\ Cardinality(Guessing(n)) <= Cardinality(Verifiers)
         /\ \A v \in Verifiers \ Guessing(n) : Cardinality(Guessing(n)) <= Cardinality(Verifiers) - 1
<1>1. IsFiniteSet(Verifiers) /\ Guessing(n) \subseteq Verifiers /\ Verifiers # {}
  BY CodeAssumption DEF Guessing
<1>2. Cardinality(Verifiers) \in Nat /\ Cardinality(Verifiers) # 0
  BY <1>1, FS_CardinalityType, FS_EmptySet
<1>3. IsFiniteSet(Guessing(n)) /\ Cardinality(Guessing(n)) <= Cardinality(Verifiers)
  BY <1>1, FS_Subset
<1>4. Cardinality(Guessing(n)) \in Nat
  BY <1>3, FS_CardinalityType
<1>5. ASSUME NEW v \in Verifiers \ Guessing(n)
      PROVE  Cardinality(Guessing(n)) <= Cardinality(Verifiers) - 1
  <2>1. Guessing(n) \subseteq Verifiers \ {v}
    BY <1>1
  <2>2. IsFiniteSet(Verifiers \ {v}) /\ Cardinality(Verifiers \ {v}) = Cardinality(Verifiers) - 1
    BY <1>1, <1>5, FS_RemoveElement
  <2>. QED
    BY <2>1, <2>2, FS_Subset
<1>. QED
  BY <1>2, <1>3, <1>4, <1>5

LEMMA CodesInitial == CodesInit => CodesInv
<1>. SUFFICES ASSUME CodesInit PROVE CodesInv
  OBVIOUS
<1>. USE CodeAssumption
<1>1. CodeRows
  BY DEF CodesInit, CodeRows, NotSending, NotVerifying
<1>2. DOMAIN codes = {}
  BY DEF CodesInit
<1>. QED
  BY <1>1, <1>2 DEF CodesInit, CodesInv, Counted, SawOldEnough, CodesApart, GuessesBounded

LEMMA CodesStep == CodesInv /\ [CodesNext]_codeVars => CodesInv'
<1>. SUFFICES ASSUME CodesInv, [CodesNext]_codeVars
              PROVE  CodesInv'
  OBVIOUS
<1>. USE CodeAssumption
<1>0. CodeRows
  BY DEF CodesInv
<1>1. ASSUME NEW s \in Senders, CheckSend(s)
      PROVE  CodesInv'
  <2>1. CodeRows'
    BY <1>1 DEF CodesInv, CodeRows, CheckSend, NotSending
  <2>2. SawOldEnough'
    BY <1>1, RowsInOrder DEF CodesInv, CodeRows, SawOldEnough, CheckSend, MaySend, NotSending
  <2>3. Counted' /\ CodesApart' /\ GuessesBounded'
    BY <1>1 DEF CodesInv, Counted, CodesApart, GuessesBounded, CheckSend
  <2>. QED
    BY <2>1, <2>2, <2>3 DEF CodesInv
<1>2. ASSUME NEW s \in Senders, CreateCode(s)
      PROVE  CodesInv'
  <2>. DEFINE k == Len(codes) + 1
              fresh == [attempts |-> 0, used |-> FALSE, age |-> 0]
              first == [gap |-> IF codes = <<>> THEN Hour ELSE codes[Len(codes)].age, seen |-> sending[s]]
  <2>0. sending[s] \in 0..NotSending /\ (codes # <<>> => codes[Len(codes)].age \in 0..Hour)
    <3>1. codes # <<>> => Len(codes) \in DOMAIN codes
      BY <1>0, RowsInOrder DEF CodeRows
    <3>. QED
      BY <3>1, <1>0, RowsInOrder DEF CodeRows, CodeRow
  <2>1. fresh \in CodeRow /\ first \in Asking
    BY <2>0 DEF CodeRow, Asking
  <2>2. /\ codes' = Append(codes, fresh) /\ asked' = Append(asked, first)
        /\ wrong' = Append(wrong, 0)
        /\ sending' = [sending EXCEPT ![s] = NotSending] /\ verifying' = verifying
        /\ sending[s] # NotSending /\ Len(codes) < MaxCodes
    BY <1>2 DEF CreateCode
  <2>. HIDE DEF fresh, first
  <2>3. /\ codes' \in Seq(CodeRow) /\ Len(codes') = k /\ DOMAIN codes' = 1..k
        /\ codes'[k] = fresh /\ \A n \in DOMAIN codes : codes'[n] = codes[n]
        /\ codes' # <<>>
    <3>1. codes \in Seq(CodeRow) /\ DOMAIN codes' = 1..(Len(codes) + 1)
          /\ codes' \in Seq(CodeRow) /\ Len(codes') = Len(codes) + 1
      BY <1>0, <2>1, <2>2, SeqAppended DEF CodeRows
    <3>2. codes'[k] = fresh /\ \A n \in DOMAIN codes : codes'[n] = codes[n]
      BY <3>1, <2>1, <2>2, SeqAppended
    <3>3. codes' # <<>>
      BY <3>1, SeqEntries
    <3>. QED
      BY <3>1, <3>2, <3>3
  <2>4. /\ wrong' \in Seq(Nat) /\ Len(wrong') = k
        /\ wrong'[k] = 0 /\ \A n \in DOMAIN codes : wrong'[n] = wrong[n]
    <3>1. wrong \in Seq(Nat) /\ DOMAIN wrong = DOMAIN codes /\ Len(wrong) = Len(codes)
      BY <1>0, RowsInOrder DEF CodeRows
    <3>. QED
      BY <3>1, <2>2, SeqAppended
  <2>5. /\ asked' \in Seq(Asking) /\ Len(asked') = k
        /\ asked'[k] = first /\ \A n \in DOMAIN codes : asked'[n] = asked[n]
    <3>1. asked \in Seq(Asking) /\ DOMAIN asked = DOMAIN codes /\ Len(asked) = Len(codes)
      BY <1>0, RowsInOrder DEF CodeRows
    <3>. QED
      BY <3>1, <2>1, <2>2, SeqAppended
  <2>6. DOMAIN codes' = DOMAIN codes \cup {k} /\ k \notin DOMAIN codes
    BY <2>3, RowsInOrder, <1>0
  <2>7. CodeRows'
    <3>1. Len(codes) \in Nat /\ k <= MaxCodes /\ sending' \in [Senders -> 0..NotSending]
      BY <2>2, <1>0, RowsInOrder DEF CodeRows, NotSending
    <3>2. verifying' \in [Verifiers -> [row : 0..k, right : BOOLEAN]]
      BY <3>1, <2>2, <1>0 DEF CodeRows
    <3>. QED
      BY <3>1, <3>2, <2>2, <2>3, <2>4, <2>5 DEF CodeRows
  <2>8. Counted'
    <3>1. codes'[k].attempts = wrong'[k]
      BY <2>3, <2>4 DEF fresh
    <3>2. \A n \in DOMAIN codes : codes'[n].attempts = wrong'[n]
      BY <2>3, <2>4 DEF CodesInv, Counted
    <3>. QED
      BY <3>1, <3>2, <2>6 DEF Counted
  <2>9. SawOldEnough'
    <3>1. ASSUME NEW r \in Senders, sending'[r] # NotSending
          PROVE  sending'[r] <= Len(codes)
      BY <3>1, <2>2, <1>0 DEF CodesInv, CodeRows, SawOldEnough
    <3>2. Len(codes) \in Nat /\ \A r \in Senders : sending'[r] \in Nat
      BY <2>2, <1>0, RowsInOrder DEF CodeRows, NotSending
    <3>. QED
      BY <3>1, <3>2, <2>3 DEF SawOldEnough
  <2>10. CodesApart'
    <3>1. first.seen = k - 1 => first.gap >= ResendWindow
      BY <2>2, <1>0 DEF CodesInv, CodeRows, SawOldEnough, first, NotSending
    <3>. QED
      BY <3>1, <2>5, <2>6 DEF CodesInv, CodesApart
  <2>11. GuessesBounded'
    <3>1. Guessing(k) = {}
      BY <1>0 DEF CodeRows, Guessing
    <3>2. Cardinality(Guessing(k)) = 0
      BY <3>1, FS_EmptySet
    <3>3. wrong'[k] + Cardinality(Guessing(k)) <= MaxAttempts + Cardinality(Verifiers) - 1
      BY <3>2, <2>4, FewGuess
    <3>. QED
      BY <3>3, <2>2, <2>4, <2>6 DEF CodesInv, GuessesBounded, Guessing
  <2>. QED
    BY <2>7, <2>8, <2>9, <2>10, <2>11 DEF CodesInv
<1>3. ASSUME NEW v \in Verifiers, NEW n \in DOMAIN codes, NEW right \in BOOLEAN, CheckCode(v, n, right)
      PROVE  CodesInv'
  <2>. DEFINE it == [row |-> n, right |-> right]
  <2>1. /\ verifying' = [verifying EXCEPT ![v] = it] /\ verifying[v] = NotVerifying
        /\ UNCHANGED <<codes, sending, asked, wrong>> /\ codes[n].attempts < MaxAttempts
    BY <1>3 DEF CheckCode
  <2>2. CodeRows'
    BY <2>1, <1>0, RowsInOrder DEF CodeRows
  <2>3. Counted' /\ SawOldEnough' /\ CodesApart'
    BY <2>1 DEF CodesInv, Counted, SawOldEnough, CodesApart
  <2>4. ASSUME NEW m \in DOMAIN codes
        PROVE  wrong[m] + Cardinality(Guessing(m)') <= MaxAttempts + Cardinality(Verifiers) - 1
    <3>1. v \notin Guessing(m)
      BY <2>1, RowsInOrder, <1>0 DEF Guessing, NotVerifying
    <3>2. CASE m = n /\ ~right
      <4>1. Guessing(m)' = Guessing(m) \cup {v}
        BY <2>1, <3>2, <1>0 DEF Guessing, CodeRows
      <4>2. Cardinality(Guessing(m)') = Cardinality(Guessing(m)) + 1
        BY <4>1, <3>1, FewGuess, FS_AddElement
      <4>3. wrong[m] < MaxAttempts /\ wrong[m] \in Nat
        BY <2>1, <3>2, RowsInOrder, <1>0 DEF CodesInv, Counted
      <4>4. Cardinality(Guessing(m)) <= Cardinality(Verifiers) - 1
        BY <3>1, FewGuess
      <4>. QED
        BY <4>2, <4>3, <4>4, FewGuess
    <3>3. CASE ~(m = n /\ ~right)
      <4>1. Guessing(m)' = Guessing(m)
        BY <2>1, <3>1, <3>3, <1>0 DEF Guessing, CodeRows
      <4>. QED
        BY <4>1 DEF CodesInv, GuessesBounded, Guessing
    <3>. QED
      BY <3>2, <3>3
  <2>5. GuessesBounded'
    BY <2>1, <2>4 DEF GuessesBounded, Guessing
  <2>. QED
    BY <2>2, <2>3, <2>5 DEF CodesInv
<1>4. ASSUME NEW v \in Verifiers, WrongCode(v)
      PROVE  CodesInv'
  <2>. DEFINE k == verifying[v].row
  <2>1. /\ codes' = [codes EXCEPT ![k].attempts = @ + 1] /\ wrong' = [wrong EXCEPT ![k] = @ + 1]
        /\ verifying' = [verifying EXCEPT ![v] = NotVerifying]
        /\ UNCHANGED <<sending, asked>> /\ ~verifying[v].right /\ k # 0
    BY <1>4 DEF WrongCode, EndVerify
  <2>2. k \in DOMAIN codes /\ verifying[v] = [row |-> k, right |-> FALSE]
    BY <2>1, <1>0 DEF CodeRows
  <2>. HIDE DEF k
  <2>3. /\ codes' \in Seq(CodeRow) /\ Len(codes') = Len(codes) /\ DOMAIN codes' = DOMAIN codes
        /\ \A n \in DOMAIN codes : n # k => codes'[n] = codes[n]
        /\ codes'[k].attempts = codes[k].attempts + 1 /\ codes'[k].age = codes[k].age
    <3>0. \A n \in DOMAIN codes : codes'[n] \in CodeRow
      BY <2>1, <1>0, RowsInOrder DEF CodeRow
    <3>1. codes \in Seq(CodeRow) /\ codes' \in [DOMAIN codes -> CodeRow]
      BY <2>1, <3>0, <1>0 DEF CodeRows
    <3>2. codes' \in Seq(CodeRow) /\ Len(codes') = Len(codes) /\ DOMAIN codes' = DOMAIN codes
      BY <3>1, SeqChanged
    <3>3. \A n \in DOMAIN codes : n # k => codes'[n] = codes[n]
      BY <2>1, <2>2
    <3>4. codes[k] \in CodeRow
      BY <2>2, <1>0, RowsInOrder
    <3>5. codes'[k].attempts = codes[k].attempts + 1 /\ codes'[k].age = codes[k].age
      BY <2>1, <2>2, <3>4 DEF CodeRow
    <3>. QED
      BY <3>2, <3>3, <3>5
  <2>4. /\ wrong' \in Seq(Nat) /\ Len(wrong') = Len(wrong)
        /\ \A n \in DOMAIN codes : n # k => wrong'[n] = wrong[n]
        /\ wrong'[k] = wrong[k] + 1
    <3>0. DOMAIN wrong = DOMAIN codes /\ \A n \in DOMAIN wrong : wrong'[n] \in Nat
      BY <2>1, <1>0, RowsInOrder
    <3>1. wrong \in Seq(Nat) /\ wrong' \in [DOMAIN wrong -> Nat] /\ DOMAIN wrong = DOMAIN codes
      BY <2>1, <3>0, <1>0 DEF CodeRows
    <3>2. wrong' \in Seq(Nat) /\ Len(wrong') = Len(wrong)
      BY <3>1, SeqChanged
    <3>. QED
      BY <3>1, <3>2, <2>1, <2>2
  <2>5. CodeRows'
    <3>1. NotVerifying \in [row : 0..Len(codes), right : BOOLEAN]
      BY <1>0, RowsInOrder DEF NotVerifying
    <3>. QED
      BY <3>1, <2>1, <2>3, <2>4, <1>0 DEF CodeRows
  <2>6. Counted'
    BY <2>2, <2>3, <2>4 DEF CodesInv, Counted
  <2>7. SawOldEnough'
    <3>1. codes # <<>> => codes'[Len(codes)].age = codes[Len(codes)].age
      BY <2>3, RowsInOrder, <1>0
    <3>2. codes' # <<>> => codes # <<>>
      BY <2>2
    <3>. QED
      BY <2>1, <2>3, <3>1, <3>2 DEF CodesInv, SawOldEnough
  <2>8. CodesApart'
    BY <2>1, <2>3 DEF CodesInv, CodesApart
  <2>9. ASSUME NEW m \in DOMAIN codes
        PROVE  wrong'[m] + Cardinality(Guessing(m)') <= MaxAttempts + Cardinality(Verifiers) - 1
    <3>0. wrong[m] + Cardinality(Guessing(m)) <= MaxAttempts + Cardinality(Verifiers) - 1
      BY DEF CodesInv, GuessesBounded, Guessing
    <3>1. CASE m = k
      <4>1. Guessing(m)' = Guessing(m) \ {v} /\ v \in Guessing(m)
        BY <2>1, <2>2, <3>1, RowsInOrder, <1>0 DEF Guessing, CodeRows, NotVerifying
      <4>2. Cardinality(Guessing(m)') = Cardinality(Guessing(m)) - 1
        BY <4>1, FewGuess, FS_RemoveElement
      <4>. QED
        BY <4>2, <3>0, <3>1, <2>4, FewGuess, RowsInOrder, <1>0
    <3>2. CASE m # k
      <4>1. verifying[v] # [row |-> m, right |-> FALSE] /\ verifying'[v] # [row |-> m, right |-> FALSE]
        <5>1. m # 0
          BY <1>0, RowsInOrder
        <5>2. verifying'[v] = NotVerifying
          BY <2>1, <1>0 DEF CodeRows
        <5>. QED
          BY <5>1, <5>2, <2>2, <3>2 DEF NotVerifying
      <4>2. \A u \in Verifiers \ {v} : verifying'[u] = verifying[u]
        BY <2>1, <1>0 DEF CodeRows
      <4>3. Guessing(m)' = Guessing(m)
        BY <4>1, <4>2 DEF Guessing
      <4>. QED
        BY <4>3, <3>0, <3>2, <2>4
    <3>. QED
      BY <3>1, <3>2
  <2>10. GuessesBounded'
    BY <2>3, <2>9 DEF GuessesBounded, Guessing
  <2>. QED
    BY <2>5, <2>6, <2>7, <2>8, <2>10 DEF CodesInv
<1>5. ASSUME NEW v \in Verifiers, RightCode(v)
      PROVE  CodesInv'
  <2>. DEFINE k == verifying[v].row
  <2>1. /\ codes' = [codes EXCEPT ![k].used = TRUE]
        /\ verifying' = [verifying EXCEPT ![v] = NotVerifying]
        /\ UNCHANGED <<sending, asked, wrong>> /\ verifying[v].right
    BY <1>5 DEF RightCode, EndVerify
  <2>. HIDE DEF k
  <2>2. /\ codes' \in Seq(CodeRow) /\ Len(codes') = Len(codes) /\ DOMAIN codes' = DOMAIN codes
        /\ \A n \in DOMAIN codes : codes'[n].attempts = codes[n].attempts /\ codes'[n].age = codes[n].age
    <3>1. codes \in Seq(CodeRow) /\ codes' \in [DOMAIN codes -> CodeRow]
      BY <2>1, <1>0, RowsInOrder DEF CodeRows, CodeRow
    <3>2. \A n \in DOMAIN codes : codes[n] \in CodeRow
      BY <1>0, RowsInOrder
    <3>3. \A n \in DOMAIN codes : codes'[n].attempts = codes[n].attempts /\ codes'[n].age = codes[n].age
      BY <2>1, <3>2 DEF CodeRow
    <3>. QED
      BY <3>1, <3>3, SeqChanged
  <2>3. CodeRows'
    <3>1. NotVerifying \in [row : 0..Len(codes), right : BOOLEAN]
      BY <1>0, RowsInOrder DEF NotVerifying
    <3>. QED
      BY <3>1, <2>1, <2>2, <1>0 DEF CodeRows
  <2>4. Counted' /\ CodesApart'
    BY <2>1, <2>2 DEF CodesInv, Counted, CodesApart
  <2>5. SawOldEnough'
    BY <2>1, <2>2, RowsInOrder, <1>0 DEF CodesInv, SawOldEnough
  <2>6. \A m \in DOMAIN codes : Guessing(m)' = Guessing(m)
    BY <2>1, <1>0, RowsInOrder DEF Guessing, CodeRows, NotVerifying
  <2>7. GuessesBounded'
    BY <2>1, <2>2, <2>6 DEF CodesInv, GuessesBounded, Guessing
  <2>. QED
    BY <2>3, <2>4, <2>5, <2>7 DEF CodesInv
<1>6. ASSUME CodesTick
      PROVE  CodesInv'
  <2>1. /\ codes' = [n \in DOMAIN codes |-> [codes[n] EXCEPT !.age = IF @ = Hour THEN @ ELSE @ + 1]]
        /\ UNCHANGED <<sending, verifying, asked, wrong>>
        /\ \A s \in Senders : sending[s] = NotSending
    BY <1>6 DEF CodesTick
  <2>2. \A n \in DOMAIN codes : codes[n] \in CodeRow /\ codes \in Seq(CodeRow)
    BY <1>0, RowsInOrder DEF CodeRows
  <2>3. \A n \in DOMAIN codes : codes'[n] \in CodeRow /\ codes'[n].attempts = codes[n].attempts
    <3>. SUFFICES ASSUME NEW n \in DOMAIN codes
                  PROVE  codes'[n] \in CodeRow /\ codes'[n].attempts = codes[n].attempts
      OBVIOUS
    <3>. DEFINE a == codes[n].age
    <3>1. codes[n] \in CodeRow /\ a \in 0..Hour
      BY <2>2 DEF CodeRow
    <3>2. (IF a = Hour THEN a ELSE a + 1) \in 0..Hour
      BY <3>1
    <3>3. codes'[n] = [codes[n] EXCEPT !.age = IF a = Hour THEN a ELSE a + 1]
      BY <2>1
    <3>. HIDE DEF a
    <3>. QED
      BY <3>1, <3>2, <3>3 DEF CodeRow
  <2>30. codes' \in Seq(CodeRow) /\ Len(codes') = Len(codes) /\ DOMAIN codes' = DOMAIN codes
    <3>1. codes \in Seq(CodeRow) /\ codes' \in [DOMAIN codes -> CodeRow]
      BY <2>1, <2>3, <1>0 DEF CodeRows
    <3>. QED
      BY <3>1, SeqChanged
  <2>4. CodeRows'
    BY <2>1, <2>30, <1>0 DEF CodeRows
  <2>5. Counted' /\ SawOldEnough' /\ CodesApart' /\ GuessesBounded'
    BY <2>1, <2>3, <2>30 DEF CodesInv, Counted, SawOldEnough, CodesApart, GuessesBounded
  <2>. QED
    BY <2>4, <2>5 DEF CodesInv
<1>7. ASSUME UNCHANGED codeVars
      PROVE  CodesInv'
  BY <1>7 DEF codeVars, CodesInv, CodeRows, Counted, SawOldEnough, CodesApart, GuessesBounded
<1>. QED
  BY <1>1, <1>2, <1>3, <1>4, <1>5, <1>6, <1>7 DEF CodesNext

LEMMA CodesInvariant == CodesSpec => []CodesInv
BY CodesInitial, CodesStep, PTL DEF CodesSpec

(* The rows of the codes keep their types.                                 *)
THEOREM CodesTypeCorrect == CodesSpec => []CodesTypeOK
<1>1. CodesInv => CodesTypeOK
  <2> SUFFICES ASSUME CodesInv PROVE CodesTypeOK
    OBVIOUS
  <2>1. /\ DOMAIN codes = 1..Len(codes) /\ DOMAIN asked = 1..Len(codes) /\ DOMAIN wrong = 1..Len(codes)
        /\ \A n \in DOMAIN codes : codes[n] \in CodeRow
    BY DEF CodesInv, CodeRows
  <2> QED
    BY <2>1 DEF CodesInv, CodeRows, CodeRow, CodesTypeOK
<1>. QED
  BY <1>1, CodesInvariant, PTL

(* However many requests verify at once, a code meets at most MAX_ATTEMPTS *)
(* wrong guesses and one for each request besides the one at the limit.    *)
THEOREM FewGuesses == CodesSpec => []GuessesBounded
<1>1. CodesInv => GuessesBounded
  BY DEF CodesInv
<1>. QED
  BY <1>1, CodesInvariant, PTL

(* Two messages to a number are RESEND_WINDOW_MS apart unless the requests *)
(* overlapped (send-code).                                                 *)
THEOREM MessagesApart == CodesSpec => []CodesApart
<1>1. CodesInv => CodesApart
  BY DEF CodesInv
<1>. QED
  BY <1>1, CodesInvariant, PTL

-----------------------------------------------------------------------------
(***************************************************************************)
(* Proofs about the password reset links (ResetLink).                      *)
(***************************************************************************)

LinkState == {"live", "expired", "used", "deleted"}

(* What an issuer deleted up to is known, and nothing it left works: the   *)
(* reason why a token created later is the only one, or names the overlap. *)
NothingLeft ==
  \A i \in Issuers : issuing[i] # NotIssuing =>
    /\ issuing[i] <= Len(links)
    /\ \A n \in DOMAIN links : links[n] = "live" => n > issuing[i]

LinkRows ==
  /\ links \in Seq(LinkState) /\ Len(links) <= MaxLinks
  /\ issuing \in [Issuers -> 0..NotIssuing]
  /\ using \in [Users -> 0..Len(links)]
  /\ cut \in Seq(0..NotIssuing) /\ Len(cut) = Len(links)
  /\ resets \in 0..Len(links)
  /\ late \subseteq Users

LinksInv == LinkRows /\ NothingLeft /\ OneLiveLink /\ OldLinksDead

(* Changing the state of some tokens keeps the others, and their number.   *)
LEMMA BecomeKeeps ==
  ASSUME NEW set, NEW state \in LinkState, links \in Seq(LinkState), Become(set, state)
  PROVE  /\ links' \in Seq(LinkState)
         /\ Len(links') = Len(links) /\ DOMAIN links' = DOMAIN links
         /\ \A n \in DOMAIN links : links'[n] = IF n \in set THEN state ELSE links[n]
<1>1. DOMAIN links = 1..Len(links) /\ Len(links) \in Nat
  OBVIOUS
<1>2. /\ links' = [n \in 1..Len(links) |-> IF n \in set THEN state ELSE links[n]]
  BY <1>1 DEF Become
<1>3. links' \in [1..Len(links) -> LinkState]
  BY <1>1, <1>2
<1>4. links' \in Seq(LinkState)
  BY <1>1, <1>3
<1>5. Len(links') = Len(links)
  BY <1>1, <1>3, <1>4
<1>. QED
  BY <1>1, <1>2, <1>4, <1>5

(* A step that revives no token and leaves the rest alone.                 *)
LEMMA NoneRevived ==
  ASSUME LinksInv, NEW set, NEW state \in LinkState \ {"live"}, Become(set, state),
         UNCHANGED <<issuing, cut>>,
         using' \in [Users -> 0..Len(links)], late' \subseteq Users,
         \/ UNCHANGED <<using, resets, late>>
         \/ /\ resets' = Len(links) /\ \A n \in DOMAIN links : links'[n] # "live"
            /\ \A u \in Users \ late' : using'[u] = 0
  PROVE  LinksInv'
<1>. USE LinksAssumption DEF NotIssuing
<1>1. /\ links' \in Seq(LinkState) /\ Len(links') = Len(links) /\ DOMAIN links' = DOMAIN links
      /\ \A n \in DOMAIN links : links'[n] = "live" => links[n] = "live"
  BY BecomeKeeps DEF LinksInv, LinkRows
<1>2. LinkRows'
  BY <1>1 DEF LinksInv, LinkRows
<1>3. NothingLeft'
  BY <1>1 DEF LinksInv, NothingLeft
<1>4. OneLiveLink'
  BY <1>1 DEF LinksInv, OneLiveLink
<1>5. OldLinksDead'
  BY <1>1 DEF LinksInv, OldLinksDead
<1>. QED
  BY <1>2, <1>3, <1>4, <1>5 DEF LinksInv

LEMMA LinksInitial == LinksInit => LinksInv
BY LinksAssumption DEF LinksInit, LinksInv, LinkRows, NothingLeft, OneLiveLink, OldLinksDead, NotIssuing

LEMMA LinksStep == LinksInv /\ [LinksNext]_linkVars => LinksInv'
<1>. SUFFICES ASSUME LinksInv, [LinksNext]_linkVars
              PROVE  LinksInv'
  OBVIOUS
<1>. USE LinksAssumption DEF NotIssuing
<1>1. ASSUME NEW i \in Issuers, IssueDelete(i)
      PROVE  LinksInv'
  <2>1. /\ links' \in Seq(LinkState) /\ Len(links') = Len(links) /\ DOMAIN links' = DOMAIN links
        /\ \A n \in DOMAIN links : links'[n] # "live"
    <3>1. links \in Seq(LinkState) /\ Become(Unused, "deleted")
      BY <1>1 DEF LinksInv, LinkRows, IssueDelete, DeletesUnused
    <3> QED
      BY <3>1, BecomeKeeps DEF Unused, LinkState
  <2>2. LinkRows'
    BY <1>1, <2>1 DEF LinksInv, LinkRows, IssueDelete
  <2>3. NothingLeft'
    BY <1>1, <2>1 DEF LinksInv, LinkRows, NothingLeft, IssueDelete
  <2>4. OneLiveLink' /\ OldLinksDead'
    BY <1>1, <2>1 DEF OneLiveLink, OldLinksDead, LinksInv, IssueDelete
  <2>. QED
    BY <2>2, <2>3, <2>4 DEF LinksInv
<1>2. ASSUME NEW i \in Issuers, IssueCreate(i)
      PROVE  LinksInv'
  <2>1. /\ links' \in Seq(LinkState) /\ Len(links') = Len(links) + 1
        /\ DOMAIN links = 1..Len(links) /\ DOMAIN links' = 1..(Len(links) + 1)
        /\ \A n \in DOMAIN links : links'[n] = links[n]
    BY <1>2 DEF LinksInv, LinkRows, IssueCreate, LinkState
  <2>2. /\ cut' \in Seq(0..NotIssuing) /\ Len(cut') = Len(links')
        /\ \A n \in DOMAIN links : cut'[n] = cut[n]
        /\ cut'[Len(links) + 1] = issuing[i]
    BY <1>2, <2>1 DEF LinksInv, LinkRows, IssueCreate
  <2>3. LinkRows'
    BY <1>2, <2>1, <2>2 DEF LinksInv, LinkRows, IssueCreate
  <2>4. NothingLeft'
    BY <1>2, <2>1 DEF LinksInv, LinkRows, NothingLeft, IssueCreate
  <2>5. OneLiveLink'
    <3>. SUFFICES ASSUME NEW m \in DOMAIN links', NEW n \in DOMAIN links',
                         m < n, links'[m] = "live", links'[n] = "live"
                  PROVE  cut'[n] < m
      BY DEF OneLiveLink
    <3>1. CASE n = Len(links) + 1
      BY <1>2, <2>1, <2>2, <3>1 DEF LinksInv, NothingLeft, IssueCreate
    <3>2. CASE n # Len(links) + 1
      <4>1. m \in DOMAIN links /\ n \in DOMAIN links
        BY <2>1, <3>2 DEF LinksInv, LinkRows
      <4>. QED
        BY <4>1, <2>1, <2>2 DEF LinksInv, OneLiveLink
    <3>. QED
      BY <3>1, <3>2
  <2>6. OldLinksDead'
    BY <1>2, <2>1 DEF LinksInv, LinkRows, OldLinksDead, IssueCreate
  <2>. QED
    BY <2>3, <2>4, <2>5, <2>6 DEF LinksInv
<1>3. ASSUME NEW u \in Users, NEW n \in DOMAIN links, UseRead(u, n)
      PROVE  LinksInv'
  <2>1. LinkRows'
    BY <1>3 DEF LinksInv, LinkRows, UseRead
  <2>. QED
    BY <1>3, <2>1 DEF LinksInv, NothingLeft, OneLiveLink, OldLinksDead, UseRead
<1>4. ASSUME NEW u \in Users, UseCommit(u)
      PROVE  LinksInv'
  <2>1. Become(Unused, "used")
    BY <1>4 DEF UseCommit, MarksUsed
  <2>2. \A n \in DOMAIN links : links'[n] # "live"
    BY <2>1, BecomeKeeps DEF LinksInv, LinkRows, Unused, LinkState
  <2>3. /\ using' \in [Users -> 0..Len(links)] /\ UNCHANGED <<issuing, cut>>
        /\ resets' = Len(links) /\ late' \subseteq Users
        /\ \A v \in Users \ late' : using'[v] = 0
    BY <1>4 DEF UseCommit, LinksInv, LinkRows
  <2>. QED
    BY <2>1, <2>2, <2>3, NoneRevived DEF LinkState
<1>5. ASSUME NEW n \in DOMAIN links, Expire(n)
      PROVE  LinksInv'
  <2>1. Become({n}, "expired") /\ UNCHANGED <<issuing, cut, resets, using, late>>
    BY <1>5 DEF Expire
  <2>. QED
    BY <2>1, NoneRevived DEF LinkState, LinksInv, LinkRows
<1>6. ASSUME Cleanup
      PROVE  LinksInv'
  <2>1. /\ Become({n \in DOMAIN links : links[n] = "expired"}, "deleted")
        /\ UNCHANGED <<issuing, cut, resets, using, late>>
    BY <1>6 DEF Cleanup
  <2>. QED
    BY <2>1, NoneRevived DEF LinkState, LinksInv, LinkRows
<1>7. ASSUME UNCHANGED linkVars
      PROVE  LinksInv'
  BY <1>7 DEF linkVars, LinksInv, LinkRows, NothingLeft, OneLiveLink, OldLinksDead
<1>. QED
  BY <1>1, <1>2, <1>3, <1>4, <1>5, <1>6, <1>7 DEF LinksNext

LEMMA LinksInvariant == LinksSpec => []LinksInv
BY LinksInitial, LinksStep, PTL DEF LinksSpec

(* The links and the requests about them keep their types.                 *)
THEOREM LinksTypeCorrect == LinksSpec => []LinksTypeOK
<1> DEFINE ResetsKnown == resets \in 0..Len(links)
<1>1. LinksInit => ResetsKnown
  BY DEF LinksInit
<1>2. LinksInv /\ ResetsKnown /\ [LinksNext]_linkVars => ResetsKnown'
  <2> SUFFICES ASSUME LinksInv, ResetsKnown, [LinksNext]_linkVars PROVE ResetsKnown'
    OBVIOUS
  <2>1. links \in Seq(LinkState) /\ Len(links) \in Nat
    BY DEF LinksInv, LinkRows
  <2>2. ASSUME NEW set, NEW s \in LinkState, Become(set, s), resets' \in {resets, Len(links)}
        PROVE  ResetsKnown'
    <3>1. Len(links') = Len(links)
      BY <2>1, <2>2, BecomeKeeps
    <3> QED
      BY <2>1, <2>2, <3>1
  <2>3. ASSUME NEW i \in Issuers, IssueDelete(i) PROVE ResetsKnown'
    BY <2>2, <2>3 DEF IssueDelete, DeletesUnused, LinkState
  <2>4. ASSUME NEW i \in Issuers, IssueCreate(i) PROVE ResetsKnown'
    <3>1. Len(links') = Len(links) + 1 /\ resets' = resets
      BY <2>1, <2>4 DEF IssueCreate
    <3> QED
      BY <2>1, <3>1
  <2>5. ASSUME NEW u \in Users, UseCommit(u) PROVE ResetsKnown'
    BY <2>2, <2>5 DEF UseCommit, MarksUsed, LinkState
  <2>6. CASE (\E n \in DOMAIN links : Expire(n)) \/ Cleanup
    BY <2>2, <2>6 DEF Expire, Cleanup, LinkState
  <2>7. CASE UNCHANGED linkVars \/ \E u \in Users, n \in DOMAIN links : UseRead(u, n)
    BY <2>7 DEF linkVars, UseRead
  <2> QED
    BY <2>3, <2>4, <2>5, <2>6, <2>7 DEF LinksNext
<1>3. LinksInv /\ ResetsKnown => LinksTypeOK
  <2> SUFFICES ASSUME LinksInv, ResetsKnown PROVE LinksTypeOK
    OBVIOUS
  <2>1. DOMAIN cut = DOMAIN links
    BY DEF LinksInv, LinkRows
  <2> QED
    BY <2>1 DEF LinksInv, LinkRows, LinkState, LinksTypeOK
<1>. QED
  BY <1>1, <1>2, <1>3, LinksInvariant, PTL DEF LinksSpec

(* Only the newest link works, but for the overlap of two issues, however  *)
(* many links are asked for (createPasswordResetToken).                    *)
THEOREM NewestLinkOnly == LinksSpec => []OneLiveLink
<1>1. LinksInv => OneLiveLink
  BY DEF LinksInv
<1>. QED
  BY <1>1, LinksInvariant, PTL

(* No link issued before a reset is accepted after it, and a use under way *)
(* with one had passed its check before that reset (reset-password).       *)
THEOREM ResetEndsLinks == LinksSpec => []OldLinksDead
<1>1. LinksInv => OldLinksDead
  BY DEF LinksInv
<1>. QED
  BY <1>1, LinksInvariant, PTL

-----------------------------------------------------------------------------
(***************************************************************************)
(* The wish list, for any number of products.                              *)
(***************************************************************************)
WishRow == {NoWish} \cup [do : {"add", "remove"}, step : {"sent", "ok", "failed"}]

WishRows ==
  /\ wish \in [Wishable -> WishRow]
  /\ {saved, shown, pending, doubtful} \subseteq SUBSET Wishable
  /\ list \in [Fetches -> SUBSET Wishable] /\ changed \in [Fetches -> SUBSET Wishable]
  /\ initialized \in BOOLEAN
  /\ session \in {"loading", "in"}
  /\ fetched \in [Fetches -> {"none", "sent", "answered"}]

(* Until a list has arrived nothing is certain.                            *)
NothingKnownYet == ~initialized => doubtful = Wishable

PendingHasWish == \A p \in Wishable : p \in pending <=> wish[p] # NoWish

(* A list that is on its way is right about the products that nobody       *)
(* clicked since it was read.                                              *)
ListRight ==
  \A f \in Fetches : fetched[f] = "answered" =>
    /\ pending \subseteq changed[f]
    /\ \A p \in Wishable \ changed[f] : p \in list[f] <=> p \in saved

(* A request under way for a product whose row was known: the store shows  *)
(* what it asked for, the row is as asked for once it has been served and  *)
(* is the opposite before that and when it failed.                         *)
RequestRight ==
  \A p \in pending \ doubtful :
    /\ p \in shown <=> wish[p].do = "add"
    /\ p \in saved <=> (wish[p].do = "add" <=> wish[p].step = "ok")

WishInv ==
  /\ WishRows /\ NothingKnownYet /\ PendingHasWish /\ ListRight /\ RequestRight
  /\ HeartTellsTheTruth

LEMMA WishInvInit == WishInit => WishInv
BY DEF WishInit, WishInv, WishRows, WishRow, NothingKnownYet, PendingHasWish, ListRight,
       RequestRight, HeartTellsTheTruth

LEMMA WishInvNext == WishInv /\ [WishNext]_wishVars => WishInv'
<1> SUFFICES ASSUME WishInv, [WishNext]_wishVars PROVE WishInv'
  OBVIOUS
<1> USE DEF WishInv, WishRows, WishRow, NothingKnownYet, PendingHasWish, ListRight,
            RequestRight, HeartTellsTheTruth, NoWish
<1>1. CASE UNCHANGED wishVars
  BY <1>1 DEF wishVars
<1>2. ASSUME NEW f \in Fetches, SessionChanges(f) PROVE WishInv'
  BY <1>2 DEF SessionChanges
<1>3. ASSUME NEW f \in Fetches, ListRead(f) PROVE WishInv'
  BY <1>3 DEF ListRead
<1>4. ASSUME NEW f \in Fetches, ListArrives(f) PROVE WishInv'
  BY <1>4 DEF ListArrives
<1>5. ASSUME NEW f \in Fetches, ListFails(f) PROVE WishInv'
  BY <1>5 DEF ListFails
<1>6. ASSUME NEW p \in Wishable, ButtonMounts(p) PROVE WishInv'
  BY <1>6 DEF ButtonMounts
<1>7. ASSUME NEW p \in Wishable, Toggle(p) PROVE WishInv'
  BY <1>7 DEF Toggle, Free
<1>8. ASSUME NEW p \in Wishable, Served(p) PROVE WishInv'
  BY <1>8 DEF Served, Saves
<1>9. ASSUME NEW p \in Wishable, NotServed(p) PROVE WishInv'
  BY <1>9 DEF NotServed
<1>10. ASSUME NEW p \in Wishable, AnswerLost(p) PROVE WishInv'
  BY <1>10 DEF AnswerLost, Saves
<1>11. ASSUME NEW p \in Wishable, Settles(p) PROVE WishInv'
  BY <1>11 DEF Settles
<1> QED
  BY <1>1, <1>2, <1>3, <1>4, <1>5, <1>6, <1>7, <1>8, <1>9, <1>10, <1>11 DEF WishNext

(* The store's variables keep their types.                                 *)
THEOREM WishTypeCorrect == WishSpec => []WishTypeOK
<1>1. WishInv => WishTypeOK
  BY DEF WishInv, WishRows, WishRow, WishTypeOK
<1> QED
  BY <1>1, WishInvInit, WishInvNext, PTL DEF WishSpec

(* store/wishlist.ts: a heart at rest shows whether the row exists, for    *)
(* every product whose row the store was told and no answer was lost of,   *)
(* however clicks, failures, rollbacks and the lists fetched interleave.   *)
THEOREM HeartIsTrue == WishSpec => []HeartTellsTheTruth
<1>1. WishInv => HeartTellsTheTruth
  BY DEF WishInv
<1> QED
  BY <1>1, WishInvInit, WishInvNext, PTL DEF WishSpec

-----------------------------------------------------------------------------
(***************************************************************************)
(* The category tree, for any finite set of categories.                    *)
(***************************************************************************)
Edit == {NotEditing} \cup [do : {"move", "delete"}, id : Categories, to : Categories \cup {Root}]

TreeRows ==
  /\ parent \in [Categories -> Categories \cup {Root, NoCategory, Deleted}]
  /\ shelf \in [Products -> Categories \cup {NoCategory}]
  /\ editing \in [Editors -> Edit]
  /\ crossed \in BOOLEAN

Moves(e) == editing[e].do = "move"

(* No foreign key dangles, and what a move refers to has had a row.        *)
References ==
  /\ \A c \in Rows : parent[c] \in Rows \cup {Root}
  /\ \A p \in Products : shelf[p] # NoCategory => shelf[p] \in Rows
  /\ \A e \in Editors : Moves(e) /\ editing[e].to \in Categories
                          => parent[editing[e].to] # NoCategory

Closed(D) == \A d \in Rows : parent[d] \in D => d \in D

(* The new parent of a move is not below the category it moves: some set   *)
(* with the category contains all that is below it, and not the parent.    *)
NotBelow(e) ==
  \E D \in SUBSET Categories : Closed(D) /\ editing[e].id \in D /\ editing[e].to \notin D

(* No set of categories holds the parents of all its members.              *)
NoCycle == \A S \in SUBSET Rows : S # {} => \E x \in S : parent[x] \notin S

TreeInv ==
  /\ TreeRows /\ References
  /\ ~crossed => NoCycle /\ \A e \in Editors : Moves(e) => NotBelow(e)

LEMMA TreeInvInit == TreeInit => TreeInv
<1> SUFFICES ASSUME TreeInit PROVE TreeInv
  OBVIOUS
<1>1. Rows = {}
  BY DEF TreeInit, Rows
<1>2. TreeRows
  BY DEF TreeInit, TreeRows, Edit
<1>3. \A e \in Editors : ~Moves(e)
  BY DEF TreeInit, Moves, NotEditing
<1>4. References /\ NoCycle
  BY <1>1, <1>3 DEF TreeInit, References, NoCycle
<1> QED
  BY <1>2, <1>3, <1>4 DEF TreeInv

LEMMA TreeCreate ==
  ASSUME TreeInv, NEW c \in Categories, NEW up \in Categories \cup {Root}, CreateCategory(c, up)
  PROVE  TreeInv'
<1> USE TreeAssumption DEF TreeInv
<1>1. TreeRows'
  BY DEF TreeRows, CreateCategory, Rows
<1>2. Rows' = Rows \cup {c} /\ c \notin Rows
  BY DEF TreeRows, CreateCategory, Rows
<1>3. \A d \in Rows : parent'[d] = parent[d] /\ parent[d] # c
  BY <1>2 DEF TreeRows, References, CreateCategory
<1>4. parent'[c] = up /\ up # c /\ up \in Rows \cup {Root}
  BY <1>2 DEF TreeRows, CreateCategory
<1>5. References'
  BY <1>2, <1>3, <1>4 DEF References, CreateCategory, Moves, TreeRows, Rows
<1>6. NoCycle => NoCycle'
  <2> SUFFICES ASSUME NoCycle, NEW S \in SUBSET Rows', S # {}
               PROVE  \E x \in S : parent'[x] \notin S
    BY DEF NoCycle
  <2>1. CASE S \subseteq {c}
    BY <2>1, <1>4
  <2>2. CASE ~(S \subseteq {c})
    <3>1. S \ {c} \in SUBSET Rows /\ S \ {c} # {}
      BY <2>2, <1>2
    <3>2. PICK x \in S \ {c} : parent[x] \notin S \ {c}
      BY <3>1 DEF NoCycle
    <3> QED
      BY <3>1, <3>2, <1>3
  <2> QED
    BY <2>1, <2>2
<1>7. ASSUME NEW e \in Editors, Moves(e)', NotBelow(e) PROVE NotBelow(e)'
  <2>1. PICK D \in SUBSET Categories : Closed(D) /\ editing[e].id \in D /\ editing[e].to \notin D
    BY <1>7 DEF NotBelow
  <2>2. editing' = editing /\ editing[e].to # c
    BY <1>7 DEF CreateCategory, Moves, References
  <2>3. (Closed(D \cup {c}))'
    BY <2>1, <1>2, <1>3 DEF Closed
  <2> QED
    BY <2>1, <2>2, <2>3 DEF NotBelow
<1> QED
  BY <1>1, <1>5, <1>6, <1>7 DEF CreateCategory, Moves

LEMMA TreeCheckMove ==
  ASSUME TreeInv, NEW e \in Editors, NEW c \in Categories, NEW up \in Categories \cup {Root},
         CheckMove(e, c, up)
  PROVE  TreeInv'
<1> USE TreeAssumption DEF TreeInv
<1>1. UNCHANGED <<parent, shelf, crossed>> /\ Rows' = Rows
  BY DEF CheckMove, Rows
<1>2. /\ editing'[e] = [do |-> "move", id |-> c, to |-> up]
      /\ \A f \in Editors \ {e} : editing'[f] = editing[f]
  BY DEF CheckMove, TreeRows
<1>3. TreeRows'
  BY <1>1 DEF CheckMove, TreeRows, Edit
<1>4. References'
  BY <1>1, <1>2 DEF CheckMove, Movable, References, Moves, Rows
<1>5. NoCycle => NoCycle'
  BY <1>1 DEF NoCycle
<1>6. NotBelow(e)'
  <2>1. CASE up = Root
    BY <1>1, <1>2, <2>1 DEF NotBelow, Closed, Rows
  <2>2. CASE up # Root
    <3>1. (Closed({c}))' /\ up # c
      BY <1>1, <2>2 DEF Closed, CheckMove, Movable, Children
    <3> QED
      BY <1>2, <3>1 DEF NotBelow
  <2> QED
    BY <2>1, <2>2
<1>7. ASSUME NEW f \in Editors \ {e}
      PROVE  (Moves(f)' <=> Moves(f)) /\ (NotBelow(f) => NotBelow(f)')
  BY <1>1, <1>2, <1>7 DEF Moves, NotBelow, Closed
<1> QED
  BY <1>1, <1>3, <1>4, <1>5, <1>6, <1>7

LEMMA TreeMove ==
  ASSUME TreeInv, NEW e \in Editors, Move(e)
  PROVE  TreeInv'
<1> USE TreeAssumption DEF TreeInv
<1> DEFINE id == editing[e].id
           to == editing[e].to
<1>1. /\ editing[e] \in [do : {"move", "delete"}, id : Categories, to : Categories \cup {Root}]
      /\ Moves(e) /\ editing' = [editing EXCEPT ![e] = NotEditing] /\ shelf' = shelf
  BY DEF Move, EndEdit, TreeRows, Edit, Moves
<1>2. id \in Categories /\ to \in Categories \cup {Root}
  BY <1>1
<1>3. Rows' = Rows
  BY <1>2 DEF Move, TreeRows, Rows
<1>4. TreeRows'
  BY <1>1, <1>2 DEF Move, TreeRows, Edit
<1>5. \A d \in Categories :
        parent'[d] = IF d = id /\ id \in Rows /\ to \in Rows \cup {Root} THEN to ELSE parent[d]
  BY <1>1, <1>2 DEF Move, TreeRows
<1>6. References'
  <2>1. \A c \in Rows' : parent'[c] \in Rows' \cup {Root}
    BY <1>3, <1>5 DEF References, Rows
  <2>2. \A f \in Editors : Moves(f)' => Moves(f) /\ editing'[f] = editing[f]
    BY <1>1 DEF Moves, NotEditing, TreeRows
  <2>3. \A d \in Categories : parent[d] # NoCategory => parent'[d] # NoCategory
    BY <1>5, <1>2 DEF Rows
  <2> QED
    BY <1>1, <1>3, <2>1, <2>2, <2>3 DEF References, Moves
<1>7. ASSUME ~crossed' PROVE NoCycle' /\ \A f \in Editors : ~Moves(f)'
  <2>1. ~crossed /\ \A f \in Editors \ {e} : ~Moves(f)
    BY <1>7 DEF Move, Moves, TreeRows
  <2>2. \A f \in Editors : ~Moves(f)'
    BY <2>1, <1>1 DEF Moves, NotEditing, TreeRows
  <2>3. PICK D \in SUBSET Categories : Closed(D) /\ id \in D /\ to \notin D
    BY <2>1, <1>1 DEF NotBelow
  <2>4. ASSUME NEW S \in SUBSET Rows, S # {} PROVE \E x \in S : parent'[x] \notin S
    <3>1. CASE S \ D # {}
      <4>1. PICK x \in S \ D : parent[x] \notin S \ D
        BY <2>1, <2>4, <3>1 DEF NoCycle
      <4>2. parent[x] \notin S /\ x # id /\ x \in Categories
        BY <2>3, <2>4, <4>1 DEF Closed, Rows
      <4> QED
        BY <4>1, <4>2, <1>5
    <3>2. CASE S \subseteq D
      <4>1. PICK x \in S : parent[x] \notin S
        BY <2>1, <2>4 DEF NoCycle
      <4>2. \A y \in S : y \in Categories
        BY <2>4 DEF Rows
      <4>3. to \notin S
        BY <2>3, <3>2
      <4> HIDE DEF id, to
      <4> QED
        BY <4>1, <4>2, <4>3, <1>5
    <3> QED
      BY <3>1, <3>2
  <2> QED
    BY <2>2, <2>4, <1>3 DEF NoCycle
<1> QED
  BY <1>4, <1>6, <1>7

LEMMA TreeCheckDelete ==
  ASSUME TreeInv, NEW e \in Editors, NEW c \in Categories, CheckDelete(e, c)
  PROVE  TreeInv'
<1> USE DEF TreeInv
<1>1. UNCHANGED <<parent, shelf, crossed>> /\ Rows' = Rows
  BY DEF CheckDelete, Rows
<1>2. /\ editing'[e] = [do |-> "delete", id |-> c, to |-> Root]
      /\ \A f \in Editors \ {e} : editing'[f] = editing[f]
  BY DEF CheckDelete, TreeRows
<1>3. TreeRows'
  BY <1>1 DEF CheckDelete, TreeRows, Edit
<1>4. \A f \in Editors : Moves(f)' => f # e /\ Moves(f)
  BY <1>2 DEF Moves
<1>5. References'
  BY <1>1, <1>2, <1>4 DEF References
<1>6. NoCycle => NoCycle'
  BY <1>1 DEF NoCycle
<1>7. \A f \in Editors : Moves(f)' /\ NotBelow(f) => NotBelow(f)'
  BY <1>1, <1>2, <1>4 DEF NotBelow, Closed
<1> QED
  BY <1>1, <1>3, <1>4, <1>5, <1>6, <1>7

LEMMA TreeDelete ==
  ASSUME TreeInv, NEW e \in Editors, Delete(e)
  PROVE  TreeInv'
<1> USE TreeAssumption DEF TreeInv
<1> DEFINE c == editing[e].id
<1>1. /\ editing' = [editing EXCEPT ![e] = NotEditing]
      /\ UNCHANGED <<shelf, crossed>>
      /\ c \in Categories
  BY DEF Delete, EndEdit, TreeRows, Edit
<1>2. TreeRows'
  BY <1>1 DEF Delete, TreeRows, Edit
<1>3. \A f \in Editors : Moves(f)' => Moves(f) /\ editing'[f] = editing[f]
  BY <1>1 DEF Moves, NotEditing, TreeRows
<1>4. CASE parent' = parent
  <2>1. Rows' = Rows
    BY <1>4 DEF Rows
  <2>2. References'
    BY <1>1, <1>3, <1>4, <2>1 DEF References
  <2>3. NoCycle => NoCycle'
    BY <1>4, <2>1 DEF NoCycle
  <2>4. \A f \in Editors : Moves(f)' /\ NotBelow(f) => NotBelow(f)'
    BY <1>3, <1>4, <2>1 DEF NotBelow, Closed
  <2> QED
    BY <1>1, <1>2, <1>3, <2>2, <2>3, <2>4
<1>5. ASSUME parent' # parent PROVE TreeInv'
  <2>1. /\ c \in Rows /\ \A p \in Products : shelf[p] # c
        /\ \A d \in Categories : parent'[d] = IF d = c THEN Deleted
                                              ELSE IF parent[d] = c THEN Root ELSE parent[d]
    BY <1>5 DEF Delete
  <2> HIDE DEF c
  <2>2. Rows' = Rows \ {c}
    BY <1>1, <2>1 DEF Rows
  <2>3. \A d \in Rows' : /\ d \in Categories
                         /\ \/ parent'[d] = parent[d] /\ parent[d] # c
                            \/ parent'[d] = Root
    BY <2>1, <2>2 DEF Rows
  <2>4. \A d \in Categories : parent[d] # NoCategory => parent'[d] # NoCategory
    BY <2>1
  <2>5. References'
    BY <1>1, <1>3, <2>1, <2>2, <2>3, <2>4 DEF References, Moves
  <2>6. NoCycle => NoCycle'
    <3> SUFFICES ASSUME NoCycle, NEW S \in SUBSET Rows', S # {}
                 PROVE  \E x \in S : parent'[x] \notin S
      BY DEF NoCycle
    <3>1. PICK x \in S : parent[x] \notin S
      BY <2>2 DEF NoCycle
    <3>2. Root \notin S
      BY DEF Rows
    <3> QED
      BY <2>3, <3>1, <3>2
  <2>7. ASSUME NEW f \in Editors, Moves(f)', NotBelow(f) PROVE NotBelow(f)'
    <3>1. PICK D \in SUBSET Categories : Closed(D) /\ editing[f].id \in D /\ editing[f].to \notin D
      BY <2>7 DEF NotBelow
    <3>2. Closed(D)'
      BY <2>2, <2>3, <3>1 DEF Closed
    <3> QED
      BY <1>3, <2>7, <3>1, <3>2 DEF NotBelow
  <2> QED
    BY <1>1, <1>2, <1>3, <2>5, <2>6, <2>7
<1> QED
  BY <1>4, <1>5

LEMMA TreeInvNext == TreeInv /\ [TreeNext]_treeVars => TreeInv'
<1> SUFFICES ASSUME TreeInv, [TreeNext]_treeVars PROVE TreeInv'
  OBVIOUS
<1>1. ASSUME UNCHANGED <<parent, editing, crossed>>, TreeRows',
             \/ shelf' = shelf
             \/ \E p \in Products, c \in Rows : shelf' = [shelf EXCEPT ![p] = c]
      PROVE  TreeInv'
  <2>1. Rows' = Rows
    BY <1>1 DEF Rows
  <2>2. References'
    BY <1>1, <2>1 DEF TreeInv, References, Moves, TreeRows
  <2> QED
    BY <1>1, <2>1, <2>2 DEF TreeInv, NoCycle, Moves, NotBelow, Closed
<1>2. CASE UNCHANGED treeVars
  BY <1>1, <1>2 DEF treeVars, TreeInv, TreeRows
<1>3. ASSUME NEW p \in Products, NEW c \in Categories, PutProduct(p, c) PROVE TreeInv'
  <2>1. TreeRows' /\ c \in Rows
    BY <1>3 DEF PutProduct, TreeInv, TreeRows
  <2> QED
    BY <1>1, <1>3, <2>1 DEF PutProduct
<1> QED
  BY <1>2, <1>3, TreeCreate, TreeCheckMove, TreeMove, TreeCheckDelete, TreeDelete DEF TreeNext

(* The rows of the category tree keep their types, and no category and no  *)
(* product refers to one that was deleted.                                 *)
THEOREM TreeTypeCorrect == TreeSpec => []TreeTypeOK
<1>1. TreeInv => TreeTypeOK
  BY DEF TreeInv, TreeRows, References, TreeTypeOK, Edit
<1> QED
  BY <1>1, TreeInvInit, TreeInvNext, PTL DEF TreeSpec

-----------------------------------------------------------------------------
(* A walk of n steps up from c, as the breadcrumb and the feed make it.    *)
IsWalk(up, c, n) ==
  up = [k \in 0..n |-> IF k = 0 THEN c
                       ELSE IF up[k - 1] \in Categories THEN parent[up[k - 1]] ELSE up[k - 1]]

LEMMA WalkExists ==
  ASSUME NEW c
  PROVE  \A n \in Nat : \E up : IsWalk(up, c, n)
<1> DEFINE G == {n \in Nat : \E up : IsWalk(up, c, n)}
<1>1. 0 \in G
  <2>1. IsWalk([k \in 0..0 |-> c], c, 0)
    BY DEF IsWalk
  <2> QED
    BY <2>1
<1>2. ASSUME NEW n \in Nat, n \in G PROVE n + 1 \in G
  <2>1. PICK up : IsWalk(up, c, n)
    BY <1>2
  <2> DEFINE step(x) == IF x \in Categories THEN parent[x] ELSE x
             longer == [k \in 0..(n + 1) |-> IF k = n + 1 THEN step(up[n]) ELSE up[k]]
  <2>2. /\ up[0] = c
        /\ \A k \in 1..n : up[k] = step(up[k - 1])
    BY <2>1 DEF IsWalk
  <2>3. longer[0] = c
    BY <2>2
  <2>4. \A k \in 1..(n + 1) : longer[k] = step(longer[k - 1])
    <3> SUFFICES ASSUME NEW k \in 1..(n + 1) PROVE longer[k] = step(longer[k - 1])
      OBVIOUS
    <3>1. longer[k - 1] = up[k - 1]
      OBVIOUS
    <3> QED
      BY <2>2, <3>1
  <2>5. IsWalk(longer, c, n + 1)
    <3>1. longer = [k \in 0..(n + 1) |-> IF k = 0 THEN c ELSE step(longer[k - 1])]
      <4>1. longer = [k \in 0..(n + 1) |-> longer[k]]
        OBVIOUS
      <4> HIDE DEF longer, step
      <4> QED
        BY <2>3, <2>4, <4>1
    <3> QED
      BY <3>1 DEF IsWalk
  <2> QED
    BY <2>5
<1> HIDE DEF G
<1>3. \A n \in Nat : n \in G
  BY <1>1, <1>2, NatSetInduction
<1> QED
  BY <1>3 DEF G

(* A walk as long as there are categories ends at the root: it could only  *)
(* go on by coming back to where it was.                                   *)
LEMMA WalkEnds ==
  ASSUME TreeInv, NoCycle, NEW c \in Rows, NEW up, IsWalk(up, c, Cardinality(Categories))
  PROVE  up[Cardinality(Categories)] = Root
<1> DEFINE n == Cardinality(Categories)
<1>1. n \in Nat /\ IsFiniteSet(Rows) /\ Cardinality(Rows) <= n /\ Root \notin Categories
  BY TreeAssumption, FS_CardinalityType, FS_Subset DEF Rows
<1>2. /\ up[0] = c
      /\ \A k \in 1..n : up[k] = IF up[k - 1] \in Categories THEN parent[up[k - 1]] ELSE up[k - 1]
  BY <1>1 DEF IsWalk
<1> HIDE DEF n
<1>3. \A k \in Nat : k <= n => up[k] \in Rows \cup {Root}
  <2> DEFINE G == {k \in Nat : k <= n => up[k] \in Rows \cup {Root}}
  <2>1. 0 \in G
    BY <1>2
  <2>2. ASSUME NEW k \in Nat, k \in G PROVE k + 1 \in G
    <3> SUFFICES ASSUME k + 1 <= n PROVE up[k + 1] \in Rows \cup {Root}
      OBVIOUS
    <3>1. up[k] \in Rows \cup {Root} /\ k + 1 \in 1..n /\ (k + 1) - 1 = k
      BY <1>1, <2>2
    <3>2. up[k + 1] = IF up[k] \in Categories THEN parent[up[k]] ELSE up[k]
      BY <1>2, <3>1
    <3> QED
      BY <1>1, <3>1, <3>2 DEF TreeInv, References, Rows
  <2> HIDE DEF G
  <2>3. \A k \in Nat : k \in G
    BY <2>1, <2>2, NatSetInduction
  <2> QED
    BY <2>3 DEF G
<1> SUFFICES ASSUME up[n] # Root PROVE FALSE
  BY DEF n
<1>4. \A k \in Nat : k <= n => up[n - k] \in Rows
  <2> DEFINE G == {k \in Nat : k <= n => up[n - k] \in Rows}
  <2>1. 0 \in G
    BY <1>1, <1>3
  <2>2. ASSUME NEW k \in Nat, k \in G PROVE k + 1 \in G
    <3> SUFFICES ASSUME k + 1 <= n PROVE up[n - (k + 1)] \in Rows
      OBVIOUS
    <3>1. /\ up[n - k] \in Rows /\ n - k \in 1..n
          /\ n - (k + 1) \in Nat /\ n - (k + 1) <= n /\ (n - k) - 1 = n - (k + 1)
      BY <1>1, <2>2
    <3>2. up[n - (k + 1)] \in Rows \cup {Root}
      BY <1>3, <3>1
    <3>3. up[n - k] = IF up[n - (k + 1)] \in Categories THEN parent[up[n - (k + 1)]] ELSE up[n - (k + 1)]
      BY <1>2, <3>1
    <3> QED
      BY <1>1, <3>1, <3>2, <3>3 DEF Rows
  <2> HIDE DEF G
  <2>3. \A k \in Nat : k \in G
    BY <2>1, <2>2, NatSetInduction
  <2> QED
    BY <2>3 DEF G
<1>5. \A k \in 0..n : up[k] \in Rows
  <2> TAKE k \in 0..n
  <2>1. n - k \in Nat /\ n - k <= n /\ n - (n - k) = k
    BY <1>1
  <2> QED
    BY <1>4, <2>1
<1>6. \A k \in 0..(n - 1) : up[k + 1] = parent[up[k]]
  <2> TAKE k \in 0..(n - 1)
  <2>1. k + 1 \in 1..n /\ (k + 1) - 1 = k /\ up[k] \in Rows
    BY <1>1, <1>5
  <2> QED
    BY <1>2, <2>1 DEF Rows
<1>7. ASSUME NEW i \in 0..n, NEW j \in 0..n, i < j, up[i] = up[j] PROVE FALSE
  <2> DEFINE S == {up[k] : k \in i..(j - 1)}
  <2>1. S \in SUBSET Rows /\ S # {}
    BY <1>1, <1>5, <1>7
  <2> HIDE DEF S
  <2>2. PICK x \in S : parent[x] \notin S
    BY <2>1 DEF NoCycle
  <2>3. PICK k \in i..(j - 1) : x = up[k]
    BY DEF S
  <2>4. parent[x] = up[k + 1]
    BY <1>1, <1>6, <2>3
  <2>5. CASE k + 1 \in i..(j - 1)
    BY <2>2, <2>4, <2>5 DEF S
  <2>6. CASE k + 1 = j
    BY <1>7, <2>2, <2>4, <2>6 DEF S
  <2> QED
    BY <2>3, <2>5, <2>6
<1> DEFINE walk == [k \in 0..n |-> up[k]]
<1>8. walk \in [0..n -> Rows] /\ IsFiniteSet(0..n) /\ Cardinality(0..n) = n + 1
  BY <1>1, <1>5, FS_Interval
<1>9. Cardinality(Rows) < Cardinality(0..n)
  BY <1>1, <1>8, FS_CardinalityType
<1>10. \E x, y \in 0..n : x # y /\ walk[x] = walk[y]
  <2> HIDE DEF walk
  <2> QED
    BY <1>1, <1>8, <1>9, FS_PigeonHole
<1> QED
  BY <1>1, <1>7, <1>10

(* categories/[id]/route.ts: as long as no move overlaps another one, who  *)
(* walks up the tree comes to its root, in no more steps than there are    *)
(* categories, though the handler looks no further than one parent up.     *)
THEOREM TreeHasARoot == TreeSpec => []RootReached
<1>1. TreeInv => RootReached
  <2> SUFFICES ASSUME TreeInv, ~crossed, NEW c \in Rows
               PROVE  Above(c, Cardinality(Categories)) = Root
    BY DEF RootReached
  <2> DEFINE n == Cardinality(Categories)
             up == CHOOSE up : IsWalk(up, c, n)
  <2>1. n \in Nat
    BY TreeAssumption, FS_CardinalityType
  <2>2. IsWalk(up, c, n)
    BY <2>1, WalkExists
  <2>3. Above(c, n) = up[n]
    BY DEF Above, IsWalk
  <2> QED
    BY <2>2, <2>3, WalkEnds DEF TreeInv
<1> QED
  BY <1>1, TreeInvInit, TreeInvNext, PTL DEF TreeSpec

-----------------------------------------------------------------------------
(***************************************************************************)
(* The components around the checkout side by side.  They share no         *)
(* variable: a step of the composition is a step of one of them and a      *)
(* stutter of the others, so what each promises alone it promises here.    *)
(***************************************************************************)
LEMMA PartsBegin ==
  MCInit => /\ RequestsInit /\ IssueInit /\ WishInit /\ TreeInit
            /\ AccountsInit /\ CodesInit /\ LinksInit
  BY DEF MCInit

LEMMA PartsStep ==
  [MCNext]_MCVars => /\ [RequestsNext]_shopVars /\ [IssueNext]_issueVars
                     /\ [WishNext]_wishVars /\ [TreeNext]_treeVars
                     /\ [AccountsNext]_accountVars /\ [CodesNext]_codeVars
                     /\ [LinksNext]_linkVars
  BY DEF MCNext, MCVars

LEMMA PartsOfShop ==
  MCSpec => /\ RequestsSpec /\ IssueSpec /\ WishSpec /\ TreeSpec
            /\ AccountsSpec /\ CodesSpec /\ LinksSpec
  BY PartsBegin, PartsStep, PTL
     DEF MCSpec, RequestsSpec, IssueSpec, WishSpec, TreeSpec, AccountsSpec, CodesSpec, LinksSpec

(* Whichever of the order requests, the coupons, the wish list, the        *)
(* category tree, the account, the phone codes and the reset links is at   *)
(* work (api/orders/route.ts, api/coupons/redeem, store/wishlist.ts,       *)
(* lib/auth.ts, lib/phone-verification.ts, lib/password-reset.ts), for any *)
(* members, requests, carts and settings, all of their state keeps its     *)
(* types: in particular no discount, total or number of points is          *)
(* negative.                                                               *)
THEOREM ShopTypeCorrect == MCSpec => []ShopTypeOK
<1>1. ASSUME RequestsTypeOK, IssueTypeOK, WishTypeOK, TreeTypeOK,
             AccountsTypeOK, CodesTypeOK, LinksTypeOK
      PROVE  ShopTypeOK
  BY <1>1 DEF ShopTypeOK
<1>. QED
  BY <1>1, PartsOfShop, RequestsTypeCorrect, IssueTypeCorrect, WishTypeCorrect,
     TreeTypeCorrect, AccountsTypeCorrect, CodesTypeCorrect, LinksTypeCorrect, PTL
=============================================================================
