--------------------------- MODULE RequestsProofs ---------------------------
(***************************************************************************)
(* Proofs about Pricing, SiteSettings and OrderRequests, for all baskets,  *)
(* coupons, instances and deliveries.                                      *)
(*                                                                         *)
(* First the prices, which are arithmetic; then the copies of the settings *)
(* (SettingsInv); then the orders and their keys (OrderInv), which rest on *)
(* the first and need of the second only its types.                        *)
(***************************************************************************)
EXTENDS OrderRequests, FiniteSetTheorems, TLAPS

-----------------------------------------------------------------------------
(* Pricing.                                                                *)

Quoted == [items : Nat, coupon : {NoCoupon} \cup PricedCoupon, points : Nat,
           balance : Nat, fee : Nat, freeMin : Nat]
Viewed == [items : Nat, coupon : {NoCoupon} \cup PricedCoupon, typed : Nat,
           balance : Nat, fee : Nat, freeMin : Nat]

LEMMA CutIsNat ==
  ASSUME NEW c \in PricedCoupon, NEW items \in Nat
  PROVE  CouponCut(c, items) \in Nat
<1>1. c.type \in {Percent, Fixed} /\ c.value \in Nat /\ c.max \in Nat
  BY DEF PricedCoupon
<1>2. items * c.value \in Nat
  BY <1>1
<1>3. \A n \in Nat : n \div 100 \in Nat
  OBVIOUS
<1>4. (items * c.value) \div 100 \in Nat
  BY <1>2, <1>3
<1>5. CASE c.type = Fixed
  BY <1>1, <1>5 DEF CouponCut
<1>6. CASE c.type = Percent
  BY <1>1, <1>4, <1>6 DEF CouponCut, Percent, Fixed
<1> QED BY <1>1, <1>5, <1>6

(* A coupon takes off something between nothing and the whole basket.      *)
LEMMA CouponDiscountBounds ==
  ASSUME NEW c \in PricedCoupon, NEW items \in Nat
  PROVE  CouponDiscount(c, items) \in 0..items
BY CutIsNat DEF CouponDiscount, Lesser, PricedCoupon

LEMMA DiscountBounds ==
  ASSUME NEW q \in Quoted
  PROVE  Discount(q) \in 0..q.items
<1>1. q.items \in Nat /\ (q.coupon = NoCoupon \/ q.coupon \in PricedCoupon)
  BY DEF Quoted
<1> QED BY <1>1, CouponDiscountBounds DEF Discount

LEMMA PointsBounds ==
  ASSUME NEW q \in Quoted
  PROVE  PointsTaken(q) \in 0..(q.items - Discount(q))
<1>1. q.items \in Nat /\ q.points \in Nat
  BY DEF Quoted
<1>2. Discount(q) \in 0..q.items
  BY DiscountBounds
<1> QED BY <1>1, <1>2 DEF PointsTaken, Lesser, Greater

LEMMA TotalIsNat ==
  ASSUME NEW q \in Quoted
  PROVE  OrderTotal(q) \in Nat /\ PointsEarned(q) \in Nat
<1>1. q.items \in Nat /\ q.fee \in Nat
  BY DEF Quoted
<1>2. Discount(q) \in Nat /\ PointsTaken(q) \in Nat /\ q.items - Discount(q) - PointsTaken(q) \in Nat
  BY <1>1, DiscountBounds, PointsBounds
<1>3. ShippingFee(q.items, q.fee, q.freeMin) \in Nat
  BY <1>1 DEF ShippingFee
<1>4. OrderTotal(q) \in Nat
  BY <1>1, <1>2, <1>3 DEF OrderTotal, Greater
<1>5. \A n \in Nat : (n \div 1000) * 10 \in Nat
  OBVIOUS
<1> QED BY <1>2, <1>4, <1>5 DEF PointsEarned

LEMMA PageBounds ==
  ASSUME NEW p \in Viewed
  PROVE  /\ PageDiscount(p) \in 0..p.items
         /\ PagePoints(p) \in 0..(p.items - PageDiscount(p))
         /\ PageTotal(p) \in Nat
<1>1. /\ p.items \in Nat /\ p.typed \in Nat /\ p.balance \in Nat /\ p.fee \in Nat
      /\ p.coupon = NoCoupon \/ p.coupon \in PricedCoupon
  BY DEF Viewed
<1>2. PageDiscount(p) \in 0..p.items
  <2>1. CASE p.coupon = NoCoupon
    BY <1>1, <2>1 DEF PageDiscount
  <2>2. CASE p.coupon \in PricedCoupon
    <3>1. CouponCut(p.coupon, p.items) \in Nat
      BY <1>1, <2>2, CutIsNat
    <3> QED BY <1>1, <3>1 DEF PageDiscount, Lesser
  <2> QED BY <1>1, <2>1, <2>2
<1>3. PagePoints(p) \in 0..(p.items - PageDiscount(p))
  BY <1>1, <1>2 DEF PagePoints, Lesser, Greater
<1>4. ShippingFee(p.items, p.fee, p.freeMin) \in Nat
  BY <1>1 DEF ShippingFee
<1> QED BY <1>1, <1>2, <1>3, <1>4 DEF PageTotal, Greater

(* The two computations of one total: from the same amounts, and the       *)
(* points the page sends, the handler books what the page has shown.       *)
LEMMA SameTotal ==
  ASSUME NEW p \in Viewed, NEW q \in Quoted,
         q.items = p.items, q.coupon = p.coupon, q.fee = p.fee, q.freeMin = p.freeMin,
         q.points = PagePoints(p)
  PROVE  OrderTotal(q) = PageTotal(p)
<1>1. Discount(q) = PageDiscount(p)
  BY DEF Discount, PageDiscount, CouponDiscount
<1>2. PointsTaken(q) = PagePoints(p)
  <2>1. q.items \in Nat /\ Discount(q) \in 0..q.items
    BY DiscountBounds DEF Quoted
  <2>2. PagePoints(p) \in 0..(q.items - Discount(q))
    BY <1>1, PageBounds
  <2> QED BY <2>1, <2>2 DEF PointsTaken, Lesser, Greater
<1> QED BY <1>1, <1>2 DEF OrderTotal, PageTotal

-----------------------------------------------------------------------------
(* The settings.                                                           *)

(* What makes CopyHonest inductive: the row's value can be read now, and a *)
(* query's answer stays current until it is stored, no tick being between. *)
SettingsInv ==
  /\ SettingsTypeOK
  /\ since[Effective] = 0
  /\ \A r \in Readers : reading[r].step = "store" => since[reading[r].data] = 0
  /\ CopyHonest
  /\ ReadFresh

LEMMA ReadingFacts ==
  ASSUME SettingsTypeOK, NEW r \in Readers
  PROVE  /\ NotReading.step = "none"
         /\ reading[r].step = "none" => reading[r] = NotReading
         /\ reading[r].step # "none" => reading[r] \in Readings /\ reading[r] # NotReading
         /\ reading[r] \in Readings => reading[r].at \in Instances /\ reading[r].data \in Minimums
BY DEF SettingsTypeOK, NotReading, Readings

LEMMA EffectiveFacts ==
  ASSUME SettingsTypeOK
  PROVE  /\ Effective \in Minimums /\ DefaultMin \in Minimums
         /\ Ttl \in Nat \ {0} /\ 0 \in 0..Ttl /\ Ttl \in 0..Ttl
         /\ since \in [Minimums -> 0..Ttl]
         /\ \A age \in 0..Ttl : Older(age) \in 0..Ttl /\ Older(age) >= age
                                /\ (age < Ttl => Older(age) = age + 1)
BY SettingsAssumption DEF SettingsTypeOK, Effective, Older

LEMMA SettingsInitially == SettingsInit => SettingsInv
<1> SUFFICES ASSUME SettingsInit PROVE SettingsInv
  OBVIOUS
<1>1. SettingsTypeOK
  BY SettingsAssumption DEF SettingsInit, SettingsTypeOK
<1>2. since[Effective] = 0
  BY SettingsAssumption DEF SettingsInit, Effective
<1> QED BY <1>1, <1>2 DEF SettingsInit, SettingsInv, CopyHonest, ReadFresh, NotReading

LEMMA GetStep ==
  ASSUME SettingsInv, NEW r \in Readers, NEW i \in Instances, GetHit(r, i) \/ GetMiss(r, i)
  PROVE  SettingsInv'
<1>0. /\ reading \in [Readers -> {NotReading} \cup Readings]
      /\ copy \in [Instances -> {NoRow} \cup Copies]
      /\ DefaultMin \in Minimums
  BY SettingsAssumption DEF SettingsInv, SettingsTypeOK
<1>1. UNCHANGED <<row, copy, saving, saves, faults, since>> /\ Effective' = Effective
  BY DEF GetHit, GetMiss, Effective
<1>2. PICK new \in Readings :
        /\ reading' = [reading EXCEPT ![r] = new]
        /\ new.step \in {"query", "got"}
        /\ new.step = "got" => since[new.data] < Ttl
  <2>1. CASE GetHit(r, i)
    <3>1. copy[i] # NoRow /\ copy[i] \in Copies /\ copy[i].age < Ttl
      BY <1>0, <2>1 DEF GetHit, Young
    <3>2. [step |-> "got", at |-> i, data |-> copy[i].data] \in Readings
      BY <3>1 DEF Readings, Copies
    <3>3. since[copy[i].data] < Ttl
      <4>1. since[copy[i].data] <= copy[i].age
        BY <3>1 DEF SettingsInv, CopyHonest
      <4>2. copy[i].data \in Minimums /\ copy[i].age \in Nat
        BY <3>1 DEF Copies
      <4> QED BY <3>1, <4>1, <4>2, EffectiveFacts DEF SettingsInv
    <3> QED BY <2>1, <3>2, <3>3 DEF GetHit
  <2>2. CASE GetMiss(r, i)
    <3>1. [step |-> "query", at |-> i, data |-> DefaultMin] \in Readings
      BY <1>0 DEF Readings
    <3> QED BY <2>2, <3>1 DEF GetMiss
  <2> QED BY <2>1, <2>2
<1>3. \A s \in Readers : reading'[s] = IF s = r THEN new ELSE reading[s]
  BY <1>0, <1>2
<1>4. SettingsTypeOK'
  BY <1>0, <1>1, <1>2 DEF SettingsInv, SettingsTypeOK
<1>5. since'[Effective'] = 0 /\ CopyHonest'
  BY <1>1 DEF SettingsInv, CopyHonest
<1>6. \A s \in Readers : reading'[s].step = "store" => since'[reading'[s].data] = 0
  BY <1>1, <1>2, <1>3 DEF SettingsInv
<1>7. ReadFresh'
  BY <1>1, <1>2, <1>3 DEF SettingsInv, ReadFresh
<1> QED BY <1>4, <1>5, <1>6, <1>7 DEF SettingsInv

LEMMA QueryStep ==
  ASSUME SettingsInv, NEW r \in Readers, QueryAnswers(r) \/ QueryFails(r)
  PROVE  SettingsInv'
<1>0. SettingsTypeOK /\ reading[r] \in Readings
  BY ReadingFacts DEF SettingsInv, QueryAnswers, QueryFails
<1>1. UNCHANGED <<row, copy, saving, saves>> /\ Effective' = Effective
  BY DEF QueryAnswers, QueryFails, Effective
<1>2. PICK m \in Minimums :
        /\ reading' = [reading EXCEPT ![r].step = "store", ![r].data = m]
        /\ since'[m] = 0
        /\ since' \in [Minimums -> 0..Ttl]
        /\ \A n \in Minimums : since'[n] <= since[n]
  <2>0. /\ since \in [Minimums -> 0..Ttl] /\ 0 \in 0..Ttl /\ since[Effective] = 0
        /\ Effective \in Minimums /\ DefaultMin \in Minimums
        /\ \A n \in Minimums : since[n] <= since[n] /\ 0 <= since[n]
    BY <1>0, EffectiveFacts DEF SettingsInv
  <2>1. CASE QueryAnswers(r)
    <3>1. since' = since
      BY <2>1 DEF QueryAnswers
    <3>2. reading' = [reading EXCEPT ![r].step = "store", ![r].data = Effective]
      BY <2>1 DEF QueryAnswers
    <3> QED BY <2>0, <3>1, <3>2
  <2>2. CASE QueryFails(r)
    <3>1. since' = [since EXCEPT ![DefaultMin] = 0]
      BY <2>2 DEF QueryFails
    <3>2. /\ since'[DefaultMin] = 0 /\ since' \in [Minimums -> 0..Ttl]
          /\ \A n \in Minimums : since'[n] <= since[n]
      BY <2>0, <3>1
    <3>3. reading' = [reading EXCEPT ![r].step = "store", ![r].data = DefaultMin]
      BY <2>2 DEF QueryFails
    <3> QED BY <2>0, <3>2, <3>3
  <2> QED BY <2>1, <2>2
<1>3. /\ reading' \in [Readers -> {NotReading} \cup Readings]
      /\ reading'[r].step = "store" /\ reading'[r].data = m
      /\ \A s \in Readers \ {r} : reading'[s] = reading[s]
  <2>1. reading' = [reading EXCEPT ![r] = [reading[r] EXCEPT !.step = "store", !.data = m]]
    BY <1>0, <1>2 DEF SettingsTypeOK
  <2>2. /\ [reading[r] EXCEPT !.step = "store", !.data = m] \in Readings
        /\ [reading[r] EXCEPT !.step = "store", !.data = m].step = "store"
        /\ [reading[r] EXCEPT !.step = "store", !.data = m].data = m
    BY <1>0 DEF Readings
  <2> QED BY <1>0, <2>1, <2>2 DEF SettingsTypeOK
<1>4. faults' \in 0..MaxFaults
  BY <1>0, SettingsAssumption DEF SettingsTypeOK, QueryAnswers, QueryFails
<1>5. SettingsTypeOK'
  BY <1>0, <1>1, <1>2, <1>3, <1>4 DEF SettingsTypeOK
<1>6. since'[Effective'] = 0
  BY <1>0, <1>1, <1>2, EffectiveFacts DEF SettingsInv
<1>7. \A s \in Readers : reading'[s].step = "store" => since'[reading'[s].data] = 0
  <2>1. ASSUME NEW s \in Readers \ {r}, reading[s].step = "store"
        PROVE  since'[reading[s].data] = 0
    BY <1>0, <1>2, <2>1, ReadingFacts, EffectiveFacts DEF SettingsInv
  <2> QED BY <1>2, <1>3, <2>1
<1>8. CopyHonest'
  <2>1. ASSUME NEW i \in Instances, copy[i] # NoRow PROVE since'[copy[i].data] <= copy[i].age
    <3>1. copy[i].data \in Minimums /\ copy[i].age \in 0..Ttl
      BY <1>0, <2>1 DEF SettingsTypeOK, Copies
    <3>2. since[copy[i].data] <= copy[i].age
      BY <2>1 DEF SettingsInv, CopyHonest
    <3> QED BY <1>0, <1>2, <3>1, <3>2, EffectiveFacts
  <2> QED BY <1>1, <2>1 DEF CopyHonest
<1>9. ReadFresh'
  <2>1. ASSUME NEW s \in Readers \ {r}, reading[s] # NotReading, reading[s].step = "got"
        PROVE  since'[reading[s].data] < Ttl
    <3>1. reading[s].data \in Minimums
      BY <1>0, <2>1, ReadingFacts
    <3>2. since[reading[s].data] < Ttl
      BY <2>1 DEF SettingsInv, ReadFresh
    <3> QED BY <1>0, <1>2, <3>1, <3>2, EffectiveFacts
  <2> QED BY <1>3, <2>1 DEF ReadFresh
<1> QED BY <1>5, <1>6, <1>7, <1>8, <1>9 DEF SettingsInv

LEMMA StoreCopyStep ==
  ASSUME SettingsInv, NEW r \in Readers, StoreCopy(r)
  PROVE  SettingsInv'
<1>0. SettingsTypeOK /\ reading[r] \in Readings /\ reading[r].step = "store"
  BY ReadingFacts DEF SettingsInv, StoreCopy
<1>1. UNCHANGED <<row, saving, saves, faults, since>> /\ Effective' = Effective
  BY DEF StoreCopy, Effective
<1>2. since[reading[r].data] = 0 /\ reading[r].at \in Instances /\ reading[r].data \in Minimums
  BY <1>0, ReadingFacts DEF SettingsInv
<1>3. /\ reading' \in [Readers -> {NotReading} \cup Readings]
      /\ reading'[r].step = "got" /\ reading'[r].data = reading[r].data
      /\ \A s \in Readers \ {r} : reading'[s] = reading[s]
  <2>1. reading' = [reading EXCEPT ![r] = [reading[r] EXCEPT !.step = "got"]]
    BY <1>0 DEF StoreCopy, SettingsTypeOK
  <2>2. /\ [reading[r] EXCEPT !.step = "got"] \in Readings
        /\ [reading[r] EXCEPT !.step = "got"].step = "got"
        /\ [reading[r] EXCEPT !.step = "got"].data = reading[r].data
    BY <1>0 DEF Readings
  <2> QED BY <1>0, <2>1, <2>2 DEF SettingsTypeOK
<1>4. /\ copy' \in [Instances -> {NoRow} \cup Copies]
      /\ \A i \in Instances : copy'[i] = copy[i] \/
           (copy'[i].data = reading[r].data /\ copy'[i].age = 0)
  <2>1. [data |-> reading[r].data, age |-> 0] \in Copies
    BY <1>0, <1>2, EffectiveFacts DEF Copies
  <2>2. copy' = [copy EXCEPT ![reading[r].at] = [data |-> reading[r].data, age |-> 0]]
    BY DEF StoreCopy
  <2>3. ASSUME NEW i \in Instances
        PROVE  copy'[i] = copy[i] \/ (copy'[i].data = reading[r].data /\ copy'[i].age = 0)
    <3> DEFINE new == [data |-> reading[r].data, age |-> 0]
    <3>1. copy'[i] = copy[i] \/ copy'[i] = new
      BY <1>0, <2>2 DEF SettingsTypeOK
    <3>2. new.data = reading[r].data /\ new.age = 0
      OBVIOUS
    <3> HIDE DEF new
    <3> QED BY <3>1, <3>2
  <2>4. copy' \in [Instances -> {NoRow} \cup Copies]
    BY <1>0, <2>1, <2>2 DEF SettingsTypeOK
  <2> QED BY <2>3, <2>4
<1>5. SettingsTypeOK'
  BY <1>0, <1>1, <1>3, <1>4 DEF SettingsTypeOK
<1>6. since'[Effective'] = 0
  BY <1>1 DEF SettingsInv
<1>7. \A s \in Readers : reading'[s].step = "store" => since'[reading'[s].data] = 0
  BY <1>1, <1>3 DEF SettingsInv
<1>8. CopyHonest'
  BY <1>1, <1>2, <1>4 DEF SettingsInv, CopyHonest
<1>9. ReadFresh'
  BY <1>0, <1>1, <1>2, <1>3, EffectiveFacts DEF SettingsInv, ReadFresh
<1> QED BY <1>5, <1>6, <1>7, <1>8, <1>9 DEF SettingsInv

LEMMA SaveStep ==
  ASSUME SettingsInv, NEW s \in Savers,
         DropCopy(s) \/ \E i \in Instances, m \in Minimums : UpsertRow(s, i, m)
  PROVE  SettingsInv'
<1>0. SettingsTypeOK
  BY DEF SettingsInv
<1>1. CASE DropCopy(s)
  <2>1. /\ copy' \in [Instances -> {NoRow} \cup Copies]
        /\ \A i \in Instances : copy'[i] \in {NoRow, copy[i]}
    BY <1>0, <1>1 DEF DropCopy, SettingsTypeOK
  <2>2. saving' \in [Savers -> {NotSaving} \cup Savings]
    BY <1>0, <1>1 DEF DropCopy, SettingsTypeOK
  <2>3. UNCHANGED <<row, reading, saves, faults, since>> /\ Effective' = Effective
    BY <1>1 DEF DropCopy, Effective
  <2>4. SettingsTypeOK'
    BY <1>0, <2>1, <2>2, <2>3 DEF SettingsTypeOK
  <2> QED BY <2>1, <2>3, <2>4 DEF SettingsInv, CopyHonest, ReadFresh
<1>2. ASSUME NEW i \in Instances, NEW m \in Minimums, UpsertRow(s, i, m) PROVE SettingsInv'
  <2>1. UNCHANGED <<copy, reading, faults>> /\ row' = m /\ Effective' = m
    BY <1>2, SettingsAssumption DEF UpsertRow, Effective
  <2>2. [step |-> "drop", at |-> i] \in Savings
    BY DEF Savings
  <2>3. saving' \in [Savers -> {NotSaving} \cup Savings]
    BY <1>0, <1>2, <2>2 DEF UpsertRow, SettingsTypeOK
  <2>4. saves' \in 0..MaxSaves
    BY <1>0, <1>2, SettingsAssumption DEF UpsertRow, SettingsTypeOK
  <2>5. /\ since' \in [Minimums -> 0..Ttl] /\ since'[m] = 0
        /\ \A n \in Minimums : since'[n] \in {0, since[n]}
    BY <1>0, <1>2, EffectiveFacts DEF UpsertRow
  <2>6. SettingsTypeOK'
    BY <1>0, <2>1, <2>3, <2>4, <2>5 DEF SettingsTypeOK
  <2>7. \A r \in Readers : reading'[r].step = "store" => since'[reading'[r].data] = 0
    BY <1>0, <2>1, <2>5, ReadingFacts DEF SettingsInv
  <2>8. CopyHonest'
    <3>1. ASSUME NEW j \in Instances, copy[j] # NoRow PROVE since'[copy[j].data] <= copy[j].age
      <4>1. copy[j].data \in Minimums /\ copy[j].age \in 0..Ttl
        BY <1>0, <3>1 DEF SettingsTypeOK, Copies
      <4>2. since[copy[j].data] <= copy[j].age
        BY <3>1 DEF SettingsInv, CopyHonest
      <4> QED BY <1>0, <2>5, <4>1, <4>2, EffectiveFacts
    <3> QED BY <2>1, <3>1 DEF CopyHonest
  <2>9. ReadFresh'
    <3>1. ASSUME NEW r \in Readers, reading[r] # NotReading, reading[r].step = "got"
          PROVE  since'[reading[r].data] < Ttl
      <4>1. reading[r].data \in Minimums
        BY <1>0, <3>1, ReadingFacts
      <4>2. since[reading[r].data] < Ttl
        BY <3>1 DEF SettingsInv, ReadFresh
      <4> QED BY <1>0, <2>5, <4>1, <4>2, EffectiveFacts
    <3> QED BY <2>1, <3>1 DEF ReadFresh
  <2> QED BY <2>1, <2>5, <2>6, <2>7, <2>8, <2>9 DEF SettingsInv
<1> QED BY <1>1, <1>2

LEMMA TickStep ==
  ASSUME SettingsInv, SettingsTick
  PROVE  SettingsInv'
<1>0. SettingsTypeOK
  BY DEF SettingsInv
<1>1. UNCHANGED <<row, reading, saving, saves, faults>> /\ Effective' = Effective
  BY DEF SettingsTick, Effective
<1>2. /\ since' \in [Minimums -> 0..Ttl]
      /\ \A n \in Minimums : since'[n] = IF n = Effective THEN 0 ELSE Older(since[n])
  <2>1. since' = [n \in Minimums |-> IF n = Effective THEN 0 ELSE Older(since[n])]
    BY DEF SettingsTick
  <2> QED BY <1>0, <2>1, EffectiveFacts
<1>3. \A c \in Copies : /\ [c EXCEPT !.age = Older(@)] \in Copies
                        /\ [c EXCEPT !.age = Older(@)].data = c.data
                        /\ [c EXCEPT !.age = Older(@)].age = Older(c.age)
  BY <1>0, EffectiveFacts DEF Copies
<1>4. /\ copy' \in [Instances -> {NoRow} \cup Copies]
      /\ \A i \in Instances : copy[i] # NoRow =>
           copy'[i].data = copy[i].data /\ copy'[i].age = Older(copy[i].age)
      /\ \A i \in Instances : copy[i] = NoRow => copy'[i] = NoRow
  <2>1. copy' = [i \in Instances |-> IF copy[i] = NoRow THEN NoRow
                                     ELSE [copy[i] EXCEPT !.age = Older(@)]]
    BY DEF SettingsTick
  <2> QED BY <1>0, <1>3, <2>1 DEF SettingsTypeOK
<1>5. SettingsTypeOK'
  BY <1>0, <1>1, <1>2, <1>4 DEF SettingsTypeOK
<1>6. since'[Effective'] = 0
  BY <1>0, <1>1, <1>2, EffectiveFacts
<1>7. CopyHonest'
  <2>1. ASSUME NEW i \in Instances, copy[i] # NoRow
        PROVE  since'[copy[i].data] <= Older(copy[i].age)
    <3>1. copy[i].data \in Minimums /\ copy[i].age \in 0..Ttl
      BY <1>0, <2>1 DEF SettingsTypeOK, Copies
    <3>2. since[copy[i].data] <= copy[i].age /\ since[copy[i].data] \in 0..Ttl
      BY <1>0, <2>1, <3>1, EffectiveFacts DEF SettingsInv, CopyHonest
    <3>3. \A a, b \in 0..Ttl : a <= b => 0 <= Older(b) /\ Older(a) <= Older(b)
      BY SettingsAssumption DEF Older
    <3>4. since'[copy[i].data] \in {0, Older(since[copy[i].data])}
      BY <1>2, <3>1
    <3> QED BY <3>1, <3>2, <3>3, <3>4
  <2> QED BY <1>4, <2>1 DEF CopyHonest
<1>8. \A r \in Readers : reading'[r] = NotReading
  BY <1>1 DEF SettingsTick
<1> QED BY <1>5, <1>6, <1>7, <1>8 DEF SettingsInv, ReadFresh, NotReading

(* What a request does to the settings' variables: it ends its reading, or *)
(* an instance dies with its copy, its readers and its savers.             *)
LEMMA EndReadingStep ==
  ASSUME SettingsInv, NEW r \in Readers,
         reading' = [reading EXCEPT ![r] = NotReading],
         UNCHANGED <<row, copy, saving, saves, faults, since>>
  PROVE  SettingsInv'
<1>1. /\ reading' \in [Readers -> {NotReading} \cup Readings]
      /\ \A s \in Readers : reading'[s] \in {NotReading, reading[s]}
  BY DEF SettingsInv, SettingsTypeOK
<1>2. SettingsTypeOK'
  BY <1>1 DEF SettingsInv, SettingsTypeOK
<1>3. since'[Effective'] = 0 /\ CopyHonest'
  BY DEF SettingsInv, Effective, CopyHonest
<1> QED BY <1>1, <1>2, <1>3 DEF SettingsInv, ReadFresh, NotReading

LEMMA FaultStep ==
  ASSUME SettingsInv, faults < MaxFaults, faults' = faults + 1,
         UNCHANGED <<row, copy, reading, saving, saves, since>>
  PROVE  SettingsInv'
<1>1. SettingsTypeOK'
  BY SettingsAssumption DEF SettingsInv, SettingsTypeOK
<1> QED BY <1>1 DEF SettingsInv, Effective, CopyHonest, ReadFresh

LEMMA CrashStep ==
  ASSUME SettingsInv, NEW i \in Instances, Crash(i)
  PROVE  SettingsInv'
<1>0. SettingsTypeOK /\ UNCHANGED <<row, saves, since>> /\ Effective' = Effective
  BY DEF SettingsInv, Crash, Effective
<1>1. /\ reading' \in [Readers -> {NotReading} \cup Readings]
      /\ \A s \in Readers : reading'[s] \in {NotReading, reading[s]}
  BY <1>0 DEF Crash, SettingsTypeOK
<1>2. /\ copy' \in [Instances -> {NoRow} \cup Copies]
      /\ \A j \in Instances : copy'[j] \in {NoRow, copy[j]}
  BY <1>0 DEF Crash, SettingsTypeOK
<1>3. saving' \in [Savers -> {NotSaving} \cup Savings]
  BY <1>0 DEF Crash, SettingsTypeOK
<1>4. faults' \in 0..MaxFaults
  BY <1>0, SettingsAssumption DEF Crash, SettingsTypeOK
<1>5. SettingsTypeOK'
  BY <1>0, <1>1, <1>2, <1>3, <1>4 DEF SettingsTypeOK
<1>6. CopyHonest'
  BY <1>0, <1>2 DEF SettingsInv, CopyHonest
<1> QED BY <1>0, <1>1, <1>5, <1>6 DEF SettingsInv, ReadFresh, NotReading

(* The settings alone, and among the requests that read them.              *)
LEMMA SettingsMoves ==
  ASSUME SettingsInv,
         \/ \E r \in Readers : ReaderStep(r)
         \/ \E s \in Savers : \/ \E i \in Instances, m \in Minimums : UpsertRow(s, i, m)
                              \/ DropCopy(s)
         \/ SettingsTick
  PROVE  SettingsInv'
BY GetStep, QueryStep, StoreCopyStep, SaveStep, TickStep DEF ReaderStep

LEMMA SettingsUnchanged ==
  ASSUME SettingsInv, UNCHANGED settingsVars
  PROVE  SettingsInv'
BY DEF SettingsInv, settingsVars, SettingsTypeOK, Effective, CopyHonest, ReadFresh

LEMMA RequestFacts ==
  ASSUME RequestsTypeOK, NEW q \in Requests
  PROVE  /\ Idle.step = "idle"
         /\ request[q].step = "idle" => request[q] = Idle
         /\ request[q].step # "idle" => request[q] \in Handling /\ request[q] # Idle
         /\ request[q] # Idle =>
              /\ request[q].click \in Clicks /\ request[q].at \in Instances
              /\ request[q].who \in Sessions /\ request[q].answer \in Requests \cup {NoOrder}
BY DEF RequestsTypeOK, Idle, Handling

LEMMA SettingsAmongRequests ==
  ASSUME SettingsInv, RequestsTypeOK, RequestsNext \/ UNCHANGED shopVars
  PROVE  SettingsInv'
<1>0. Requests \subseteq Readers /\ Page \in Readers
  BY RequestsAssumption
<1>1. CASE SettingsStep
  <2>1. ASSUME NEW q \in Requests, request[q].step = "price",
               GetHit(q, request[q].at) \/ GetMiss(q, request[q].at)
        PROVE  SettingsInv'
    <3>1. request[q].at \in Instances
      BY <2>1, RequestFacts
    <3> QED BY <1>0, <2>1, <3>1, GetStep
  <2>2. ASSUME NEW r \in Readers, NEW i \in Instances, GetHit(r, i) \/ GetMiss(r, i)
        PROVE  SettingsInv'
    BY <2>2, GetStep
  <2> QED
    BY <1>0, <1>1, <2>1, <2>2, QueryStep, StoreCopyStep, SaveStep, TickStep DEF SettingsStep
<1>2. CASE PolicyArrives
  BY <1>0, <1>2, EndReadingStep DEF PolicyArrives
<1>3. ASSUME NEW q \in Requests, Refuse(q) \/ Create(q) PROVE SettingsInv'
  BY <1>0, <1>3, EndReadingStep DEF Refuse, Create, EndReading
<1>4. ASSUME NEW q \in Requests, LookupFails(q) \/ SaveFails(q) PROVE SettingsInv'
  BY <1>4, FaultStep DEF LookupFails, SaveFails
<1>5. ASSUME NEW i \in Instances, Crash(i) PROVE SettingsInv'
  BY <1>5, CrashStep
<1>6. CASE UNCHANGED settingsVars
  BY <1>6, SettingsUnchanged
<1> QED
  BY <1>1, <1>2, <1>3, <1>4, <1>5, <1>6
     DEF RequestsNext, RequestStep, shopVars, Click, Resend, Replay, NotReplayed, SaveKey,
         KeyExpires, PurgeKeys

-----------------------------------------------------------------------------
(* The orders and their keys.                                              *)

ViewOf(c) == [items |-> c.cart.items, coupon |-> c.cart.coupon, typed |-> c.cart.typed,
              balance |-> c.cart.balance, fee |-> Fee, freeMin |-> c.freeMin]

(* A click remembers what the page computed.                               *)
PageTrue ==
  \A k \in Clicks : clicked[k] # NoOrder =>
    clicked[k].points = PagePoints(ViewOf(clicked[k])) /\ clicked[k].shown = PageTotal(ViewOf(clicked[k]))

Requested == \A q \in Requests : request[q] # Idle => clicked[request[q].click] # NoOrder

(* An order belongs to the delivery that made it, and is not made twice.   *)
MadeOnce ==
  \A q \in Requests :
    /\ order[q] # NoOrder => /\ request[q].step \in {"save", "done", "lost"}
                             /\ request[q].click = order[q].click
                             /\ request[q].who = order[q].who
    /\ request[q].step = "save" => order[q] # NoOrder

KeyTrue ==
  \A k \in Clicks : kept[k] # NoOrder =>
    LET o == order[kept[k].answer]
    IN  o # NoOrder /\ o.click = k /\ o.who = kept[k].who

(* For a click the key protects, an order that was made is either about to *)
(* be saved under the key or was saved, and only one delivery is past the  *)
(* lookup.                                                                 *)
SavedOrSaving ==
  \A q \in Requests : order[q] # NoOrder /\ order[q].click \notin excused =>
    kept[order[q].click] # NoOrder \/ request[q].step = "save"

Busy(q, k) == /\ request[q] # Idle /\ request[q].click = k
              /\ request[q].step \in {"price", "save"} \/ order[q] # NoOrder

OneBusy ==
  \A k \in Clicks : k \notin excused =>
    \A p, q \in Requests : Busy(p, k) /\ Busy(q, k) => p = q

OrderInv ==
  /\ PageTrue /\ Requested /\ MadeOnce /\ KeyTrue /\ SavedOrSaving /\ OneBusy
  /\ ReplayTellsTheTruth /\ NothingGivenAway /\ PageAndOrderAgree

ShopInv == RequestsTypeOK /\ SettingsInv /\ OrderInv

LEMMA Steps == RequestsTypeOK =>
  /\ order \in [Requests -> {NoOrder} \cup OrderRows]
  /\ kept \in [Clicks -> {NoOrder} \cup KeyRows]
  /\ request \in [Requests -> {Idle} \cup Handling]
  /\ clicked \in [Clicks -> {NoOrder} \cup Clicked]
  /\ excused \subseteq Clicks
BY DEF RequestsTypeOK

(* A delivery goes on, with or without an answer.                          *)
Became(q, s, a) ==
  /\ request' \in [Requests -> {Idle} \cup Handling]
  /\ request'[q] # Idle
  /\ request'[q].step = s /\ request'[q].answer = a
  /\ request'[q].click = request[q].click /\ request'[q].who = request[q].who
  /\ \A p \in Requests \ {q} : request'[p] = request[p]

LEMMA GoesOn ==
  ASSUME RequestsTypeOK, NEW q \in Requests, request[q].step # "idle",
         NEW s \in {"check", "price", "save", "done", "lost"}, NEW a \in Requests \cup {NoOrder},
         \/ request' = [request EXCEPT ![q].step = s, ![q].answer = a]
         \/ request' = [request EXCEPT ![q].step = s] /\ a = request[q].answer
  PROVE  Became(q, s, a)
<1>0. request[q] \in Handling /\ request \in [Requests -> {Idle} \cup Handling]
  BY RequestFacts, Steps
<1> DEFINE new == [request[q] EXCEPT !.step = s, !.answer = a]
<1>1. request' = [request EXCEPT ![q] = new]
  <2>1. [request[q] EXCEPT !.step = s] = [request[q] EXCEPT !.step = s, !.answer = request[q].answer]
    BY <1>0 DEF Handling
  <2> QED BY <1>0, <2>1
<1>2. /\ new \in Handling /\ new.step = s /\ new.answer = a
      /\ new.click = request[q].click /\ new.who = request[q].who
  BY <1>0 DEF Handling
<1>3. \A h \in Handling : h.step # "idle"
  BY DEF Handling
<1>4. new # Idle
  BY <1>2, <1>3 DEF Idle
<1> HIDE DEF new
<1> QED BY <1>0, <1>1, <1>2, <1>4 DEF Became

(* A step that leaves orders and keys alone: deliveries arrive, go on      *)
(* without saving, or are lost.                                            *)
Moved(p) ==
  /\ request'[p] # Idle /\ clicked'[request'[p].click] # NoOrder
  /\ request'[p].step # "save"
  /\ order[p] # NoOrder =>
       /\ request'[p].step \in {"done", "lost"}
       /\ request'[p].click = request[p].click /\ request'[p].who = request[p].who
       /\ request[p].step = "save" => request[p].click \in excused'
  /\ request'[p].answer # NoOrder =>
       LET o == order[request'[p].answer]
       IN  o # NoOrder /\ o.click = request'[p].click /\ o.who = request'[p].who

LEMMA RequestsMove ==
  ASSUME ShopInv, UNCHANGED <<order, kept>>, excused \subseteq excused', PageTrue',
         \A k \in Clicks : clicked[k] # NoOrder => clicked'[k] = clicked[k],
         \A p \in Requests : request'[p] = request[p] \/ Moved(p),
         OneBusy'
  PROVE  OrderInv'
<1>0. OrderInv /\ RequestsTypeOK
  BY DEF ShopInv
<1>1. Requested'
  <2>1. ASSUME NEW p \in Requests, request[p] # Idle
        PROVE  clicked'[request[p].click] = clicked[request[p].click]
    BY <1>0, <2>1, RequestFacts DEF OrderInv, Requested
  <2> QED BY <1>0, <2>1 DEF OrderInv, Requested, Moved
<1>2. MadeOnce'
  BY <1>0 DEF OrderInv, MadeOnce, Moved
<1>3. KeyTrue'
  BY <1>0 DEF OrderInv, KeyTrue
<1>4. SavedOrSaving'
  <2>1. ASSUME NEW p \in Requests, order[p] # NoOrder, order[p].click \notin excused'
        PROVE  kept[order[p].click] # NoOrder \/ request'[p].step = "save"
    <3>1. /\ order[p].click \notin excused
          /\ request[p].click = order[p].click
      BY <1>0, <2>1 DEF OrderInv, MadeOnce
    <3> QED BY <1>0, <2>1, <3>1 DEF OrderInv, SavedOrSaving, Moved
  <2> QED BY <2>1 DEF SavedOrSaving
<1>5. ReplayTellsTheTruth'
  BY <1>0 DEF OrderInv, ReplayTellsTheTruth, Moved
<1>6. ASSUME NEW p \in Requests, order[p] # NoOrder
      PROVE  clicked'[order[p].click] = clicked[order[p].click]
  <2>1. order[p].click \in Clicks /\ clicked[order[p].click] # NoOrder
    BY <1>0, <1>6, RequestFacts DEF OrderInv, MadeOnce, Requested, Idle
  <2> QED BY <2>1
<1>7. NothingGivenAway' /\ PageAndOrderAgree'
  BY <1>0, <1>6 DEF OrderInv, NothingGivenAway, PageAndOrderAgree
<1> QED BY <1>1, <1>2, <1>3, <1>4, <1>5, <1>7 DEF OrderInv

(* No delivery becomes busy.                                               *)
LEMMA BusyShrinks ==
  ASSUME OneBusy, excused \subseteq excused',
         \A p \in Requests, k \in Clicks : Busy(p, k)' => Busy(p, k)
  PROVE  OneBusy'
BY DEF OneBusy

LEMMA SettingsStepInv ==
  ASSUME ShopInv, UNCHANGED <<clicked, request, order, kept, excused>>
  PROVE  OrderInv'
BY DEF ShopInv, OrderInv, PageTrue, Requested, MadeOnce, KeyTrue, SavedOrSaving, OneBusy, Busy,
       ReplayTellsTheTruth, NothingGivenAway, PageAndOrderAgree

(* A delivery is sent: the first of its click, or another.                 *)
LEMMA SendingInv ==
  ASSUME ShopInv, NEW q \in Requests, NEW k \in Clicks, NEW i \in Instances, NEW who \in Sessions,
         request[q] = Idle, Sending(q, k, i, who), UNCHANGED <<order, kept, excused>>,
         clicked'[k] # NoOrder, PageTrue',
         \A c \in Clicks : clicked[c] # NoOrder => clicked'[c] = clicked[c]
  PROVE  request' \in [Requests -> {Idle} \cup Handling] /\ OrderInv'
<1> DEFINE new == [step |-> "check", click |-> k, at |-> i, who |-> who, answer |-> NoOrder]
<1>0. OrderInv /\ request \in [Requests -> {Idle} \cup Handling]
  BY Steps DEF ShopInv
<1>1. new \in Handling /\ new # Idle
  BY DEF Handling, Idle
<1>2. /\ request' = [request EXCEPT ![q] = new]
      /\ new.step = "check" /\ new.click = k /\ new.who = who /\ new.answer = NoOrder
  BY DEF Sending
<1> HIDE DEF new
<1>3. request' \in [Requests -> {Idle} \cup Handling]
  BY <1>0, <1>1, <1>2
<1>4. request'[q] = new /\ \A p \in Requests \ {q} : request'[p] = request[p]
  BY <1>0, <1>2
<1>5. order[q] = NoOrder
  BY <1>0 DEF OrderInv, MadeOnce, Idle
<1>6. OneBusy'
  BY <1>0, <1>2, <1>4, <1>5, BusyShrinks DEF OrderInv, Busy
<1>7. \A p \in Requests : request'[p] = request[p] \/ Moved(p)
  BY <1>1, <1>2, <1>4, <1>5 DEF Moved
<1> QED BY <1>3, <1>6, <1>7, RequestsMove

Same == /\ UNCHANGED policy
        /\ request' \in [Requests -> {Idle} \cup Handling]
        /\ clicked' \in [Clicks -> {NoOrder} \cup Clicked]
        /\ order' \in [Requests -> {NoOrder} \cup OrderRows]
        /\ kept' \in [Clicks -> {NoOrder} \cup KeyRows]
        /\ excused' \subseteq Clicks

LEMMA CartFacts ==
  ASSUME NEW c \in Clicked
  PROVE  /\ ViewOf(c) \in Viewed
         /\ c.cart.catalog \in Nat /\ c.cart.balance \in Nat /\ c.points \in Nat
         /\ c.cart.coupon \in {NoCoupon} \cup PricedCoupon
BY RequestsAssumption, SettingsAssumption DEF Clicked, ViewOf, Viewed

LEMMA ClickInv ==
  ASSUME ShopInv, NEW k \in Clicks, NEW q \in Requests, NEW i \in Instances, Click(k, q, i)
  PROVE  Same /\ OrderInv'
<1>0. /\ policy \in Minimums /\ clicked \in [Clicks -> {NoOrder} \cup Clicked]
      /\ order \in [Requests -> {NoOrder} \cup OrderRows]
      /\ kept \in [Clicks -> {NoOrder} \cup KeyRows] /\ excused \subseteq Clicks
      /\ clicked[k] = NoOrder
  BY DEF ShopInv, RequestsTypeOK, Click
<1>1. PICK cart \in Carts : clicked' = [clicked EXCEPT ![k] =
        [cart |-> cart, freeMin |-> policy, points |-> PagePoints(PageView(cart)),
         shown |-> PageTotal(PageView(cart))]]
  BY DEF Click
<1> DEFINE new == [cart |-> cart, freeMin |-> policy, points |-> PagePoints(PageView(cart)),
                   shown |-> PageTotal(PageView(cart))]
<1>2. new.cart = cart /\ new.freeMin = policy /\ ViewOf(new) = PageView(cart)
  BY DEF ViewOf, PageView
<1>3. PageView(cart) \in Viewed
  BY <1>0, RequestsAssumption, SettingsAssumption DEF PageView, Viewed
<1>4. new \in Clicked
  <2>1. PagePoints(PageView(cart)) \in Nat /\ PageTotal(PageView(cart)) \in Nat
    BY <1>3, PageBounds DEF Viewed
  <2> QED BY <1>0, <2>1 DEF Clicked
<1>5. clicked' = [clicked EXCEPT ![k] = new]
  BY <1>1
<1>6. new.points = PagePoints(ViewOf(new)) /\ new.shown = PageTotal(ViewOf(new))
  BY <1>2
<1> HIDE DEF new
<1>7. PageTrue' /\ clicked' \in [Clicks -> {NoOrder} \cup Clicked]
  <2>1. \A c \in Clicks : clicked'[c] = IF c = k THEN new ELSE clicked[c]
    BY <1>0, <1>5
  <2> QED BY <1>0, <1>4, <1>5, <1>6, <2>1 DEF ShopInv, OrderInv, PageTrue
<1>8. clicked'[k] # NoOrder
  BY <1>0, <1>4, <1>5, NoOrderAssumption
<1>9. \A c \in Clicks : clicked[c] # NoOrder => clicked'[c] = clicked[c]
  BY <1>0, <1>5
<1>10. Member \in Sessions
  BY DEF Sessions
<1>11. request' \in [Requests -> {Idle} \cup Handling] /\ OrderInv'
  BY <1>7, <1>8, <1>9, <1>10, SendingInv DEF Click
<1> QED BY <1>0, <1>7, <1>11 DEF Click, Same

LEMMA ResendInv ==
  ASSUME ShopInv, NEW k \in Clicks, NEW q \in Requests, NEW i \in Instances,
         NEW who \in Sessions, Resend(k, q, i, who)
  PROVE  Same /\ OrderInv'
<1>1. PageTrue'
  BY DEF ShopInv, OrderInv, PageTrue, Resend
<1>2. request' \in [Requests -> {Idle} \cup Handling] /\ OrderInv'
  BY <1>1, SendingInv DEF Resend
<1> QED BY <1>2, Steps DEF ShopInv, Resend, Same

-----------------------------------------------------------------------------
(* The handler's steps.                                                    *)
LEMMA ReplayInv ==
  ASSUME ShopInv, NEW q \in Requests, Replay(q)
  PROVE  Same /\ OrderInv'
<1>0. OrderInv /\ RequestsTypeOK /\ request[q].step = "check" /\ request[q] # Idle
  BY RequestFacts DEF ShopInv, Replay
<1> DEFINE k == request[q].click
<1>1. k \in Clicks /\ kept[k] # NoOrder /\ kept[k] \in KeyRows /\ kept[k].who = request[q].who
  BY <1>0, RequestFacts, Steps DEF Replay, Replayable
<1>2. kept[k].answer \in Requests
  BY <1>1 DEF KeyRows
<1>3. Became(q, "done", kept[k].answer)
  BY <1>0, <1>2, GoesOn DEF Replay
<1>4. /\ order[kept[k].answer] # NoOrder /\ order[kept[k].answer].click = k
      /\ order[kept[k].answer].who = request[q].who
  BY <1>0, <1>1 DEF OrderInv, KeyTrue
<1>5. order[q] = NoOrder /\ clicked[k] # NoOrder
  BY <1>0 DEF OrderInv, MadeOnce, Requested
<1>6. UNCHANGED <<settingsVars, policy, clicked, order, kept, excused>>
  BY DEF Replay
<1>7. PageTrue'
  BY <1>0, <1>6 DEF OrderInv, PageTrue
<1>8. \A p \in Requests : request'[p] = request[p] \/ Moved(p)
  BY <1>3, <1>4, <1>5, <1>6 DEF Moved, Became
<1>9. OneBusy'
  BY <1>0, <1>3, <1>5, <1>6, BusyShrinks DEF OrderInv, Busy, Became
<1>10. OrderInv'
  BY <1>6, <1>7, <1>8, <1>9, RequestsMove
<1> QED BY <1>0, <1>3, <1>6, <1>10, Steps DEF Same, Became

LEMMA PastLookupInv ==
  ASSUME ShopInv, NEW q \in Requests, NotReplayed(q) \/ LookupFails(q)
  PROVE  Same /\ OrderInv'
<1>0. OrderInv /\ RequestsTypeOK /\ request[q].step = "check" /\ request[q] # Idle
  BY RequestFacts DEF ShopInv, NotReplayed, LookupFails
<1> DEFINE k == request[q].click
<1>1. k \in Clicks /\ clicked[k] # NoOrder /\ order[q] = NoOrder
  BY <1>0, RequestFacts DEF OrderInv, MadeOnce, Requested
<1>2. /\ UNCHANGED <<policy, clicked, order, kept>>
      /\ excused \subseteq excused' /\ excused' \subseteq excused \cup {k}
      /\ k \notin excused' => ~Unprotected(q) /\ ~Replayable(q)
  BY DEF NotReplayed, LookupFails
<1>3. request[q].answer \in Requests \cup {NoOrder}
  BY <1>0, RequestFacts
<1>4. Became(q, "price", request[q].answer)
  BY <1>0, <1>3, GoesOn DEF NotReplayed, LookupFails, Goes
<1>5. PageTrue'
  BY <1>0, <1>2 DEF OrderInv, PageTrue
<1>6. request[q].answer # NoOrder =>
        LET o == order[request[q].answer]
        IN  o # NoOrder /\ o.click = k /\ o.who = request[q].who
  BY <1>0 DEF OrderInv, ReplayTellsTheTruth
<1>7. k \notin excused' => \A p \in Requests \ {q} : ~Busy(p, k)
  <2>1. ASSUME k \notin excused', NEW p \in Requests \ {q}, Busy(p, k)
        PROVE  FALSE
    <3>1. kept[k] = NoOrder /\ request[p].step \notin {"price", "save"} /\ order[p] # NoOrder
      BY <1>2, <2>1 DEF Unprotected, Replayable, Busy
    <3>2. order[p].click = k
      BY <1>0, <2>1, <3>1 DEF OrderInv, MadeOnce, Busy
    <3> QED BY <1>0, <1>2, <2>1, <3>1, <3>2 DEF OrderInv, SavedOrSaving
  <2> QED BY <2>1
<1>8. \A p \in Requests : request'[p] = request[p] \/ Moved(p)
  BY <1>1, <1>2, <1>4, <1>6 DEF Moved, Became
<1>9. OneBusy'
  <2>1. \A p \in Requests \ {q}, c \in Clicks : Busy(p, c)' <=> Busy(p, c)
    BY <1>2, <1>4 DEF Busy, Became
  <2>2. \A c \in Clicks : Busy(q, c)' <=> c = k
    BY <1>1, <1>2, <1>4 DEF Busy, Became
  <2> QED BY <1>0, <1>2, <1>7, <2>1, <2>2 DEF OrderInv, OneBusy
<1>10. OrderInv'
  BY <1>2, <1>5, <1>8, <1>9, RequestsMove
<1> QED BY <1>0, <1>1, <1>2, <1>4, <1>10, Steps DEF Same, Became

LEMMA RefuseInv ==
  ASSUME ShopInv, NEW q \in Requests, Refuse(q)
  PROVE  Same /\ OrderInv'
<1>0. OrderInv /\ RequestsTypeOK /\ request[q].step = "price" /\ request[q] # Idle
  BY RequestFacts DEF ShopInv, Refuse
<1>1. clicked[request[q].click] # NoOrder /\ order[q] = NoOrder
  BY <1>0 DEF OrderInv, MadeOnce, Requested
<1>2. UNCHANGED <<policy, clicked, order, kept, excused>>
  BY DEF Refuse
<1>3. request[q].answer \in Requests \cup {NoOrder}
  BY <1>0, RequestFacts
<1>4. Became(q, "done", request[q].answer)
  BY <1>0, <1>3, GoesOn DEF Refuse, Goes
<1>5. PageTrue'
  BY <1>0, <1>2 DEF OrderInv, PageTrue
<1>6. request[q].answer # NoOrder =>
        LET o == order[request[q].answer]
        IN  o # NoOrder /\ o.click = request[q].click /\ o.who = request[q].who
  BY <1>0 DEF OrderInv, ReplayTellsTheTruth
<1>7. \A p \in Requests : request'[p] = request[p] \/ Moved(p)
  BY <1>1, <1>2, <1>4, <1>6 DEF Moved, Became
<1>8. OneBusy'
  BY <1>0, <1>1, <1>2, <1>4, BusyShrinks DEF OrderInv, Busy, Became
<1>9. OrderInv'
  BY <1>2, <1>5, <1>7, <1>8, RequestsMove
<1> QED BY <1>0, <1>2, <1>4, <1>9, Steps DEF Same, Became

LEMMA CrashInv ==
  ASSUME ShopInv, NEW i \in Instances, Crash(i)
  PROVE  Same /\ OrderInv'
<1>0. OrderInv /\ RequestsTypeOK /\ UNCHANGED <<policy, clicked, order, kept>>
  BY DEF ShopInv, Crash
<1>1. /\ request' \in [Requests -> {Idle} \cup Handling]
      /\ \A p \in Requests : request'[p] = request[p] \/
           /\ request[p].step # "idle" /\ request'[p].step = "lost" /\ request'[p] # Idle
           /\ request'[p].click = request[p].click /\ request'[p].who = request[p].who
           /\ request'[p].answer = request[p].answer
           /\ request[p].at = i
  <2>1. request' = [p \in Requests |-> IF InHandler(p) /\ request[p].at = i
                                       THEN [request[p] EXCEPT !.step = "lost"] ELSE request[p]]
    BY DEF Crash
  <2>2. \A h \in Handling : LET l == [h EXCEPT !.step = "lost"]
                            IN  /\ l \in Handling /\ l.step = "lost" /\ l # Idle
                                /\ l.click = h.click /\ l.who = h.who /\ l.answer = h.answer
    BY DEF Handling, Idle
  <2>3. \A p \in Requests : InHandler(p) => request[p] \in Handling /\ request[p].step # "idle"
    BY <1>0, RequestFacts DEF InHandler
  <2> QED BY <1>0, <2>1, <2>2, <2>3, Steps
<1>2. /\ excused \subseteq excused' /\ excused' \subseteq Clicks
      /\ \A p \in Requests : request[p].step = "save" /\ request[p].at = i
                               => request[p].click \in excused'
  <2>1. excused' = excused \cup {request[p].click : p \in
                     {r \in Requests : request[r].step = "save" /\ request[r].at = i}}
    BY DEF Crash
  <2>2. \A p \in Requests : request[p].step = "save" => request[p].click \in Clicks
    BY <1>0, RequestFacts
  <2> QED BY <1>0, <2>1, <2>2, Steps
<1>3. PageTrue'
  BY <1>0 DEF OrderInv, PageTrue
<1>4. \A p \in Requests : request[p].step # "idle" => clicked[request[p].click] # NoOrder
  BY <1>0, RequestFacts DEF OrderInv, Requested
<1>5. \A p \in Requests : request'[p] = request[p] \/ Moved(p)
  <2>1. ASSUME NEW p \in Requests, request'[p] # request[p] PROVE Moved(p)
    <3>1. request[p].answer # NoOrder =>
            LET o == order[request[p].answer]
            IN  o # NoOrder /\ o.click = request[p].click /\ o.who = request[p].who
      BY <1>0, <1>1, <2>1, RequestFacts DEF OrderInv, ReplayTellsTheTruth
    <3> QED BY <1>0, <1>1, <1>2, <1>4, <2>1, <3>1 DEF Moved
  <2> QED BY <2>1
<1>6. OneBusy'
  <2>1. ASSUME NEW p \in Requests, NEW k \in Clicks, Busy(p, k)' PROVE Busy(p, k)
    BY <1>0, <1>1, <2>1, RequestFacts DEF Busy
  <2> QED BY <1>0, <1>2, <2>1, BusyShrinks DEF OrderInv
<1>7. OrderInv'
  BY <1>0, <1>2, <1>3, <1>5, <1>6, RequestsMove
<1> QED BY <1>0, <1>1, <1>2, <1>7, Steps DEF Same

LEMMA QuoteFacts ==
  ASSUME ShopInv, NEW q \in Requests, request[q] # Idle, reading[q] \in Readings
  PROVE  LET click == clicked[request[q].click]
             quote == Quote(q)
         IN  /\ click \in Clicked /\ quote \in Quoted
             /\ quote.items = click.cart.catalog /\ quote.points = click.points
             /\ quote.fee = Fee /\ quote.freeMin = reading[q].data
             /\ request[q].who # Guest => quote.coupon = click.cart.coupon
             /\ quote.coupon \in {NoCoupon} \cup PricedCoupon
<1>0. RequestsTypeOK /\ request[q].click \in Clicks /\ clicked[request[q].click] # NoOrder
  BY RequestFacts DEF ShopInv, OrderInv, Requested
<1>1. clicked[request[q].click] \in Clicked
  BY <1>0, Steps
<1>2. reading[q].data \in Nat /\ Fee \in Nat
  BY RequestsAssumption, SettingsAssumption DEF Readings
<1> DEFINE click == clicked[request[q].click]
<1>3. /\ click.cart.catalog \in Nat /\ click.cart.balance \in Nat /\ click.points \in Nat
      /\ click.cart.coupon \in {NoCoupon} \cup PricedCoupon
  BY <1>1, CartFacts
<1> HIDE DEF click
<1> DEFINE coupon  == IF request[q].who = Guest THEN NoCoupon ELSE click.cart.coupon
           balance == IF request[q].who = Guest THEN 0 ELSE click.cart.balance
<1>4. coupon \in {NoCoupon} \cup PricedCoupon /\ balance \in Nat
      /\ (request[q].who # Guest => coupon = click.cart.coupon)
  BY <1>3
<1> HIDE DEF coupon, balance
<1>5. Quote(q) = [items |-> click.cart.catalog, coupon |-> coupon, points |-> click.points,
                  balance |-> balance, fee |-> Fee, freeMin |-> reading[q].data]
  BY DEF Quote, click, coupon, balance
<1> DEFINE quote == [items |-> click.cart.catalog, coupon |-> coupon, points |-> click.points,
                     balance |-> balance, fee |-> Fee, freeMin |-> reading[q].data]
<1>6. quote \in Quoted
  BY <1>2, <1>3, <1>4 DEF Quoted
<1> QED BY <1>1, <1>4, <1>5, <1>6 DEF click

LEMMA CreateInv ==
  ASSUME ShopInv, NEW q \in Requests, Create(q)
  PROVE  Same /\ OrderInv'
<1>0. /\ OrderInv /\ RequestsTypeOK /\ SettingsTypeOK
      /\ request[q].step = "price" /\ request[q] # Idle /\ request[q] \in Handling
      /\ q \in Readers /\ reading[q].step = "got"
  BY RequestFacts, RequestsAssumption DEF ShopInv, SettingsInv, Create
<1> DEFINE k == request[q].click
           click == clicked[k]
           quote == Quote(q)
           new == [click |-> k, who |-> request[q].who, coupon |-> quote.coupon,
                   discount |-> Discount(quote), points |-> PointsTaken(quote),
                   freeMin |-> reading[q].data, total |-> OrderTotal(quote),
                   earned |-> PointsEarned(quote)]
<1>1. reading[q] \in Readings /\ reading[q].data \in Minimums
  BY <1>0, ReadingFacts
<1>2. /\ k \in Clicks /\ click \in Clicked /\ quote \in Quoted
      /\ quote.items = click.cart.catalog /\ quote.points = click.points
      /\ quote.fee = Fee /\ quote.freeMin = reading[q].data
      /\ request[q].who # Guest => quote.coupon = click.cart.coupon
      /\ quote.coupon \in {NoCoupon} \cup PricedCoupon
  BY <1>0, <1>1, QuoteFacts, RequestFacts
<1>3. /\ order[q] = NoOrder /\ click # NoOrder
      /\ UNCHANGED <<policy, clicked, kept, excused>>
      /\ request[q].who \in Sessions
      /\ request[q].answer \in Requests \cup {NoOrder}
  BY <1>0, RequestFacts DEF OrderInv, MadeOnce, Requested, Create
<1>4. Became(q, "save", request[q].answer)
  BY <1>0, <1>3, GoesOn DEF Create, Goes
<1>5. /\ Discount(quote) \in Nat /\ PointsTaken(quote) \in Nat
      /\ Discount(quote) + PointsTaken(quote) <= click.cart.catalog
      /\ OrderTotal(quote) \in Nat /\ PointsEarned(quote) \in Nat
  <2>1. click.cart.catalog \in Nat
    BY <1>2, CartFacts
  <2>2. Discount(quote) \in 0..quote.items /\ PointsTaken(quote) \in 0..(quote.items - Discount(quote))
    BY <1>2, DiscountBounds, PointsBounds
  <2>3. OrderTotal(quote) \in Nat /\ PointsEarned(quote) \in Nat
    BY <1>2, TotalIsNat
  <2> QED BY <1>2, <2>1, <2>2, <2>3
<1>6. /\ new \in OrderRows /\ new.click = k /\ new.who = request[q].who
      /\ new.discount = Discount(quote) /\ new.points = PointsTaken(quote)
      /\ new.freeMin = reading[q].data /\ new.total = OrderTotal(quote)
  BY <1>1, <1>2, <1>3, <1>5 DEF OrderRows
<1>7. /\ request[q].who = Member /\ click.cart.items = click.cart.catalog
      /\ click.freeMin = reading[q].data
      => OrderTotal(quote) = click.shown
  <2> SUFFICES ASSUME request[q].who = Member, click.cart.items = click.cart.catalog,
                      click.freeMin = reading[q].data
               PROVE  OrderTotal(quote) = click.shown
    OBVIOUS
  <2>1. ViewOf(click) \in Viewed
    BY <1>2, CartFacts
  <2>2. click.points = PagePoints(ViewOf(click)) /\ click.shown = PageTotal(ViewOf(click))
    BY <1>0, <1>2, <1>3 DEF OrderInv, PageTrue
  <2>3. quote.coupon = click.cart.coupon
    BY <1>2, RequestsAssumption
  <2>4. /\ ViewOf(click).items = click.cart.items /\ ViewOf(click).coupon = click.cart.coupon
        /\ ViewOf(click).fee = Fee /\ ViewOf(click).freeMin = click.freeMin
    BY DEF ViewOf
  <2> QED BY <1>2, <2>1, <2>2, <2>3, <2>4, SameTotal
<1>8. order' = [order EXCEPT ![q] = new]
  BY DEF Create
<1> HIDE DEF quote, new
<1>9. /\ order' \in [Requests -> {NoOrder} \cup OrderRows]
      /\ order'[q] = new /\ new # NoOrder
      /\ \A p \in Requests \ {q} : order'[p] = order[p]
  BY <1>0, <1>6, <1>8, NoOrderAssumption, Steps
<1>10. PageTrue' /\ Requested'
  BY <1>0, <1>3, <1>4 DEF OrderInv, PageTrue, Requested, Became
<1>11. MadeOnce'
  BY <1>0, <1>4, <1>6, <1>9 DEF OrderInv, MadeOnce, Became
<1>12. \A p \in Requests : order[p] # NoOrder => order'[p] = order[p]
  BY <1>3, <1>9
<1>13. KeyTrue'
  <2>1. \A c \in Clicks : kept[c] # NoOrder => kept[c].answer \in Requests
    BY <1>0, Steps DEF KeyRows
  <2> QED BY <1>0, <1>3, <1>12, <2>1 DEF OrderInv, KeyTrue
<1>14. ReplayTellsTheTruth'
  <2>1. \A p \in Requests : request[p] # Idle => request[p].answer \in Requests \cup {NoOrder}
    BY <1>0, RequestFacts
  <2> QED BY <1>0, <1>4, <1>12, <2>1 DEF OrderInv, ReplayTellsTheTruth, Became
<1>15. SavedOrSaving'
  BY <1>0, <1>3, <1>4, <1>9 DEF OrderInv, SavedOrSaving, Became
<1>16. OneBusy'
  BY <1>0, <1>3, <1>4, <1>9, BusyShrinks DEF OrderInv, Busy, Became
<1>17. NothingGivenAway'
  BY <1>0, <1>3, <1>5, <1>6, <1>9 DEF OrderInv, NothingGivenAway
<1>18. PageAndOrderAgree'
  BY <1>0, <1>3, <1>6, <1>7, <1>9 DEF OrderInv, PageAndOrderAgree
<1>19. OrderInv'
  BY <1>10, <1>11, <1>13, <1>14, <1>15, <1>16, <1>17, <1>18 DEF OrderInv
<1> QED BY <1>0, <1>3, <1>4, <1>9, <1>19, Steps DEF Same, Became

LEMMA SaveInv ==
  ASSUME ShopInv, NEW q \in Requests, SaveKey(q) \/ SaveFails(q)
  PROVE  Same /\ OrderInv'
<1>0. OrderInv /\ RequestsTypeOK /\ request[q].step = "save" /\ request[q] # Idle
  BY RequestFacts DEF ShopInv, SaveKey, SaveFails
<1> DEFINE k == request[q].click
           new == [who |-> request[q].who, answer |-> q, live |-> TRUE]
<1>1. /\ k \in Clicks /\ clicked[k] # NoOrder /\ request[q].who \in Sessions
      /\ order[q] # NoOrder /\ order[q].click = k /\ order[q].who = request[q].who
  BY <1>0, RequestFacts DEF OrderInv, Requested, MadeOnce
<1>2. Became(q, "done", q)
  BY <1>0, GoesOn DEF SaveKey, SaveFails, Answered
<1>3. new \in KeyRows /\ new.who = request[q].who /\ new.answer = q
  BY <1>1 DEF KeyRows
<1> HIDE DEF new
<1>4. /\ UNCHANGED <<policy, clicked, order>>
      /\ excused \subseteq excused' /\ excused' \subseteq excused \cup {k}
      /\ \A c \in Clicks : kept[c] # NoOrder => kept'[c] = kept[c]
      /\ \A c \in Clicks \ {k} : kept'[c] = kept[c]
      /\ kept'[k] \in {kept[k], new}
      /\ k \in excused' \/ kept'[k] # NoOrder
      /\ kept' \in [Clicks -> {NoOrder} \cup KeyRows]
  <2>1. CASE SaveFails(q)
    BY <1>0, <2>1, Steps DEF SaveFails
  <2>2. CASE SaveKey(q)
    <3>1. kept' = IF kept[k] # NoOrder THEN kept ELSE [kept EXCEPT ![k] = new]
      BY <2>2 DEF SaveKey, new
    <3>2. UNCHANGED <<policy, clicked, order, excused>>
      BY <2>2 DEF SaveKey
    <3> QED BY <1>0, <1>1, <1>3, <3>1, <3>2, NoOrderAssumption, Steps
  <2> QED BY <2>1, <2>2
<1>5. PageTrue' /\ Requested'
  BY <1>0, <1>1, <1>2, <1>4 DEF OrderInv, PageTrue, Requested, Became
<1>6. MadeOnce'
  BY <1>0, <1>2, <1>4 DEF OrderInv, MadeOnce, Became
<1>7. KeyTrue'
  BY <1>0, <1>1, <1>3, <1>4 DEF OrderInv, KeyTrue
<1>8. SavedOrSaving'
  <2>1. \A p \in Requests : order[p] # NoOrder => order[p].click \in Clicks
    BY <1>0, Steps DEF OrderRows
  <2> QED BY <1>0, <1>1, <1>2, <1>4, <2>1 DEF OrderInv, SavedOrSaving, Became
<1>9. OneBusy'
  BY <1>0, <1>1, <1>2, <1>4, BusyShrinks DEF OrderInv, Busy, Became
<1>10. ReplayTellsTheTruth'
  BY <1>0, <1>1, <1>2, <1>4 DEF OrderInv, ReplayTellsTheTruth, Became
<1>11. NothingGivenAway' /\ PageAndOrderAgree'
  BY <1>0, <1>4 DEF OrderInv, NothingGivenAway, PageAndOrderAgree
<1>12. OrderInv'
  BY <1>5, <1>6, <1>7, <1>8, <1>9, <1>10, <1>11 DEF OrderInv
<1> QED BY <1>0, <1>1, <1>2, <1>4, <1>12, Steps DEF Same, Became

LEMMA KeysInv ==
  ASSUME ShopInv, PurgeKeys \/ \E k \in Clicks : KeyExpires(k)
  PROVE  Same /\ OrderInv'
<1>0. OrderInv /\ RequestsTypeOK
  BY DEF ShopInv
<1>1. /\ UNCHANGED <<policy, clicked, request, order>>
      /\ excused \subseteq excused' /\ excused' \subseteq Clicks
      /\ kept' \in [Clicks -> {NoOrder} \cup KeyRows]
      /\ \A c \in Clicks : kept'[c] # NoOrder =>
           kept[c] # NoOrder /\ kept'[c].who = kept[c].who /\ kept'[c].answer = kept[c].answer
      /\ \A c \in Clicks : kept[c] # NoOrder => kept'[c] # NoOrder \/ c \in excused'
  <2>1. CASE PurgeKeys
    BY <1>0, <2>1, Steps DEF PurgeKeys
  <2>2. ASSUME NEW k \in Clicks, KeyExpires(k)
        PROVE  /\ UNCHANGED <<policy, clicked, request, order, excused>>
               /\ kept' \in [Clicks -> {NoOrder} \cup KeyRows]
               /\ \A c \in Clicks : kept'[c] # NoOrder =>
                    kept[c] # NoOrder /\ kept'[c].who = kept[c].who /\ kept'[c].answer = kept[c].answer
               /\ \A c \in Clicks : kept[c] # NoOrder => kept'[c] # NoOrder
    <3> DEFINE new == [kept[k] EXCEPT !.live = FALSE]
    <3>1. kept[k] \in KeyRows /\ kept[k] # NoOrder
      BY <1>0, <2>2, Steps DEF KeyExpires
    <3>2. new \in KeyRows /\ new.who = kept[k].who /\ new.answer = kept[k].answer /\ new # NoOrder
      BY <3>1, NoOrderAssumption DEF KeyRows
    <3>3. kept' = [kept EXCEPT ![k] = new]
      BY <1>0, <2>2, Steps DEF KeyExpires
    <3>4. UNCHANGED <<policy, clicked, request, order, excused>>
      BY <2>2 DEF KeyExpires
    <3> HIDE DEF new
    <3> QED BY <1>0, <3>1, <3>2, <3>3, <3>4, Steps
  <2> QED BY <1>0, <2>1, <2>2, Steps
<1>2. PageTrue' /\ Requested' /\ MadeOnce' /\ ReplayTellsTheTruth'
  BY <1>0, <1>1 DEF OrderInv, PageTrue, Requested, MadeOnce, ReplayTellsTheTruth
<1>3. KeyTrue'
  BY <1>0, <1>1 DEF OrderInv, KeyTrue
<1>4. SavedOrSaving'
  <2>1. \A p \in Requests : order[p] # NoOrder => order[p].click \in Clicks
    BY <1>0, Steps DEF OrderRows
  <2> QED BY <1>0, <1>1, <2>1 DEF OrderInv, SavedOrSaving
<1>5. OneBusy' /\ NothingGivenAway' /\ PageAndOrderAgree'
  BY <1>0, <1>1 DEF OrderInv, OneBusy, Busy, NothingGivenAway, PageAndOrderAgree
<1> QED BY <1>0, <1>1, <1>2, <1>3, <1>4, <1>5, Steps DEF Same, OrderInv

-----------------------------------------------------------------------------
LEMMA ShopInitially == RequestsInit => ShopInv
<1> SUFFICES ASSUME RequestsInit PROVE ShopInv
  OBVIOUS
<1>1. SettingsInv
  BY SettingsInitially DEF RequestsInit
<1>2. RequestsTypeOK
  BY <1>1, SettingsAssumption DEF RequestsInit, RequestsTypeOK, SettingsInv
<1>3. OrderInv
  BY DEF RequestsInit, OrderInv, PageTrue, Requested, MadeOnce, KeyTrue, SavedOrSaving, OneBusy,
         Busy, ReplayTellsTheTruth, NothingGivenAway, PageAndOrderAgree, Idle
<1> QED BY <1>1, <1>2, <1>3 DEF ShopInv

LEMMA ShopStep ==
  ASSUME ShopInv, RequestsNext \/ UNCHANGED shopVars
  PROVE  ShopInv'
<1>0. SettingsInv /\ RequestsTypeOK
  BY DEF ShopInv
<1>1. SettingsInv'
  BY <1>0, SettingsAmongRequests
<1>2. SettingsTypeOK'
  BY <1>1 DEF SettingsInv
<1>3. ASSUME Same, OrderInv' PROVE ShopInv'
  BY <1>0, <1>1, <1>2, <1>3 DEF Same, RequestsTypeOK, ShopInv
<1>4. CASE UNCHANGED requestVars
  BY <1>0, <1>3, <1>4, SettingsStepInv, Steps DEF requestVars, Same
<1>5. CASE PolicyArrives
  <2>1. Page \in Readers /\ reading[Page] \in Readings
    BY <1>0, <1>5, ReadingFacts, RequestsAssumption DEF PolicyArrives, SettingsInv
  <2>2. policy' \in Minimums
    BY <1>0, <1>5, <2>1, ReadingFacts DEF PolicyArrives, SettingsInv
  <2>3. UNCHANGED <<clicked, request, order, kept, excused>>
    BY <1>5 DEF PolicyArrives
  <2>4. OrderInv'
    BY <2>3, SettingsStepInv
  <2> QED BY <1>0, <1>1, <1>2, <2>2, <2>3, <2>4 DEF RequestsTypeOK, ShopInv
<1>6. ASSUME NEW k \in Clicks, NEW q \in Requests, NEW i \in Instances,
             Click(k, q, i) \/ \E who \in {Member, Guest} : Resend(k, q, i, who)
      PROVE  ShopInv'
  BY <1>3, <1>6, ClickInv, ResendInv DEF Sessions
<1>7. ASSUME NEW q \in Requests, RequestStep(q) PROVE ShopInv'
  BY <1>3, <1>7, ReplayInv, PastLookupInv, RefuseInv, CreateInv, SaveInv DEF RequestStep
<1>8. CASE PurgeKeys \/ \E k \in Clicks : KeyExpires(k)
  BY <1>3, <1>8, KeysInv
<1>9. ASSUME NEW i \in Instances, Crash(i) PROVE ShopInv'
  BY <1>3, <1>9, CrashInv
<1> QED
  BY <1>4, <1>5, <1>6, <1>7, <1>8, <1>9 DEF RequestsNext, SettingsStep, shopVars

LEMMA ShopInductive == RequestsSpec => []ShopInv
<1>1. ShopInv /\ [RequestsNext]_shopVars => ShopInv'
  BY ShopStep
<1> QED BY <1>1, ShopInitially, PTL DEF RequestsSpec

-----------------------------------------------------------------------------
(* The settings module by itself: copies and answers are as fresh as their *)
(* age says, for any number of instances, readers and savers               *)
(* (lib/site-settings.ts lines 122-155).                                   *)
THEOREM SettingsAreFresh == SettingsSpec => []SettingsFresh
<1>1. SettingsInv /\ [SettingsNext]_settingsVars => SettingsInv'
  BY SettingsMoves, SettingsUnchanged DEF SettingsNext
<1>2. SettingsInv => SettingsFresh
  BY DEF SettingsInv, SettingsFresh
<1> QED BY <1>1, <1>2, SettingsInitially, PTL DEF SettingsSpec

(* The same while orders read the settings and instances die.              *)
THEOREM OrdersReadFreshSettings == RequestsSpec => []SettingsFresh
<1>1. ShopInv => SettingsFresh
  BY DEF ShopInv, SettingsInv, SettingsFresh
<1> QED BY <1>1, ShopInductive, PTL

(* Requests, keys and orders keep their types; in particular every total   *)
(* and every earning is a natural number.                                  *)
THEOREM RequestsTypeCorrect == RequestsSpec => []RequestsTypeOK
BY ShopInductive, PTL DEF ShopInv

(* A click that its key can protect makes one order, whatever is delivered *)
(* again, to whichever instance (lib/idempotency.ts).                      *)
THEOREM OneOrder == RequestsSpec => []OneOrderUnlessExcused
<1>1. ASSUME ShopInv, NEW k \in Clicks, k \notin excused
      PROVE  Cardinality(OrdersOf(k)) <= 1
  <2>1. \A p \in OrdersOf(k) : Busy(p, k)
    BY <1>1, RequestFacts DEF ShopInv, OrderInv, MadeOnce, OrdersOf, Busy, Idle
  <2>2. \A p, q \in OrdersOf(k) : p = q
    BY <1>1, <2>1 DEF ShopInv, OrderInv, OneBusy, OrdersOf
  <2>3. CASE OrdersOf(k) = {}
    BY <2>3, FS_EmptySet
  <2>4. ASSUME NEW p \in OrdersOf(k) PROVE Cardinality(OrdersOf(k)) <= 1
    <3>1. OrdersOf(k) = {p}
      BY <2>2, <2>4
    <3> QED BY <3>1, FS_Singleton
  <2> QED BY <2>3, <2>4
<1>2. ShopInv => OneOrderUnlessExcused
  BY <1>1 DEF OneOrderUnlessExcused
<1> QED BY <1>2, ShopInductive, PTL

(* A replayed answer is that of the same click and the same session.       *)
THEOREM ReplaysAreTrue == RequestsSpec => []ReplayTellsTheTruth
BY ShopInductive, PTL DEF ShopInv, OrderInv

(* The page's total and the order's agree when their inputs do, for every  *)
(* coupon, fee, minimum and number of points.                              *)
THEOREM TotalsAgree == RequestsSpec => []PageAndOrderAgree
BY ShopInductive, PTL DEF ShopInv, OrderInv

(* Coupon and points never pay for more than the goods.                    *)
THEOREM NothingIsGivenAway == RequestsSpec => []NothingGivenAway
BY ShopInductive, PTL DEF ShopInv, OrderInv
=============================================================================
