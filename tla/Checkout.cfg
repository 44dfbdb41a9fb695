SPECIFICATION Spec
CONSTANTS
  o1 = o1
  o2 = o2
  u1 = u1
  c1 = c1
  s1 = s1
  s2 = s2
  None = None
  Orders = {o1, o2}
  Users = {u1}
  Coupons = {c1}
  Skus = {s1, s2}
  CouponOwner <- MCOwner
  InitialPoints <- MCPoints
  InitialStock <- MCStock
  Forms <- MCFormsMixed
  CreateProcs = {"p1"}
  ReturnProcs = {"p1", "p2"}
  HookProcs = {"p2"}
  CancelProcs = {"p2"}
  ConsoleCancels = {"partial", "cancelled"}
SYMMETRY MCSymmetry
INVARIANTS TypeOK CouponHeldOnce PaidWasCharged SoldWithinStock
PROPERTIES PaidUntilRefund CouponLifeKept
CHECK_DEADLOCK FALSE
