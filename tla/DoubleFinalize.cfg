SPECIFICATION Spec
CONSTANTS
  o1 = o1
  o2 = o2
  u1 = u1
  c1 = c1
  s1 = s1
  s2 = s2
  None = None
  Orders = {o1, o2}
  Users = {u1}
  Coupons = {c1}
  Skus = {s1, s2}
  CouponOwner <- MCOwner
  InitialPoints <- MCPoints
  InitialStock <- MCAmpleStock
  Forms <- MCFormsToss
  CreateProcs = {"p1"}
  ReturnProcs = {"p1"}
  HookProcs = {"p2"}
  CancelProcs = {}
  ConsoleCancels = {}
INVARIANTS EarnedOnce
CHECK_DEADLOCK FALSE
