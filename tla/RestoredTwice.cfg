SPECIFICATION AfterSpec
CONSTANTS
  o1 = o1
  u1 = u1
  c1 = c1
  s1 = s1
  s2 = s2
  r1 = r1
  r2 = r2
  None = None
  Orders = {o1}
  Users = {u1}
  Coupons = {c1}
  Skus = {s1, s2}
  CouponOwner <- MCOwner
  InitialPoints <- MCPoints
  InitialStock <- MCStock
  Forms <- MCForms
  CreateProcs = {"p1"}
  ReturnProcs = {"p1"}
  HookProcs = {}
  CancelProcs = {}
  ConsoleCancels = {}
  Admins = {"a1"}
  ReturnStaff = {"a1"}
  Customers = {"c"}
  Returns = {r1}
  Price <- MCPrice
  RefundOptions <- MCOptions
  Desks <- MCTwoDesks
  Listings = 1
  MaxUnits = 2
INVARIANTS RestoredOnce
CHECK_DEADLOCK FALSE
