SPECIFICATION MCSpec
CONSTANTS
  Parts = {"order", "coupon", "wish", "tree", "account", "code", "link"}
  i1 = i1
  i2 = i2
  q1 = q1
  q2 = q2
  page = page
  Instances = {i1, i2}
  Requests = {q1, q2}
  Page = page
  Readers = {q1, q2, page}
  Savers = {"s"}
  Minimums = {3000, 5000}
  DefaultMin = 3000
  NoRow = NoRow
  Ttl = 1
  MaxSaves = 1
  MaxFaults = 1
  NoCoupon = NoCoupon
  Clicks = {"k1"}
  Member = "member"
  Guest = "guest"
  Carts <- MCCarts
  Fee = 3000
  NoOrder = NoOrder
  Members = {m1, m2, m3, m4}
  Takers = {t1, t2}
  Nobody = Nobody
  Quantities = {1, 2}
  Unlimited = Unlimited
  MaxEdits = 3
  Wishable = {w1, w2}
  Fetches = {f1, f2}
  MaxLosses = 2
  Categories = {c1, c2, c3}
  Root = Root
  NoCategory = NoCategory
  Editors = {e1, e2}
  Products = {p}
  Browsers = {b1}
  Logins = {l1}
  Recheck = 1
  MaxStaff = 2
  Senders = {s1, s2}
  Verifiers = {v1, v2}
  ResendWindow = 1
  CodeTtl = 2
  Hour = 3
  MaxPerHour = 2
  MaxAttempts = 2
  MaxCodes = 3
  Issuers = {s1, s2}
  Users = {v1, v2}
  MaxLinks = 4
INVARIANTS ShopTypeOK SettingsFresh OneOrderUnlessExcused ReplayTellsTheTruth PageAndOrderAgree NothingGivenAway IssuedCountTrue OverIssueBounded HeartTellsTheTruth RootReached SignedOutSoon GuessesBounded CodesApart OneLiveLink OldLinksDead
PROPERTIES BlockedStays PasswordLoginKeeps
CHECK_DEADLOCK FALSE
SYMMETRY MCSym
