SPECIFICATION Spec
CONSTANTS
  i1 = i1
  i2 = i2
  Investors <- MCInvestors
  Terms <- MCTerms
  Requests = {r1}
  Total = 2
  NumCoupons = 2
  MaturityDay = 1
  LastDay = 1
  Nominal = 2
  CouponPerUnit = 1
  PlacePrice = 1
  PlaceQty = {1}
  DepositAmount = 1
  MaxDeposits = 1
  Trades = {t1}
  Handlers = {h1, h2}
  MaxRetry = 1
  Accruals = {1}
  Faults = {"crash", "expiry", "cancel", "lost_ack"}
  MaxFaults = 1
  CouponWorkers = {c1, c2}
  MaturityWorkers = {m1}
SYMMETRY MCSymmetry
INVARIANTS TypeOK Conserved CouponPaidOnce CouponsInOrder PayoutsBounded
CHECK_DEADLOCK FALSE
