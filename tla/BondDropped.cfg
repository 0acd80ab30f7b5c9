SPECIFICATION Spec
CONSTANTS
  i1 = i1
  i2 = i2
  Investors <- MCInvestors
  Terms <- MCTerms
  Requests = {r1}
  Total = 1
  NumCoupons = 1
  MaturityDay = 0
  LastDay = 0
  Nominal = 1
  CouponPerUnit = 1
  PlacePrice = 1
  PlaceQty = {1}
  DepositAmount = 1
  MaxDeposits = 1
  Trades = {t1, t2}
  Handlers = {h1}
  MaxRetry = 2
  Accruals = {0, 1}
  Faults = {"cancel"}
  MaxFaults = 1
  CouponWorkers = {}
  MaturityWorkers = {}
INVARIANTS NoTradeDropped
CHECK_DEADLOCK FALSE
