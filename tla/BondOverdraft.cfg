SPECIFICATION Spec
CONSTANTS
  i1 = i1
  i2 = i2
  Investors <- MCInvestors
  Terms <- MCTerms
  Requests = {r1}
  Total = 2
  NumCoupons = 1
  MaturityDay = 0
  LastDay = 0
  Nominal = 1
  CouponPerUnit = 1
  PlacePrice = 1
  PlaceQty = {2}
  DepositAmount = 1
  MaxDeposits = 2
  Trades = {t1, t2}
  Handlers = {h1, h2}
  MaxRetry = 2
  Accruals = {0}
  Faults = {}
  MaxFaults = 1
  CouponWorkers = {}
  MaturityWorkers = {}
PROPERTIES BuyerCanPay
CHECK_DEADLOCK FALSE
