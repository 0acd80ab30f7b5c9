SPECIFICATION LoyaltySpec
CONSTANTS
  Members = {1, 2, 3}
  Invites <- AnyInvites
  Buyers = {3}
  Sales = {1}
  MaxRequests = 1
  LoyaltyMaxFaults = 0
INVARIANT SharesByLevel
CHECK_DEADLOCK FALSE
