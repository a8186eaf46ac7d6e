SPECIFICATION LimitersSpec
CONSTANTS
  r1 = r1
  r2 = r2
  r3 = r3
  r4 = r4
  Requests <- FourRequests
  Limits <- SomeLimits
  Rates <- SomeRates
  Second = 6
  MaxTime = 13
  MaxRequests = 4
INVARIANT SlotsMatch
INVARIANT FirstLimitServed
INVARIANT RateBounded
INVARIANT WaitBounded
