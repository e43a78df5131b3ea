SPECIFICATION CalcSpec
CONSTANTS
  MAX_BASIS_POINTS = 5
  MAX_BP_CENTS = 7
  U64 = 1000
  Bound = 16
INVARIANTS DepositAndRedeemGainsNothing SplittingGainsNothing CheckedFeesAreMonotone LinearFeeFalls
CHECK_DEADLOCK FALSE
