SPECIFICATION AdminSpec
CONSTANTS
  v1 = v1
  v2 = v2
  s1 = s1
  MAX_BASIS_POINTS = 4
  MAX_BP_CENTS = 4
  U64 = 1000
  Validator = {v1, v2}
  StakeAccount = {s1}
  Ticket = {}
  TokenRent = 1
  StakeRent = 1
  MAX_REWARD_FEE = 2
  MAX_DELAYED_UNSTAKE_FEE = 2
  MAX_WITHDRAW_STAKE_ACCOUNT_FEE = 2
  MIN_STAKE_LOWER_LIMIT = 1
  MAX_WITHDRAW_ATOM = 1
  MAX_FEE = 2
  MIN_LIQUIDITY_TARGET = 1
  MAX_TREASURY_CUT = 3
  InitializeData <- AdminInitializeData
  InitialSol = {3}
  Lamports = {1}
  WAIT_EPOCHS = 0
  Scores = {1}
  ExtraRuns = {1}
  ConfigMarinadeParams <- MCConfigMarinadeParams
  ConfigLpParams <- MCConfigLpParams
  Capacities = {0, 3}
INVARIANTS ConfigWithinLimits
PROPERTIES PauseStopsTheBooks EventsTellTheBooks
