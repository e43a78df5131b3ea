SPECIFICATION ValidatorsSpec
CONSTANTS
  v1 = v1
  v2 = v2
  s1 = s1
  s2 = s2
  s3 = s3
  MAX_BASIS_POINTS = 4
  MAX_BP_CENTS = 4
  U64 = 1000
  Validator = {v1, v2}
  StakeAccount = {s1, s2, s3}
  Ticket = {}
  TokenRent = 1
  StakeRent = 1
  MAX_REWARD_FEE = 2
  MAX_DELAYED_UNSTAKE_FEE = 2
  MAX_WITHDRAW_STAKE_ACCOUNT_FEE = 2
  MIN_STAKE_LOWER_LIMIT = 1
  MAX_WITHDRAW_ATOM = 1
  MAX_FEE = 2
  MIN_LIQUIDITY_TARGET = 1
  MAX_TREASURY_CUT = 3
  InitializeData <- MCInitializeData
  InitialSol = {6}
  Lamports = {2, 3}
  WAIT_EPOCHS = 0
  Scores = {0, 1}
  ExtraRuns = {}
  ConfigMarinadeParams = {}
  ConfigLpParams = {}
  Capacities = {}
SYMMETRY Accounts
INVARIANTS StakeIsCounted ScoresAreCounted StakeIsBacked
PROPERTIES StaysNearTarget MovesAreCapped EventsTellTheBooks
