SPECIFICATION PoolSpec
CONSTANTS
  MAX_BASIS_POINTS = 4
  MAX_BP_CENTS = 4
  U64 = 1000
  Validator = {}
  StakeAccount = {}
  Ticket = {t1}
  t1 = t1
  TokenRent = 1
  StakeRent = 1
  MAX_REWARD_FEE = 2
  MAX_DELAYED_UNSTAKE_FEE = 2
  MAX_WITHDRAW_STAKE_ACCOUNT_FEE = 2
  MIN_STAKE_LOWER_LIMIT = 1
  MAX_WITHDRAW_ATOM = 1
  MAX_FEE = 4
  MIN_LIQUIDITY_TARGET = 1
  MAX_TREASURY_CUT = 3
  InitializeData <- MCInitializeData
  InitialSol = {7}
  Lamports = {1, 2, 3}
  WAIT_EPOCHS = 0
  Scores = {0, 1}
  ExtraRuns = {1}
  ConfigMarinadeParams = {}
  ConfigLpParams = {}
  Capacities = {}
INVARIANTS BooksAreConservative
PROPERTIES MsolPriceNeverFalls LpPriceNeverFalls UnstakeNowCostsTheFee EventsTellTheBooks
