SPECIFICATION PayoutSpec
CONSTANTS
  v1 = v1
  s1 = s1
  s2 = s2
  t1 = t1
  t2 = t2
  MAX_BASIS_POINTS = 4
  MAX_BP_CENTS = 4
  U64 = 1000
  Validator = {v1}
  StakeAccount = {s1, s2}
  Ticket = {t1, t2}
  TokenRent = 1
  StakeRent = 1
  MAX_REWARD_FEE = 2
  MAX_DELAYED_UNSTAKE_FEE = 2
  MAX_WITHDRAW_STAKE_ACCOUNT_FEE = 2
  MIN_STAKE_LOWER_LIMIT = 1
  MAX_WITHDRAW_ATOM = 1
  MAX_FEE = 2
  MIN_LIQUIDITY_TARGET = 1
  MAX_TREASURY_CUT = 3
  InitializeData <- MCInitializeData
  InitialSol = {7}
  Lamports = {1, 3}
  WAIT_EPOCHS = 0
  Scores = {1}
  ExtraRuns = {0}
  ConfigMarinadeParams = {}
  ConfigLpParams = {}
  Capacities = {}
  Earning = {s1}
PROPERTIES OnlyTicketsDelayTickets SurplusIsStaked
