SPECIFICATION MCSpec
CONSTANTS
  UserSeq <- TwoUsers
  Collateral <- SmallCollateral
  ImBps = 5000
  MmBps = 2500
  MaxLeverage = 3
  MinNotional = 4
  TakerBps = 1250
  MakerBps = 0
  Tick = 2
  BaseDelay = 1
  BaseSlip = 2500
  MaxSlip = 5000
  MaxRounds = 1
  Cooldown = 2
  FundingEvery = 1
  FundingMin <- LowestRate
  FundingMax = 5000
  FundStart = 10
  FirstIndex = 8
  None = none
  Requests <- FourOrders
  Cancellable = {3}
  Marks = {1, 16}
  Bbos <- OneBbo
  RingCap = 2
  FirstLiqId = 10
  MaxTime = 2
  MaxPrices = 2
  MaxFails = 1
  Mains = {"m", "s"}
  Nobody = nobody
  Payment <- TwoPayments
  OpenAfter = {1}
  MaxHour = 2
  MaxTraded = 1
  MaxLosses = 1
CHECK_DEADLOCK FALSE
INVARIANTS MarginInputsAgree MoneyIsAccounted PursuitFollowsMargin LiquidationIsOrderly FundingIsPaidOnce
PROPERTIES FundPaysDeficits FundingIsRecorded
