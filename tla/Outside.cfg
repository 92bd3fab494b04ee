SPECIFICATION OutsideSpec
CONSTANTS
  Binding = {x}
  Lane = {gemini}
  NoLane = NoLane
  Attempt = {a1, a2}
  Outcome = {"candidate", "needs_review"}
  Serial = {s1, s2}
  NoAttempt = NoAttempt
  NoTask = NoTask
  NoBundle = NoBundle
  alpha = alpha
  beta = beta
  roe = roe
  doe = doe
  form1 = form1
  form2 = form2
  form3 = form3
  acme = acme
  zinc = zinc
  held1 = held1
  held2 = held2
  amended2 = amended2
  cusip1 = cusip1
  cusip2 = cusip2
  cusip3 = cusip3
  trade1 = trade1
  trade2 = trade2
  Slotted = {alpha, beta}
  QuotePath <- SlotPath
  TradingDay <- OpenDay
  WindowEnd = {7, 10}
  SignalPlan <- Signals
  SlotCount = {1, 2}
  RowOf <- ListedAt
  Capital = 140
  Unit = 10
  EntrySlippage = 1
  ExitSlippage = 1
  HOLD_PERIOD = 4
  REBALANCE_FREQ = 2
  Sizable = {alpha, beta}
  PricePath <- KellyPath
  NyseDay <- NyseOpen
  SizingPlan <- Plans
  PlaceOf <- ListedAt
  Bank = 1000
  ThousandUnits = 1000
  MAX_TICKER = 450
  MAX_MEMBER = 600
  TOTAL_EXPOSURE = 800
  KELLY_FLOOR = 10
  HORIZON_DAYS = 5
  MAX_DELAY = 4
  MAX_STALENESS = 2
  Fetcher = {sweeper, asker}
  Form4Filing <- Form4s
  Holding13F <- Holdings
  Watched = {cusip1, cusip2}
  Resolvable = {cusip1, cusip3}
  LastDate = 2
  DAYS_BACK = 2
  FILING_LIMIT = 2
  CONTROL_DAYS = 2
  MaxGenerations = 2
  MaxBlocks = 1
  Process = {reader1, reader2}
  Trade <- Listable
  Output = {"out"}
  PER_PAGE = 1
  MaxListed = 2
  MaxChanges = 3
  MaxFetches = 2
SYMMETRY Interchangeable
INVARIANTS QueueAgrees DecisionsCohere 
PROPERTIES DecisionsStand ImplementsLedger
CHECK_DEADLOCK FALSE
