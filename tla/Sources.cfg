SPECIFICATION SourcesSpec
CONSTANTS
  Binding = {x, y}
  Lane = {"gemini"}
  NoLane = NoLane
  Attempt = {a1, a2}
  Outcome = {"candidate", "needs_review"}
  Serial = {original, refusal}
  NoAttempt = NoAttempt
  NoTask = NoTask
  NoBundle = NoBundle
  Original = original
  Refusal = refusal
  Modes = {"full", "docs", "extract"}
  MaxFaults = 1
  MaxReports = 2
  MaxRows = 2
  MaxVersion = 1
  SEARCH_PAGE_SIZE = 1
  MAX_RETRY_ATTEMPTS = 2
  MAX_ACCEPTED_ROW_COUNT = 1
  MaxRefreshes = 2
  MaxWithdrawn = 1
  Account = {joint}
  NoAccount = NoAccount
  Size = {1, 9}
  Price = {1, 2}
  TolerancePart = 10
  MaxTrades = 4
  ClosePrice = {1, 2}
  MaxDay = 5
  MaxGap = 2
  oldCo = oldCo
  newCo = newCo
  goneCo = goneCo
  reused = reused
  plain = plain
  roe = roe
  doe = doe
  Q = Q
  Quinn = Quinn
  Quentin = Quentin
  Filing <- Trades
  Standing <- FirstTrades
  Old = oldCo
  New = newCo
  Gone = goneCo
  Listed = reused
  Alphabet <- Tickers
  Spy = spy
  Patchy <- Undelivered
  RenameDay = 3
  AcquiredDay = 1
  ListingDay = 2
  Abbreviation <- Initials
  NoName = NoName
  NoDay = NoDay
  NoTicker = NoTicker
  Session = {1, 2, 4}
  MaxDecisions = 3
  LOOKBACK = 1
  MIN_BUYERS = 2
  TopN = 2
  Horizon = 1
  MaxKnown = 7
  MaxUpsets = 1
  FirstBacktest = 4
  MaxBacktests = 2
SYMMETRY Interchangeable
INVARIANTS ImportedBeforeDispatch SenateIsSound PositionsAreSound EntryIsSound ConsensusIsSound
PROPERTIES SenateRowsStay SalesTakeWhatTheyName
CHECK_DEADLOCK FALSE
