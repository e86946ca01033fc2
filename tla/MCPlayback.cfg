CONSTANTS
  BASE_STEP_DELAY_MS = 1
  Streams = {"m2", "m3"}
  TimeframeOf <- MCTimeframeOf
  BarsOf <- MCBarsOf
  Panes = {p1, p2}
  NoStream = NoStream
  StartTexts = {2}
  EndTexts = {5, 8, BadText}
  BadText = BadText
  HistoryBars = 1
  FallbackStep = 1
  MaxLoadBars = 3
  Speeds <- MCSpeeds
  MaxLag = 2
  MaxEpoch = 2
  MaxReloads = 1
  InitialCash = 10
  Market = Market
  NoEngine = NoEngine
  Ticker = "t"
  PanelTicker = "x:t"
  WallTime = 9
  CloseOf <- MCCloseOf
  MaxOrders = 2
  ApiReplays = FALSE
SPECIFICATION MCSpec
INVARIANTS
  TypeOKTrading
  NothingFromTheFuture
PROPERTIES
  GoingBackClearsTheBook
  LoadingEnds
  PlaybackComesToRest
