CONSTANTS
  BASE_STEP_DELAY_MS = 4
  Start = 2
  End = 9
  StepSizes = {2, 3}
  Speeds = {0, 1, 2, 9}
  Targets = {0, 4, 5, 8, 12}
  MaxLag = 9
  MaxPlayed = 14
  InitialCash = 10
  Market = Market
  Tickers = {"a", "b"}
  Prices = {2, 3}
  Limits = {2, Market}
  Quantities = {1, 2}
  MaxOrders = 3
  MaxTrades = 1
  MaxTime = 1
  Layouts = {A, B}
  PaneIds = {p1}
  PanelKinds = {"entry", "list", "power"}
  MaxVirtual = 1
  Cells = {1, 2}
  Kinds = {"candle", "footprint", "heatmap", "shader", "order"}
  Markets = {"x", "y"}
  CustomFreq = {"x"}
  ServerSide = {"y"}
  KlineFrames = {"5m", "15m"}
  HeatFrames = {"100ms", "1s"}
  DefaultFrame <- MCFrame
  Sizes = {"20"}
  MaxEdits = 2
SPECIFICATION PartsSpec
INVARIANTS
  TypeOKParts
  ClockSane
  KeepsPace
  TickIsTheLoop
  BookIsSound
PROPERTIES
  RunsToTheEnd
  OrdersFollowTheMode
  PanesGetTheirStreams
