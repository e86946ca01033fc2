CONSTANTS
  BASE_STEP_DELAY_MS = 1
  InitialCash = 0
  Market = Market
  Keys = {k1}
  NoKey = NoKey
  NoOutcome = NoOutcome
  MaxNarratives = 2
  Timeframe = 2
  Ticker = "t"
  Timeframes = {2, 3}
  Tickers = {"t"}
  Limits = {}
  HasBars = {0, 2, 4, 6}
  CloseOf <- MCCloseOf
  Starts = {2}
  Ends = {7}
  HistoryBars = 2
  Speeds <- MCSpeeds
  MaxLag = 1
  MaxPanes = 2
  MaxPlays = 2
  MaxOrders = 1
  MaxCrashes = 1
SPECIFICATION Spec
CONSTRAINT PanesOrNarratives
INVARIANTS
  SessionIsSound
  NarrativesSound
PROPERTIES
  ImplementsPlayback
  TheBookIsOfTheMoment
