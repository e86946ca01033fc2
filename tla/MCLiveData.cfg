CONSTANTS
  Venues = {"diff", "push", "ack", "full"}
  MaxUpdates = 5
  LevelOf <- MCLevelOf
  MaxQueue = 2
  Tickers = {a, b}
  MaxTrades = 2
  MaxFrames = 2
  Tasks = {t1, t2}
  Weights = {1, 2}
  Limit = 3
  Period = 3
  MaxTime = 7
  MaxCounted = 5
  Streams <- MCStreams
  Holidays = {2}
  Views <- MCViews
  InitialBars = 2
  MaxNow = 3
  MaxFetches = 2
  Exchanges = {"jp", "us"}
  Listing <- MCListing
  Bare = {"v"}
  Values = {1}
  MinInterval = 2
  Delay = 1
  Starred = {"u"}
  SavedPanes = {p, q}
  Tachibana = "jp"
  MaxLogins = 1
SPECIFICATION Spec
INVARIANTS TypeOKLive BooksAreTheVenues TradesOnceInOrder LimitIsKept BarsHaveTheTimeframe TableIsSound
PROPERTIES LiveWindowIsFilled StatsAreFetched AutoPlays
CHECK_DEADLOCK FALSE
