CONSTANTS
  BASE_STEP_DELAY_MS = 1
  Streams = {"m2", "m3"}
  TimeframeOf <- MCTimeframeOf
  BarsOf <- MCBarsOf
  Panes = {p1}
  NoStream = NoStream
  StartTexts = {2}
  EndTexts = {5}
  BadText = BadText
  HistoryBars = 1
  FallbackStep = 1
  MaxLoadBars = 100
  Speeds <- MCOneSpeed
  MaxLag = 2
  MaxEpoch = 2
  MaxReloads = 1
SPECIFICATION Spec
PROPERTY
  WaitingIsReleased
