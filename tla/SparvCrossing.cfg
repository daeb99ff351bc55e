SPECIFICATION FairSpec
CONSTANTS
  NLINES = 4
  L0_LINES = 2
  HALFWORDS = 4
  Wide <- CrossingWide
  IllegalC = {}
  Targets = {0, 6}
  Written = {}
  MaxVersion = 0
  MaxLatency = 2
  ClearIsIdReady = FALSE
PROPERTIES FetchProgress
