SPECIFICATION FairSpec
CONSTANTS
  NLINES = 4
  L0_LINES = 2
  HALFWORDS = 4
  Wide <- AlignedWide
  IllegalC <- AlignedIllegal
  Targets = {6}
  Written = {2}
  MaxVersion = 1
  MaxLatency = 2
  ClearIsIdReady = FALSE
INVARIANTS TypeOK PairAtCounter DirectorySound DemandFirst FenceSpares
PROPERTIES StreamSpec FetchProgress
