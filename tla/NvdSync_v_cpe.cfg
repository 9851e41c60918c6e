SPECIFICATION Spec
CONSTANTS
  y1 = y1
  y2 = y2
  dict = dict
  Feeds <- CpeFeed
  CpeFiles <- MCCpeFiles
  MaxVersion <- MCMaxVersion
  MaxFaults = 1
  MaxCrashes = 0
INVARIANTS CpeSuccessIsCurrent
