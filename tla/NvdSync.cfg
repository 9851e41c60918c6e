SPECIFICATION FairSpec
CONSTANTS
  y1 = y1
  y2 = y2
  dict = dict
  Feeds <- MCFeeds
  CpeFiles <- MCCpeFiles
  MaxVersion <- MCMaxVersion
  MaxFaults = 2
  MaxCrashes = 1
INVARIANTS Inv SuccessIsCurrent AlwaysACopy
PROPERTY Converges
