SPECIFICATION Spec
\* every computation is a single step
CHECK_DEADLOCK FALSE
CONSTANTS
  HeapKeys = {1, 2, 3, 4}
  ClockValues = {0, 1, 2, 3}
  p1 = p1
  p2 = p2
  c1 = c1
  c2 = c2
  text1 = text1
  text2 = text2
  Vendors = {p1, p2}
  CveIds = {c1, c2}
  Texts = {text1, text2}
  Collectors = {p1, p2}
  LastVersion = 2
  MaxRows = 3
  Attributes <- AllAttributes
  Characters <- AllCharacters
  RangeBounds <- AllBounds
  Configurations <- AllConfigurations
  Names <- AllNames
  VulnIds = {c1, c2}
  MaxNodes = 4
SYMMETRY Symmetry
INVARIANTS
  ScoresSound VersionsOrdered NamesSound DiffSound PackagesSound
  EveryValueAtItsPosition HeapSound ExportSound MatchersSound
PROPERTY MeetsContract
