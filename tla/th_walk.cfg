SPECIFICATION Spec
CONSTANTS
  Trees <- TheTrees
  Arguments <- TheArguments
  NameLen <- TheNameLen
  Order <- TheOrder
  MaxDepth = 3
  PathMax = 18
  ReadSizes = {1, 7, 8, 55, 63, 64}
  MaxFaults = 1
INVARIANTS
  TypeOK
  StacksInStep
  ManifestIsExact
  StatusIsHonest
  RootCommits
  DigestIsOfContent
  OperandKeepsPlace
