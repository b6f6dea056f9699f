SPECIFICATION Spec
CONSTANTS
  MaxKey = 10
  Keys <- MCKeys
  Header = Header
  Null = Null
  Free = Free
  Empty = Empty
  Lists = {l1, l2}
  Nodes = {n1, n2, n3, n4, n5}
  low_a = low_a
  up_a = up_a
  low_b = low_b
  runtime = runtime
  word = word
  Parts = {low_a, up_a, low_b, runtime}
  Paths <- MCPaths
  Reserved = {runtime}
  PartRank <- MCRank
  PartFold <- MCFold
  Strings = {word}
  Scalars = {"true", "false"}
  MaxKeys = 3
  Bar = Bar
  DriverCompats <- MCDriverCompats
  DeviceCompats <- MCDeviceCompats
  TreeCells = 24
  TreeNames <- MCTreeNames
  TreeLiterals = {up_a}
  Leaves <- MCLeaves
  Wide = 3
INVARIANTS RedBlack WalksBack SearchFinds DoublyLinked RingsMatch ParametersArrive CompatMatches CompareIsEquality PrintFits
PROPERTY MapSpec
CHECK_DEADLOCK FALSE
