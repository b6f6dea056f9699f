SPECIFICATION JsonSpec
CONSTANTS
  MaxCells = 5
  low_a = low_a
  up_a = up_a
  word = word
  Names = {low_a, up_a}
  Texts = {word}
  Literals = {up_a}
  Scalars = {}
  Fold <- MCFold
  Width <- MCWidth
  NestingLimit = 2
  MaxHeld = 2
  Empty = Empty
  Null = Null
  Free = Free
INVARIANTS SiblingsMatch NoDangling NothingLost RoundTrip CutTextLeavesNothing PrintFits
CHECK_DEADLOCK FALSE
VIEW TreesView
