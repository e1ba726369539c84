SPECIFICATION Spec
CONSTANTS
  Objects = {0, 1}
  Names = {0, 1, 4, 8}
  LongNames = {0, 1, 4, 8}
  ShortNames = {1}
  Keys <- MCKeys
  WeakName = 0
  Weak = TRUE
  Pairs = {p1, p2, p3}
  Null = Null
  MinSize = 4
  NullFraction = 2
  RowBits = 1
  RowShift = 0
  RowLength = 2
  AllocMax = 1
SYMMETRY PairSymmetry
INVARIANT OneHashmap
