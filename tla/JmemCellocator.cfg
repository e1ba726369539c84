SPECIFICATION Spec
CONSTANTS
  HeapUnits = 8
  CellUnits = 1
  HeaderUnits = 1
  CellCount = 2
  Sizes = {16, 24}
  SmallSizes = {5}
  StaleLimit = 5
INVARIANTS CellsConserved OwnersSound
PROPERTIES CallsReturn
