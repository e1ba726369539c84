SPECIFICATION FairSpec
CONSTANTS
  HeapUnits = 9
  CellUnits = 1
  Sizes = {13, 24, 40}
  GcLimit = 24
  EndOfList = 99
INVARIANTS FreeListSound AccountSound NoRoomMissed
PROPERTIES ImplementsRegions CallsReturn
