SPECIFICATION Spec
CONSTANTS
  NativeKinds = {"all", "allSettled", "any", "race"}
  UserKinds = {"all", "any", "race"}
  MaxElements = 3
  Modulus = 8
  IntegerMax = 5
INVARIANTS
  CountSound
  ResultComplete
  NeverStuck
CHECK_DEADLOCK FALSE
