SPECIFICATION Spec
CONSTANTS
  NativeKinds = {}
  UserKinds = {"allSettled"}
  MaxElements = 3
  Modulus = 8
  IntegerMax = 5
PROPERTIES
  RemainingInteger
CHECK_DEADLOCK FALSE
