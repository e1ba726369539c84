SPECIFICATION Spec
CONSTANTS
  MaxPromises = 3
  Values = {v}
  Things = {t}
  Error = e
  Undef = undef
  MaxFrames = 3
  MaxMicro = 1
  MaxFresh = 1
  HostKinds = {"plain"}
INVARIANTS
  AdoptionExclusive
  UnhandledExact
  ReactionsExactlyOnce
  JobsMatchPromise
  ReactionsInOrder
PROPERTIES
  SettledForever
  JobsRun
