CONSTANTS
  Keys = {1, 2, 3}
  SizeOf <- MCSizeOf
  Buffers = {a, b, c}
  MaxMem = 2
  InitialCapacity = 1
  DecayTime = 2
  LfuInit = 1
  MaxFreq = 2
  Modulus = 5
  ClockSteps <- MCClockSteps
  MaxSetBacks = 1

SPECIFICATION FairSpec

INVARIANTS
  TypeOK
  MemAccounted
  BuffersOwned

PROPERTIES
  ImplementsMap
  ExpiresOnlyIdle
  IdleExpires
