CONSTANTS
  Values = {a, b}
  InitialCapacity = 2
  MaxLength = 5

SPECIFICATION RingSpec

PROPERTY
  ImplementsFifo
