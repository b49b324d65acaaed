SPECIFICATION Spec
CONSTANTS
  n1 = n1
  n2 = n2
  NoFile = NoFile
  Corrupt = Corrupt
  Nics = {n1}
  NicLists <- MCLists
  Files <- MCFiles
  Reset = 1
  Preserve = 1
  MaxTime = 2
  MaxBytes = 2
  a1 = a1
  a2 = a2
  b1 = b1
  b2 = b2
  Samplers = {a1, a2}
  Savers = {b1, b2}
  MaxFaults = 1
CONSTRAINT Bounded
SYMMETRY Symmetry
INVARIANTS EveryByteOnce SamplingGoesOn
PROPERTIES RecordsKept
CHECK_DEADLOCK FALSE
