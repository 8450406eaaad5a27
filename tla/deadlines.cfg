\* The limits of the program, in units of 2.5 seconds.
SPECIFICATION Spec
CONSTANTS
  CallLimit = 2
  ClientLimit = 4
  HeaderLimit = 2
  ReadLimit = 4
  WriteLimit = 12
  DrainLimit = 4
INVARIANTS
  ClocksOK
  OrderInTime
  DrainSuffices
  AbandonedLate
  CutPageListsSlow
  RequestBounded
