\* Two requests, one of them for a static file, in a process that starts, is told to stop and ends.
SPECIFICATION Spec
CONSTANTS
  Requests = {r1, r2}
  Static = {r2}
  Codes <- MCCodes
  QueueLimit = 3
INVARIANTS
  TypeOK
  DrainedOrForced
  AnsweredIsLogged
  LossAccounted
PROPERTIES
  Terminates
CHECK_DEADLOCK FALSE
