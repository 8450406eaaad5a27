SPECIFICATION Spec
CONSTANTS
  Threads = {t1, t2, t3}
  Ids = {i1}
  Values = {v1}
  NoThread = NoThread
PROPERTIES
  EveryCallReturns
