\* Three goroutines on one store: two ids, so that creations, updates and
\* deletions of one record meet each other and a List in its loop.
SPECIFICATION Spec
CONSTANTS
  Threads = {t1, t2, t3}
  Ids = {i1, i2}
  Values = {v1, v2}
  NoThread = NoThread
SYMMETRY Symmetry
INVARIANTS
  TypeOK
  NoDataRace
PROPERTIES
  Linearizable
