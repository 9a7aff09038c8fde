CONSTANTS
  t1 = t1
  t2 = t2
  Tuples <- MCTuples
  MaxXid = 3
  Window = 1
  MaxTime = 2

SPECIFICATION Spec

PROPERTY CollectsOnlyExpired
