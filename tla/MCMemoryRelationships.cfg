CONSTANTS
  t1 = t1
  t2 = t2
  t3 = t3
  Tuples <- MCTuples
  IndexOrder <- MCIndexOrder
  Filters <- MCFilters
  Readers = {r1}
  PageSize = 1
  MaxID = 4
  MaxClock = 3

SPECIFICATION Spec

INVARIANT TypeOK
INVARIANT PagesReturnStableRowsOnce
INVARIANT RewrittenTuplesNotMissed
PROPERTY ImplementsRelationStore
