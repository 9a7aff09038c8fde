CONSTANTS
  Schema <- DriveSchema
  TupleUniverse <- DriveTuples
  Queries <- DriveQueries
  MaxDepth = 4

SPECIFICATION Spec

INVARIANT CheckComplete
