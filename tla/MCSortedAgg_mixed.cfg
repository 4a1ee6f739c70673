\* AGG_MIXED with (a,b) hashed in a one-entry hybrid table and the rollup
\* (a),() sorted: the table spills while phase 1 runs and is read back
\* batch by batch after the sorted rows.
CONSTANTS
  a = a
  b = b
  NULL = NULL
  Strategy = "mixed"
  Cols <- MCCols
  ColVals = {0, 1}
  Phases <- MixedPhases
  HashCols <- MixedHashCols
  Vals = {1}
  Hash <- MCHash
  WorkMem = 1
  EntrySize = 1
  NBatches = 2
  MaxRows = 3
  MaxRescans = 1
  Reference <- CountReference
  TransFn <- int8inc_any
  CombineFn <- int8pl
  TransStrict = TRUE
  CombineStrict = TRUE
  InitValue = 0
  InitValueIsNull = FALSE
  NumSortCols = 0
  IsDistinct = FALSE
  SortCol = "x"
  NullsFirst = FALSE
  Having <- NoQual
SPECIFICATION Spec
INVARIANTS GroupResultCorrect NoDuplicateGroup AllGroupsEmitted
PROPERTIES Termination
CHECK_DEADLOCK FALSE
