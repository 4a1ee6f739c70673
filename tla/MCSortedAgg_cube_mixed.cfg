\* CUBE (a,b) in AGG_MIXED with two sorted phases: dump_hashtable_if_spilled
\* runs again at the end of phase 2 on the batch already loaded.
CONSTANTS
  a = a
  b = b
  NULL = NULL
  Strategy = "mixed"
  Cols <- MCCols
  ColVals = {0, 1}
  Phases <- CubeMixedPhases
  HashCols <- MixedHashCols
  Vals = {1}
  Hash <- MCHash
  WorkMem = 1
  EntrySize = 1
  NBatches = 2
  MaxRows = 3
  MaxRescans = 1
  Reference <- CountReference
  TransFn <- int8inc_any
  CombineFn <- int8pl
  TransStrict = TRUE
  CombineStrict = TRUE
  InitValue = 0
  InitValueIsNull = FALSE
  NumSortCols = 0
  IsDistinct = FALSE
  SortCol = "x"
  NullsFirst = FALSE
  Having <- NoQual
SPECIFICATION Spec
INVARIANTS AllGroupsEmitted
CHECK_DEADLOCK FALSE
