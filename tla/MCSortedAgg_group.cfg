\* GROUP BY a in AGG_SORTED without grouping sets: agg_done at the end of
\* input, and no row at all for no input; count(DISTINCT x), whose strict
\* transition function keeps NULLs out of the sort, and HAVING
\* count(DISTINCT x) > 1.
CONSTANTS
  a = a
  b = b
  NULL = NULL
  Strategy = "sorted"
  Cols <- MCCols
  ColVals = {0, 1}
  Phases <- GroupPhases
  HashCols <- NoHashCols
  Vals = {1, 2}
  Hash <- MCHash
  WorkMem = 1
  EntrySize = 1
  NBatches = 2
  MaxRows = 3
  MaxRescans = 1
  Reference <- CountDistinctReference
  TransFn <- int8inc_any
  CombineFn <- int8pl
  TransStrict = TRUE
  CombineStrict = TRUE
  InitValue = 0
  InitValueIsNull = FALSE
  NumSortCols = 1
  IsDistinct = TRUE
  SortCol = "x"
  NullsFirst = FALSE
  Having <- MoreThanOne
SPECIFICATION Spec
INVARIANTS GroupResultCorrect AllGroupsEmitted
CHECK_DEADLOCK FALSE
