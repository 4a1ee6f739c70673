\* GROUPING SETS ((a,b),(a),(),(b)) in AGG_SORTED: a three-set rollup in
\* phase 1, then a second phase reading the re-sorted copy of the input,
\* over digits(DISTINCT x): every set keeps its own sort of the inputs.
CONSTANTS
  a = a
  b = b
  NULL = NULL
  Strategy = "sorted"
  Cols <- MCCols
  ColVals = {0, 1}
  Phases <- RollupPhases
  HashCols <- NoHashCols
  Vals = {1, 2}
  Hash <- MCHash
  WorkMem = 1
  EntrySize = 1
  NBatches = 2
  MaxRows = 3
  MaxRescans = 1
  Reference <- DigitsDistinctReference
  TransFn <- digits_accum
  CombineFn <- int8pl
  TransStrict = FALSE
  CombineStrict = TRUE
  InitValue = 0
  InitValueIsNull = TRUE
  NumSortCols = 1
  IsDistinct = TRUE
  SortCol = "x"
  NullsFirst = FALSE
  Having <- NoQual
SPECIFICATION Spec
INVARIANTS TypeOK SortsOpenWhenUsed GroupResultCorrect NoDuplicateGroup AllGroupsEmitted RollupOrder
CHECK_DEADLOCK FALSE
