\* An aggregate without GROUP BY (AGG_PLAIN): one row, also for no input;
\* digits(x ORDER BY b), sorted as (x, b) tuples, ties on b in any order.
CONSTANTS
  a = a
  b = b
  NULL = NULL
  Strategy = "plain"
  Cols <- MCCols
  ColVals = {0, 1}
  Phases <- PlainPhases
  HashCols <- NoHashCols
  Vals = {1}
  Hash <- MCHash
  WorkMem = 1
  EntrySize = 1
  NBatches = 2
  MaxRows = 3
  MaxRescans = 1
  Reference <- DigitsOrderedReference
  TransFn <- digits_accum
  CombineFn <- int8pl
  TransStrict = FALSE
  CombineStrict = TRUE
  InitValue = 0
  InitValueIsNull = TRUE
  NumSortCols = 1
  IsDistinct = FALSE
  SortCol = b
  NullsFirst = FALSE
  Having <- NoQual
SPECIFICATION Spec
INVARIANTS GroupResultCorrect AllGroupsEmitted
CHECK_DEADLOCK FALSE
