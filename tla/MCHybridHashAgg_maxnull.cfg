\* max(int4) with NULL initcond over inputs NULL and -1: a group whose first
\* spilled record holds only NULLs is merged by the strict int4larger
\* called on the NULL state (Datum 0), because combine_transition has its
\* noTransValue branch compiled out.
CONSTANTS
  k1 = k1
  k2 = k2
  k3 = k3
  k4 = k4
  NULL = NULL
  Keys <- MCKeys
  Hash <- MCHash
  Vals <- MaxVals
  WorkMem = 1
  EntrySize = 1
  NBatches = 2
  MaxRows = 4
  MaxRescans = 0
  RescanModes = {"rebuild"}
  Reference <- MaxReference
  TransFn <- int4larger
  CombineFn <- int4larger
  TransStrict = TRUE
  CombineStrict = TRUE
  InitValue = 0
  InitValueIsNull = TRUE
SPECIFICATION Spec
INVARIANT GroupResultCorrect
CHECK_DEADLOCK FALSE
