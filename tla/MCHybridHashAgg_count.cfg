\* count(x) over four keys with NULL inputs, a one-entry table and two
\* root batches: exercises dump, reload, child and grandchild spill sets,
\* and both kinds of rescan.
CONSTANTS
  k1 = k1
  k2 = k2
  k3 = k3
  k4 = k4
  NULL = NULL
  Keys <- MCKeys
  Hash <- MCHash
  Vals = {1}
  WorkMem = 1
  EntrySize = 1
  NBatches = 2
  MaxRows = 4
  MaxRescans = 1
  RescanModes = {"rebuild"}
  Reference <- CountReference
  TransFn <- int8inc_any
  CombineFn <- int8pl
  TransStrict = TRUE
  CombineStrict = TRUE
  InitValue = 0
  InitValueIsNull = FALSE
SPECIFICATION Spec
INVARIANTS TypeOK RowsAccountedOnce NoDuplicateGroup GroupResultCorrect AllGroupsEmitted
PROPERTIES Termination
CHECK_DEADLOCK FALSE
