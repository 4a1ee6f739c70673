\* count(x), rescanned without a parameter change: what a rescan of the
\* filled table still guarantees (no group twice, each value right, the
\* scan ends), next to the groups it loses (MCHybridHashAgg_reuse_lost).
CONSTANTS
  k1 = k1
  k2 = k2
  k3 = k3
  k4 = k4
  NULL = NULL
  Keys <- MCKeys
  Hash <- MCHash
  Vals = {1}
  WorkMem = 1
  EntrySize = 1
  NBatches = 2
  MaxRows = 4
  MaxRescans = 1
  RescanModes = {"reuse"}
  Reference <- CountReference
  TransFn <- int8inc_any
  CombineFn <- int8pl
  TransStrict = TRUE
  CombineStrict = TRUE
  InitValue = 0
  InitValueIsNull = FALSE
SPECIFICATION Spec
INVARIANTS NoDuplicateGroup GroupResultCorrect
PROPERTIES Termination
CHECK_DEADLOCK FALSE
