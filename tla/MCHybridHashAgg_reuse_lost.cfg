\* count(x), rescanned without a parameter change after spilling:
\* ExecReScanAgg only resets the iterator of the table, which by then holds
\* the last batch loaded, so the rescan returns only part of the groups.
CONSTANTS
  k1 = k1
  k2 = k2
  k3 = k3
  k4 = k4
  NULL = NULL
  Keys <- MCKeys
  Hash <- MCHash
  Vals = {1}
  WorkMem = 1
  EntrySize = 1
  NBatches = 2
  MaxRows = 4
  MaxRescans = 1
  RescanModes = {"reuse"}
  Reference <- CountReference
  TransFn <- int8inc_any
  CombineFn <- int8pl
  TransStrict = TRUE
  CombineStrict = TRUE
  InitValue = 0
  InitValueIsNull = FALSE
SPECIFICATION Spec
INVARIANT AllGroupsEmitted
CHECK_DEADLOCK FALSE
