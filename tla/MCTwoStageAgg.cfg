\* SELECT max(x), min(x), sum(x::int8), avg(x::int8), avg(x::int4), avg(x::int8), max(x::numeric) as a partial aggregate in two workers and a finalize Agg.
CONSTANTS
  Workers = {0, 1}
  NULL = NULL
  MaxRows = 2
  Vals <- MCVals
  AggList <- MCAggList
  AggTransFn <- MCTransFn
  AggCombineFn <- MCCombineFn
  AggTransStrict <- MCTransStrict
  AggCombineStrict <- MCCombineStrict
  AggInitValue <- MCInitValue
  AggInitValueIsNull <- MCInitValueIsNull
  AggTransType <- MCTransType
  AggTransByVal <- MCTransByVal
  AggTransFnReturns <- MCTransFnReturns
  AggCombineFnReturns <- MCCombineFnReturns
  AggTransFnId <- MCTransFnId
  AggCombineFnId <- MCCombineFnId
  AggSerialFnId <- MCSerialFnId
  AggDeserialFnId <- MCDeserialFnId
  SerialFn <- MCSerialFn
  DeserialFn <- MCDeserialFn
  SerialStrict <- MCSerialStrict
  DeserialStrict <- MCDeserialStrict
  HasFinalFn <- MCHasFinalFn
  FinalFn <- MCFinalFn
  FinalStrict <- MCFinalStrict
  Reference <- MCReference
SPECIFICATION Spec
INVARIANTS TwoStageCorrect StatesOwnTheirMemory
CHECK_DEADLOCK FALSE
