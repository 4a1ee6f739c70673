---------------------------- MODULE MCTwoStageAgg ----------------------------
(* SELECT max(x), min(x), sum(x::int8), avg(x::int8), avg(x::int4),      *)
(* avg(x::int8), max(x::numeric) run in parallel: the support functions of the aggregates, *)
(* by what they do.  A NULL argument     *)
(* reaches a non-strict function as Datum 0 and no value of Vals is 0, so  *)
(* these functions tell a NULL by its Datum, as they would by PG_ARGISNULL. *)
EXTENDS TwoStageAgg

MCAggList == <<[fn |-> "max", arg |-> "x"], [fn |-> "min", arg |-> "x"],
               [fn |-> "sum8", arg |-> "x"], [fn |-> "avg8", arg |-> "x"],
               [fn |-> "avg4", arg |-> "x"], [fn |-> "avg8", arg |-> "x"],
               [fn |-> "maxn", arg |-> "x"]>>
MCVals == {-2, 1}

NonNull(s) == SelectSeq(s, LAMBDA x : x # NULL)

(* max(int4): int4larger as transition and combine function, both strict, *)
(* NULL initcond, no final function.                                       *)
int4larger(a, b) == IF a >= b THEN a ELSE b

(* min(int4): int4smaller, likewise.                                       *)
int4smaller(a, b) == IF a <= b THEN a ELSE b

(* max(numeric): numeric_larger as transition and combine function, both *)
(* strict, NULL initcond; numeric is pass-by-reference and the function   *)
(* returns a pointer to the larger argument, the second one on a tie.     *)
numeric_larger(a, b) == IF a > b THEN a ELSE b
NumericLargerReturns(a, b) == IF a > b THEN "first" ELSE "second"

(* avg(int4): the int8[2] state {count, sum} as count * AvgK + sum + Off; *)
(* int4_avg_accum and int4_avg_combine are strict, the initcond {0,0},   *)
(* the final function int8_avg strict and NULL for a zero count.           *)
AvgK == 32
Off == 16
Count(s) == s \div AvgK
SumOf(s) == (s % AvgK) - Off
Enc(n, sum) == n * AvgK + sum + Off
int4_avg_accum(s, v) == Enc(Count(s) + 1, SumOf(s) + v)
int4_avg_combine(a, b) == Enc(Count(a) + Count(b), SumOf(a) + SumOf(b))
int8_avg(s) == IF Count(s) = 0 THEN NULL ELSE SumOf(s) \div Count(s)

(* avg(int8): an INTERNAL state (PolyNumAggState), a pointer that is 0    *)
(* when NULL and 1 + the encoding of {N, sumX} otherwise.  int8_avg_accum *)
(* creates the state on its first call, NULL input included;              *)
(* int8_avg_combine returns the other state when one is NULL; the bytea   *)
(* of the serialised state is a Datum of its own; numeric_poly_avg returns *)
(* NULL for no state or N = 0.  sum(int8) has the same state and support *)
(* functions, and numeric_poly_sum as final function (NULL likewise).    *)
PolyState(n, sum) == 1 + Enc(n, sum)
PolyN(s) == Count(s - 1)
PolySum(s) == SumOf(s - 1)
int8_avg_accum(s, d) ==
  LET n == IF s = 0 THEN 0 ELSE PolyN(s)
      sum == IF s = 0 THEN 0 ELSE PolySum(s)
  IN  IF d = 0 THEN PolyState(n, sum) ELSE PolyState(n + 1, sum + d)
int8_avg_combine(a, b) ==
  IF b = 0 THEN a
  ELSE IF a = 0 THEN b
  ELSE PolyState(PolyN(a) + PolyN(b), PolySum(a) + PolySum(b))
ByteaBase == 1000
int8_avg_serialize(s) == ByteaBase + Enc(PolyN(s), PolySum(s))
int8_avg_deserialize(b) == PolyState(Count(b - ByteaBase), SumOf(b - ByteaBase))
numeric_poly_avg(s) ==
  IF s = NULL \/ s = 0 THEN NULL
  ELSE IF PolyN(s) = 0 THEN NULL ELSE PolySum(s) \div PolyN(s)
numeric_poly_sum(s) ==
  IF s = NULL \/ s = 0 THEN NULL
  ELSE IF PolyN(s) = 0 THEN NULL ELSE PolySum(s)

(* pg_aggregate and pg_proc for the aggregates.                          *)
Poly(a) == a \in {"sum8", "avg8"}
MCTransFn(a, s, v) ==
  CASE a = "max" -> int4larger(s, v)
    [] a = "min" -> int4smaller(s, v)
    [] a = "maxn" -> numeric_larger(s, v)
    [] a = "avg4" -> int4_avg_accum(s, v)
    [] OTHER -> int8_avg_accum(s, v)
MCCombineFn(a, s, v) ==
  CASE a = "max" -> int4larger(s, v)
    [] a = "min" -> int4smaller(s, v)
    [] a = "maxn" -> numeric_larger(s, v)
    [] a = "avg4" -> int4_avg_combine(s, v)
    [] OTHER -> int8_avg_combine(s, v)
MCTransStrict(a) == ~Poly(a)
MCCombineStrict(a) == ~Poly(a)
MCInitValue(a) == IF a = "avg4" THEN Enc(0, 0) ELSE 0
MCInitValueIsNull(a) == a # "avg4"
MCTransType(a) ==
  CASE a \in {"max", "min"} -> "int4" [] a = "avg4" -> "_int8"
    [] a = "maxn" -> "numeric" [] OTHER -> "internal"
(* int4 and internal are pass-by-value, int8[] and numeric are not.         *)
MCTransByVal(a) == a \notin {"avg4", "maxn"}
(* int4_avg_accum and int4_avg_combine update their array in place when   *)
(* called as aggregates (AggCheckCallContext) and return it.               *)
MCTransFnReturns(a, s, v) ==
  CASE a = "avg4" -> "first" [] a = "maxn" -> NumericLargerReturns(s, v)
    [] OTHER -> "new"
MCCombineFnReturns(a, s, v) == MCTransFnReturns(a, s, v)
MCTransFnId(a) ==
  CASE a = "max" -> "int4larger" [] a = "min" -> "int4smaller"
    [] a = "maxn" -> "numeric_larger"
    [] a = "avg4" -> "int4_avg_accum" [] OTHER -> "int8_avg_accum"
MCCombineFnId(a) ==
  CASE a = "max" -> "int4larger" [] a = "min" -> "int4smaller"
    [] a = "maxn" -> "numeric_larger"
    [] a = "avg4" -> "int4_avg_combine" [] OTHER -> "int8_avg_combine"
MCSerialFnId(a) == IF Poly(a) THEN "int8_avg_serialize" ELSE "invalid"
MCDeserialFnId(a) == IF Poly(a) THEN "int8_avg_deserialize" ELSE "invalid"
MCSerialFn(a, s) == int8_avg_serialize(s)
MCDeserialFn(a, b) == int8_avg_deserialize(b)
MCSerialStrict(a) == TRUE
MCDeserialStrict(a) == TRUE
MCHasFinalFn(a) == a \notin {"max", "min", "maxn"}
MCFinalFn(a, s) ==
  CASE a = "avg4" -> int8_avg(s)
    [] a = "sum8" -> numeric_poly_sum(s)
    [] OTHER -> numeric_poly_avg(s)
MCFinalStrict(a) == a = "avg4"

(* The SQL results over all rows at once.                                  *)
MCReference(a, s) ==
  IF NonNull(s) = <<>> THEN NULL
  ELSE IF a \in {"max", "maxn"} THEN Max(ToSet(NonNull(s)))
  ELSE IF a = "min" THEN Min(ToSet(NonNull(s)))
  ELSE IF a = "sum8" THEN FoldSeq(+, 0, NonNull(s))
  ELSE FoldSeq(+, 0, NonNull(s)) \div Len(NonNull(s))
=============================================================================
