---------------------------- MODULE MCSortedAgg ----------------------------
(***************************************************************************)
(* Model-checking instances of SortedAgg over two grouping columns a and b *)
(* with values 0 and 1.  The aggregates: count(x) (int8inc_any / int8pl, *)
(* strict, initcond 0), count(DISTINCT x), and a user-defined aggregate    *)
(* digits(x), with DISTINCT or ORDER BY input, whose state function        *)
(* digits_accum is not strict, has a NULL initcond and no final function; *)
(* it appends a digit for each input, so its value shows the order and    *)
(* the multiplicity of the inputs the transition function saw.  The plans:*)
(*   RollupPhases:  GROUPING SETS ((a,b),(a),(),(b)): rollup (a,b),(a),()  *)
(*                  in phase 1, then (b) re-sorted in phase 2;             *)
(*   PlainPhases:   no GROUP BY (AGG_PLAIN);                               *)
(*   GroupPhases:   GROUP BY a (AGG_SORTED without grouping sets);         *)
(*   MixedPhases:   AGG_MIXED with (a,b) hashed and the rollup (a),()      *)
(*                  sorted;                                                *)
(*   CubeMixedPhases: CUBE (a,b) in AGG_MIXED: (a,b) hashed, the rollup    *)
(*                  (a),() in phase 1 and (b) in phase 2.                  *)
(***************************************************************************)
EXTENDS SortedAgg

CONSTANTS a, b

MCCols == {a, b}
RollupPhases == <<[cols |-> <<a, b>>, gsets |-> <<2, 1, 0>>],
                  [cols |-> <<b>>, gsets |-> <<1>>]>>
PlainPhases == <<[cols |-> <<>>, gsets |-> <<>>]>>
GroupPhases == <<[cols |-> <<a>>, gsets |-> <<>>]>>
MixedPhases == <<[cols |-> <<a>>, gsets |-> <<1, 0>>]>>
CubeMixedPhases == <<[cols |-> <<a>>, gsets |-> <<1, 0>>],
                     [cols |-> <<b>>, gsets |-> <<1>>]>>
NoHashCols == <<>>
MixedHashCols == <<a, b>>

(* The hashed key's hash: a + 2b, so batch file hash % 2 is the value of a *)
(* and keys of one file differ in b.                                       *)
MCHash == [k \in HashKeys |-> IF HashColSet = {} THEN 0 ELSE k[a] + 2 * k[b]]

int8inc_any(x, y) == x + 1
int8pl(x, y) == x + y

(* digits_accum(s, x) = coalesce(s, 0) * 4 + coalesce(x, 0) + 1: NULL     *)
(* arguments arrive as Datum 0, and Vals are 1 and 2.                      *)
digits_accum(s, d) == s * 4 + d + 1
Digit(e) == IF e = NULL THEN 1 ELSE e + 1
Digits(vs) == FoldLeft(LAMBDA s, e : s * 4 + Digit(e), 0, vs)

(* HAVING: none, or count(DISTINCT x) > 1.                                 *)
NoQual(v) == TRUE
MoreThanOne(v) == v > 1

(* The results SQL allows over the rows rs of a group.                     *)
InputValues(rs) == {rs[i].v : i \in DOMAIN rs}
CountReference(rs) == {Cardinality({i \in DOMAIN rs : rs[i].v # NULL})}
CountDistinctReference(rs) == {Cardinality(InputValues(rs) \ {NULL})}
(* digits(DISTINCT x): each value once, ascending, NULL last.              *)
DigitsDistinctReference(rs) ==
  IF rs = <<>> THEN {NULL}
  ELSE {Digits(SetToSortSeq(InputValues(rs) \ {NULL}, <)
               \o (IF NULL \in InputValues(rs) THEN <<NULL>> ELSE <<>>))}
(* digits(x ORDER BY b): the inputs in an order ascending in b.            *)
DigitsOrderedReference(rs) ==
  IF rs = <<>> THEN {NULL}
  ELSE {Digits([i \in DOMAIN o |-> o[i].v]) :
          o \in {o \in SetToSeqs(Range(rs)) :
                  \A i, j \in DOMAIN o : i < j => o[i].g[b] <= o[j].g[b]}}

====
