-------------------------- MODULE MCHybridHashAgg --------------------------
(***************************************************************************)
(* Model-checking instances of HybridHashAgg: four keys and a table of   *)
(* one entry.  Three keys hash into batch file 0 of the root spill set,   *)
(* so that a reloaded batch overflows into a child set of 3 files and     *)
(* again into a grandchild set of 4 files; the fourth key lands in root   *)
(* file 1, which must still be read after the child sets are exhausted.   *)
(* Two aggregates, with the support functions of the catalog:             *)
(*   count(x): int8inc_any / int8pl, strict, initcond 0;                   *)
(*   max(int4): int4larger / int4larger, strict, NULL initcond.            *)
(***************************************************************************)
EXTENDS HybridHashAgg

CONSTANTS k1, k2, k3, k4

MCKeys == {k1, k2, k3, k4}

(* hashes 0, 6, 2 fall in root file 0 (mod 2); 0 and 6 collide again in *)
(* the child (mod 3) and separate in the grandchild (mod 4); 1 is file 1. *)
MCHash == (k1 :> 0) @@ (k2 :> 6) @@ (k3 :> 2) @@ (k4 :> 1)

NonNull(vs) == {i \in DOMAIN vs : vs[i] # NULL}

(* count(x): int8inc_any adds one, int8pl adds two counts.                 *)
int8inc_any(a, b) == a + 1
int8pl(a, b) == a + b
CountReference(vs) == Cardinality(NonNull(vs))

(* max(int4): int4larger returns the larger argument.                      *)
int4larger(a, b) == IF a >= b THEN a ELSE b
(* a negative input, so that a wrong 0 from the NULL state shows.          *)
MaxVals == {-1}

MaxReference(vs) ==
  IF NonNull(vs) = {} THEN NULL
  ELSE CHOOSE m \in {vs[i] : i \in NonNull(vs)} :
         \A i \in NonNull(vs) : vs[i] <= m

=============================================================================
