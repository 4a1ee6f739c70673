--------------------------- MODULE AggTransition ---------------------------
(***************************************************************************)
(* The per-group transition machinery of nodeAgg.c: how one transition     *)
(* state (AggStatePerGroupData) is initialised, advanced by an input      *)
(* value, merged with another state by the combine function, and turned   *)
(* into a result.  The aggregate's support functions are parameters: the  *)
(* transition and combine functions work on Datums, and a NULL argument   *)
(* reaches a function as the Datum the executor stored for it (0).        *)
(*                                                                         *)
(* A state is a record                                                     *)
(*   [transValue |-> Datum, transValueIsNull |-> BOOLEAN,                  *)
(*    noTransValue |-> BOOLEAN, transValueMem |-> Mem]                     *)
(* the three fields of AggStatePerGroupData and, for a pass-by-reference  *)
(* transition type, the memory the transValue pointer points into:        *)
(*   "agg"   the aggregate context of the group (curaggcontext);           *)
(*   "input" the input tuple, released when the next row is fetched;       *)
(*   "tmp"   the per-input-tuple context, reset for every row;             *)
(*   "init"  pertrans->initValue, shared by every group;                   *)
(*   "none"  no memory: a by-value type or a NULL pointer.                 *)
(***************************************************************************)
EXTENDS Integers

CONSTANTS
  NULL,             \* an SQL NULL input value (a model value)
  TransFn(_, _),    \* transfn(state Datum, input Datum) -> Datum
  CombineFn(_, _),  \* combinefn(state Datum, state Datum) -> Datum
  TransStrict,      \* pertrans->transfn.fn_strict
  CombineStrict,    \* pertrans->combfn.fn_strict
  InitValue,        \* pertrans->initValue when the initcond is not NULL
  InitValueIsNull,  \* pertrans->initValueIsNull
  TransByVal,       \* pertrans->transtypeByVal
  \* the pointer a by-reference support function returns for (state, input):
  \* "first" (its first argument, updated in place), "second" (its second
  \* argument), "new" (palloc'd in the current, per-tuple, context) or
  \* "expanded" (a read/write expanded object that is a child of aggcontext)
  TransFnReturns(_, _), CombineFnReturns(_, _)

ASSUME TransStrict \in BOOLEAN /\ CombineStrict \in BOOLEAN
ASSUME InitValueIsNull \in BOOLEAN /\ TransByVal \in BOOLEAN

Mem == {"agg", "input", "tmp", "init", "none"}

(* The Datum a NULL carries: ExecInitAgg sets initValue = (Datum) 0 for a  *)
(* NULL initcond, and a deformed NULL column holds (Datum) 0.             *)
NullDatum == 0

DatumOf(v) == IF v = NULL THEN NullDatum ELSE v

(* initialize_aggregate: (re)set transValue to the initial value; a NULL   *)
(* initcond leaves noTransValue set so that the first non-NULL input      *)
(* becomes the state.                                                      *)
(* A non-NULL pass-by-reference initValue is datumCopy'd into the        *)
(* aggregate context, since the transValue is pfree'd later.              *)
(* Mutant: the group's state points at pertrans->initValue itself.       *)
initialize_aggregateSharingInitValue ==
  [transValue       |-> IF InitValueIsNull THEN NullDatum ELSE InitValue,
   transValueIsNull |-> InitValueIsNull,
   noTransValue     |-> InitValueIsNull,
   transValueMem    |-> IF InitValueIsNull \/ TransByVal THEN "none" ELSE "init"]

initialize_aggregate ==
  [transValue       |-> IF InitValueIsNull THEN NullDatum ELSE InitValue,
   transValueIsNull |-> InitValueIsNull,
   noTransValue     |-> InitValueIsNull,
   transValueMem    |-> IF InitValueIsNull \/ TransByVal THEN "none" ELSE "agg"]

(* Mutant: the first input (or incoming state) kept in the tuple it came  *)
(* from instead of being copied.                                          *)
CopiedMemBorrowed == IF TransByVal THEN "none" ELSE "input"

(* The memory of a first non-NULL input or an adopted incoming state:     *)
(* datumCopy'd into the aggregate context when pass-by-reference.         *)
CopiedMem == IF TransByVal THEN "none" ELSE "agg"

(* Mutant: the returned value is kept where the function left it.        *)
AdoptedMemWithoutCopy(pg, kind) ==
  CASE TransByVal        -> "none"
    [] kind = "first"    -> pg.transValueMem
    [] kind = "expanded" -> "agg"
    [] kind = "second"   -> "input"
    [] OTHER             -> "tmp"

(* Where the new transValue lives after a support function returned a     *)
(* pointer of this kind: the same pointer as the state needs nothing; a   *)
(* read/write expanded object already a child of aggcontext is adopted;   *)
(* any other pointer is datumCopy'd into aggcontext (and the old state    *)
(* pfree'd or, expanded, deleted).                                        *)
AdoptedMem(pg, kind) ==
  CASE TransByVal        -> "none"
    [] kind = "first"    -> pg.transValueMem
    [] OTHER             -> "agg"

(* The state after the support function fn has been called on the state   *)
(* and the Datum d: the functions modelled never return NULL, so          *)
(* fcinfo->isnull stays false.                                             *)
CallWith(pg, fn(_, _), d, kind) ==
  [pg EXCEPT !.transValue = fn(pg.transValue, d), !.transValueIsNull = FALSE,
             !.transValueMem = AdoptedMem(pg, kind)]

(* Faulty variant: a strict transition function is called on NULL input. *)
TransitionIgnoringNullInput(pg, v) ==
  CASE TransStrict /\ pg.noTransValue /\ v # NULL ->
         [transValue |-> v, transValueIsNull |-> FALSE, noTransValue |-> FALSE,
          transValueMem |-> CopiedMem]
    [] TransStrict /\ pg.transValueIsNull -> pg
    [] OTHER                              -> CallWith(pg, TransFn, DatumOf(v),
                                                     TransFnReturns(pg.transValue, DatumOf(v)))

(* advance_transition_function for one input value v (NULL or a Datum).    *)
advance_transition_function(pg, v) ==
  CASE TransStrict /\ v = NULL          -> pg
    [] TransStrict /\ pg.noTransValue   ->
         [transValue |-> v, transValueIsNull |-> FALSE, noTransValue |-> FALSE,
          transValueMem |-> CopiedMem]
    [] TransStrict /\ pg.transValueIsNull -> pg
    [] OTHER                            -> CallWith(pg, TransFn, DatumOf(v),
                                                     TransFnReturns(pg.transValue, DatumOf(v)))

(* Faulty variant: a strict combine function called while the group has *)
(* no state yet, instead of adopting the incoming state.                   *)
advance_combine_functionNoAdopt(pg, in) ==
  CASE CombineStrict /\ in.isNull -> pg
    [] OTHER                      -> CallWith(pg, CombineFn, in.value,
                                              CombineFnReturns(pg.transValue, in.value))

(* advance_combine_function (DO_AGGSPLIT_COMBINE mode): merge the incoming *)
(* state in = [value, isNull]; a strict combine adopts the incoming state  *)
(* while the group has none yet.                                           *)
advance_combine_function(pg, in) ==
  CASE CombineStrict /\ in.isNull       -> pg
    [] CombineStrict /\ pg.noTransValue ->
         [transValue |-> in.value, transValueIsNull |-> FALSE,
          noTransValue |-> FALSE, transValueMem |-> CopiedMem]
    [] OTHER                            -> CallWith(pg, CombineFn, in.value,
                                              CombineFnReturns(pg.transValue, in.value))

(* combine_transition, the merge used when reloading spilled hybrid hash  *)
(* entries.  Its noTransValue branch is compiled out (#if 0), so a strict *)
(* combine function is called even when the group has no state yet, with  *)
(* the NULL state's Datum as its first argument, and noTransValue stays   *)
(* set.                                                                    *)
combine_transition(pg, in) ==
  IF CombineStrict /\ in.isNull THEN pg ELSE CallWith(pg, CombineFn, in.value,
                                              CombineFnReturns(pg.transValue, in.value))

(* finalize_aggregate for an aggregate without a final function: the      *)
(* result is the transition value, or NULL when the state is NULL.         *)
finalize_aggregate(pg) == IF pg.transValueIsNull THEN NULL ELSE pg.transValue

=============================================================================
