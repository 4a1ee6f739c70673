----------------------------- MODULE SortedAgg -----------------------------
(***************************************************************************)
(* agg_retrieve_direct of nodeAgg.c: AGG_PLAIN, AGG_SORTED with grouping   *)
(* sets (one rollup per phase, phases chained through tuplesorts) and      *)
(* AGG_MIXED, where phase 1 also fills the hybrid hash table of a hashed   *)
(* grouping set that is returned after the last sorted phase.              *)
(*                                                                         *)
(* A phase p in 1..Len(Phases) groups by the columns Phases[p].cols (the   *)
(* sort order and grpColIdx) and projects the grouping sets whose lengths  *)
(* are Phases[p].gsets (gset_lengths, longest first; <<>> means no         *)
(* grouping sets).  Phase 1 reads the child, which returns its rows sorted *)
(* by phase 1's columns; fetch_input_tuple copies every row to sort_out,   *)
(* which initialize_phase sorts (not stably) for the next phase.           *)
(*                                                                         *)
(* pc "top" is the head of the while loop of agg_retrieve_direct, pc       *)
(* "loop" its inner for(;;) over the rows of one group.  Rows carry a      *)
(* ghost id (their position in the child's output); transition states and *)
(* emitted rows carry the ghost set of the ids folded into them.  The hash *)
(* side reuses the operators of HybridHashAgg over this module's state.    *)
(*                                                                         *)
(* An aggregate with DISTINCT or ORDER BY input (numSortCols > 0, sorted   *)
(* strategies only) does not advance its state per row: advance_aggregates *)
(* puts the row into the transition's tuplesort of every grouping set, and *)
(* finalize_aggregates sorts it and runs the transition function over it  *)
(* (process_ordered_aggregate_single/_multi) before the final step.        *)
(***************************************************************************)
EXTENDS Integers, Sequences, FiniteSets, SequencesExt

CONSTANTS
  Strategy,     \* aggstate->aggstrategy: "plain", "sorted" or "mixed"
  Cols,         \* the grouping columns of the input (model values)
  ColVals,      \* non-NULL values of a grouping column (integers)
  Phases,       \* the sorted phases: [cols : Seq(Cols), gsets : Seq(Nat)]
  HashCols,     \* columns of the hashed grouping set (AGG_MIXED)
  Vals, NULL,
  Hash, WorkMem, EntrySize, NBatches,
  MaxRows,      \* bound: rows the child returns per scan
  MaxRescans,   \* bound: ExecReScanAgg calls
  Reference(_), \* the results SQL allows over a group's rows (input order)
  TransFn(_, _), CombineFn(_, _), TransStrict, CombineStrict,
  InitValue, InitValueIsNull,
  NumSortCols,  \* pertrans->numSortCols: 0, or 1 for DISTINCT / ORDER BY
  IsDistinct,   \* numDistinctCols > 0 (DISTINCT input)
  SortCol,      \* the ORDER BY column: "x" (the aggregated input) or a column
  NullsFirst,   \* sortNullsFirst of the aggregate's sort
  Having(_)     \* the HAVING qual on the aggregate's value (TRUE without one)

ASSUME Strategy \in {"plain", "sorted", "mixed"} /\ Len(Phases) >= 1
ASSUME NumSortCols \in {0, 1} /\ IsDistinct \in BOOLEAN /\ NullsFirst \in BOOLEAN
(* Hashing never sees ordered input (Assert in finalize_aggregates), and a *)
(* DISTINCT aggregate orders only by its arguments.                        *)
ASSUME NumSortCols > 0 => Strategy # "mixed" /\ (IsDistinct => SortCol \notin Cols)
ASSUME IsDistinct => NumSortCols > 0

VARIABLES
  input,      \* the rows the child returned in this scan (history)
  phase,      \* aggstate->current_phase
  src,        \* the rows this phase reads: the child or sort_in
  pos,        \* rows of src fetched so far
  sortOut,    \* rows copied to sort_out for the next phase
  inputDone,  \* aggstate->input_done
  aggDone,    \* aggstate->agg_done
  projSet,    \* aggstate->projected_set
  grpFirst,   \* aggstate->grp_firstTuple (NoRow when NULL)
  firstSlot,  \* the representative row in ss_ScanTupleSlot
  pc,         \* "top" or "loop", see above
  pergroup,   \* aggstate->pergroup: grouping set -> [pg, rows]
  htable, hspilled, hstack, hiter, filled,  \* the hashed set (AGG_MIXED)
  out,        \* rows emitted since the last (re)scan
  rescans

vars == <<input, phase, src, pos, sortOut, inputDone, aggDone, projSet,
          grpFirst, firstSlot, pc, pergroup, htable, hspilled, hstack, hiter,
          filled, out, rescans>>

(* Every transition type here is pass-by-value.                           *)
AT == INSTANCE AggTransition
        WITH TransByVal <- TRUE,
             TransFnReturns <- LAMBDA s, v : "new",
             CombineFnReturns <- LAMBDA s, v : "new"

(* The aggregate's sort: a Datum sort of the input when that is the only  *)
(* column (numInputs = 1), else a heap sort of (input, ORDER BY column).   *)
Ordered == NumSortCols > 0
numInputs == IF SortCol \in Cols THEN 2 ELSE 1
numDistinctCols == IF IsDistinct THEN NumSortCols ELSE 0
SortDatum(r) == IF numInputs = 2 THEN r.g[SortCol] ELSE r.v

(* sortOperator "<" of the sort column, NULLs placed by sortNullsFirst.    *)
AggSortLess(x, y) ==
  \/ x # NULL /\ y # NULL /\ x < y
  \/ NullsFirst /\ x = NULL /\ y # NULL
  \/ ~NullsFirst /\ x # NULL /\ y = NULL

(* tuplesort_performsort on the aggregate's sort: any order of the rows   *)
(* put that the comparator accepts, ties in any order.                     *)
AggSortOrders(rows) ==
  {o \in SetToSeqs(Range(rows)) :
     \A i, j \in DOMAIN o : i < j => ~AggSortLess(SortDatum(o[j]), SortDatum(o[i]))}

(* Faulty variant: two NULLs are not recognised as duplicates.            *)
RECURSIVE process_ordered_aggregate_singleNullsDistinct(_, _, _, _)
process_ordered_aggregate_singleNullsDistinct(pg, vs, haveOldVal, oldVal) ==
  IF vs = <<>> THEN pg
  ELSE IF IsDistinct /\ haveOldVal /\ Head(vs) = oldVal /\ oldVal # NULL
  THEN process_ordered_aggregate_singleNullsDistinct(pg, Tail(vs), haveOldVal, oldVal)
  ELSE process_ordered_aggregate_singleNullsDistinct(
         AT!advance_transition_function(pg, Head(vs)), Tail(vs), TRUE, Head(vs))

(* process_ordered_aggregate_single over the sorted Datums vs: in DISTINCT *)
(* mode a value equal to the one last passed on is skipped, two NULLs     *)
(* counting as equal; the first value is always passed on (haveOldVal).   *)
RECURSIVE process_ordered_aggregate_single(_, _, _, _)
process_ordered_aggregate_single(pg, vs, haveOldVal, oldVal) ==
  IF vs = <<>> THEN pg
  ELSE IF IsDistinct /\ haveOldVal /\ Head(vs) = oldVal
  THEN process_ordered_aggregate_single(pg, Tail(vs), haveOldVal, oldVal)
  ELSE process_ordered_aggregate_single(
         AT!advance_transition_function(pg, Head(vs)), Tail(vs), TRUE, Head(vs))

(* Faulty variant: the transition function is loaded from the wrong       *)
(* column of the sorted tuple (the ORDER BY column).                       *)
RECURSIVE process_ordered_aggregate_multiWrongColumn(_, _, _, _)
process_ordered_aggregate_multiWrongColumn(pg, rs, haveOldValue, old) ==
  IF rs = <<>> THEN pg
  ELSE LET t == <<Head(rs).v, SortDatum(Head(rs))>> IN
       IF numDistinctCols = 0 \/ ~haveOldValue \/ t # old
       THEN process_ordered_aggregate_multiWrongColumn(
              AT!advance_transition_function(pg, t[2]), Tail(rs),
              numDistinctCols > 0, t)
       ELSE process_ordered_aggregate_multiWrongColumn(pg, Tail(rs), haveOldValue, old)

(* process_ordered_aggregate_multi over the sorted rows rs: the input     *)
(* column goes to the transition function unless DISTINCT finds the row   *)
(* equal to the last one passed on (execTuplesMatch); the slot swap keeps  *)
(* that row as old.                                                        *)
RECURSIVE process_ordered_aggregate_multi(_, _, _, _)
process_ordered_aggregate_multi(pg, rs, haveOldValue, old) ==
  IF rs = <<>> THEN pg
  ELSE LET t == <<Head(rs).v, SortDatum(Head(rs))>> IN
       IF numDistinctCols = 0 \/ ~haveOldValue \/ t # old
       THEN process_ordered_aggregate_multi(
              AT!advance_transition_function(pg, Head(rs).v), Tail(rs),
              numDistinctCols > 0, t)
       ELSE process_ordered_aggregate_multi(pg, Tail(rs), haveOldValue, old)

InputVals == Vals \cup {NULL}
HashColSet == Range(HashCols)
HashKeys == [HashColSet -> ColVals]

HH == INSTANCE HybridHashAgg
        WITH Keys <- HashKeys, RescanModes <- {"rebuild"}, input <- <<>>,
             table <- htable, spilled <- hspilled, stack <- hstack,
             iter <- hiter

NP == Len(Phases)
numsets(p) == Len(Phases[p].gsets)
hasGroupingSets(p) == numsets(p) > 0
NumGroupingSets(p) == IF hasGroupingSets(p) THEN numsets(p) ELSE 1
MaxSets == Max({NumGroupingSets(p) : p \in 1 .. NP})
GrpCols(p) == Phases[p].cols
numCols(p) == Len(GrpCols(p))
gset_length(p, s) == Phases[p].gsets[s + 1]

(* The columns a grouping set keeps; prepare_projection_slot sets the      *)
(* others to NULL, so an output row's key is the row restricted to them.   *)
SetColSet(p, s) ==
  IF hasGroupingSets(p) THEN {GrpCols(p)[m] : m \in 1 .. gset_length(p, s)}
  ELSE Range(GrpCols(p))
Key(r, cs) == [c \in cs |-> r.g[c]]

RowVals == [g : [Cols -> ColVals], v : InputVals]
NoRow == [id |-> 0, g |-> [c \in Cols |-> NULL], v |-> NULL]

(* Faulty variant: the comparison stops one column short.                *)
MatchOffByOne(x, y, p, n) ==
  \A m \in 1 .. n - 1 : x.g[GrpCols(p)[m]] = y.g[GrpCols(p)[m]]

(* execTuplesMatch on the first n grouping columns of phase p.             *)
Match(x, y, p, n) == \A m \in 1 .. n : x.g[GrpCols(p)[m]] = y.g[GrpCols(p)[m]]

(* The comparator of a tuplesort on the columns cs.                        *)
LexLess(x, y, cs) ==
  \E n \in 1 .. Len(cs) : /\ \A m \in 1 .. n - 1 : x.g[cs[m]] = y.g[cs[m]]
                          /\ x.g[cs[n]] < y.g[cs[n]]
SortedBy(s, cs) == \A i, j \in DOMAIN s : i < j => ~LexLess(s[j], s[i], cs)

(* Faulty variant: sort_in sorted for the phase that wrote it.           *)
PerformSortPrevPhase(rows, p) ==
  {s \in SetToSeqs(Range(rows)) : SortedBy(s, GrpCols(p - 1))}

(* The orders tuplesort_performsort may return the rows of sort_out in:    *)
(* sorted on the next phase's columns, ties in any order.                  *)
PerformSort(rows, p) == {s \in SetToSeqs(Range(rows)) : SortedBy(s, GrpCols(p))}

(* The outputs of the child, sorted on phase 1's columns.                  *)
ChildScans ==
  UNION {{[i \in 1 .. n |-> [id |-> i, g |-> s[i].g, v |-> s[i].v]] :
            s \in {s \in [1 .. n -> RowVals] : SortedBy(s, GrpCols(1))}} :
           n \in 0 .. MaxRows}

(* sort_out is open in every sorted phase but the last.                    *)
SortOutOpen(p) == p \in 1 .. NP - 1
CopyToSortOut(p, r) == IF SortOutOpen(p) THEN Append(sortOut, r) ELSE sortOut

(* initialize_aggregate for one set: the initial transition value and,   *)
(* for ordered input, a fresh (empty) sort; sorting is sortstates[set]     *)
(* # NULL.                                                                 *)
NewGroup == [pg |-> AT!initialize_aggregate, rows |-> {}, sort |-> <<>>,
             sorting |-> Ordered]

(* Faulty variant: the last set of the ones to reset keeps its state.    *)
initialize_aggregatesOffByOne(pg, numReset) ==
  [s \in DOMAIN pg |-> IF s < numReset - 1 THEN NewGroup ELSE pg[s]]

(* initialize_aggregates(aggstate, pergroup, numReset): the first numReset *)
(* grouping sets start new groups, the others keep accumulating.           *)
initialize_aggregates(pg, numReset) ==
  [s \in DOMAIN pg |-> IF s < numReset THEN NewGroup ELSE pg[s]]

(* One set's part of advance_aggregates for row r: ordered input is put  *)
(* into the set's sort, except a NULL for a strict transition function;   *)
(* otherwise the transition function runs now.                             *)
AdvanceSet(g, r) ==
  [g EXCEPT !.rows = @ \cup {r.id},
            !.pg = IF Ordered THEN @ ELSE AT!advance_transition_function(@, r.v),
            !.sort = IF Ordered /\ ~(TransStrict /\ r.v = NULL)
                     THEN Append(@, r) ELSE @]

(* Faulty variant: the loop over the sets stops before the last one.     *)
advance_aggregatesSkippingLast(pg, r, p) ==
  [s \in DOMAIN pg |->
     IF s < NumGroupingSets(p) - 1 THEN AdvanceSet(pg[s], r) ELSE pg[s]]

(* advance_aggregates for the sorted sets: every grouping set of the      *)
(* phase folds row r.                                                      *)
advance_aggregates(pg, r, p) ==
  [s \in DOMAIN pg |->
     IF s < NumGroupingSets(p) THEN AdvanceSet(pg[s], r) ELSE pg[s]]

(* The hashed set's state as a record, and the states lookup_hash_entries *)
(* (with its advance) may leave for row r: the entry is found or made,    *)
(* dumping the full table first; the dump order is the table's.           *)
HState == [table |-> htable, spilled |-> hspilled, stack |-> hstack]

lookup_hash_entries(h, r) ==
  LET k == Key(r, HashColSet) IN
  IF HH!TableAccepts(h.table, k)
  THEN {[h EXCEPT !.table = HH!Advance(h.table, k, r.v, r.id)]}
  ELSE {[table   |-> HH!Advance(HH!EmptyTable, k, r.v, r.id),
         spilled |-> TRUE,
         stack   |-> HH!DumpHybridHashtable(h.table, h.stack, h.spilled, o)] :
          o \in SetToSeqs(DOMAIN h.table)}

(* Faulty variants: the remaining entries are not dumped before the load; *)
(* the table is not reset after the dump.                                  *)
dump_hashtable_if_spilledNoDump(h) ==
  IF ~h.spilled THEN {h}
  ELSE {LET ld == HH!LoadHybridHashtable(h.stack)
        IN [table |-> ld.table, spilled |-> TRUE, stack |-> ld.stack]}

dump_hashtable_if_spilledKeepTable(h) ==
  IF ~h.spilled THEN {h}
  ELSE {LET ld == HH!LoadHybridHashtable(
                    HH!DumpHybridHashtable(h.table, h.stack, TRUE, o))
        IN [table |-> ld.table @@ h.table, spilled |-> TRUE, stack |-> ld.stack] :
          o \in SetToSeqs(DOMAIN h.table)}

(* dump_hashtable_if_spilled: if the table ever spilled, dump it into the  *)
(* current spill set and load the next batch file.                         *)
dump_hashtable_if_spilled(h) ==
  IF ~h.spilled THEN {h}
  ELSE {LET ld == HH!LoadHybridHashtable(
                    HH!DumpHybridHashtable(h.table, h.stack, TRUE, o))
        IN [table |-> ld.table, spilled |-> TRUE, stack |-> ld.stack] :
          o \in SetToSeqs(DOMAIN h.table)}

(* finalize_aggregates for set s (current_set): ordered input is sorted,  *)
(* in one of the orders the sort may return, and run through the          *)
(* transition function, and the sort is ended (sortstates[set] = NULL).    *)
(* The pergroup states the set may be left with.                           *)
Finalizations(pg, s) ==
  IF ~Ordered THEN {pg}
  ELSE {[pg EXCEPT ![s].pg = IF numInputs = 1
                             THEN process_ordered_aggregate_single(
                                    @, [i \in DOMAIN o |-> o[i].v], FALSE, NULL)
                             ELSE process_ordered_aggregate_multi(@, o, FALSE, <<>>),
                   ![s].sort = <<>>, ![s].sorting = FALSE] :
          o \in AggSortOrders(pg[s].sort)}

(* The output row of grouping set s of phase p, with representative row r *)
(* and the set's state after finalization.                                 *)
Projected(p, s, r, pg) ==
  [phase |-> p, set |-> s, key |-> Key(r, SetColSet(p, s)),
   val |-> AT!finalize_aggregate(pg[s].pg), rows |-> pg[s].rows]

(* Faulty variant: the row is returned whether or not it passes HAVING.  *)
project_aggregatesIgnoringQual(row) == Append(out, row)

(* project_aggregates: the row is returned only if the HAVING qual holds; *)
(* otherwise the caller's loop goes on to the next group (or set).        *)
project_aggregates(row) == IF Having(row.val) THEN Append(out, row) ELSE out

-----------------------------------------------------------------------------
Init ==
  /\ input \in ChildScans
  /\ phase = 1
  /\ src = input
  /\ pos = 0
  /\ sortOut = <<>>
  /\ inputDone = FALSE
  /\ aggDone = FALSE
  /\ projSet = -1
  /\ grpFirst = NoRow
  /\ firstSlot = NoRow
  /\ pc = "top"
  /\ pergroup = [s \in 0 .. MaxSets - 1 |-> [NewGroup EXCEPT !.sorting = FALSE]]
  /\ htable = HH!EmptyTable
  /\ hspilled = FALSE
  /\ hstack = <<>>
  /\ hiter = {}
  /\ filled = FALSE
  /\ out = <<>>
  /\ rescans = 0

(* Quantities the head of the while loop computes.                         *)
ns == NumGroupingSets(phase)
numReset == IF projSet >= 0 /\ projSet < ns THEN projSet + 1 ELSE ns
(* Faulty variant: the boundary of the next set tested on all columns.    *)
nextSetSizeNumCols ==
  IF projSet >= 0 /\ projSet < ns - 1 THEN numCols(phase) ELSE 0
nextSetSize ==
  IF projSet >= 0 /\ projSet < ns - 1 THEN gset_length(phase, projSet + 1)
  ELSE 0
PhaseInputDone == inputDone /\ projSet >= ns - 1

(* Faulty variant: sort_out is not cleared when it becomes sort_in.       *)
NextPhaseKeepingSortOut ==
  /\ pc = "top" /\ ~aggDone /\ phase # 0 /\ PhaseInputDone
  /\ phase < NP
  /\ phase' = phase + 1
  /\ src' \in PerformSort(sortOut, phase + 1)
  /\ pos' = 0
  /\ inputDone' = FALSE
  /\ projSet' = -1
  /\ UNCHANGED <<input, sortOut, aggDone, grpFirst, firstSlot, pc, pergroup,
                 htable, hspilled, hstack, hiter, filled, out, rescans>>

(* Input is complete and every set of the phase projected, and a later    *)
(* phase exists: initialize_phase(current_phase + 1) makes sort_out the   *)
(* sorted sort_in and opens a new sort_out unless the phase is the last.  *)
NextPhase ==
  /\ pc = "top" /\ ~aggDone /\ phase # 0 /\ PhaseInputDone
  /\ phase < NP
  /\ phase' = phase + 1
  /\ src' \in PerformSort(sortOut, phase + 1)
  /\ pos' = 0
  /\ sortOut' = <<>>
  /\ inputDone' = FALSE
  /\ projSet' = -1
  /\ UNCHANGED <<input, aggDone, grpFirst, firstSlot, pc, pergroup, htable,
                 hspilled, hstack, hiter, filled, out, rescans>>

(* After the last sorted phase of AGG_MIXED: initialize_phase(0), the     *)
(* table is marked filled, perhash[0]'s iterator reset, and the hashed    *)
(* set is returned by agg_retrieve_hash_table.                             *)
StartHashPhase ==
  /\ pc = "top" /\ ~aggDone /\ phase # 0 /\ PhaseInputDone
  /\ phase = NP /\ Strategy = "mixed"
  /\ phase' = 0
  /\ src' = <<>>
  /\ pos' = 0
  /\ filled' = TRUE
  /\ hiter' = DOMAIN htable
  /\ UNCHANGED <<input, sortOut, inputDone, aggDone, projSet, grpFirst,
                 firstSlot, pc, pergroup, htable, hspilled, hstack, out, rescans>>

(* The last phase is complete and nothing is hashed: agg_done.             *)
DirectDone ==
  /\ pc = "top" /\ ~aggDone /\ phase # 0 /\ PhaseInputDone
  /\ phase = NP /\ Strategy # "mixed"
  /\ aggDone' = TRUE
  /\ UNCHANGED <<input, phase, src, pos, sortOut, inputDone, projSet,
                 grpFirst, firstSlot, pc, pergroup, htable, hspilled, hstack,
                 hiter, filled, out, rescans>>

(* The row just projected was not of the last set, and the pending row    *)
(* differs from it on the next set's columns (or input is done): that     *)
(* set's group is complete too and is projected.                           *)
ProjectNextSet ==
  /\ pc = "top" /\ ~aggDone /\ phase # 0 /\ ~PhaseInputDone
  /\ \/ inputDone
     \/ /\ Strategy # "plain"
        /\ projSet # -1 /\ projSet < ns - 1
        /\ nextSetSize > 0
        /\ ~Match(firstSlot, src[pos], phase, nextSetSize)
  /\ projSet' = projSet + 1
  /\ \E fin \in Finalizations(pergroup, projSet + 1) :
       /\ pergroup' = fin
       /\ out' = project_aggregates(Projected(phase, projSet + 1, firstSlot, fin))
  /\ UNCHANGED <<input, phase, src, pos, sortOut, inputDone, aggDone,
                 grpFirst, firstSlot, pc, htable, hspilled, hstack,
                 hiter, filled, rescans>>

BoundaryNotReached ==
  /\ ~inputDone
  /\ \/ Strategy = "plain"
     \/ projSet = -1 \/ projSet >= ns - 1
     \/ nextSetSize = 0
     \/ Match(firstSlot, src[pos], phase, nextSetSize)

(* A new group starts with the pending row, or with the first row fetched *)
(* now: initialize_aggregates(numReset), the row becomes the              *)
(* representative and the for(;;) loop is entered.                         *)
StartGroup ==
  /\ pc = "top" /\ ~aggDone /\ phase # 0 /\ ~PhaseInputDone /\ BoundaryNotReached
  /\ \/ /\ grpFirst # NoRow
        /\ firstSlot' = grpFirst
        /\ UNCHANGED <<pos, sortOut>>
     \/ /\ grpFirst = NoRow /\ pos < Len(src)
        /\ firstSlot' = src[pos + 1]
        /\ pos' = pos + 1
        /\ sortOut' = CopyToSortOut(phase, src[pos + 1])
  /\ projSet' = 0
  /\ grpFirst' = NoRow
  /\ pergroup' = initialize_aggregates(pergroup, numReset)
  /\ pc' = "loop"
  /\ UNCHANGED <<input, phase, src, inputDone, aggDone, htable, hspilled,
                 hstack, hiter, filled, out, rescans>>

(* The first fetch finds no input at all.  With grouping sets only the    *)
(* sets of length 0 are projected (the while loop skips to the first of   *)
(* them, or past the last set); without grouping sets the node is done   *)
(* and only AGG_PLAIN projects its one row.                                *)
(* Faulty variant: the empty sets are skipped too.                         *)
FirstEmptySetNone == ns

FirstEmptySet == LET e == {s \in 0 .. ns - 1 : gset_length(phase, s) = 0}
                 IN IF e = {} THEN ns ELSE Min(e)

(* Faulty variant: AGG_PLAIN returns no row either.                       *)
ReturnsNullWithoutInputAlways == TRUE

(* Without grouping sets and without input, grouping returns NULL.          *)
ReturnsNullWithoutInput == Strategy # "plain"

NoInput ==
  /\ pc = "top" /\ ~aggDone /\ phase # 0 /\ ~PhaseInputDone /\ BoundaryNotReached
  /\ grpFirst = NoRow /\ pos = Len(src)
  /\ \/ /\ hasGroupingSets(phase)
        /\ inputDone' = TRUE
        /\ projSet' = FirstEmptySet
        /\ IF FirstEmptySet >= ns
           THEN UNCHANGED <<pergroup, out>>
           ELSE \E pg \in Finalizations(initialize_aggregates(pergroup, numReset),
                                        FirstEmptySet) :
                  /\ pergroup' = pg
                  /\ out' = project_aggregates(Projected(phase, FirstEmptySet, firstSlot, pg))
        /\ UNCHANGED aggDone
     \/ /\ ~hasGroupingSets(phase)
        /\ aggDone' = TRUE
        /\ projSet' = 0
        /\ IF ReturnsNullWithoutInput
           THEN UNCHANGED <<pergroup, out>>
           ELSE \E pg \in Finalizations(initialize_aggregates(pergroup, numReset), 0) :
                  /\ pergroup' = pg
                  /\ out' = project_aggregates(Projected(phase, 0, firstSlot, pg))
        /\ UNCHANGED inputDone
  /\ UNCHANGED <<input, phase, src, pos, sortOut, grpFirst, firstSlot, pc,
                 htable, hspilled, hstack, hiter, filled, rescans>>

(* One iteration of the for(;;) loop: the row in tmpcontext (the last one *)
(* fetched) is folded into every sorted set and, in phase 1 of AGG_MIXED,  *)
(* into the hashed set; then the next row is fetched.  At the end of the  *)
(* input dump_hashtable_if_spilled runs and input_done (agg_done without  *)
(* grouping sets) is set; at a group boundary the row is kept as          *)
(* grp_firstTuple.  Either way the group of set 0 is projected.            *)
AdvanceRow ==
  /\ pc = "loop"
  /\ \E r \in {src[pos]} :
     \E pg \in {advance_aggregates(pergroup, r, phase)} :
     \E atEnd \in {pos = Len(src)} :
     \E boundary \in {~atEnd /\ Strategy # "plain"
                       /\ ~Match(firstSlot, src[pos + 1], phase, numCols(phase))} :
     /\ \E h1 \in IF Strategy = "mixed" /\ phase = 1
                  THEN lookup_hash_entries(HState, r) ELSE {HState} :
        \E h2 \in IF atEnd THEN dump_hashtable_if_spilled(h1) ELSE {h1} :
          /\ htable' = h2.table
          /\ hspilled' = h2.spilled
          /\ hstack' = h2.stack
     /\ pos' = IF atEnd THEN pos ELSE pos + 1
     /\ sortOut' = IF atEnd THEN sortOut ELSE CopyToSortOut(phase, src[pos + 1])
     /\ inputDone' = (inputDone \/ (atEnd /\ hasGroupingSets(phase)))
     /\ aggDone' = (atEnd /\ ~hasGroupingSets(phase))
     /\ grpFirst' = IF boundary THEN src[pos + 1] ELSE NoRow
     /\ IF atEnd \/ boundary
        THEN /\ pc' = "top"
             /\ \E fin \in Finalizations(pg, projSet) :
                  /\ pergroup' = fin
                  /\ out' = project_aggregates(Projected(phase, projSet, firstSlot, fin))
        ELSE /\ pergroup' = pg
             /\ UNCHANGED <<pc, out>>
  /\ UNCHANGED <<input, phase, src, projSet, firstSlot, hiter, filled, rescans>>

(* agg_retrieve_hash_table in AGG_MIXED: the next entry of the table, the *)
(* next batch file when the table is exhausted, or done.                   *)
EmitHashGroup ==
  /\ phase = 0 /\ filled /\ ~aggDone
  /\ \E k \in hiter :
       /\ out' = project_aggregates([phase |-> 0, set |-> 0, key |-> k,
                                     val |-> AT!finalize_aggregate(htable[k].pg),
                                     rows |-> htable[k].rows])
       /\ hiter' = hiter \ {k}
  /\ UNCHANGED <<input, phase, src, pos, sortOut, inputDone, aggDone, projSet,
                 grpFirst, firstSlot, pc, pergroup, htable, hspilled, hstack,
                 filled, rescans>>

NextHashBatch ==
  /\ phase = 0 /\ filled /\ ~aggDone /\ hiter = {}
  /\ ~HH!HybridHashtableLoadDone
  /\ \E ld \in {HH!LoadHybridHashtable(hstack)} :
        /\ hstack' = ld.stack
        /\ htable' = ld.table
        /\ hiter' = IF ld.init THEN DOMAIN ld.table ELSE {}
  /\ UNCHANGED <<input, phase, src, pos, sortOut, inputDone, aggDone, projSet,
                 grpFirst, firstSlot, pc, pergroup, hspilled, filled, out, rescans>>

FinishHash ==
  /\ phase = 0 /\ filled /\ ~aggDone /\ hiter = {}
  /\ HH!HybridHashtableLoadDone
  /\ aggDone' = TRUE
  /\ UNCHANGED <<input, phase, src, pos, sortOut, inputDone, projSet,
                 grpFirst, firstSlot, pc, pergroup, htable, hspilled, hstack,
                 hiter, filled, out, rescans>>

(* ExecReScanAgg for the sorted strategies: grp_firstTuple released, the  *)
(* scan slot cleared, the open sorts of ordered input ended and set to    *)
(* NULL, the hash table (AGG_MIXED) rebuilt empty, pergroup zeroed by     *)
(* MemSet, phase 1 re-entered and the child rescanned.  The     *)
(* child returns the same rows; a rescan with changed parameters leads to *)
(* the initial state of the new rows, which Init already covers.          *)
ZeroGroup == [pg |-> [transValue |-> 0, transValueIsNull |-> FALSE,
                      noTransValue |-> FALSE, transValueMem |-> "none"],
              rows |-> {}, sort |-> <<>>,
              sorting |-> FALSE]

ExecReScanAgg ==
  /\ rescans < MaxRescans
  /\ rescans' = rescans + 1
  /\ src' = input
  /\ phase' = 1
  /\ pos' = 0
  /\ sortOut' = <<>>
  /\ inputDone' = FALSE
  /\ aggDone' = FALSE
  /\ projSet' = -1
  /\ grpFirst' = NoRow
  /\ firstSlot' = NoRow
  /\ pc' = "top"
  /\ pergroup' = [s \in DOMAIN pergroup |-> ZeroGroup]
  /\ htable' = HH!EmptyTable
  /\ hspilled' = FALSE
  /\ hstack' = <<>>
  /\ hiter' = {}
  /\ filled' = FALSE
  /\ out' = <<>>
  /\ UNCHANGED input

Retrieve ==
  \/ NextPhase \/ StartHashPhase \/ DirectDone \/ ProjectNextSet
  \/ StartGroup \/ NoInput \/ AdvanceRow
  \/ EmitHashGroup \/ NextHashBatch \/ FinishHash

Next == Retrieve \/ ExecReScanAgg

(* The consumer calls ExecAgg until it returns NULL; rescans are the      *)
(* caller's choice.                                                        *)
Spec == Init /\ [][Next]_vars /\ WF_vars(Retrieve)

-----------------------------------------------------------------------------
(* Properties.  An output row of phase p and set s (phase 0: the hashed   *)
(* set) is identified by <<phase, set, key>>; its group is the input rows *)
(* that agree with the key on the set's columns.                           *)
OutCols(x) == IF x.phase = 0 THEN HashColSet ELSE SetColSet(x.phase, x.set)
GroupRows(x) == {i \in DOMAIN input : Key(input[i], OutCols(x)) = x.key}
GroupInput(R) == SelectSeq(input, LAMBDA r : r.id \in R)
OutGroups == {<<out[j].phase, out[j].set, out[j].key>> : j \in DOMAIN out}

PGroup == [pg : [transValue : Int \cup Vals, transValueIsNull : BOOLEAN,
                 noTransValue : BOOLEAN, transValueMem : {"none"}], rows : SUBSET (1 .. MaxRows),
           sort : BoundedSeq([id : 1 .. MaxRows, g : [Cols -> ColVals],
                              v : InputVals], MaxRows),
           sorting : BOOLEAN]

(* Type invariant.                                                         *)
TypeOK ==
  /\ phase \in 0 .. NP
  /\ pos \in 0 .. Len(src)
  /\ Len(sortOut) <= MaxRows /\ (~SortOutOpen(phase) => sortOut = <<>>)
  /\ inputDone \in BOOLEAN /\ aggDone \in BOOLEAN /\ filled \in BOOLEAN
  /\ projSet \in -1 .. MaxSets
  /\ pc \in {"top", "loop"}
  /\ pergroup \in [0 .. MaxSets - 1 -> PGroup]
  /\ DOMAIN htable \subseteq HashKeys
  /\ hiter \subseteq DOMAIN htable
  /\ rescans \in 0 .. MaxRescans

(* Every row agg_retrieve_direct (or, in AGG_MIXED, agg_retrieve_hash_    *)
(* table) returns aggregates exactly the input rows of its group: the     *)
(* partial resets of initialize_aggregates(numReset) at a rollup boundary *)
(* and the boundary tests on nextSetSize / numCols neither mix rows of    *)
(* neighbouring groups into a set's state nor drop any; with DISTINCT or  *)
(* ORDER BY input, the per-set sorts, filled across finer groups and      *)
(* rescans, give the value over the group's rows in sort order, each      *)
(* distinct value once.                                                    *)
GroupResultCorrect ==
  \A j \in DOMAIN out : /\ out[j].rows = GroupRows(out[j])
                        /\ out[j].val \in Reference(GroupInput(out[j].rows))

(* Every sort of ordered input that the next step may use is open: in the *)
(* for(;;) loop advance_aggregates puts the row into the sort of every set *)
(* of the phase, and at the head of the loop the sets still to be         *)
(* projected are finalized from theirs.  finalize_aggregates leaves a      *)
(* projected set's sortstates NULL, so this holds only if                  *)
(* initialize_aggregates(numReset) reopens exactly the sets projected      *)
(* since, across rollup boundaries, phases and rescans.                    *)
SortsOpenWhenUsed ==
  Ordered /\ phase # 0 =>
    /\ pc = "loop" => \A s \in 0 .. ns - 1 : pergroup[s].sorting
    /\ pc = "top" /\ projSet >= 0 =>
         \A s \in projSet + 1 .. ns - 1 : pergroup[s].sorting

(* No group of any grouping set is returned twice in one scan, across the *)
(* phases and the hashed set.                                              *)
NoDuplicateGroup ==
  \A i, j \in DOMAIN out :
    i # j => <<out[i].phase, out[i].set, out[i].key>>
               # <<out[j].phase, out[j].set, out[j].key>>

(* The result a GROUP BY GROUPING SETS query promises: one row per group  *)
(* of every set; without input, one row per empty set (and the one row   *)
(* of AGG_PLAIN); in AGG_MIXED, the groups of the hashed set.              *)
EmptySets == {<<p, s>> \in {<<p, s>> : p \in 1 .. NP, s \in 0 .. MaxSets - 1} :
                s < NumGroupingSets(p) /\ SetColSet(p, s) = {}
                /\ (hasGroupingSets(p) \/ Strategy = "plain")}
Expected ==
  {<<p, s, Key(r, SetColSet(p, s))>> :
     <<p, s, r>> \in {<<p, s, r>> \in (1 .. NP) \X (0 .. MaxSets - 1) \X Range(input) :
                        s < NumGroupingSets(p)}}
  \cup (IF input = <<>> THEN {<<e[1], e[2], Key(NoRow, {})>> : e \in EmptySets}
        ELSE {})
  \cup (IF Strategy = "mixed" THEN {<<0, 0, Key(r, HashColSet)>> : r \in Range(input)}
        ELSE {})

(* A group passes HAVING if the qual holds of a value SQL allows for it.  *)
PassesHaving(e) ==
  \E v \in Reference(GroupInput(GroupRows([phase |-> e[1], set |-> e[2],
                                           key |-> e[3]]))) : Having(v)

(* Once ExecAgg has returned NULL, exactly the expected groups that pass  *)
(* HAVING were returned: a group the qual rejects does not end the scan   *)
(* nor the projection of the coarser sets after it.                       *)
AllGroupsEmitted == aggDone => OutGroups = {e \in Expected : PassesHaving(e)}

(* The order a sorted rollup promises: once the row of a coarser set is   *)
(* returned, no row of a finer set of the same phase inside that coarser  *)
(* group follows (its subgroups are all complete by then).                 *)
RollupOrder ==
  \A i, j \in DOMAIN out :
    (i < j /\ out[i].phase = out[j].phase /\ out[i].phase # 0
       /\ out[j].set < out[i].set)
      => \E c \in DOMAIN out[i].key : out[j].key[c] # out[i].key[c]

(* The node always finishes: every phase and the hashed set run out.      *)
Termination == ~aggDone ~> aggDone

====
