--------------------------- MODULE HybridHashAgg ---------------------------
(***************************************************************************)
(* AGG_HASHED execution with the hybrid (spilling) hash table of nodeAgg.c *)
(* for one hashed grouping set and one aggregate:                          *)
(*   - agg_fill_hash_table pulls rows from the child; lookup_hash_entry    *)
(*     finds or creates the group's entry and, when the table is full and  *)
(*     the key is new, DumpHybridHashtable writes every entry to the batch *)
(*     file hash % nbatches of the spill set and empties the table;        *)
(*   - at the end of input dump_hashtable_if_spilled dumps the rest and    *)
(*     loads the first batch;                                              *)
(*   - agg_retrieve_hash_table emits one group per call; when the table is *)
(*     exhausted and HybridHashtableLoadDone says more batches remain, the *)
(*     table is reset and LoadHybridHashtable reads the next batch file,   *)
(*     merging records of one key with combine_transition and sending the *)
(*     records that do not fit to a child spill set of num_files + 1       *)
(*     batches, which is read (depth first) before the parent continues;   *)
(*   - ExecReScanAgg either rescans the filled table or rebuilds it.       *)
(*                                                                         *)
(* Entries, spill records and emitted rows carry a ghost field `rows`: the *)
(* positions of the input rows folded into them.  It never affects a       *)
(* decision; it states the accounting the spec promises ("every input row  *)
(* contributes to exactly one final per-key state").                       *)
(***************************************************************************)
EXTENDS Integers, Sequences, FiniteSets, SequencesExt, TLC

CONSTANTS
  Keys,             \* grouping key values (model values)
  Vals,             \* non-NULL aggregate input values
  NULL,
  Hash,             \* the key's hash value: a function Keys -> Nat
  WorkMem,          \* work_mem, in entry-size units of the planner estimate
  EntrySize,        \* aggnode->entrySize
  NBatches,         \* g_default_hashagg_nbatches
  MaxRows,          \* bound: rows the child returns per scan
  MaxRescans,       \* bound: ExecReScanAgg calls
  RescanModes,      \* subset of {"reuse", "rebuild"} (chgParam unset / set)
  Reference(_),     \* SQL result of the aggregate over a sequence of inputs
  TransFn(_, _), CombineFn(_, _), TransStrict, CombineStrict,
  InitValue, InitValueIsNull

ASSUME Hash \in [Keys -> Nat] /\ NBatches \in Nat \ {0}
ASSUME WorkMem \in Nat /\ EntrySize \in Nat \ {0}
ASSUME RescanModes \subseteq {"reuse", "rebuild"}

(* Every transition type here is pass-by-value.                           *)
AT == INSTANCE AggTransition
        WITH TransByVal <- TRUE,
             TransFnReturns <- LAMBDA s, v : "new",
             CombineFnReturns <- LAMBDA s, v : "new"

VARIABLES
  input,    \* rows the child has returned in this scan (history)
  table,    \* the in-memory hash table: key -> [pg, rows]
  spilled,  \* hashtable->spilled
  stack,    \* hashtable->spill_set and its parent_spill_set chain, root first
  filled,   \* aggstate->table_filled
  iter,     \* keys the hash iterator has still to return
  aggDone,  \* aggstate->agg_done
  out,      \* rows emitted since the last (re)scan
  rescans   \* number of ExecReScanAgg calls so far

vars == <<input, table, spilled, stack, filled, iter, aggDone, out, rescans>>

InputVals == Vals \cup {NULL}

(* OptimizeHybridHashtableSize: entries that fit in work_mem (the C       *)
(* ceil() is applied to an integer quotient); nbatches is then forced to  *)
(* the configured default.                                                 *)
nentries == WorkMem \div EntrySize

ASSUME nentries >= 1

EmptyTable == [k \in {} |-> 0]

NoFile == [exists |-> FALSE, recs |-> <<>>]

(* A fresh SpillSet with n NULL spill_file slots and current_file = 0.     *)
NewSpillSet(n) == [files |-> [j \in 0 .. n - 1 |-> NoFile], cur |-> 0]

NumFiles(s) == Cardinality(DOMAIN s.files)

(* Append record r to batch file j, creating the file on first use.        *)
AppendRec(files, j, r) ==
  [files EXCEPT ![j] = [exists |-> TRUE, recs |-> Append(@.recs, r)]]

SpillRecord(k, e) == [key |-> k, hash |-> Hash[k], pg |-> e.pg, rows |-> e.rows]

(* DumpHybridHashtable: make the spill set on the first dump, then append *)
(* every entry, in the iteration order `order`, to file hash % nbatches   *)
(* of the current spill set.  The caller empties the table.                *)
DumpHybridHashtable(tbl, stk, wasSpilled, order) ==
  LET base == IF wasSpilled THEN stk ELSE <<NewSpillSet(NBatches)>>
      top  == Last(base)
      put(fs, k) == AppendRec(fs, Hash[k] % NBatches, SpillRecord(k, tbl[k]))
  IN [base EXCEPT ![Len(base)].files = FoldLeft(put, top.files, order)]

(* lookup_hash_entry followed by advance_aggregates for row i = (k, v):   *)
(* find or insert the entry; if the table is full and k is new, dump and  *)
(* retry on the emptied table.                                             *)
NewEntry == [pg |-> AT!initialize_aggregate, rows |-> {}]

Advance(tbl, k, v, i) ==
  LET e == IF k \in DOMAIN tbl THEN tbl[k] ELSE NewEntry
  IN [x \in DOMAIN tbl \cup {k} |->
        IF x = k THEN [pg |-> AT!advance_transition_function(e.pg, v),
                       rows |-> e.rows \cup {i}]
                 ELSE tbl[x]]

(* Faulty variant: the fullness test admits one entry too many.          *)
TableAcceptsOffByOne(tbl, k) ==
  k \in DOMAIN tbl \/ Cardinality(DOMAIN tbl) <= nentries

TableAccepts(tbl, k) == k \in DOMAIN tbl \/ Cardinality(DOMAIN tbl) < nentries

(* The first part of LoadHybridHashtable: starting at the current spill   *)
(* set, skip NULL file slots, climbing to the parent set when a set is    *)
(* exhausted (goto RETRY), until a file is found or the chain ends.       *)
RECURSIVE SeekFile(_)
SeekFile(stk) ==
  IF stk = <<>> THEN [stack |-> <<>>, found |-> FALSE, recs |-> <<>>]
  ELSE LET s     == Last(stk)
           avail == {j \in s.cur .. NumFiles(s) - 1 : s.files[j].exists}
       IN IF avail = {} THEN SeekFile(Front(stk))
          ELSE LET j == Min(avail)
               IN [stack |-> [stk EXCEPT ![Len(stk)].cur = j + 1],
                   found |-> TRUE, recs |-> s.files[j].recs]

(* Faulty variant: the capacity check precedes the probe, so a record of  *)
(* a key already in the full table is sent to the child set.              *)
ReadSpillRecordFullFirst(acc, r) ==
  IF Cardinality(DOMAIN acc.table) >= nentries
  THEN [acc EXCEPT !.spilled = TRUE,
                   !.child.files = AppendRec(@, r.hash % NumFiles(acc.child), r)]
  ELSE IF r.key \in DOMAIN acc.table
  THEN [acc EXCEPT !.table[r.key] =
          [pg   |-> AT!combine_transition(@.pg, [value  |-> r.pg.transValue,
                                                 isNull |-> r.pg.transValueIsNull]),
           rows |-> @.rows \cup r.rows]]
  ELSE [acc EXCEPT !.table = [x \in DOMAIN acc.table \cup {r.key} |->
                                IF x = r.key THEN [pg |-> r.pg, rows |-> r.rows]
                                             ELSE acc.table[x]]]

(* One record of the file being reloaded: merge into an existing entry    *)
(* with combine_transition, take a free slot as a new entry, or (table    *)
(* full) append it to the child spill set at hash % child num_files.      *)
ReadSpillRecord(acc, r) ==
  IF r.key \in DOMAIN acc.table
  THEN [acc EXCEPT !.table[r.key] =
          [pg   |-> AT!combine_transition(@.pg, [value  |-> r.pg.transValue,
                                                 isNull |-> r.pg.transValueIsNull]),
           rows |-> @.rows \cup r.rows]]
  ELSE IF Cardinality(DOMAIN acc.table) < nentries
  THEN [acc EXCEPT !.table = [x \in DOMAIN acc.table \cup {r.key} |->
                                IF x = r.key THEN [pg |-> r.pg, rows |-> r.rows]
                                             ELSE acc.table[x]]]
  ELSE [acc EXCEPT !.spilled = TRUE,
                   !.child.files = AppendRec(@, r.hash % NumFiles(acc.child), r)]

(* ReadSpillRecord applied to the accumulator's value, bound once so that *)
(* the fold does not re-evaluate earlier records.                         *)
ReadRecord(acc, r) == CHOOSE x \in {ReadSpillRecord(a, r) : a \in {acc}} : TRUE

(* Faulty variant: the child set is never made the current spill set.    *)
LoadHybridHashtableNoChild(stk) ==
  LET sk == SeekFile(stk)
      rd == FoldLeft(ReadRecord,
                     [table |-> EmptyTable, spilled |-> FALSE,
                      child |-> NewSpillSet(NumFiles(Last(sk.stack)) + 1)],
                     sk.recs)
  IN IF ~sk.found THEN [stack |-> sk.stack, table |-> EmptyTable, init |-> FALSE]
     ELSE [stack |-> sk.stack, table |-> rd.table, init |-> TRUE]

(* LoadHybridHashtable on an emptied table: read the next batch file and,*)
(* if it overflowed, make its child set the current spill set.  `init`    *)
(* tells whether InitTupleHashIterator ran (a file was read).              *)
LoadHybridHashtable(stk) ==
  LET sk == SeekFile(stk)
      rd == FoldLeft(ReadRecord,
                     [table |-> EmptyTable, spilled |-> FALSE,
                      child |-> NewSpillSet(NumFiles(Last(sk.stack)) + 1)],
                     sk.recs)
  IN IF ~sk.found THEN [stack |-> sk.stack, table |-> EmptyTable, init |-> FALSE]
     ELSE [stack |-> IF rd.spilled THEN Append(sk.stack, rd.child) ELSE sk.stack,
           table |-> rd.table, init |-> TRUE]

(* Faulty variants: done as soon as the current set is exhausted, parent  *)
(* or not; and a NULL spill set not recognised as done.                    *)
LoadDoneIgnoringParent ==
  \/ ~spilled
  \/ stack = <<>>
  \/ stack # <<>> /\ Last(stack).cur >= NumFiles(Last(stack))

LoadDoneWithoutNullSet ==
  \/ ~spilled
  \/ Len(stack) = 1 /\ Last(stack).cur >= NumFiles(Last(stack))

(* HybridHashtableLoadDone: no spill set, or the root set is exhausted.    *)
HybridHashtableLoadDone ==
  \/ ~spilled
  \/ stack = <<>>
  \/ Len(stack) = 1 /\ Last(stack).cur >= NumFiles(Last(stack))

-----------------------------------------------------------------------------
Init ==
  /\ input = <<>>
  /\ table = EmptyTable
  /\ spilled = FALSE
  /\ stack = <<>>
  /\ filled = FALSE
  /\ iter = {}
  /\ aggDone = FALSE
  /\ out = <<>>
  /\ rescans = 0

(* One iteration of agg_fill_hash_table: the child returns row (k, v).     *)
FillRow ==
  /\ ~filled
  /\ Len(input) < MaxRows
  /\ \E k \in Keys, v \in InputVals :
       LET i == Len(input) + 1 IN
       /\ input' = Append(input, [key |-> k, val |-> v])
       /\ IF TableAccepts(table, k)
          THEN /\ table' = Advance(table, k, v, i)
               /\ UNCHANGED <<spilled, stack>>
          ELSE \E order \in SetToSeqs(DOMAIN table) :
                 /\ stack' = DumpHybridHashtable(table, stack, spilled, order)
                 /\ spilled' = TRUE
                 /\ table' = Advance(EmptyTable, k, v, i)
  /\ UNCHANGED <<filled, iter, aggDone, out, rescans>>

(* The child is exhausted: dump_hashtable_if_spilled (dump what is left,   *)
(* load the first batch), table_filled, and the iterator is reset only if *)
(* nothing spilled (LoadHybridHashtable initialised it otherwise).         *)
FillDone ==
  /\ ~filled
  /\ filled' = TRUE
  /\ IF spilled
     THEN \E order \in SetToSeqs(DOMAIN table) :
            \E dumped \in {DumpHybridHashtable(table, stack, TRUE, order)} :
            \E ld \in {LoadHybridHashtable(dumped)} :
               /\ stack' = ld.stack
               /\ table' = ld.table
               /\ iter' = DOMAIN ld.table
     ELSE /\ iter' = DOMAIN table
          /\ UNCHANGED <<table, stack>>
  /\ UNCHANGED <<input, spilled, aggDone, out, rescans>>

(* agg_retrieve_hash_table returns the next entry of the table.           *)
EmitGroup ==
  /\ filled /\ ~aggDone
  /\ \E k \in iter :
       /\ out' = Append(out, [key  |-> k,
                              val  |-> AT!finalize_aggregate(table[k].pg),
                              rows |-> table[k].rows])
       /\ iter' = iter \ {k}
  /\ UNCHANGED <<input, table, spilled, stack, filled, aggDone, rescans>>

(* The iterator is exhausted but batches remain: ResetHybridHashtable and *)
(* LoadHybridHashtable, then continue.                                     *)
NextBatch ==
  /\ filled /\ ~aggDone /\ iter = {}
  /\ ~HybridHashtableLoadDone
  /\ \E ld \in {LoadHybridHashtable(stack)} :
        /\ stack' = ld.stack
        /\ table' = ld.table
        /\ iter' = IF ld.init THEN DOMAIN ld.table ELSE {}
  /\ UNCHANGED <<input, spilled, filled, aggDone, out, rescans>>

(* No more entries and no more batches: the only hash table is done.      *)
Finish ==
  /\ filled /\ ~aggDone /\ iter = {}
  /\ HybridHashtableLoadDone
  /\ aggDone' = TRUE
  /\ UNCHANGED <<input, table, spilled, stack, filled, iter, out, rescans>>

(* ExecReScanAgg for AGG_HASHED after the table was filled.  "reuse":     *)
(* no parameter change, so the existing table is rescanned by resetting   *)
(* perhash[0]'s iterator.  "rebuild": the hash context is reset, the      *)
(* table rebuilt empty (build_hash_table clears spilled and spill_set)    *)
(* and the child rescanned.                                                *)
ExecReScanAgg ==
  /\ filled
  /\ rescans < MaxRescans
  /\ rescans' = rescans + 1
  /\ aggDone' = FALSE
  /\ out' = <<>>
  /\ \E mode \in RescanModes :
       \/ /\ mode = "reuse"
          /\ iter' = DOMAIN table
          /\ UNCHANGED <<input, table, spilled, stack, filled>>
       \/ /\ mode = "rebuild"
          /\ input' = <<>>
          /\ table' = EmptyTable
          /\ spilled' = FALSE
          /\ stack' = <<>>
          /\ filled' = FALSE
          /\ iter' = {}

Retrieve == FillDone \/ EmitGroup \/ NextBatch \/ Finish

Next == FillRow \/ Retrieve \/ ExecReScanAgg

(* The consumer keeps calling ExecAgg until it returns NULL and the child  *)
(* returns finitely many rows, so the executor's own steps are weakly      *)
(* fair; rescans are the caller's choice and get no fairness.              *)
Spec == Init /\ [][Next]_vars /\ WF_vars(Retrieve)


-----------------------------------------------------------------------------
(* Properties.  RowsOf(k) are the positions of group k's input rows and   *)
(* ValuesOf(k) its inputs in the order the child returned them.           *)
RowsOf(k) == {i \in DOMAIN input : input[i].key = k}
ValuesOf(k) == LET rs == SelectSeq(input, LAMBDA r : r.key = k)
               IN [j \in DOMAIN rs |-> rs[j].val]

Record == [key : Keys, hash : Nat, pg : [transValue : Int \cup Vals,
           transValueIsNull : BOOLEAN, noTransValue : BOOLEAN,
           transValueMem : {"none"}],
           rows : SUBSET (1 .. MaxRows)]
SpillSetOK(s) == /\ s.cur \in 0 .. NumFiles(s)
                 /\ \A j \in DOMAIN s.files :
                      s.files[j].exists \/ s.files[j].recs = <<>>

(* Type invariant.                                                         *)
TypeOK ==
  /\ input \in Seq([key : Keys, val : InputVals])
  /\ DOMAIN table \subseteq Keys
  /\ Cardinality(DOMAIN table) <= nentries
  /\ spilled \in BOOLEAN /\ filled \in BOOLEAN /\ aggDone \in BOOLEAN
  /\ \A d \in DOMAIN stack : SpillSetOK(stack[d])
  /\ iter \subseteq DOMAIN table
  /\ rescans \in 0 .. MaxRescans

(* The places that hold folded rows: the entries the iterator has still   *)
(* to return (all entries while filling), the records of batch files not  *)
(* yet read on the spill-set chain, and the rows already emitted.          *)
Pending == IF filled THEN iter ELSE DOMAIN table
UnreadRecords ==
  UNION {{<<d, j, n>> : n \in DOMAIN stack[d].files[j].recs} :
           <<d, j>> \in {<<d, j>> \in (DOMAIN stack) \X (0 .. NBatches + Len(stack)) :
                           j \in stack[d].cur .. NumFiles(stack[d]) - 1}}
RecordAt(t) == stack[t[1]].files[t[2]].recs[t[3]]
Holders(i) ==
  Cardinality({k \in Pending : i \in table[k].rows})
  + Cardinality({t \in UnreadRecords : i \in RecordAt(t).rows})
  + Cardinality({j \in DOMAIN out : i \in out[j].rows})

(* Spilling, reloading, merging and overflowing into child sets never     *)
(* lose or duplicate a row: at every moment each row the child returned is *)
(* folded into exactly one pending entry, unread spill record or emitted  *)
(* group (DumpHybridHashtable / LoadHybridHashtable / tuplehash_reset).   *)
RowsAccountedOnce == \A i \in DOMAIN input : Holders(i) = 1

(* agg_retrieve_hash_table never returns two rows for the same group in   *)
(* one scan, even when the group's records were split across batches and  *)
(* spill levels.                                                           *)
NoDuplicateGroup ==
  \A a, b \in DOMAIN out : a # b => out[a].key # out[b].key

(* Every emitted group carries the aggregate of exactly its own input     *)
(* rows: the states rebuilt from spill records with combine_transition    *)
(* give what a single in-memory pass would (the SQL reference).            *)
GroupResultCorrect ==
  \A j \in DOMAIN out : /\ out[j].rows = RowsOf(out[j].key)
                        /\ out[j].val = Reference(ValuesOf(out[j].key))

(* Once ExecAgg has returned NULL, every group of the input was emitted   *)
(* in this scan, including after a rescan of the filled table.            *)
AllGroupsEmitted ==
  aggDone => {out[j].key : j \in DOMAIN out} = {input[i].key : i \in DOMAIN input}

(* The node always finishes: retrieval walks the spill-set chain depth    *)
(* first and returns NULL after the root set is exhausted.                *)
Termination == ~aggDone ~> aggDone

=============================================================================
