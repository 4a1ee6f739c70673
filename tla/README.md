# TLA+ models of the OpenTenBase aggregation executor (nodeAgg.c)

This directory holds TLA+ models of `src/src/backend/executor/nodeAgg.c`, the
executor node for `Agg`, and the TLC configurations that check them. Each
definition is translated from that file. `PROJECT.json` maps every modelled
definition to the lines it stands for.

## 1. The system

`nodeAgg.c` evaluates aggregates (`count`, `max`, ...) over groups of input
rows. Its parts, and how they interact:

| Part | Code | State | Operations |
|---|---|---|---|
| Per-group transition | `initialize_aggregate`, `advance_transition_function`, `advance_combine_function`, `combine_transition`, `finalize_aggregate` | `AggStatePerGroupData`: `transValue`, `transValueIsNull`, `noTransValue` | init, advance by one input, merge two states, finalise |
| Sorted / plain retrieval | `agg_retrieve_direct`, `initialize_phase`, `select_current_set` | phase, `projected_set`, `input_done`, `agg_done`, per-set group states | one output row per call; rollups over grouping sets; phase switch with re-sort |
| Hashed retrieval | `agg_fill_hash_table`, `lookup_hash_entry`, `agg_retrieve_hash_table` | per-hash-set `TupleHashTable` and iterator, `table_filled` | fill the table from the whole input, then emit one entry per call |
| Hybrid hash table (TBase) | `OptimizeHybridHashtableSize`, `DumpHybridHashtable`, `LoadHybridHashtable`, `HybridHashtableLoadDone`, `ResetHybridHashtable`, `dump_hashtable_if_spilled` | `spilled`, a chain of `SpillSet`s (`num_files`, `current_file`, `spill_file[]`, parent), batch files of records (hash, group key, per-group states) | dump a full table to batch files; reload one batch per call, overflowing into a child set of `num_files + 1` batches |
| MIXED strategy | `agg_retrieve_direct` with `perhash` | sorted phases plus hash tables filled during phase 1 | hashed sets emitted after the sorted phases |
| Partial aggregation | `finalize_partialaggregate`, `combine_aggregates`, `finalize_aggregates` (SKIPFINAL), the aggsplit choices of `ExecInitAgg`, its sharing of perags and transition states (`find_compatible_peragg`, `find_compatible_pertrans`) | per-group states of a partial and a finalize node | partial nodes return transition states, serialised when INTERNAL; the finalize node combines them, deserialising, and runs the final function |
| Ordered/DISTINCT inputs | `advance_aggregates` (sort branch), `process_ordered_aggregate_single/_multi`, `initialize_aggregate` | `pertrans->sortstates[set]`, one tuplesort per grouping set | put each row into every set's sort; at finalization sort, de-duplicate and advance; end the sort |
| Parallel redistribution (TBase) | `ReDistribute*`, `GetReDistribute*` | shared ring buffer per worker pair (`head`, `tail`), overflow BufFile per worker, status per worker | route each row to the worker that owns its hash; busy-wait barriers on the statuses |
| Rescan | `ExecReScanAgg` | all of the above | reuse the hash table or reset and rebuild |

The interactions that matter:
- Both retrieval paths call the transition machinery.
- The hybrid table changes hashed retrieval. A group's rows can be split
  across several dumps, and the group's state is then rebuilt from several
  records by `combine_transition`.
- `ExecReScanAgg` decides whether the filled table is reused.
- Redistribution feeds the hash fill in parallel workers.
- A DISTINCT or ORDER BY aggregate in a sorted rollup keeps one sort per
  grouping set: every row goes into all of them, and each set's sort is
  consumed and ended when that set's group is projected, then reopened by
  the partial reset `initialize_aggregates(numReset)`.

Hard behaviours:
- A table that fills up in the middle of the input.
- A reloaded batch that again does not fit. Its overflow goes to a child
  set, read depth first.
- The end-of-scan test across the spill-set chain.
- A strict combine function meeting a state that is still NULL.
- A rescan after spilling.
- Busy-wait barriers between workers, and ring buffers without memory
  barriers.

## 2. Modules

| Module | Models | State and actions |
|---|---|---|
| `AggTransition` | the per-group transition functions | Pure operators on the record `[transValue, transValueIsNull, noTransValue, transValueMem]`. The support functions, their strictness, the initcond, `transtypeByVal` and the kind of pointer a by-reference function returns (its first argument, its second, a new palloc, or an expanded object owned by aggcontext) are CONSTANTS. `transValueMem` says where a by-reference state points: the aggregate context, the input tuple, the per-tuple context or the shared initValue (`"none"` for by-value types, as in `HybridHashAgg` and `SortedAgg`). A NULL input reaches a function as Datum 0, as `ExecInitAgg` stores it. |
| `HybridHashAgg` | AGG_HASHED with the hybrid table, one hashed grouping set | VARIABLES `table` (key → entry), `spilled`, `stack` (the spill-set chain, root first, from `spill_set`/`parent_spill_set`), `filled` (`table_filled`), `iter` (entries the iterator has still to return), `aggDone`, plus the history `input`, the output `out` and `rescans`. |
| `MCHybridHashAgg` | TLC instances | keys, hashes and the two aggregates `count` and `max` |
| `ReDistribute` | the TBase redistribution between parallel workers | VARIABLES per worker: `pc` (where it is in `agg_fill_hash_table`), `status` (`state->status[]`), `inp` (rows its child still returns), `merged`, `mfile` (opened peer files not yet read), `index`, `nDone`, `closed` (`BufFileClose(aggfile[i])` done), `got` (rows given to `lookup_hash_entries`), `why` (error raised), `sb` (its ring stores not yet visible to the peers, in order). Per ordered pair: `buf` (ring: `head`, `tail`, byte cells) and `file` (the producer's BufFile for that peer). Also `key` (each row's hash, chosen in Init), `published`, `failures`. |
| `MCReDistribute` | TLC instance | two workers, five rows |
| `Exchange` | what redistribution promises | VARIABLES `owner`, `pending[w]`, `transit` (set of rows on their way), `agg[w]`, `phase[w]` (produce, consume, consumed, done, failed). Actions `Produce`, `EndProduce`, `Deliver`, `Consumed`, `Finish`, `Fail`. `ReDistribute` refines it. |
| `SortedAgg` | `agg_retrieve_direct`: AGG_PLAIN, AGG_SORTED with grouping sets and phases, AGG_MIXED | VARIABLES `phase` (`current_phase`), `src`/`pos` (the child or `sort_in`, and rows fetched), `sortOut` (`sort_out`), `inputDone`, `aggDone`, `projSet` (`projected_set`), `grpFirst` (`grp_firstTuple`), `firstSlot`, `pc` ("top" is the head of the while loop, "loop" the inner `for(;;)`), `pergroup` (per grouping set: the transition state, the ghost `rows`, and for ordered input the set's sort `sort` with `sorting` for `sortstates[set] # NULL`), the hashed set `htable`, `hspilled`, `hstack`, `hiter`, `filled`, and the history `input`, `out`, `rescans`. It instances `AggTransition` and, for AGG_MIXED, `HybridHashAgg` over its own hash variables (`INSTANCE ... WITH`). |
| `TwoStageAgg` | a parallel plain aggregate: partial Aggs in workers, a Gather, a finalize Agg | VARIABLES `input` (each worker's rows, a history), `pos`, `partial[w][t]` (each worker's state per transno), `sent`, `gather` (partial rows, one column per partial aggno, returned and not yet read), `top[t]` (the finalize node's states), `result` (per Aggref). `AggTransition` is instanced once per aggregate function (`AT(a) == INSTANCE AggTransition WITH ...`). The setup of each node, `PartialSetup` and `FinalSetup`, is computed by the RECURSIVE `ExecInitAggAggs` from `find_compatible_peragg` and `find_compatible_pertrans`. |
| `MCTwoStageAgg` | TLC instance | `SELECT max(x), min(x), sum(x::int8), avg(x::int8), avg(x::int4), avg(x::int8)` over two workers |
| `MCSortedAgg` | TLC instances | columns `a`, `b` over {0, 1}; rollup, plain, group-by, mixed and CUBE-mixed phase layouts; `count`, `count(DISTINCT x)` and the user-defined non-strict `digits(x)` (appends a base-4 digit per input, so its value records the order and multiplicity of what the transition function saw) |

Actions of `HybridHashAgg`:
- `FillRow` is one iteration of `agg_fill_hash_table`. It covers
  `lookup_hash_entry`, including the dump-and-retry when the table is full
  and the key is new, followed by `advance_aggregates`. The iteration order
  of the dump is chosen freely.
- `FillDone` is end of input. It runs `dump_hashtable_if_spilled` (dump,
  then load the first batch) and sets `table_filled`. The iterator is reset
  only when the table did not spill.
- `EmitGroup` is `agg_retrieve_hash_table` returning an entry.
- `NextBatch` is that function finding the iterator exhausted while
  `HybridHashtableLoadDone` is false. It runs `ResetHybridHashtable` and
  `LoadHybridHashtable`.
- `Finish` is the same situation when the load is done: `agg_done` is set
  and NULL is returned.
- `ExecReScanAgg` is the AGG_HASHED part of the rescan. "reuse" means no
  parameter changed, and the iterator is reset. "rebuild" means the context
  is reset, `build_hash_table` runs (which clears `spilled` and `spill_set`)
  and the child is rescanned.

`LoadHybridHashtable` is built from `SeekFile` and `ReadSpillRecord`:
- `SeekFile` skips NULL file slots. When a set is exhausted it climbs to the
  parent, which is the `goto RETRY`.
- `ReadSpillRecord` handles one record:
  - a key already in the table is merged with `combine_transition`;
  - a new key takes a free slot;
  - when the table is full, the record goes to the child set at
    `hash % num_files`, where the child has `num_files` one larger than its
    parent.
- After the whole file is read, a child set, if one was created, becomes
  the current spill set.

Actions of `ReDistribute`, one per call of a worker:
- `ReDistributeInitializeWorker`: status Init (`InitializeReDistribute`
  creates the files).
- `ReDistributeData`: one fetched row.
  - A row for the worker itself is aggregated.
  - Any other row goes into the ring for its owner if
    `ReDistributeBufferFreeSize >= dataLen + sizeof(int)`, and into the
    overflow file otherwise.
  - The peers are then scanned from the owner on. The first ring towards
    this worker with free space below `(size/4)*3` gives up one row, which
    is aggregated in place of the sent one.
- `ReDistributeShareBufFile`: flush, publish the file names, ProduceDone.
- `GetReDistributeBufFile(w, i)`: one loop iteration that finds peer `i`
  at or past ProduceDone and opens its file for `w`.
  `GetReDistributeBufFileError` is the else branch: `i` (merged already,
  or not yet produced) in Error, or
  `ParallelError()` set.
- `GetReDistributeData`: returns one row, taken from the rings from
  `*index` on, then from the opened files. When nothing is left it sets
  ConsumeDone.
- `ConsumeDoneBarrier`: one iteration of the busy-wait that moves `nDone`
  on or raises the peer error. While `BarrierWaits` holds, it is disabled:
  a spin changes nothing.
- `ReDistributeBufferCheck`: close the files, then the caller's
  "data left in ReDistributeBuffer" check on the worker's outgoing rings.
- `StoreBufferDrain`: the oldest queued ring store of a worker (the
  bytes of a record, `head`, or `tail`) becomes visible to its peers.
- `InjectedError`: an error raised by any other code, followed by
  `ReDistributeEreport`.

Actions of `SortedAgg`, in the order of `agg_retrieve_direct`:
- At the head of the while loop (`pc = "top"`):
  - `NextPhase`: the current phase's input is done and its last set
    projected. `initialize_phase` moves to the next sorted phase:
    `sort_out` is sorted for the new phase's columns (ties in any order)
    and becomes `sort_in`. In AGG_MIXED after the last sorted phase,
    `StartHashPhase` switches to phase 0 (`table_filled`, iterator reset).
    Otherwise `DirectDone` sets `agg_done` and returns NULL.
  - `ProjectNextSet`: the next, coarser rollup set is projected when the
    pending row differs from the group on that set's `nextSetSize`
    columns, or the input is done. `initialize_aggregates(numReset)`
    resets the sets up to `numReset`.
  - `StartGroup`: a new group starts with the pending row or the first
    fetched row. `NoInput` is the no-input case: only the empty
    grouping sets return a row (and AGG_PLAIN its one row).
- In the inner loop (`pc = "loop"`), `AdvanceRow` runs
  `advance_aggregates` for every set and, in AGG_MIXED phase 1,
  `lookup_hash_entries`. It then fetches the next row, copies it to
  `sort_out`, and tests the group boundary on `numCols`. At the end of the
  input it runs `dump_hashtable_if_spilled`, in every phase, as the code
  does.
- DISTINCT / ORDER BY input (`NumSortCols = 1`): `advance_aggregates`
  puts the row into every set's sort instead of advancing (`AdvanceSet`;
  a NULL for a strict transition function is left out). Wherever a set is
  projected (`AdvanceRow`, `ProjectNextSet`, `NoInput`), `Finalizations`
  sorts the set's rows in any order the comparator accepts and runs
  `process_ordered_aggregate_single` (a Datum sort when the input is the
  only column; DISTINCT skips a value equal to the last one passed on,
  two NULLs being equal) or `process_ordered_aggregate_multi` (a tuple
  sort of input and ORDER BY column), both RECURSIVE folds. The set's
  sort is then ended. `initialize_aggregate` opens a fresh one, and
  `ExecReScanAgg` ends the open ones.
- Phase 0 (AGG_MIXED) is `agg_retrieve_hash_table`: `EmitHashGroup`,
  `NextHashBatch` and `FinishHash` use `HybridHashAgg`'s operators.
- `ExecReScanAgg` resets the node and rescans the child. The child
  returns the same rows again: a rescan on other rows is the same as a
  fresh initial state, which `Init` already covers.

The child's rows come sorted by phase 1's columns, and `Init` takes every
such sequence of up to `MaxRows` rows (`ChildScans`). Rows carry a ghost
id, and emitted rows carry the ids folded into them.

Setup in `TwoStageAgg`: `ExecInitAggAggs` is the loop of `ExecInitAgg`
over `aggstate->aggs` (lines 4157-4535). For each Aggref it looks for an
equal earlier one (`find_compatible_peragg`) and reuses that peragg.
Otherwise it opens a new peragg and looks among the same-input perags for
a transition state it can share (`find_compatible_pertrans`). The result
maps every Aggref to an aggno and every aggno to a transno. In the
finalize node the argument of an Aggref is its partial output column, so
the partial node's sharing of sum and avg of int8 is not repeated there.
Every action reads and writes states by transno and results by aggno.

Actions of `TwoStageAgg`:
- `PartialAdvance(w)`: one row of the worker's child, run through
  `advance_aggregates` (the non-COMBINE branch at line 3304).
- `PartialEmit(w)`: the child is exhausted and the worker returns its one
  row. This is AGG_PLAIN, so a worker without rows returns its initial
  states. The row is built by `finalize_aggregates` in SKIPFINAL mode,
  that is `finalize_partialaggregate`. An INTERNAL state is serialised,
  except that a strict `serialfn` is skipped for a NULL state.
- `FinalCombine`: the finalize node reads any partial row the Gather has,
  through `combine_aggregates`. For an INTERNAL state that is a strict
  `deserialfn` that skips NULL, then `advance_combine_function` with the
  combine function as the node's transition function.
- `FinalFinish`: `finalize_aggregate`, with the final function, which
  `ExecInitAgg` keeps only for the non-SKIPFINAL node.
The Gather itself (`nodeGather.c`) is only the freedom to deliver the
partial rows in any order.

The ring is kept byte by byte. Each cell holds the row whose record wrote
it last, and a record whose cells were partly overwritten decodes to
`Garbage`. `FreeSize`, `PutData` and `GetData` are the code's arithmetic,
wrap-around included.

Each call is one step that does its loads and queues its ring stores, in
program order, in the worker's store buffer `sb`: `ReDistributeBufferPutData`
queues the record's bytes and then `head`, `ReDistributeBufferGetData`
queues `tail`. `StoreBufferDrain` makes them visible one at a time, in
order, as x86 (TSO) does with plain stores. The worker's next call waits
until its buffer has drained (`Step`), so the status words and file names
it publishes never overtake earlier ring stores; FIFO order gives the same.
A peer can so run between a record's bytes and its `head` becoming
visible, and a producer can see a `tail` its reader has already moved past
(it then under-estimates the free space). The properties read the rings
as they are once every buffer has drained (`Drained`).

Two things are not in `src/` and are parameters:
- the order of the status enum (`ErrorDeclaredLast`);
- `ParallelError()`, modelled as "some worker has failed".

`ReDistribute` refines `Exchange` (`Exch == INSTANCE Exchange WITH ...`).
The refinement mapping:
- a row is in `transit` while it is a ring record, in a file its reader
  has not opened, or in an opened file not yet read. `RowsConserved`
  shows that these are exactly the rows fetched and not yet aggregated,
  which is how the mapping computes it, without decoding the rings;
- `agg` is `got`;
- the phase follows `pc`: init/produce → produce, merge/consume →
  consume, barrier → consumed.
The merge of files and the barrier's steps are stuttering steps of
`Exchange`. `ReDistributeData` maps to `Produce`, which may also
deliver one of the worker's own rows.

Entries, records and emitted rows carry a ghost set `rows`: the input
positions folded into them. It never influences a step. The accounting
properties are stated over it.

Abstractions:
- Keys are model values, and their hash is a constant function.
- An entry counts as one unit of `work_mem`.
- Record bytes, memory contexts, by-reference Datums and
  serialisation/deserialisation are not modelled here. The ownership of
  by-reference states is checked in `TwoStageAgg`, over the same
  `AggTransition` operators.
- One aggregate and no HAVING qual, so every entry is emitted (the qual of
  `project_aggregates` is modelled in `SortedAgg`, for both retrieval paths).
- The modified simplehash insert (`tuplehash_insert_with_key`, not in this
  file) is taken to probe before it checks capacity. A key already present
  is found even when the table is full. That is what lets
  `lookup_hash_entry` return a NULL entry only for a new key.

## 3. Properties and runs

Properties (in `HybridHashAgg`):
- `TypeOK`: the type invariant. Among other things, the table never holds
  more than `nentries` entries and `current_file` stays within
  `0..num_files`.
- `RowsAccountedOnce`: every input row is folded into exactly one pending
  entry, unread spill record or emitted group, at every moment, through
  dumps, reloads and child sets.
- `NoDuplicateGroup`: no group is emitted twice in one scan.
- `GroupResultCorrect`: every emitted group holds exactly its own rows, and
  its value is the SQL result over its inputs (`Reference`).
- `AllGroupsEmitted`: once `agg_done` is set, every group of the input has
  been emitted in this scan.
- `Termination`: `~aggDone ~> aggDone`.

| Run | Cfg | Expect | What it shows |
|---|---|---|---|
| `hash_spill_count` | `MCHybridHashAgg_count.cfg` | pass | `count(x)` with NULL inputs, through all spill paths and rebuilding rescans: all six properties hold (about 72k states, 45 s). |
| `hash_rescan_reuse` | `MCHybridHashAgg_reuse.cfg` | pass | After a rescan that reuses the table, no group is duplicated, every value is right, and the scan ends (about 103k states). |
| `hash_spill_max_null` | `MCHybridHashAgg_maxnull.cfg` | violation | `max(int4)` gives 0 for a group whose inputs are NULL, -1 (finding 1). |
| `redistribute` | `MCReDistribute.cfg` | pass | Two workers exchange five rows, with one error allowed at any point: ring stores made visible late through TSO store buffers: all `ReDistribute` properties hold (about 175k states, 1 min). |
| `redistribute_error_last` | `MCReDistribute_errorlast.cfg` | violation | With Error declared last, a worker fails on "data left in ReDistributeBuffer" with no error anywhere (finding 3). |
| `twostage` | `MCTwoStageAgg.cfg` | pass | `max(x)`, `min(x)`, `sum(x::int8)`, `avg(x::int8)`, `avg(x::int4)` a second `avg(x::int8)` and `max(x::numeric)` over two workers, with NULL rows and workers without rows: the two-stage results equal the one-stage ones, and every by-reference state lives in its group's aggregate context (about 4k states). |
| `hash_rescan_reuse_lost` | `MCHybridHashAgg_reuse_lost.cfg` | violation | The reusing rescan of a spilled table loses groups (finding 2). |
| `sorted_rollup` | `MCSortedAgg_rollup.cfg` | pass | GROUPING SETS ((a,b),(a),(),(b)) in two sorted phases, up to three rows, with a rescan, aggregating `digits(DISTINCT x)`: every set's GROUP BY result with each distinct input once in sort order, each group once, in rollup order, and every per-set sort open when used (about 37k states). |
| `sorted_mixed` | `MCSortedAgg_mixed.cfg` | pass | AGG_MIXED with one sorted rollup phase and a hashed set (a,b) that spills: right values, no duplicates, all groups, and termination (about 7k states, 40 s). |
| `sorted_plain` | `MCSortedAgg_plain.cfg` | pass | No GROUP BY, `digits(x ORDER BY b)` over up to three rows: exactly one row, also without input, whose value folds the inputs in an order ascending in b (the multi-column path; about 6k states). |
| `sorted_group` | `MCSortedAgg_group.cfg` | pass | GROUP BY a without grouping sets, `count(DISTINCT x)` over inputs 1, 2 and NULL and HAVING `count(DISTINCT x) > 1`: one right row per group that passes HAVING, none without input (about 10k states). |
| `mixed_two_sorted_phases` | `MCSortedAgg_cube_mixed.cfg` | violation | CUBE (a,b) in AGG_MIXED with two sorted phases loses a hashed group (finding 4). |

Properties (in `ReDistribute`):
- `TypeOK`: among other things, `head` and `tail` stay inside the ring.
- `RowsConserved`: every fetched row is, at every moment, in exactly one
  place: aggregated, one ring record, or one file. This holds through
  wrap-around, overflow, the reads made while producing, and stores that
  are not yet visible. No record decoded from overwritten bytes is
  aggregated. The mutant `PutDataHeadFirst` makes `head` visible before
  the bytes, as ARM or POWER may, and breaks it.
- `DeliveredToOwner`: a worker aggregates only rows that hash to it.
- `AllRowsAggregated`: when every worker is done, every row was
  aggregated exactly once by its owner.
- `FilesOutliveReaders`: a worker closes (deletes) its files only after
  every peer is ConsumeDone or failed.
- `NoSpuriousError`: a worker fails only because of an error raised
  elsewhere, or because a peer failed. It never fails on a file it cannot
  open, or on data left in a ring.
- `Termination`: every worker eventually leaves the node, done or failed.
  This covers a peer that errors in either busy-wait, before or after it
  has a status.
- `ExchangeRefinement`: `Exch!Spec` holds. Every step moves a row only
  from input to its owner or into transit, and from transit to its owner.
  A worker sets ConsumeDone only when every peer is past producing and no
  ring or file holds a row for it. That relies on the `*index` scan of
  `GetReDistributeData` never skipping a ring that could still be
  written. A worker passes the barrier only when every worker is
  ConsumeDone or failed.

Properties (in `SortedAgg`; an output row is `<<phase, set, key>>`, and
phase 0 is the hashed set):
- `TypeOK`: among other things, `sort_out` is empty whenever the current
  phase does not write one.
- `GroupResultCorrect`: every returned row aggregates exactly the input
  rows of its group, and its value is one SQL allows (`Reference` is the
  set of them: one value, or for ORDER BY on a column with ties, one per
  order of the tied rows).
- `SortsOpenWhenUsed`: for ordered input, every set's sort is open in the
  inner loop (where every set's sort is fed), and at the head of the loop
  every set still to be projected has an open sort. Finalization leaves
  the sort NULL, so this checks that `numReset` reopens exactly the sets
  projected since, across rollup boundaries, the empty-input path, phase
  switches and rescans.
- `NoDuplicateGroup`: no group of any set is returned twice in a scan.
- `AllGroupsEmitted`: once `agg_done` is set, the returned groups are
  exactly the GROUP BY result of every set, less the groups the HAVING
  qual rejects (`project_aggregates` returns NULL for them and the loop
  goes on). Without input, that is one row
  per empty set, or AGG_PLAIN's one row. In AGG_MIXED it includes the
  hashed set's groups.
- `RollupOrder`: a coarser set's row comes after every finer row inside
  its group.
- `Termination`: `~aggDone ~> aggDone`.

Property (in `TwoStageAgg`):
- `TwoStageCorrect`: for every split of the rows between the workers and
  every order of the partial rows, each Aggref returns its aggregate's
  result over all rows at once (`Reference`), whatever states the setup
  shared.
- `StatesOwnTheirMemory`: between two calls, every non-NULL state of a
  pass-by-reference type, in every worker and in the finalize node, points
  into its group's aggregate context. It does not point into the input
  tuple or the per-tuple context, which are released when the next row
  arrives, nor at the shared initValue, which an in-place transition
  function would then overwrite for every later group. It depends on the
  copies in `initialize_aggregate`, in the first-input and adopt branches,
  and after each call whose result is not the state pointer.

Every property of a passing run has a mutant in `PROJECT.json`: a faulty
variant of a mapped definition, defined just before it, that TLC then
catches:
- an off-by-one capacity test (TypeOK);
- a child set that is never made current (RowsAccountedOnce);
- a capacity test before the probe (NoDuplicateGroup);
- a strict transition called on NULL (GroupResultCorrect);
- a load-done test that ignores the parent (AllGroupsEmitted), or that
  misses the NULL spill set (Termination);
- redistribution: a head that does not wrap (TypeOK); a tail that skips
  the length prefix (RowsConserved); the file index
  `self * n + i` in place of `i * n + self` (DeliveredToOwner); files
  left unread (AllRowsAggregated); a barrier that waits only for
  ProduceDone (FilesOutliveReaders); names never published
  (NoSpuriousError); a barrier that also spins on Error (Termination);
  a merge that takes a peer that has only initialised as produced
  (ExchangeRefinement);
- sorted: `sort_out` left over at a phase switch (TypeOK); an off-by-one
  `numReset` (SortsOpenWhenUsed, rollup); DISTINCT that does not treat two
  NULLs as duplicates (GroupResultCorrect, rollup); the multi-column path
  loading the ORDER BY column instead of the input (GroupResultCorrect,
  plain); a re-sort for the wrong phase
  (NoDuplicateGroup); no empty set returned without input
  (AllGroupsEmitted, rollup); `nextSetSize` taken as `numCols`
  (RollupOrder); AGG_PLAIN returning NULL without input (AllGroupsEmitted,
  plain); a boundary test off by one column (GroupResultCorrect, group); HAVING
  ignored (AllGroupsEmitted, group);
- two-stage: a strict combine that does not adopt the first non-NULL
  state; final functions run in the SKIPFINAL node; a strict `deserialfn`
  called on a NULL partial state; a transition state shared without
  comparing the transition functions, so min and max share one (all
  TwoStageCorrect); a returned by-reference value kept where the function
  left it; a first input or adopted state not copied; a group starting from
  the initValue itself (all StatesOwnTheirMemory);
- mixed: the last row not advanced (GroupResultCorrect); a dump that keeps
  the table (NoDuplicateGroup); no dump at the end of the input
  (AllGroupsEmitted); the load-done test that misses the NULL spill set
  (Termination).

### Findings

1. **combine_transition on a NULL state** (line 2557). The branch that
   adopts the incoming state when `noTransValue` is set is under `#if 0`.
   - When a group's first reloaded record is still a NULL state, the next
     record of that group is merged by calling the strict combine function
     on Datum 0.
   - For `max` that gives `max(0, -1) = 0`.
   - `advance_combine_function` handles the same case correctly.
2. **Rescan of a spilled table** (line 5100). With no parameter change,
   `ExecReScanAgg` only resets the iterator of `perhash[0]`'s table. After
   spilling, that table holds only the last batch loaded, and the spill
   files have been consumed.

3. **Status enum order** (line 5964, spec gap).
   - The ConsumeDone barrier waits only while `Error < status < ConsumeDone`.
   - `GetReDistributeBufFile` treats `status >= ProduceDone` as produced.
   - Both are right only if `ReDistribute_Error` is declared before
     `None`. The enum is not in this file, and spec section 4.6 lists Error
     after the lifecycle without fixing its position.
   - With Error declared last, the barrier never waits. A worker closes
     its files and checks its rings while its peer has not consumed them,
     and fails with "data left in ReDistributeBuffer".
   - The passing run assumes Error is declared first.
4. **AGG_MIXED with several sorted phases** (line 3318). `agg_retrieve_direct`
   calls `dump_hashtable_if_spilled` at the end of every sorted phase's
   input, not only phase 1's.
   - After the first call the table holds batch 0. `LoadHybridHashtable`
     moved `current_file` past file 0 and closed its BufFile, but left the
     slot non-NULL.
   - The call at the end of phase 2 dumps that batch again.
     `DumpHybridHashtable` reuses the non-NULL slot, so the groups go into
     file 0, which is never read again.
   - TLC finds this for CUBE (a,b) with (a,b) hashed and the two rows (0,0)
     and (1,0), in 13 steps. The hashed group (0,0) is never returned.
   - In C the write goes through a closed BufFile, which may also crash or
     raise an ERROR. The model takes the outcome where the write succeeds
     and nobody reads it.

### Bounds

- Four keys.
- A table of one entry.
- `NBatches = 2`.
- `MaxRows = 4` rows per scan.
- One rescan.

The hashes 0, 6, 2 and 1 are chosen so that:
- three keys share root file 0;
- a reload of file 0 overflows into a child set of 3 files;
- two of those keys collide again (0 and 6 mod 3) and reach a grandchild
  set of 4 files;
- the fourth key sits in root file 1, which must still be read after the
  child sets are exhausted.

Four rows are enough to fill, dump twice, reload with a merge, and
overflow. NULL inputs are included for the strictness rules.

Redistribution bounds:
- Two workers. Worker 0 has three rows and worker 1 has two.
- Every key is hashed to 1, 2 or NULL, so every routing of the five rows
  is an initial state. With two workers, `(h % 4) % 2` sends 1 to worker 1,
  and 2 or NULL to worker 0.
- The ring is 8 bytes and a record is 3 (2 of data, a 1-byte length).
  - Two records fit; a third goes to the file.
  - A peer's ring is read once it holds one record.
  - Ring wrap-around and file overflow both occur; throwaway invariants
    confirmed this.
- One injected error.

Two-stage bounds:
- Two workers, each with up to two rows from {-2, 1, NULL}. Every split
  occurs: a worker without rows, one with only NULLs, and all orders in
  which the finalize node reads the partial rows.
- The six Aggrefs cover every outcome of the setup: a duplicate Aggref
  (a reused peragg), sum and avg of int8 (same inputs and transfn: one
  shared state in the partial node, none in the finalize node), and min
  and max (same inputs, type and initcond, different transfn: not shared).
- The aggregates cover these code paths:
  - max: a strict combine with a NULL initcond, so the first non-NULL
    partial state is adopted and NULL ones are skipped;
  - avg(int4): a non-NULL initcond and a strict final function; its
    int8[] state is pass-by-reference and updated in place, so it lives
    on the copy `initialize_aggregate` made;
  - max(numeric): pass-by-reference, with `numeric_larger` returning its
    first or its second argument, so the first input and the adopted
    partial state are copied, and so is every new maximum;
  - avg(int8): an INTERNAL state, with a strict `serialfn`/`deserialfn`
    and a non-strict transition, combine and final function. CREATE
    AGGREGATE rejects a strict combine function for INTERNAL.
- The states are encoded as integers. An int8[2] `{count, sum}` is
  `count * 32 + sum + 16`, and a `PolyNumAggState` pointer is that plus 1,
  with 0 for NULL. These encodings are exact for these bounds.

SortedAgg bounds:
- Two grouping columns over {0, 1}. One non-NULL input value and `count`
  in the mixed runs; inputs 1, 2 and NULL for the DISTINCT runs, so a
  group can hold duplicates, several NULLs, and values in and out of order.
- Up to three rows, in every order the sort allows. With ORDER BY b,
  three rows give ties on b between different inputs.
  This gives groups of one and two rows, rollup boundaries on the
  first and on the second column, and the empty input.
- The rollup layout has two phases: sets (a,b), (a) and () sorted by
  (a,b), then (b) re-sorted from `sort_out`. So both the partial reset and
  the phase switch occur.
- In the mixed runs the hash table holds one entry in two batches, so two
  distinct hashed keys force a spill. The hash is `a + 2b`.
- One rescan.

### Fairness

`Spec` is weakly fair on the executor's own steps (`FillDone`,
`EmitGroup`, `NextBatch`, `Finish`). This is justified by the executor
contract: the consumer calls `ExecAgg` until it returns NULL, and the child
returns finitely many rows.

`ReDistribute` is weakly fair per worker (`WF_vars(Step(w))`). Each
worker is a separate OS process, and its busy-waits call `pg_usleep` and
retry. Injected errors get no fairness. `CHECK_DEADLOCK FALSE` is set
because the system stops once every worker is done or failed.
`Termination` catches a worker stuck in a busy-wait.

`SortedAgg` is weakly fair on `Retrieve`, the executor's own steps, for
the same reason.

Rescans are the caller's choice and get no fairness. A finished scan
really stops, so the cfgs say `CHECK_DEADLOCK FALSE`.

## 4. What is not modelled yet, and the plan

In the order planned:

1. Partial aggregation with GROUP BY (hashed or sorted partial nodes),
   which uses the same per-group operators as `TwoStageAgg`.
2. `SortedAgg`: more than one hashed set in AGG_MIXED.
3. `ReDistribute` under a memory model weaker than TSO (ARM, POWER) as a
   run of its own: the mutant `PutDataHeadFirst` already shows that
   `head` becoming visible before the record's bytes breaks
   `RowsConserved`, so the code needs a write barrier there on those CPUs.
4. DISTINCT over several arguments (the `execTuplesMatch` branch of
   `process_ordered_aggregate_multi`) needs aggregates of two arguments;
   the modelled aggregates have one, so that branch is in the operator
   but never taken.

Left out on purpose:
- Setup and teardown beyond the sharing of perags and transition states
  (catalog lookups, permissions, expression and fmgr setup,
  `build_pertrans_for_aggref`, `ExecEndAgg`): one-shot catalog work. The
  TBase-only combine and serial functions a shared pertrans keeps from the
  aggregate that built it (line 4430) are listed as a hazard without a
  run.
- Target-list evaluation of the output tuple. The projection is modelled
  as the emitted `(phase, set, key, value)`.
- Byte layout of spill records and of redistributed rows (the
  `palloc0(nread)` buffer of `GetReDistributeData` that then receives
  `dataLen` bytes is a byte-size overflow the model cannot express).
- Ordered-set aggregates (WITHIN GROUP): `nodeAgg.c` gives them no sort
  (`numSortCols = 0`); their sorting is inside their support functions.
- Memory contexts.
- `ReDistributeEstimate` (shared-memory size arithmetic), the per-type
  tuple encodings of a redistributed row, and the data-type consistency
  checks: a query redistributes one tuple type.
