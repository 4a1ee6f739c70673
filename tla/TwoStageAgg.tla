----------------------------- MODULE TwoStageAgg -----------------------------
(***************************************************************************)
(* Two-stage (partial) aggregation in nodeAgg.c: a partial Agg in every   *)
(* worker (aggsplit INITIAL_SERIAL: SKIPFINAL and SERIALIZE) and, above a  *)
(* Gather, a finalize Agg (FINAL_DESERIAL: COMBINE and DESERIALIZE), both  *)
(* AGG_PLAIN over one group, as the planner builds them for parallel      *)
(* aggregates without GROUP BY.  The query has several Aggrefs (AggList); *)
(* at setup each node gives equal Aggrefs one peragg (aggno) and lets     *)
(* perags with the same inputs and transition function share one         *)
(* transition state (transno), as sum(x) and avg(x) of int8 do.           *)
(*                                                                         *)
(* A worker advances its state over its rows with the transition function, *)
(* then returns one row: finalize_aggregates in SKIPFINAL mode, that is    *)
(* finalize_partialaggregate, serialising an INTERNAL state.  The Gather  *)
(* hands the partial rows to the finalize Agg in any order; each goes      *)
(* through combine_aggregates (deserialise, then advance_combine_function, *)
(* the combine function acting as the node's transition function) and the  *)
(* node ends with finalize_aggregate and its final function.  A worker    *)
(* whose child returns no row still returns its initial state: AGG_PLAIN  *)
(* returns one row without input.                                          *)
(***************************************************************************)
EXTENDS Integers, Sequences, FiniteSets, SequencesExt

CONSTANTS
  Workers,          \* the processes running the partial plan
  Vals, NULL,       \* non-NULL input values, and NULL
  MaxRows,          \* bound: rows a worker's child returns
  AggList,          \* aggstate->aggs: the Aggrefs of the query in order,
                    \* records [fn |-> aggfnoid, arg |-> argument column]
  \* the catalog entries of aggregate a (pg_aggregate, pg_proc):
  AggTransFn(_, _, _), AggCombineFn(_, _, _), AggTransStrict(_), AggCombineStrict(_),
  AggInitValue(_), AggInitValueIsNull(_),
  AggTransType(_),  \* aggtranstype
  AggTransByVal(_), \* typbyval of aggtranstype
  \* the pointer the transition / combine function returns (AggTransition)
  AggTransFnReturns(_, _, _), AggCombineFnReturns(_, _, _),
  AggTransFnId(_), AggCombineFnId(_),       \* aggtransfn, aggcombinefn
  AggSerialFnId(_), AggDeserialFnId(_),     \* aggserialfn, aggdeserialfn
  SerialFn(_, _),   \* aggserialfn: state Datum -> bytea Datum
  DeserialFn(_, _), \* aggdeserialfn: bytea Datum -> state Datum
  SerialStrict(_), DeserialStrict(_),
  HasFinalFn(_),    \* OidIsValid(aggfinalfn)
  FinalFn(_, _),    \* aggfinalfn: state (or NULL) -> result (or NULL)
  FinalStrict(_),
  Reference(_, _)   \* the SQL result of a over a sequence of input values

AT(a) == INSTANCE AggTransition
           WITH TransFn <- LAMBDA s, v : AggTransFn(a, s, v),
                CombineFn <- LAMBDA s, v : AggCombineFn(a, s, v),
                TransStrict <- AggTransStrict(a),
                CombineStrict <- AggCombineStrict(a),
                InitValue <- AggInitValue(a),
                InitValueIsNull <- AggInitValueIsNull(a),
                TransByVal <- AggTransByVal(a),
                TransFnReturns <- LAMBDA s, v : AggTransFnReturns(a, s, v),
                CombineFnReturns <- LAMBDA s, v : AggCombineFnReturns(a, s, v)

(* aggtranstype = INTERNALOID: serialfn/deserialfn are used.               *)
Internal(a) == AggTransType(a) = "internal"

-----------------------------------------------------------------------------
(* ExecInitAgg's loop over aggstate->aggs, in the partial node ("partial", *)
(* INITIAL_SERIAL) and the finalize node ("final", FINAL_DESERIAL).  An   *)
(* Aggref of the finalize node takes as its one argument the partial      *)
(* node's output column of the same Aggref, that is its partial aggno.    *)
(* aggnos and transnos are numbered from 1 here, from 0 in the code.       *)
(* The Aggrefs have no volatile function, ORDER BY, DISTINCT or FILTER,   *)
(* one collation and aggkind normal: find_compatible_peragg's input test   *)
(* is on the argument and aggtranstype.                                    *)
NodeAggref(node, k, partialAggOf) ==
  IF node = "partial" THEN AggList[k]
  ELSE [fn |-> AggList[k].fn, arg |-> partialAggOf[k]]

(* transfn_oid: the combine function when the node combines; serialfn_oid *)
(* and deserialfn_oid only for an INTERNAL state, and only in the node    *)
(* that serialises, resp. deserialises, InvalidOid otherwise.             *)
TransFnOid(node, a) == IF node = "partial" THEN AggTransFnId(a) ELSE AggCombineFnId(a)
SerialFnOid(node, a) ==
  IF Internal(a) /\ node = "partial" THEN AggSerialFnId(a) ELSE "invalid"
DeserialFnOid(node, a) ==
  IF Internal(a) /\ node = "final" THEN AggDeserialFnId(a) ELSE "invalid"

(* The setup of a node: aggOf[k] is aggrefstate->aggno of the k-th Aggref, *)
(* aggref[j] the Aggref of peragg j, transOf[j] its transno and trans[t]  *)
(* the Aggref that built pertrans t.                                       *)
NoSetup == [aggOf |-> <<>>, aggref |-> <<>>, transOf |-> <<>>, trans |-> <<>>]

(* find_compatible_peragg: the first earlier peragg with the same inputs   *)
(* and the same aggfnoid (an exact match, aggtype and aggcollid follow     *)
(* from aggfnoid and the argument here), or -1 and the transnos of the     *)
(* perags with the same inputs.                                            *)
find_compatible_peragg(node, k, st, pAggOf) ==
  LET r == NodeAggref(node, k, pAggOf)
      same == {j \in DOMAIN st.aggref :
                 LET e == NodeAggref(node, st.aggref[j], pAggOf)
                 IN  e.arg = r.arg /\ AggTransType(e.fn) = AggTransType(r.fn)}
      exact == {j \in same : AggList[st.aggref[j]].fn = r.fn}
  IN  IF exact # {} THEN [aggno |-> Min(exact), transnos |-> {}]
      ELSE [aggno |-> -1, transnos |-> {st.transOf[j] : j \in same}]

(* Mutant: a pertrans shared without comparing the transition functions. *)
find_compatible_pertransIgnoringTransFn(node, k, st, transnos) ==
  LET a == AggList[k].fn
      ok == {t \in transnos :
               LET b == AggList[st.trans[t]].fn
               IN  /\ AggTransType(a) = AggTransType(b)
                   /\ SerialFnOid(node, a) = SerialFnOid(node, b)
                   /\ DeserialFnOid(node, a) = DeserialFnOid(node, b)
                   /\ \/ AggInitValueIsNull(a) /\ AggInitValueIsNull(b)
                      \/ /\ ~AggInitValueIsNull(a) /\ ~AggInitValueIsNull(b)
                         /\ AggInitValue(a) = AggInitValue(b)}
  IN  IF ok = {} THEN -1 ELSE Min(ok)

(* find_compatible_pertrans: among the transnos of same-input perags, one  *)
(* with the same transfn_oid, aggtranstype, serialfn_oid, deserialfn_oid  *)
(* and initial condition (both NULL, or both not NULL and datumIsEqual),  *)
(* or -1.  At most one qualifies: two that did would have been shared.    *)
find_compatible_pertrans(node, k, st, transnos) ==
  LET a == AggList[k].fn
      ok == {t \in transnos :
               LET b == AggList[st.trans[t]].fn
               IN  /\ TransFnOid(node, a) = TransFnOid(node, b)
                   /\ AggTransType(a) = AggTransType(b)
                   /\ SerialFnOid(node, a) = SerialFnOid(node, b)
                   /\ DeserialFnOid(node, a) = DeserialFnOid(node, b)
                   /\ \/ AggInitValueIsNull(a) /\ AggInitValueIsNull(b)
                      \/ /\ ~AggInitValueIsNull(a) /\ ~AggInitValueIsNull(b)
                         /\ AggInitValue(a) = AggInitValue(b)}
  IN  IF ok = {} THEN -1 ELSE Min(ok)

(* The loop over the Aggrefs from the k-th on: an exact match points the  *)
(* Aggref at the existing peragg; otherwise a new peragg (++aggno) that   *)
(* shares a compatible pertrans or builds a new one (++transno).           *)
RECURSIVE ExecInitAggAggs(_, _, _, _)
ExecInitAggAggs(node, k, st, pAggOf) ==
  IF k > Len(AggList) THEN st
  ELSE
    LET m == find_compatible_peragg(node, k, st, pAggOf)
        t == find_compatible_pertrans(node, k, st, m.transnos)
        aggno == Len(st.aggref) + 1
    IN  IF m.aggno # -1
        THEN ExecInitAggAggs(node, k + 1, [st EXCEPT !.aggOf = Append(@, m.aggno)], pAggOf)
        ELSE ExecInitAggAggs(node, k + 1,
               [aggOf |-> Append(st.aggOf, aggno),
                aggref |-> Append(st.aggref, k),
                transOf |-> Append(st.transOf,
                                   IF t # -1 THEN t ELSE Len(st.trans) + 1),
                trans |-> IF t # -1 THEN st.trans ELSE Append(st.trans, k)],
               pAggOf)

PartialSetup == ExecInitAggAggs("partial", 1, NoSetup, <<>>)
FinalSetup == ExecInitAggAggs("final", 1, NoSetup, PartialSetup.aggOf)

(* The aggregate function of peragg j and of pertrans t of a setup.        *)
AggFn(st, j) == AggList[st.aggref[j]].fn
TransAggFn(st, t) == AggList[st.trans[t]].fn

VARIABLES
  input,      \* input[w]: the rows worker w's child returns (history)
  pos,        \* rows of input[w] the worker has advanced over
  partial,    \* partial[w][t]: the worker's AggStatePerGroupData, per transno
  sent,       \* workers that have returned their partial row
  gather,     \* partial rows (one column per partial aggno) not yet read
  top,        \* top[t]: the finalize Agg's AggStatePerGroupData
  result      \* [done, value]: the finalize Agg's output, per Aggref

vars == <<input, pos, partial, sent, gather, top, result>>

InputVals == Vals \cup {NULL}

(* finalize_partialaggregate: the transition value, serialised when the   *)
(* state is INTERNAL; a strict serialfn is not called on a NULL state.    *)
finalize_partialaggregate(a, pg) ==
  IF Internal(a) /\ ~(SerialStrict(a) /\ pg.transValueIsNull)
  THEN [value |-> SerialFn(a, pg.transValue), isNull |-> FALSE]
  ELSE IF Internal(a)
       THEN [value |-> 0, isNull |-> TRUE]
       ELSE [value |-> pg.transValue, isNull |-> pg.transValueIsNull]

(* finalize_aggregate: with a final function, a strict one is not called *)
(* on a NULL state and gives NULL; otherwise it sees the state, NULL      *)
(* included, and may itself return NULL.  Without one, the state.         *)
Finalized(a, pg) ==
  IF ~HasFinalFn(a) THEN AT(a)!finalize_aggregate(pg)
  ELSE IF FinalStrict(a) /\ pg.transValueIsNull THEN NULL
  ELSE FinalFn(a, IF pg.transValueIsNull THEN NULL ELSE pg.transValue)

(* Mutant: finalize_aggregates running the final function although the   *)
(* node is SKIPFINAL.                                                     *)
finalize_aggregatesIgnoringSkipFinal(st, pg, skipFinal) ==
  [j \in DOMAIN st.aggref |->
     LET v == Finalized(AggFn(st, j), pg[st.transOf[j]])
     IN  [value |-> IF v = NULL THEN 0 ELSE v, isNull |-> v = NULL]]

(* finalize_aggregates over every peragg of the row, each reading the     *)
(* state of its transno: SKIPFINAL nodes return the partial states, the   *)
(* others the final functions' results.                                   *)
finalize_aggregates(st, pg, skipFinal) ==
  [j \in DOMAIN st.aggref |->
     LET a == AggFn(st, j)
     IN  IF skipFinal THEN finalize_partialaggregate(a, pg[st.transOf[j]])
         ELSE LET v == Finalized(a, pg[st.transOf[j]])
              IN  [value |-> IF v = NULL THEN 0 ELSE v, isNull |-> v = NULL]]

(* Mutant: a strict deserialfn called on a NULL partial state.           *)
combine_aggregatesDeserialisingNull(st, pg, in) ==
  [t \in DOMAIN st.trans |->
     LET a == TransAggFn(st, t)
         x == in[PartialSetup.aggOf[st.trans[t]]]
     IN  AT(a)!advance_combine_function(pg[t],
           IF Internal(a)
           THEN [value |-> DeserialFn(a, x.value), isNull |-> FALSE]
           ELSE x)]

(* combine_aggregates for one partial row, every transno: its input is    *)
(* the partial column its Aggref reads; deserialise an INTERNAL state (a  *)
(* strict deserialfn is skipped for NULL, which passes on as NULL), then  *)
(* advance_combine_function.                                               *)
combine_aggregates(st, pg, in) ==
  [t \in DOMAIN st.trans |->
     LET a == TransAggFn(st, t)
         x == in[PartialSetup.aggOf[st.trans[t]]]
     IN  AT(a)!advance_combine_function(pg[t],
           IF Internal(a) /\ ~(DeserialStrict(a) /\ x.isNull)
           THEN [value |-> DeserialFn(a, x.value), isNull |-> FALSE]
           ELSE x)]

(* initialize_aggregates: every transition state (transno) of the group.  *)
InitialStates(st) == [t \in DOMAIN st.trans |-> AT(TransAggFn(st, t))!initialize_aggregate]

Init ==
  /\ input \in [Workers -> BoundedSeq(InputVals, MaxRows)]
  /\ pos = [w \in Workers |-> 0]
  /\ partial = [w \in Workers |-> InitialStates(PartialSetup)]
  /\ sent = {}
  /\ gather = <<>>
  /\ top = InitialStates(FinalSetup)
  /\ result = [done |-> FALSE, value |-> [k \in DOMAIN AggList |-> NULL]]

(* One row of worker w's child: advance_aggregates, once per transno.      *)
PartialAdvance(w) ==
  /\ pos[w] < Len(input[w])
  /\ partial' = [partial EXCEPT ![w] =
                   [t \in DOMAIN PartialSetup.trans |->
                      AT(TransAggFn(PartialSetup, t))!advance_transition_function(
                         @[t], input[w][pos[w] + 1])]]
  /\ pos' = [pos EXCEPT ![w] = @ + 1]
  /\ UNCHANGED <<input, sent, gather, top, result>>

(* The worker's child is exhausted: its one partial row.                  *)
PartialEmit(w) ==
  /\ pos[w] = Len(input[w])
  /\ w \notin sent
  /\ gather' = Append(gather, finalize_aggregates(PartialSetup, partial[w], TRUE))
  /\ sent' = sent \cup {w}
  /\ UNCHANGED <<input, pos, partial, top, result>>

(* The finalize Agg reads any partial row the Gather has.                 *)
FinalCombine ==
  /\ \E i \in DOMAIN gather :
       /\ top' = combine_aggregates(FinalSetup, top, gather[i])
       /\ gather' = RemoveAt(gather, i)
  /\ UNCHANGED <<input, pos, partial, sent, result>>

(* Every worker has returned and the Gather is drained: finalize; each    *)
(* Aggref of the target list reads the column of its aggno.                *)
FinalFinish ==
  /\ sent = Workers /\ gather = <<>> /\ ~result.done
  /\ LET f == finalize_aggregates(FinalSetup, top, FALSE)
     IN  result' = [done |-> TRUE,
                    value |-> [k \in DOMAIN AggList |->
                                 LET c == f[FinalSetup.aggOf[k]]
                                 IN  IF c.isNull THEN NULL ELSE c.value]]
  /\ UNCHANGED <<input, pos, partial, sent, gather, top>>

Next ==
  \/ \E w \in Workers : PartialAdvance(w) \/ PartialEmit(w)
  \/ FinalCombine \/ FinalFinish

Spec == Init /\ [][Next]_vars /\ WF_vars(Next)

-----------------------------------------------------------------------------
AllInputs == FoldFunctionOnSet(LAMBDA s, t : s \o t, <<>>, input, Workers)

(* Whatever the split of the rows among the workers and the order the     *)
(* Gather returns the partial rows, every Aggref of the two-stage plan    *)
(* returns what its aggregate gives over all rows at once: the sharing of *)
(* perags and pertrans states at setup, the serialisation, the strictness *)
(* rules of advance_combine_function and the final function at the top   *)
(* only are consistent with the one-stage path.                            *)
TwoStageCorrect ==
  result.done => \A k \in DOMAIN AggList :
                   result.value[k] = Reference(AggList[k].fn, AllInputs)

(* Between two calls of the node, every non-NULL state of a pass-by-      *)
(* reference transition type, in every worker and in the finalize node,   *)
(* points into its group's aggregate context: not into the input tuple or *)
(* the per-tuple context, which are released when the next row arrives,  *)
(* nor at the initValue every group starts from, which an in-place        *)
(* transition function such as int4_avg_accum would then overwrite.  The  *)
(* copies and the pointer comparison of initialize_aggregate,             *)
(* advance_transition_function and advance_combine_function ensure it.    *)
StatesOwnTheirMemory ==
  LET Owns(st, pg) == \A t \in DOMAIN st.trans :
                        AggTransByVal(TransAggFn(st, t)) \/ pg[t].transValueIsNull
                        \/ pg[t].transValueMem = "agg"
  IN  /\ \A w \in Workers : Owns(PartialSetup, partial[w])
      /\ Owns(FinalSetup, top)

=============================================================================
