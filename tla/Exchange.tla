------------------------------ MODULE Exchange ------------------------------
(***************************************************************************)
(* What the redistribution of ReDistribute promises, without rings, files *)
(* or status words.  Every row a worker fetches goes either straight to    *)
(* its owner's aggregate or into transit, and a row leaves transit only    *)
(* into its owner's aggregate.  A worker declares itself consumed only     *)
(* when no peer is still producing and nothing in transit is its own, and *)
(* it finishes only when every worker has consumed or failed.  A worker   *)
(* may fail at any moment.                                                 *)
(***************************************************************************)
EXTENDS Sequences

CONSTANTS
    Workers,    \* the parallel workers
    Rows,       \* the rows of the child scans
    Input       \* Input[w]: the rows worker w fetches, in order

VARIABLES
    owner,      \* owner[r]: the worker row r belongs to (fixed)
    pending,    \* pending[w]: rows w has still to fetch
    transit,    \* rows fetched and not yet aggregated by their owner
    agg,        \* agg[w]: the rows w has aggregated, in order
    phase       \* phase[w]

vars == <<owner, pending, transit, agg, phase>>

Phases == {"produce", "consume", "consumed", "done", "failed"}

Init ==
    /\ owner \in [Rows -> Workers]
    /\ pending = Input
    /\ transit = {}
    /\ agg = [w \in Workers |-> <<>>]
    /\ phase = [w \in Workers |-> "produce"]

Mine(w) == {g \in transit : owner[g] = w}

Aggregate(w, r) == agg' = [agg EXCEPT ![w] = Append(@, r)]

(* Fetching one row: one's own is aggregated; another's goes into transit, *)
(* and one of one's own may come out of transit at the same time.         *)
Produce(w) ==
    /\ phase[w] = "produce"
    /\ pending[w] # <<>>
    /\ pending' = [pending EXCEPT ![w] = Tail(@)]
    /\ LET r == Head(pending[w])
       IN  IF owner[r] = w
           THEN Aggregate(w, r) /\ UNCHANGED transit
           ELSE \/ transit' = transit \cup {r} /\ UNCHANGED agg
                \/ \E g \in Mine(w) :
                       /\ transit' = (transit \cup {r}) \ {g}
                       /\ Aggregate(w, g)
    /\ UNCHANGED <<owner, phase>>

EndProduce(w) ==
    /\ phase[w] = "produce"
    /\ pending[w] = <<>>
    /\ phase' = [phase EXCEPT ![w] = "consume"]
    /\ UNCHANGED <<owner, pending, transit, agg>>

Deliver(w) ==
    /\ phase[w] = "consume"
    /\ \E g \in Mine(w) :
           /\ transit' = transit \ {g}
           /\ Aggregate(w, g)
    /\ UNCHANGED <<owner, pending, phase>>

Consumed(w) ==
    /\ phase[w] = "consume"
    /\ Mine(w) = {}
    /\ \A q \in Workers : phase[q] # "produce"
    /\ phase' = [phase EXCEPT ![w] = "consumed"]
    /\ UNCHANGED <<owner, pending, transit, agg>>

Finish(w) ==
    /\ phase[w] = "consumed"
    /\ \A q \in Workers : phase[q] \in {"consumed", "done", "failed"}
    /\ phase' = [phase EXCEPT ![w] = "done"]
    /\ UNCHANGED <<owner, pending, transit, agg>>

Fail(w) ==
    /\ phase[w] # "failed"
    /\ phase' = [phase EXCEPT ![w] = "failed"]
    /\ UNCHANGED <<owner, pending, transit, agg>>

Next ==
    \E w \in Workers :
        \/ Produce(w) \/ EndProduce(w) \/ Deliver(w)
        \/ Consumed(w) \/ Finish(w) \/ Fail(w)

Spec == Init /\ [][Next]_vars

=============================================================================
