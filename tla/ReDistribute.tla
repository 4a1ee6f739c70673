---------------------------- MODULE ReDistribute ----------------------------
(***************************************************************************)
(* The TBase redistribution of rows between the parallel workers of a     *)
(* hashed Agg (nodeAgg.c, ReDistribute* and GetReDistribute*, driven by   *)
(* agg_fill_hash_table).  Worker w owns the rows whose key hashes to w.   *)
(*                                                                         *)
(* For every ordered pair <<p, q>> of workers there is a ring buffer in   *)
(* shared memory written only by p and read only by q (buf[p*n+q]), and a *)
(* temporary BufFile of p (file[q]) that takes what does not fit.  Each   *)
(* call of a worker (one ReDistributeData, one loop iteration of the      *)
(* busy-waits, one GetReDistributeData) is one step that does the call's  *)
(* loads and queues its stores to the rings, in program order, in the     *)
(* worker's store buffer (sb).  The ring's stores are plain, with no      *)
(* barrier: as on x86 (TSO), a queued store becomes visible to the peer   *)
(* later, in order, one at a time, and the worker's next call starts once *)
(* its buffer has drained.  A peer can so run between the data of a       *)
(* record becoming visible and the head that covers it, and a writer can  *)
(* see a tail its reader has already moved past.                          *)
(*                                                                         *)
(* The ring is modelled byte by byte: a record is sizeof(int) length      *)
(* bytes followed by dataLen data bytes, and each cell holds the row whose *)
(* record last wrote it.  A reader decodes the row at tail; a record whose *)
(* cells were partly overwritten decodes to Garbage.                      *)
(***************************************************************************)
EXTENDS Integers, Sequences, FiniteSets, SequencesExt

CONSTANTS
    N,                  \* numLaunchedParallelWorkers
    Rows,               \* the rows of the child scans
    Input,              \* Input[w]: the rows worker w's child returns, in order
    KeyHashes,          \* hash values the redistribution key may have
    NULL,               \* a NULL redistribution key
    Garbage,            \* a record decoded from partly overwritten bytes
    BufferSize,         \* ReDistributeBufferSize (bytes of a ring)
    IntSize,            \* sizeof(int), the length prefix of a record
    DataLen,            \* length of one row's data
    ErrorDeclaredLast,  \* position of ReDistribute_Error in the enum
    MaxFailures         \* errors raised in workers by other code

Workers == 0 .. N - 1
Pairs == {pq \in Workers \X Workers : pq[1] # pq[2]}
Cells == 0 .. BufferSize - 1
RecLen == DataLen + IntSize

ASSUME /\ N \in Nat \ {0}
       /\ Input \in [Workers -> Seq(Rows)]
       /\ RecLen < BufferSize
       /\ ErrorDeclaredLast \in BOOLEAN

(* ReDistributeStatus.  The lifecycle order None < Init < ProduceDone <   *)
(* ConsumeDone is fixed; where Error sits is not in the source tree.      *)
StatusOrder ==
    IF ErrorDeclaredLast
    THEN <<"None", "Init", "ProduceDone", "ConsumeDone", "Error">>
    ELSE <<"Error", "None", "Init", "ProduceDone", "ConsumeDone">>
Status == ToSet(StatusOrder)
Rank(s) == SelectInSeq(StatusOrder, LAMBDA x : x = s)

(* ReDistributeHash: every case falls through to the default branch, so  *)
(* the worker is (hash % (1 << numWorkers)) % numWorkers.                 *)
ReDistributeHash(h) == (h % (2 ^ N)) % N

VARIABLES
    key,        \* key[r]: the redistribution key's hash, or NULL
    inp,        \* inp[w]: rows worker w has still to fetch
    pc,         \* where worker w is in agg_fill_hash_table
    status,     \* state->status[] in shared memory
    buf,        \* buf[<<p, q>>]: ring [head, tail, cells] from p to q
    file,       \* file[<<p, q>>]: rows p wrote to its BufFile for q
    published,  \* workers whose ReDistributeShareBufFile has run
    closed,     \* closed[p]: p has run BufFileClose(aggfile[i])
    merged,     \* merged[] of GetReDistributeBufFile
    mfile,      \* rows of the peers' files q has opened and not yet read
    index,      \* *index of GetReDistributeData
    nDone,      \* nDone of the ConsumeDone barrier
    got,        \* rows given to lookup_hash_entries, in order
    sb,         \* sb[w]: w's ring stores not yet visible to its peers
    why,        \* why a worker raised an error
    failures    \* errors injected so far

vars == <<key, inp, pc, status, buf, file, published, closed, merged, mfile,
          index, nDone, got, sb, why, failures>>

PCs == {"init", "produce", "merge", "consume", "barrier", "done", "failed"}
Reasons == {"none", "injected", "peer", "open", "dataleft"}

(* The worker a row is sent to: a NULL key goes to worker 0.              *)
Owner(r) == IF key[r] = NULL THEN 0 ELSE ReDistributeHash(key[r])

EmptyBuffer == [head |-> 0, tail |-> 0, cells |-> [c \in Cells |-> Garbage]]

ReDistributeBufferFreeSize(b) ==
    IF b.head >= b.tail
    THEN (BufferSize - b.head) + (b.tail - 1)
    ELSE b.tail - b.head - 1

(* A plain store to one field of the ring pq.                            *)
Store(pq, field, val) == [pq |-> pq, field |-> field, val |-> val]

PutCells(b, r) ==
    [c \in Cells |-> IF (c - b.head) % BufferSize < RecLen THEN r ELSE b.cells[c]]

(* Mutant: head advanced without wrapping at the end of the ring.        *)
PutDataNoWrap(pq, b, r) ==
    <<Store(pq, "cells", PutCells(b, r)), Store(pq, "head", b.head + RecLen)>>

(* Mutant: head stored before the record's bytes, the order a weakly     *)
(* ordered CPU (ARM, POWER) may make the two plain stores visible in.    *)
PutDataHeadFirst(pq, b, r) ==
    <<Store(pq, "head", (b.head + RecLen) % BufferSize),
      Store(pq, "cells", PutCells(b, r))>>

(* The stores of ReDistributeBufferPutData into ring pq, in program      *)
(* order: the length prefix and the data, wrapping at the end of the     *)
(* ring, then head.                                                      *)
ReDistributeBufferPutData(pq, b, r) ==
    <<Store(pq, "cells", PutCells(b, r)),
      Store(pq, "head", (b.head + RecLen) % BufferSize)>>

(* The record at offset o: its row if all its cells still hold it.        *)
Decode(b, o) ==
    LET r == b.cells[o]
    IN  IF \A j \in 0 .. RecLen - 1 : b.cells[(o + j) % BufferSize] = r
        THEN r ELSE Garbage

(* Mutant: tail advanced past the data but not the length prefix.        *)
GetDataWithoutLength(pq, b) ==
    [row |-> Decode(b, b.tail),
     stores |-> <<Store(pq, "tail", (b.tail + DataLen) % BufferSize)>>]

(* The record at tail of ring pq, and the store moving tail past it.     *)
ReDistributeBufferGetData(pq, b) ==
    [row |-> Decode(b, b.tail),
     stores |-> <<Store(pq, "tail", (b.tail + RecLen) % BufferSize)>>]

(* The records between tail and head, as a reader would decode them.      *)
RingRows(b) ==
    LET used == BufferSize - 1 - ReDistributeBufferFreeSize(b)
    IN  [k \in 1 .. used \div RecLen |->
            Decode(b, (b.tail + (k - 1) * RecLen) % BufferSize)]

(* Memory m with the store st applied.                                    *)
ApplyStore(m, st) == [m EXCEPT ![st.pq] = [@ EXCEPT ![st.field] = st.val]]

(* The rings as they are once every store buffer has drained.  A worker *)
(* queues at most one store per field of a ring in one call, and the     *)
(* writer of head and cells is never the writer of tail, so the queued   *)
(* stores commute.                                                        *)
RECURSIVE ApplyStores(_, _)
ApplyStores(m, stores) ==
    IF stores = <<>> THEN m ELSE ApplyStores(ApplyStore(m, Head(stores)), Tail(stores))

Drained == ApplyStores(buf, FlattenSeq([i \in 1 .. N |-> sb[i - 1]]))

(* Raising an error: elog(ERROR) unwinds and ReDistributeEreport marks    *)
(* the worker Error, once it has a status (after InitializeWorker).       *)
ReDistributeEreport(w) ==
    IF status[w] = "None" THEN status ELSE [status EXCEPT ![w] = "Error"]

RaiseError(w, reason) ==
    /\ pc' = [pc EXCEPT ![w] = "failed"]
    /\ why' = [why EXCEPT ![w] = reason]
    /\ status' = ReDistributeEreport(w)

ParallelError == \E q \in Workers : pc[q] = "failed"

(* The peer p whose position after t, cyclically, is smallest.          *)
FirstAfter(t, S) == CHOOSE p \in S : \A q \in S : (p - t) % N <= (q - t) % N

(***************************************************************************)
(* Actions of worker w.                                                   *)
(***************************************************************************)

(* ReDistributeInitializeWorker, then InitializeReDistribute.            *)
ReDistributeInitializeWorker(w) ==
    /\ pc[w] = "init"
    /\ status' = [status EXCEPT ![w] = "Init"]
    /\ pc' = [pc EXCEPT ![w] = "produce"]
    /\ UNCHANGED <<key, sb, inp, buf, file, published, closed, merged, mfile,
                   index, nDone, got, why, failures>>

(* One fetched row, through ReDistributeData and what the caller does    *)
(* with the slot.  A row for w is aggregated here.  Another row goes to  *)
(* the ring for its owner t if it fits, else to the file for t; then the *)
(* peers from t on are scanned, and the first ring towards w that is     *)
(* more than a quarter full yields one row, aggregated in its place.     *)
(* The stores to the rings are queued; the loads see the rings as they   *)
(* are visible now.                                                      *)
ReDistributeData(w) ==
    /\ pc[w] = "produce"
    /\ inp[w] # <<>>
    /\ LET r == Head(inp[w])
           t == Owner(r)
           fits == ReDistributeBufferFreeSize(buf[<<w, t>>]) >= RecLen
           put == IF fits THEN ReDistributeBufferPutData(<<w, t>>, buf[<<w, t>>], r)
                  ELSE <<>>
           ready == {p \in Workers \ {w} :
                       ReDistributeBufferFreeSize(buf[<<p, w>>])
                           < (BufferSize \div 4) * 3}
       IN  /\ inp' = [inp EXCEPT ![w] = Tail(@)]
           /\ IF t = w
              THEN /\ got' = [got EXCEPT ![w] = Append(@, r)]
                   /\ UNCHANGED <<sb, file>>
              ELSE /\ file' = IF fits THEN file
                              ELSE [file EXCEPT ![<<w, t>>] = Append(@, r)]
                   /\ IF ready = {}
                      THEN /\ sb' = [sb EXCEPT ![w] = put]
                           /\ UNCHANGED got
                      ELSE LET p == FirstAfter(t, ready)
                               g == ReDistributeBufferGetData(<<p, w>>, buf[<<p, w>>])
                           IN  /\ sb' = [sb EXCEPT ![w] = put \o g.stores]
                               /\ got' = [got EXCEPT ![w] = Append(@, g.row)]
    /\ UNCHANGED <<key, pc, status, buf, published, closed, merged, mfile,
                   index, nDone, why, failures>>

(* The oldest store in w's buffer becomes visible to the other workers.  *)
StoreBufferDrain(w) ==
    /\ sb[w] # <<>>
    /\ LET st == Head(sb[w])
       IN  buf' = ApplyStore(buf, st)
    /\ sb' = [sb EXCEPT ![w] = Tail(@)]
    /\ UNCHANGED <<key, inp, pc, status, file, published, closed, merged,
                   mfile, index, nDone, got, why, failures>>

(* Mutant: ProduceDone set without publishing the file names.           *)
ShareWithoutNames(w) ==
    /\ pc[w] = "produce"
    /\ inp[w] = <<>>
    /\ status' = [status EXCEPT ![w] = "ProduceDone"]
    /\ pc' = [pc EXCEPT ![w] = "merge"]
    /\ UNCHANGED <<key, sb, inp, buf, file, published, closed, merged, mfile,
                   index, nDone, got, why, failures>>

(* End of the child's rows: ReDistributeShareBufFile flushes the files,  *)
(* publishes their names and sets ProduceDone.                           *)
ReDistributeShareBufFile(w) ==
    /\ pc[w] = "produce"
    /\ inp[w] = <<>>
    /\ status' = [status EXCEPT ![w] = "ProduceDone"]
    /\ published' = published \cup {w}
    /\ pc' = [pc EXCEPT ![w] = "merge"]
    /\ UNCHANGED <<key, sb, inp, buf, file, closed, merged, mfile, index, nDone,
                   got, why, failures>>

(* Mutant: index = ParallelWorkerNumber * numWorkers + i, the file w     *)
(* wrote for i instead of the one i wrote for w.                         *)
GetReDistributeBufFileSwapped(w, i) ==
    /\ pc[w] = "merge"
    /\ i \notin merged[w]
    /\ Rank(status[i]) >= Rank("ProduceDone")
    /\ merged' = [merged EXCEPT ![w] = @ \cup {i}]
    /\ mfile' = [mfile EXCEPT ![w] = @ \o file[<<w, i>>]]
    /\ pc' = [pc EXCEPT ![w] = IF merged'[w] = Workers
                               THEN "consume" ELSE "merge"]
    /\ UNCHANGED <<key, sb, inp, buf, file, published, closed, index, nDone,
                   got, status, why, failures>>

(* Mutant: the loop takes a peer that has only initialised as produced.  *)
GetReDistributeBufFileBeforeProduced(w, i) ==
    /\ pc[w] = "merge"
    /\ i \notin merged[w]
    /\ Rank(status[i]) >= Rank("Init")
    /\ IF file[<<i, w>>] # <<>> /\ (closed[i] \/ i \notin published)
       THEN /\ RaiseError(w, "open")
            /\ UNCHANGED <<merged, mfile>>
       ELSE /\ merged' = [merged EXCEPT ![w] = @ \cup {i}]
            /\ mfile' = [mfile EXCEPT ![w] = @ \o file[<<i, w>>]]
            /\ pc' = [pc EXCEPT ![w] = IF merged'[w] = Workers
                                       THEN "consume" ELSE "merge"]
            /\ UNCHANGED <<status, why>>
    /\ UNCHANGED <<key, sb, inp, buf, file, published, closed, index, nDone,
                   got, failures>>

(* One iteration of the loop of GetReDistributeBufFile finding peer i at *)
(* or past ProduceDone: the files i wrote for w are opened.  Opening     *)
(* fails when i has closed (deleted) them or never published them.       *)
GetReDistributeBufFile(w, i) ==
    /\ pc[w] = "merge"
    /\ i \notin merged[w]
    /\ Rank(status[i]) >= Rank("ProduceDone")
    /\ IF file[<<i, w>>] # <<>> /\ (closed[i] \/ i \notin published)
       THEN /\ RaiseError(w, "open")
            /\ UNCHANGED <<merged, mfile>>
       ELSE /\ merged' = [merged EXCEPT ![w] = @ \cup {i}]
            /\ mfile' = [mfile EXCEPT ![w] = @ \o file[<<i, w>>]]
            /\ pc' = [pc EXCEPT ![w] = IF merged'[w] = Workers
                                       THEN "consume" ELSE "merge"]
            /\ UNCHANGED <<status, why>>
    /\ UNCHANGED <<key, sb, inp, buf, file, published, closed, index, nDone,
                   got, failures>>

(* The same loop's else branch: peer i (merged already, or not yet at     *)
(* ProduceDone) is in Error, or ParallelError() is set.                  *)
GetReDistributeBufFileError(w, i) ==
    /\ pc[w] = "merge"
    /\ i # w
    /\ ~(Rank(status[i]) >= Rank("ProduceDone") /\ i \notin merged[w])
    /\ status[i] = "Error" \/ ParallelError
    /\ RaiseError(w, "peer")
    /\ UNCHANGED <<key, sb, inp, buf, file, published, closed, merged, mfile,
                   index, nDone, got, failures>>

(* Mutant: ConsumeDone as soon as the rings are drained, the files      *)
(* left unread.                                                           *)
GetReDistributeDataIgnoringFile(w) ==
    /\ pc[w] = "consume"
    /\ LET nonEmpty == {p \in Workers \ {w} :
                          p >= index[w] /\ buf[<<p, w>>].head # buf[<<p, w>>].tail}
       IN  IF nonEmpty # {}
           THEN LET p == FirstAfter(0, nonEmpty)
                    g == ReDistributeBufferGetData(<<p, w>>, buf[<<p, w>>])
                IN  /\ sb' = [sb EXCEPT ![w] = g.stores]
                    /\ got' = [got EXCEPT ![w] = Append(@, g.row)]
                    /\ index' = [index EXCEPT ![w] = p]
                    /\ UNCHANGED <<pc, status>>
           ELSE /\ index' = [index EXCEPT ![w] = N]
                /\ status' = [status EXCEPT ![w] = "ConsumeDone"]
                /\ pc' = [pc EXCEPT ![w] = "barrier"]
                /\ UNCHANGED <<sb, got>>
    /\ UNCHANGED <<key, buf, inp, file, published, closed, merged, mfile, nDone,
                   why, failures>>

(* One call of GetReDistributeData: the rings towards w from *index on,  *)
(* then the opened files; with nothing left, ConsumeDone is set and the  *)
(* ConsumeDone barrier is entered.                                       *)
GetReDistributeData(w) ==
    /\ pc[w] = "consume"
    /\ LET nonEmpty == {p \in Workers \ {w} :
                          p >= index[w] /\ buf[<<p, w>>].head # buf[<<p, w>>].tail}
       IN  IF nonEmpty # {}
           THEN LET p == FirstAfter(0, nonEmpty)
                    g == ReDistributeBufferGetData(<<p, w>>, buf[<<p, w>>])
                IN  /\ sb' = [sb EXCEPT ![w] = g.stores]
                    /\ got' = [got EXCEPT ![w] = Append(@, g.row)]
                    /\ index' = [index EXCEPT ![w] = p]
                    /\ UNCHANGED <<pc, status, mfile>>
           ELSE /\ index' = [index EXCEPT ![w] = N]
                /\ UNCHANGED sb
                /\ IF mfile[w] # <<>>
                   THEN /\ got' = [got EXCEPT ![w] = Append(@, Head(mfile[w]))]
                        /\ mfile' = [mfile EXCEPT ![w] = Tail(@)]
                        /\ UNCHANGED <<pc, status>>
                   ELSE /\ status' = [status EXCEPT ![w] = "ConsumeDone"]
                        /\ pc' = [pc EXCEPT ![w] = "barrier"]
                        /\ UNCHANGED <<got, mfile>>
    /\ UNCHANGED <<key, buf, inp, file, published, closed, merged, nDone, why,
                   failures>>

(* Mutants: a barrier that waits only until ProduceDone; one that also   *)
(* spins on a peer in Error.                                             *)
BarrierWaitsUntilProduced(k) ==
    /\ Rank(status[k]) < Rank("ProduceDone")
    /\ Rank(status[k]) > Rank("Error")
BarrierWaitsOnError(k) == Rank(status[k]) < Rank("ConsumeDone")

(* The busy-wait of the ConsumeDone barrier spins on worker nDone while  *)
(* Error < status < ConsumeDone in the enum's order.                     *)
BarrierWaits(k) ==
    /\ Rank(status[k]) < Rank("ConsumeDone")
    /\ Rank(status[k]) > Rank("Error")

(* One iteration of the barrier that does not spin: nDone moves on, or   *)
(* the worker raises the peer error.                                     *)
ConsumeDoneBarrier(w) ==
    /\ pc[w] = "barrier"
    /\ nDone[w] < N
    /\ ~BarrierWaits(nDone[w])
    /\ IF status[nDone[w]] = "Error" \/ ParallelError
       THEN /\ RaiseError(w, "peer")
            /\ UNCHANGED nDone
       ELSE /\ nDone' = [nDone EXCEPT ![w] = @ + 1]
            /\ UNCHANGED <<pc, why, status>>
    /\ UNCHANGED <<key, sb, inp, buf, file, published, closed, merged, mfile,
                   index, got, failures>>

(* After the barrier: BufFileClose(aggfile[i]) for every i, and back in   *)
(* agg_fill_hash_table ReDistributeBufferCheck, which raises an error if *)
(* a ring w writes to is not empty.                                      *)
ReDistributeBufferCheck(w) ==
    /\ pc[w] = "barrier"
    /\ nDone[w] = N
    /\ closed' = [closed EXCEPT ![w] = TRUE]
    /\ IF \E t \in Workers \ {w} : buf[<<w, t>>].head # buf[<<w, t>>].tail
       THEN RaiseError(w, "dataleft")
       ELSE /\ pc' = [pc EXCEPT ![w] = "done"]
            /\ UNCHANGED <<why, status>>
    /\ UNCHANGED <<key, sb, inp, buf, file, published, merged, mfile, index,
                   nDone, got, failures>>

(* Any other error of the worker's query (I/O, out of memory, cancel),   *)
(* at any point, followed by ReDistributeEreport.                        *)
InjectedError(w) ==
    /\ failures < MaxFailures
    /\ pc[w] # "failed"
    /\ failures' = failures + 1
    /\ RaiseError(w, "injected")
    /\ UNCHANGED <<key, sb, inp, buf, file, published, closed, merged, mfile,
                   index, nDone, got>>

Finished == \A w \in Workers : pc[w] \in {"done", "failed"}

Init ==
    /\ key \in [Rows -> KeyHashes \cup {NULL}]
    /\ inp = Input
    /\ pc = [w \in Workers |-> "init"]
    /\ status = [w \in Workers |-> "None"]
    /\ buf = [pq \in Pairs |-> EmptyBuffer]
    /\ file = [pq \in Pairs |-> <<>>]
    /\ published = {}
    /\ closed = [w \in Workers |-> FALSE]
    /\ merged = [w \in Workers |-> {w}]
    /\ mfile = [w \in Workers |-> <<>>]
    /\ index = [w \in Workers |-> 0]
    /\ nDone = [w \in Workers |-> 0]
    /\ got = [w \in Workers |-> <<>>]
    /\ sb = [w \in Workers |-> <<>>]
    /\ why = [w \in Workers |-> "none"]
    /\ failures = 0

(* A call starts once the worker's earlier stores are visible: stores  *)
(* leave the buffer in order, so the status words and file names a call *)
(* publishes never overtake the ring stores of the calls before it.      *)
Call(w) ==
    \/ ReDistributeInitializeWorker(w)
    \/ ReDistributeData(w)
    \/ ReDistributeShareBufFile(w)
    \/ \E i \in Workers : GetReDistributeBufFile(w, i)
    \/ \E i \in Workers : GetReDistributeBufFileError(w, i)
    \/ GetReDistributeData(w)
    \/ ConsumeDoneBarrier(w)
    \/ ReDistributeBufferCheck(w)

Step(w) ==
    \/ sb[w] = <<>> /\ Call(w)
    \/ StoreBufferDrain(w)

Next ==
    \/ \E w \in Workers : Step(w)
    \/ \E w \in Workers : InjectedError(w)

(* Each worker is a process the OS keeps scheduling.                     *)
Spec == Init /\ [][Next]_vars /\ \A w \in Workers : WF_vars(Step(w))

(***************************************************************************)
(* Properties.                                                            *)
(***************************************************************************)

TypeOK ==
    /\ key \in [Rows -> KeyHashes \cup {NULL}]
    /\ inp \in [Workers -> Seq(Rows)]
    /\ pc \in [Workers -> PCs]
    /\ status \in [Workers -> Status]
    /\ buf \in [Pairs -> [head : Cells, tail : Cells,
                          cells : [Cells -> Rows \cup {Garbage}]]]
    /\ file \in [Pairs -> Seq(Rows)]
    /\ published \subseteq Workers
    /\ closed \in [Workers -> BOOLEAN]
    /\ merged \in [Workers -> SUBSET Workers]
    /\ mfile \in [Workers -> Seq(Rows)]
    /\ index \in [Workers -> 0 .. N]
    /\ nDone \in [Workers -> 0 .. N]
    /\ got \in [Workers -> Seq(Rows \cup {Garbage})]
    /\ \A w \in Workers : \A j \in DOMAIN sb[w] :
          sb[w][j].pq \in Pairs /\ sb[w][j].field \in {"head", "tail", "cells"}
    /\ why \in [Workers -> Reasons]
    /\ failures \in 0 .. MaxFailures

Count(s, r) == Len(SelectSeq(s, LAMBDA x : x = r))

(* Where a fetched row can be: aggregated by a worker, a record of a     *)
(* ring, in a file its reader has not opened, or opened and not read.    *)
Holders(rings, r) ==
      MapThenSumSet(LAMBDA w : Count(got[w], r) + Count(mfile[w], r), Workers)
    + MapThenSumSet(LAMBDA pq : Count(rings[pq], r)
                                + (IF pq[1] \in merged[pq[2]] THEN 0
                                   ELSE Count(file[pq], r)), Pairs)

Fetched == {r \in Rows : \A w \in Workers : ~Contains(inp[w], r)}

(* No row is lost or duplicated in transit: every row a worker has       *)
(* fetched is, at every moment, in exactly one place (aggregated, in one *)
(* ring record, or in one file), through ring wrap-around, the overflow  *)
(* to files, and the reads ReDistributeData does while producing.  No    *)
(* worker ever aggregates a record decoded from overwritten bytes.       *)
RowsConserved ==
    /\ LET rings == [pq \in Pairs |-> RingRows(Drained[pq])]
       IN  \A r \in Fetched : Holders(rings, r) = 1
    /\ \A w \in Workers : ~Contains(got[w], Garbage)

(* A worker only ever aggregates rows whose key hashes to it: the index  *)
(* arithmetic of buf[p * n + q] and the file names of GetReDistributeBufFile *)
(* never hand a worker another worker's rows.                            *)
DeliveredToOwner ==
    \A w \in Workers : \A j \in DOMAIN got[w] : Owner(got[w][j]) = w

(* When every worker has finished the node without error, every row of  *)
(* every child has been aggregated by its owner, exactly once.          *)
AllRowsAggregated ==
    (\A w \in Workers : pc[w] = "done") =>
        \A r \in Rows : Count(got[Owner(r)], r) = 1

(* The ConsumeDone barrier: a worker closes (and so deletes) the files  *)
(* it wrote for its peers only once each peer has consumed everything   *)
(* (is ConsumeDone) or has failed.                                       *)
FilesOutliveReaders ==
    \A w \in Workers : closed[w] =>
        \A q \in Workers : status[q] = "ConsumeDone" \/ pc[q] = "failed"

(* Redistribution never raises an error of its own: a worker fails only *)
(* by an error raised elsewhere, or because a peer failed; never on a   *)
(* file it cannot open or on "data left in ReDistributeBuffer".          *)
NoSpuriousError ==
    /\ \A w \in Workers : why[w] \in {"none", "injected", "peer"}
    /\ (\E w \in Workers : why[w] = "peer") =>
           \E q \in Workers : why[q] = "injected"

(* Every worker eventually leaves the node, done or failed: no busy-wait *)
(* spins forever, whether or not a worker errors.                        *)
Termination == <>Finished

(***************************************************************************)
(* Refinement of Exchange.  A row is in transit while it is a record of a *)
(* ring, in a file its reader has not yet opened, or in an opened file not *)
(* yet read; RowsConserved shows that these are exactly the rows fetched  *)
(* and not yet aggregated, which is how the mapping computes transit.     *)
(* The worker's phase follows its place in agg_fill_hash_table:            *)
(* producing until ReDistributeShareBufFile, consuming through the merge  *)
(* of the files and GetReDistributeData, consumed in the barrier.          *)
(***************************************************************************)
InTransit(r) == r \in Fetched /\ \A w \in Workers : ~Contains(got[w], r)

ExchangePhase(w) ==
    CASE pc[w] \in {"init", "produce"} -> "produce"
      [] pc[w] \in {"merge", "consume"} -> "consume"
      [] pc[w] = "barrier"              -> "consumed"
      [] OTHER                          -> pc[w]

Exch == INSTANCE Exchange
            WITH owner   <- [r \in Rows |-> Owner(r)],
                 pending <- inp,
                 transit <- {r \in Rows : InTransit(r)},
                 agg     <- got,
                 phase   <- [w \in Workers |-> ExchangePhase(w)]

(* The rings, files and status words implement Exchange: every step of a *)
(* worker moves rows only from its input to the owner or into transit and *)
(* from transit to the owner, a worker sets ConsumeDone only once every   *)
(* peer has produced and nothing for it is left in any ring or file (the *)
(* *index scan of GetReDistributeData skips no ring), and it passes the   *)
(* barrier only once every worker is ConsumeDone or failed.               *)
ExchangeRefinement == Exch!Spec

=============================================================================
