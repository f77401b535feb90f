------------------------ MODULE EmbeddingQueue_proofs -----------------------
(* What is proved of the embedding queue for every value of its constants:   *)
(* its types, and that a node lacks no vector unless it is queued.           *)
EXTENDS EmbeddingQueue, TLAPS

Pcs == {"off", "reconcile", "lease", "rows", "chunks", "embed", "commit", "failed", "finalize"}

-----------------------------------------------------------------------------
(* Types *)

LEMMA LeadingSubset == ASSUME NEW S PROVE Leading(S) \subseteq S
  BY DEF Leading

LEMMA MissingSubset ==
  ASSUME NEW n \in Nodes, NEW C, NEW V, NEW s
  PROVE  Missing(n, C, V, s) \subseteq Chunks
  BY DEF Missing, Chunks

(* A row is a record of its three fields. *)
LEMMA RowType ==
  ASSUME NEW b \in BOOLEAN, NEW a \in Nat, NEW r \in BOOLEAN
  PROVE  [in |-> b, attempts |-> a, rested |-> r] \in Row
  BY Zenon DEF Row

LEMMA NoRowType == NoRow \in Row
  <1>1. 0 \in Nat
    OBVIOUS
  <1> QED BY <1>1, RowType DEF NoRow

LEMMA FieldTypes ==
  ASSUME NEW x \in Row
  PROVE  x.in \in BOOLEAN /\ x.attempts \in Nat /\ x.rested \in BOOLEAN
  BY DEF Row

LEMMA GoesType ==
  ASSUME TypeOK, NEW w \in Workers, NEW pc \in Pcs, NEW N \in SUBSET Nodes,
         NEW B \in SUBSET Chunks, Goes(w, pc, N, B)
  PROVE  worker' \in [Workers -> Drainer]
  <1> DEFINE x == [pc |-> pc, model |-> worker[w].model, nodes |-> N, batch |-> B,
                   stopping |-> worker[w].stopping]
  <1>1. worker \in [Workers -> Drainer] /\ worker[w] \in Drainer
    BY DEF TypeOK
  <1>2. worker[w].model \in Spaces /\ worker[w].stopping \in BOOLEAN
    BY <1>1 DEF Drainer
  <1>3. x \in Drainer
    BY <1>2, Zenon DEF Drainer, Pcs
  <1> HIDE DEF x
  <1>4. worker' = [worker EXCEPT ![w] = x]
    BY DEF Goes, x
  <1> QED BY <1>1, <1>3, <1>4

LEMMA RefreshType ==
  ASSUME TypeOK, NEW n \in Nodes, NEW C, NEW V, RefreshQueue(n, C, V)
  PROVE  queue' \in [Nodes -> Row] /\ pending' \in [Nodes -> BOOLEAN]
  <1> DEFINE lacks == Missing(n, C, V, active) # {}
             x == [in |-> lacks, attempts |-> 0, rested |-> TRUE]
  <1>1. x \in Row
    <2>1. lacks \in BOOLEAN /\ 0 \in Nat /\ TRUE \in BOOLEAN
      OBVIOUS
    <2> HIDE DEF lacks
    <2> QED BY <2>1, RowType
  <1>2. queue' = [queue EXCEPT ![n] = x] /\ pending' = [pending EXCEPT ![n] = lacks]
    BY DEF RefreshQueue
  <1>3. lacks \in BOOLEAN
    OBVIOUS
  <1> HIDE DEF x, lacks
  <1>4. queue' \in [Nodes -> Row]
    BY <1>1, <1>2 DEF TypeOK
  <1>5. pending' \in [Nodes -> BOOLEAN]
    BY <1>2, <1>3, Zenon DEF TypeOK
  <1> QED BY <1>4, <1>5

LEMMA SyncType ==
  ASSUME TypeOK, NEW n \in Nodes, NEW text, SyncChunks(n, text)
  PROVE  /\ chunks' \in [Chunks -> {"absent", "live", "stale"}]
         /\ vectors' \subseteq Spaces \X Chunks
         /\ queue' \in [Nodes -> Row]
         /\ pending' \in [Nodes -> BOOLEAN]
  <1>1. chunks' \in [Chunks -> {"absent", "live", "stale"}]
    BY DEF SyncChunks, TypeOK
  <1>2. vectors' \subseteq Spaces \X Chunks
    BY DEF SyncChunks, TypeOK, VectorsKept
  <1>3. PICK C : RefreshQueue(n, C, VectorsKept(n, text))
    BY DEF SyncChunks
  <1> QED BY <1>1, <1>2, <1>3, RefreshType

LEMMA FinalizedType ==
  ASSUME TypeOK, NEW S, NEW V, Finalized(S, V)
  PROVE  queue' \in [Nodes -> Row] /\ pending' \in [Nodes -> BOOLEAN]
  <1> DEFINE done == {n \in S : Missing(n, chunks, V, active) = {}}
             x == [in |-> TRUE, attempts |-> 0, rested |-> TRUE]
  <1>1. x \in Row /\ NoRow \in Row
    <2>1. TRUE \in BOOLEAN /\ 0 \in Nat
      OBVIOUS
    <2> QED BY <2>1, RowType, NoRowType
  <1>2. /\ queue' = [n \in Nodes |-> IF n \in done THEN NoRow
                                     ELSE IF n \in S /\ queue[n].in THEN x ELSE queue[n]]
        /\ pending' = [n \in Nodes |-> pending[n] /\ n \notin done]
    BY DEF Finalized
  <1> HIDE DEF x, done
  <1>3. \A n \in Nodes : queue[n] \in Row
    BY DEF TypeOK
  <1>4. queue' \in [Nodes -> Row]
    BY <1>1, <1>2, <1>3
  <1>5. pending' \in [Nodes -> BOOLEAN]
    BY <1>2, Zenon
  <1> QED BY <1>4, <1>5

LEMMA InvolvedNodes ==
  ASSUME TypeOK, NEW w \in Workers PROVE Involved(w) \subseteq Nodes
  BY DEF TypeOK, Drainer, Involved, Chunks

(* The steps of one worker keep the types. *)
LEMMA WorkerStepType ==
  ASSUME TypeOK, NEW w \in Workers, WorkerStep(w) PROVE TypeOK'
  <1> DEFINE W == worker[w]
  <1>a. /\ W.nodes \in SUBSET Nodes /\ W.batch \in SUBSET Chunks
        /\ {} \in SUBSET Nodes /\ {} \in SUBSET Chunks
    BY DEF TypeOK, Drainer
  <1>b. \A n : W.nodes \ {n} \in SUBSET Nodes
    BY <1>a
  <1>0. "reconcile" \in Pcs /\ "lease" \in Pcs /\ "rows" \in Pcs /\ "chunks" \in Pcs
        /\ "embed" \in Pcs /\ "commit" \in Pcs /\ "failed" \in Pcs /\ "finalize" \in Pcs
    BY DEF Pcs
  <1>1. ASSUME NEW n \in Nodes, Reconcile(w, n) PROVE TypeOK'
    <2>1. worker' \in [Workers -> Drainer]
      BY <1>1, <1>a, <1>b, <1>0, GoesType DEF Reconcile
    <2>2. /\ chunks' \in [Chunks -> {"absent", "live", "stale"}]
          /\ vectors' \subseteq Spaces \X Chunks
          /\ queue' \in [Nodes -> Row]
          /\ pending' \in [Nodes -> BOOLEAN]
      <3>1. CASE SyncChunks(n, {})
        BY <3>1, SyncType
      <3>2. CASE RefreshQueue(n, chunks, vectors) /\ UNCHANGED <<chunks, vectors>>
        <4>1. queue' \in [Nodes -> Row] /\ pending' \in [Nodes -> BOOLEAN]
          BY <3>2, RefreshType
        <4> QED BY <4>1, <3>2 DEF TypeOK
      <3>3. CASE UNCHANGED <<queue, pending, chunks, vectors>>
        BY <3>3, Zenon DEF TypeOK
      <3> QED BY <1>1, <3>1, <3>2, <3>3 DEF Reconcile
    <2> QED BY <1>1, <2>1, <2>2, Zenon DEF Reconcile, TypeOK
  <1>2. ASSUME NEW n \in Nodes, FinalizeNode(w, n) PROVE TypeOK'
    <2>1. worker' \in [Workers -> Drainer]
      BY <1>2, <1>a, <1>b, <1>0, GoesType DEF FinalizeNode
    <2>2. queue' \in [Nodes -> Row] /\ pending' \in [Nodes -> BOOLEAN]
      BY <1>2, FinalizedType DEF FinalizeNode
    <2> QED BY <1>2, <2>1, <2>2, Zenon DEF FinalizeNode, TypeOK
  <1>3. ASSUME Reconciled(w) \/ TickEnds(w) PROVE TypeOK'
    <2>1. worker' \in [Workers -> Drainer]
      BY <1>3, <1>a, <1>0, GoesType DEF Reconciled, TickEnds
    <2> QED BY <1>3, <2>1, Zenon DEF Reconciled, TickEnds, TypeOK, store
  <1>4. ASSUME HoldLease(w) PROVE TypeOK'
    <2>1. worker' \in [Workers -> Drainer]
      BY <1>4, <1>a, <1>0, GoesType DEF HoldLease
    <2>2. lease' \in [owner : Workers \cup {None, Gone}, lapsed : BOOLEAN]
      BY <1>4, Zenon DEF HoldLease
    <2> QED BY <1>4, <2>1, <2>2, Zenon DEF HoldLease, TypeOK, store
  <1>5. ASSUME ReadRows(w) PROVE TypeOK'
    <2>0. {n \in Nodes : Eligible(n)} \in SUBSET Nodes
      OBVIOUS
    <2>1. worker' \in [Workers -> Drainer]
      BY <1>5, <2>0, <1>a, <1>0, GoesType DEF ReadRows
    <2> QED BY <1>5, <2>1, Zenon DEF ReadRows, TypeOK, store
  <1>6. ASSUME ReadChunks(w) PROVE TypeOK'
    <2> DEFINE B == Leading(UNION {Unembedded(n) : n \in worker[w].nodes})
    <2>0. B \in SUBSET Chunks
      <3>1. \A n \in W.nodes : Unembedded(n) \subseteq Chunks
        BY <1>a, MissingSubset DEF Unembedded
      <3> QED BY <3>1, LeadingSubset
    <2>1. worker' \in [Workers -> Drainer]
      <3> HIDE DEF B
      <3> QED BY <1>6, <2>0, <1>a, <1>0, GoesType DEF ReadChunks, B
    <2> QED BY <1>6, <2>1, Zenon DEF ReadChunks, TypeOK, store
  <1>7. ASSUME Embed(w) \/ CommitRefused(w) PROVE TypeOK'
    <2>1. worker' \in [Workers -> Drainer]
      BY <1>7, <1>a, <1>0, GoesType DEF Embed, CommitRefused
    <2> QED BY <1>7, <2>1, Zenon DEF Embed, CommitRefused, TypeOK, store
  <1>8. ASSUME EmbedFails(w) PROVE TypeOK'
    <2>1. worker' \in [Workers -> Drainer]
      BY <1>8, <1>a, <1>0, GoesType DEF EmbedFails
    <2>2. outages' \in 0 .. MaxOutages
      BY <1>8, EmbeddingAssumption DEF EmbedFails, TypeOK
    <2> QED BY <1>8, <2>1, <2>2, Zenon DEF EmbedFails, TypeOK, store
  <1>9. ASSUME Commit(w) PROVE TypeOK'
    <2>1. worker' \in [Workers -> Drainer]
      BY <1>9, <1>a, <1>0, GoesType DEF Commit
    <2>2. queue' \in [Nodes -> Row] /\ pending' \in [Nodes -> BOOLEAN]
      BY <1>9, FinalizedType DEF Commit
    <2>3. vectors' \subseteq Spaces \X Chunks
      BY <1>9, <1>a DEF Commit, TypeOK
    <2> QED BY <1>9, <2>1, <2>2, <2>3, Zenon DEF Commit, TypeOK
  <1>10. ASSUME RecordFailure(w) PROVE TypeOK'
    <2>1. worker' \in [Workers -> Drainer]
      BY <1>10, <1>a, <1>0, GoesType DEF RecordFailure
    <2>2. \A n \in Nodes : queue[n] \in Row
      BY DEF TypeOK
    <2>3. \A n \in Nodes : Failure(n) \in Row
      <3> TAKE n \in Nodes
      <3>1. queue[n].attempts + 1 \in Nat /\ TRUE \in BOOLEAN /\ FALSE \in BOOLEAN
        BY <2>2, FieldTypes
      <3> QED BY <3>1, RowType DEF Failure
    <2>4. queue' \in [Nodes -> Row]
      BY <1>10, <2>2, <2>3 DEF RecordFailure
    <2> QED BY <1>10, <2>1, <2>4, Zenon DEF RecordFailure, TypeOK
  <1> QED BY <1>1, <1>2, <1>3, <1>4, <1>5, <1>6, <1>7, <1>8, <1>9, <1>10 DEF WorkerStep

(* The script keeps the types. *)
LEMMA BuildStepType == ASSUME TypeOK, BuildStep PROVE TypeOK'
  <1>1. build.space \in Spaces /\ build.batch \subseteq Chunks /\ {} \in SUBSET Chunks
    BY DEF TypeOK, Builder
  <1>2. ASSUME NEW pc \in {"none", "read", "put", "coverage", "activate", "done"},
               NEW s \in Spaces, NEW B \in SUBSET Chunks, Builds(pc, s, B)
        PROVE  build' \in Builder /\ UNCHANGED <<lease, worker, outages, stops>>
    BY <1>2 DEF Builds, Builder
  <1>f. UNCHANGED late \/ late' = {}
    BY DEF BuildStep, BuildStarts, BuildRead, BuildPut, BuildFails, BuildCoverage, BuildActivate
  <1>g. late' \subseteq Nodes
    BY <1>f DEF TypeOK
  <1>3. ASSUME NEW s \in Spaces, BuildStarts(s) PROVE TypeOK'
    BY <1>1, <1>2, <1>3, <1>g, Zenon DEF BuildStarts, TypeOK, store
  <1>4. ASSUME BuildRead PROVE TypeOK'
    <2> DEFINE B == Leading(Uncovered(build.space))
    <2>1. B \in SUBSET Chunks
      BY MissingSubset, LeadingSubset DEF Uncovered
    <2> HIDE DEF B
    <2>2. Builds(IF B = {} THEN "coverage" ELSE "put", build.space, B) /\ UNCHANGED store
      BY <1>4 DEF BuildRead, B
    <2>3. build' \in Builder /\ UNCHANGED <<lease, worker, outages, stops>>
      BY <1>1, <1>2, <2>1, <2>2
    <2> QED BY <2>2, <2>3, <1>g, Zenon DEF TypeOK, store
  <1>5. ASSUME BuildPut PROVE TypeOK'
    <2>1. vectors' \subseteq Spaces \X Chunks
      BY <1>1, <1>5 DEF BuildPut, TypeOK
    <2>2. build' \in Builder /\ UNCHANGED <<lease, worker, outages, stops>>
      BY <1>1, <1>2, <1>5 DEF BuildPut
    <2> QED BY <1>5, <2>1, <2>2, <1>g, Zenon DEF BuildPut, TypeOK
  <1>6. ASSUME BuildFails \/ BuildCoverage PROVE TypeOK'
    <2>1. build' \in Builder /\ UNCHANGED <<lease, worker, outages, stops>>
      BY <1>1, <1>2, <1>6 DEF BuildFails, BuildCoverage
    <2> QED BY <1>6, <2>1, <1>g, Zenon DEF BuildFails, BuildCoverage, TypeOK, store
  <1>7. ASSUME BuildActivate PROVE TypeOK'
    <2>1. build' \in Builder /\ UNCHANGED <<lease, worker, outages, stops>>
      BY <1>1, <1>2, <1>7 DEF BuildActivate
    <2> QED BY <1>1, <1>7, <2>1, <1>g, Zenon DEF BuildActivate, TypeOK
  <1> QED BY <1>3, <1>4, <1>5, <1>6, <1>7 DEF BuildStep

LEMMA InitType == Init => TypeOK
  <1> SUFFICES ASSUME Init PROVE TypeOK
    OBVIOUS
  <1>1. Off \in Drainer
    BY EmbeddingAssumption DEF Off, Drainer
  <1>2. build \in Builder
    BY EmbeddingAssumption DEF Init, Builder
  <1>3. queue \in [Nodes -> Row]
    BY NoRowType DEF Init
  <1>4. pending \in [Nodes -> BOOLEAN]
    BY DEF Init
  <1>5. lease \in [owner : Workers \cup {None, Gone}, lapsed : BOOLEAN]
    BY DEF Init
  <1>6. /\ rev \in [Nodes -> 0 .. MaxRevs] /\ outages \in 0 .. MaxOutages
        /\ stops \in 0 .. MaxStops /\ late \subseteq Nodes
    BY EmbeddingAssumption DEF Init
  <1>7. /\ chunks \in [Chunks -> {"absent", "live", "stale"}]
        /\ vectors \subseteq Spaces \X Chunks
        /\ active \in Spaces
        /\ worker \in [Workers -> Drainer]
    BY <1>1, EmbeddingAssumption DEF Init
  <1> QED BY <1>2, <1>3, <1>4, <1>5, <1>6, <1>7 DEF TypeOK

(* Every step keeps the types. *)
LEMMA StepType == ASSUME TypeOK, [Next]_vars PROVE TypeOK'
  <1> DEFINE L == [owner : Workers \cup {None, Gone}, lapsed : BOOLEAN]
  <1>l. lease \in L /\ lease.owner \in Workers \cup {None, Gone} /\ lease.lapsed \in BOOLEAN
    BY DEF TypeOK
  <1>w. worker \in [Workers -> Drainer]
    BY DEF TypeOK
  <1>o. Off \in Drainer
    BY EmbeddingAssumption DEF Off, Drainer
  <1>1. ASSUME NEW n \in Nodes, NEW text \in SUBSET Pieces, Write(n, text) PROVE TypeOK'
    <2>1. rev' \in [Nodes -> 0 .. MaxRevs]
      BY <1>1, EmbeddingAssumption DEF Write, TypeOK
    <2>2. /\ chunks' \in [Chunks -> {"absent", "live", "stale"}]
          /\ vectors' \subseteq Spaces \X Chunks
          /\ queue' \in [Nodes -> Row]
          /\ pending' \in [Nodes -> BOOLEAN]
      BY <1>1, SyncType DEF Write
    <2>3. late' \subseteq Nodes
      BY <1>1 DEF Write, TypeOK
    <2> QED BY <1>1, <2>1, <2>2, <2>3, Zenon DEF Write, TypeOK
  <1>2. ASSUME NEW w \in Workers, Stop(w) PROVE TypeOK'
    <2>1. worker' \in [Workers -> Drainer]
      <3>1. [worker[w] EXCEPT !.stopping = TRUE] \in Drainer
        <4>1. worker[w] \in Drainer
          BY <1>w
        <4> QED BY <4>1, Zenon DEF Drainer
      <3> QED BY <1>2, <1>w, <3>1, Zenon DEF Stop
    <2>2. lease' \in L
      <3>1. [owner |-> None, lapsed |-> FALSE] \in L
        BY Zenon
      <3> QED BY <1>2, <1>l, <3>1, Zenon DEF Stop
    <2>3. stops' \in 0 .. MaxStops
      BY <1>2, EmbeddingAssumption DEF Stop, TypeOK
    <2> QED BY <1>2, <2>1, <2>2, <2>3, Zenon DEF Stop, TypeOK, store
  <1>3. ASSUME NEW w \in Workers, Exit(w) \/ Crash(w) PROVE TypeOK'
    <2>1. worker' \in [Workers -> Drainer]
      BY <1>3, <1>w, <1>o DEF Exit, Crash
    <2>2. lease' \in L
      <3>1. [lease EXCEPT !.owner = Gone] \in L
        BY <1>l, Zenon
      <3> QED BY <1>3, <1>l, <3>1, Zenon DEF Exit, Crash
    <2>3. stops' \in 0 .. MaxStops
      BY <1>3, EmbeddingAssumption DEF Exit, Crash, TypeOK
    <2> QED BY <1>3, <2>1, <2>2, <2>3, Zenon DEF Exit, Crash, TypeOK, store
  <1>4. ASSUME NEW w \in Workers, NEW m \in Spaces, Start(w, m) PROVE TypeOK'
    <2> DEFINE x == [pc |-> "reconcile", model |-> m, nodes |-> {n \in Nodes : pending[n]},
                     batch |-> {}, stopping |-> FALSE]
    <2>1. x \in Drainer
      BY DEF Drainer
    <2>2. worker' \in [Workers -> Drainer]
      BY <1>4, <1>w, <2>1 DEF Start
    <2> QED BY <1>4, <2>2, Zenon DEF Start, TypeOK, store
  <1>5. ASSUME LeaseLapses PROVE TypeOK'
    <2>1. lease' \in L
      BY <1>5, <1>l, Zenon DEF LeaseLapses
    <2> QED BY <1>5, <2>1, Zenon DEF LeaseLapses, TypeOK, store
  <1>6. ASSUME NEW n \in Nodes, BackoffElapses(n) PROVE TypeOK'
    <2>1. queue \in [Nodes -> Row] /\ queue[n] \in Row
      BY DEF TypeOK
    <2>2. [queue[n] EXCEPT !.rested = TRUE] \in Row
      BY <2>1, Zenon DEF Row
    <2>3. queue' \in [Nodes -> Row]
      BY <1>6, <2>1, <2>2, Zenon DEF BackoffElapses
    <2> QED BY <1>6, <2>3, Zenon DEF BackoffElapses, TypeOK
  <1>7. ASSUME UNCHANGED vars PROVE TypeOK'
    BY <1>7, Zenon DEF vars, store, TypeOK
  <1> QED BY <1>1, <1>2, <1>3, <1>4, <1>5, <1>6, <1>7, WorkerStepType, BuildStepType DEF Next

(* Every variable always has its type. *)
THEOREM TypeCorrect == Spec => []TypeOK
  BY InitType, StepType, PTL DEF Spec

-----------------------------------------------------------------------------
(* A node lacks no vector unless it is queued.  The step that could break it *)
(* unseen is the change of space.  The script has seen every live chunk      *)
(* covered, and a write, the only step that can uncover one since, is late.  *)

MirrorOf(n) == /\ pending[n] = queue[n].in
               /\ ~queue[n].in /\ n \notin Forgotten => Unembedded(n) = {}

BuiltIsCovered ==
  build.pc = "activate" => \A n \in Nodes \ late : Missing(n, chunks, vectors, build.space) = {}

IndexInv == TypeOK /\ QueueMirrorsWork /\ BuiltIsCovered

LEMMA MoreVectors ==
  ASSUME NEW n \in Nodes, NEW C, NEW V, NEW V2, NEW s, V \subseteq V2
  PROVE  Missing(n, C, V2, s) \subseteq Missing(n, C, V, s)
  BY DEF Missing

(* A transaction that leaves the chunks, the space and a node's row alone,   *)
(* and at most adds vectors, keeps what holds of the node.                   *)
LEMMA LeftAlone ==
  ASSUME QueueMirrorsWork, NEW n \in Nodes, vectors \subseteq vectors',
         UNCHANGED <<chunks, active>>, pending'[n] = pending[n], queue'[n].in = queue[n].in,
         n \in Forgotten => n \in Forgotten'
  PROVE  MirrorOf(n)'
  <1>1. MirrorOf(n)
    BY DEF QueueMirrorsWork, MirrorOf
  <1>2. Unembedded(n)' \subseteq Unembedded(n)
    BY MoreVectors DEF Unembedded
  <1> QED BY <1>1, <1>2 DEF MirrorOf

LEMMA RefreshMirrors ==
  ASSUME TypeOK, NEW n \in Nodes, RefreshQueue(n, chunks', vectors'), active' = active
  PROVE  /\ MirrorOf(n)'
         /\ \A m \in Nodes \ {n} : queue'[m] = queue[m] /\ pending'[m] = pending[m]
  <1> DEFINE M == Missing(n, chunks', vectors', active)
             x == [in |-> M # {}, attempts |-> 0, rested |-> TRUE]
  <1>1. queue' = [queue EXCEPT ![n] = x] /\ pending' = [pending EXCEPT ![n] = M # {}]
    BY DEF RefreshQueue
  <1>2. x.in = (M # {})
    OBVIOUS
  <1>3. Unembedded(n)' = M
    BY DEF Unembedded
  <1> HIDE DEF x, M
  <1>4. queue'[n] = x /\ pending'[n] = (M # {})
    BY <1>1, Zenon DEF TypeOK
  <1>5. MirrorOf(n)'
    BY <1>2, <1>3, <1>4, Zenon DEF MirrorOf
  <1>6. \A m \in Nodes \ {n} : queue'[m] = queue[m] /\ pending'[m] = pending[m]
    BY <1>1, Zenon DEF TypeOK
  <1> QED BY <1>5, <1>6

(* A write of n settles n and is not seen by another node. *)
LEMMA SyncMirrors ==
  ASSUME TypeOK, QueueMirrorsWork, NEW n \in Nodes, NEW text, SyncChunks(n, text),
         active' = active, Forgotten \ {n} \subseteq Forgotten'
  PROVE  QueueMirrorsWork'
  <1>1. vectors' = VectorsKept(n, text) /\ RefreshQueue(n, chunks', vectors')
    BY DEF SyncChunks
  <1>2. MirrorOf(n)' /\ \A m \in Nodes \ {n} : queue'[m] = queue[m] /\ pending'[m] = pending[m]
    BY <1>1, RefreshMirrors
  <1>3. ASSUME NEW m \in Nodes, m # n PROVE MirrorOf(m)'
    <2>1. \A p \in Pieces : <<m, p>> \in Chunks /\ chunks'[<<m, p>>] = chunks[<<m, p>>]
      BY <1>3 DEF SyncChunks, Chunks
    <2>2. \A p \in Pieces : <<active, <<m, p>>>> \in vectors => <<active, <<m, p>>>> \in vectors'
      BY <1>1, <1>3 DEF VectorsKept
    <2>3. Unembedded(m)' \subseteq Unembedded(m)
      BY <2>1, <2>2 DEF Unembedded, Missing
    <2>4. MirrorOf(m) /\ queue'[m] = queue[m] /\ pending'[m] = pending[m]
      BY <1>2, <1>3 DEF QueueMirrorsWork, MirrorOf
    <2>5. m \in Forgotten => m \in Forgotten'
      BY <1>3
    <2> QED BY <2>3, <2>4, <2>5 DEF MirrorOf
  <1> QED BY <1>2, <1>3 DEF QueueMirrorsWork, MirrorOf

LEMMA FinalizedMirrors ==
  ASSUME TypeOK, QueueMirrorsWork, NEW S \in SUBSET Nodes, Finalized(S, vectors'),
         vectors \subseteq vectors', UNCHANGED <<chunks, active>>, Forgotten \subseteq Forgotten'
  PROVE  QueueMirrorsWork'
  <1> DEFINE done == {n \in S : Missing(n, chunks, vectors', active) = {}}
             x == [in |-> TRUE, attempts |-> 0, rested |-> TRUE]
  <1>1. /\ queue' = [n \in Nodes |-> IF n \in done THEN NoRow
                                     ELSE IF n \in S /\ queue[n].in THEN x ELSE queue[n]]
        /\ pending' = [n \in Nodes |-> pending[n] /\ n \notin done]
    BY DEF Finalized
  <1>2. x.in = TRUE /\ NoRow.in = FALSE
    BY DEF NoRow
  <1>3. \A n \in done : Unembedded(n)' = {}
    BY DEF Unembedded
  <1> HIDE DEF x, done
  <1>4. ASSUME NEW n \in Nodes, n \in done PROVE MirrorOf(n)'
    BY <1>1, <1>2, <1>3, <1>4, Zenon DEF MirrorOf
  <1>5. ASSUME NEW n \in Nodes, n \notin done PROVE MirrorOf(n)'
    <2>0. pending \in [Nodes -> BOOLEAN] /\ pending[n] \in BOOLEAN
          /\ queue[n] \in Row /\ queue[n].in \in BOOLEAN
      BY FieldTypes DEF TypeOK
    <2>1. pending'[n] = (pending[n] /\ n \notin done)
      BY <1>1
    <2>2. pending'[n] = pending[n]
      BY <1>5, <2>0, <2>1
    <2>3. queue'[n] = IF n \in S /\ queue[n].in THEN x ELSE queue[n]
      BY <1>1, <1>5
    <2>4. queue'[n].in = queue[n].in
      BY <1>2, <2>0, <2>3
    <2> QED BY <2>2, <2>4, LeftAlone
  <1> QED BY <1>4, <1>5 DEF QueueMirrorsWork, MirrorOf

LEMMA WorkerLeavesScript ==
  ASSUME NEW w \in Workers, WorkerStep(w)
  PROVE  UNCHANGED <<build, late>> /\ Forgotten' = Forgotten
  BY DEF WorkerStep, Reconcile, FinalizeNode, Commit, RecordFailure, Reconciled, HoldLease,
         ReadRows, ReadChunks, Embed, EmbedFails, CommitRefused, TickEnds, Forgotten

(* A step that touches neither the tables nor which rows there are. *)
LEMMA QuietMirrors ==
  ASSUME QueueMirrorsWork, UNCHANGED <<chunks, vectors, pending, active>>,
         \A n \in Nodes : queue'[n].in = queue[n].in, Forgotten \subseteq Forgotten'
  PROVE  QueueMirrorsWork'
  <1>1. \A n \in Nodes : MirrorOf(n)'
    BY LeftAlone
  <1> QED BY <1>1 DEF QueueMirrorsWork, MirrorOf

LEMMA WorkerMirrors ==
  ASSUME TypeOK, QueueMirrorsWork, NEW w \in Workers, WorkerStep(w)
  PROVE  QueueMirrorsWork'
  <1>0. Forgotten' = Forgotten
    BY WorkerLeavesScript
  <1>1. ASSUME NEW n \in Nodes, Reconcile(w, n) PROVE QueueMirrorsWork'
    <2>0. active' = active
      BY <1>1 DEF Reconcile
    <2>1. CASE SyncChunks(n, {})
      BY <2>0, <2>1, <1>0, SyncMirrors
    <2>2. CASE RefreshQueue(n, chunks, vectors) /\ UNCHANGED <<chunks, vectors>>
      <3>0. RefreshQueue(n, chunks', vectors')
        BY <2>2
      <3>1. MirrorOf(n)' /\ \A m \in Nodes \ {n} : queue'[m] = queue[m] /\ pending'[m] = pending[m]
        BY <3>0, <2>0, RefreshMirrors
      <3>2. \A m \in Nodes \ {n} : MirrorOf(m)'
        BY <2>0, <2>2, <3>1, <1>0, LeftAlone
      <3> QED BY <3>1, <3>2 DEF QueueMirrorsWork, MirrorOf
    <2>3. CASE UNCHANGED <<queue, pending, chunks, vectors>>
      BY <2>0, <2>3, <1>0, QuietMirrors
    <2> QED BY <1>1, <2>1, <2>2, <2>3 DEF Reconcile
  <1>2. ASSUME NEW n \in Nodes, FinalizeNode(w, n) PROVE QueueMirrorsWork'
    <2>1. /\ Finalized({n}, vectors') /\ vectors \subseteq vectors'
          /\ UNCHANGED <<chunks, active>>
      BY <1>2 DEF FinalizeNode
    <2> QED BY <2>1, <1>0, FinalizedMirrors
  <1>3. ASSUME Commit(w) PROVE QueueMirrorsWork'
    <2>1. /\ Finalized(Involved(w), vectors') /\ vectors \subseteq vectors'
          /\ UNCHANGED <<chunks, active>>
      BY <1>3 DEF Commit
    <2> QED BY <2>1, InvolvedNodes, <1>0, FinalizedMirrors
  <1>4. ASSUME RecordFailure(w) PROVE QueueMirrorsWork'
    <2>1. \A n \in Nodes : queue'[n].in = queue[n].in
      <3> TAKE n \in Nodes
      <3>0. queue[n].in \in BOOLEAN
        BY FieldTypes DEF TypeOK
      <3>1. CASE n \in Involved(w) /\ queue[n].in
        <4>1. queue'[n] = Failure(n)
          BY <1>4, <3>1 DEF RecordFailure
        <4> QED BY <3>0, <3>1, <4>1 DEF Failure
      <3>2. CASE ~(n \in Involved(w) /\ queue[n].in)
        BY <1>4, <3>2 DEF RecordFailure
      <3> QED BY <3>1, <3>2
    <2> QED BY <1>4, <2>1, <1>0, QuietMirrors DEF RecordFailure
  <1>5. CASE UNCHANGED store
    BY <1>5, <1>0, QuietMirrors DEF store
  <1> QED BY <1>1, <1>2, <1>3, <1>4, <1>5
          DEF WorkerStep, Reconciled, HoldLease, ReadRows, ReadChunks, Embed, EmbedFails,
              CommitRefused, TickEnds

LEMMA StepMirrors ==
  ASSUME IndexInv, [Next]_vars PROVE QueueMirrorsWork'
  <1>0. TypeOK /\ QueueMirrorsWork /\ BuiltIsCovered
    BY DEF IndexInv
  <1>1. ASSUME NEW n \in Nodes, NEW text \in SUBSET Pieces, Write(n, text)
        PROVE  QueueMirrorsWork'
    <2>1. Forgotten \ {n} \subseteq Forgotten'
      BY <1>1 DEF Write, Forgotten
    <2> QED BY <1>0, <1>1, <2>1, SyncMirrors DEF Write
  <1>2. ASSUME NEW n \in Nodes, BackoffElapses(n) PROVE QueueMirrorsWork'
    <2>1. \A m \in Nodes : queue'[m].in = queue[m].in
      BY <1>0, <1>2 DEF BackoffElapses, TypeOK, Row
    <2>2. Forgotten' = Forgotten
      BY <1>2 DEF BackoffElapses, Forgotten
    <2> QED BY <1>0, <1>2, <2>1, <2>2, QuietMirrors DEF BackoffElapses
  <1>f. ASSUME BuildStep PROVE Forgotten = {}
    BY <1>f DEF BuildStep, BuildStarts, BuildRead, BuildPut, BuildFails, BuildCoverage,
                BuildActivate, Forgotten
  <1>3. ASSUME BuildPut PROVE QueueMirrorsWork'
    <2>0. Forgotten = {}
      BY <1>3, <1>f DEF BuildStep
    <2>1. \A n \in Nodes : MirrorOf(n)'
      BY <1>0, <1>3, <2>0, LeftAlone DEF BuildPut
    <2> QED BY <2>1 DEF QueueMirrorsWork, MirrorOf
  <1>4. ASSUME BuildActivate PROVE QueueMirrorsWork'
    <2>1. Forgotten' = late
      BY <1>4 DEF BuildActivate, Builds, Forgotten
    <2>2. \A n \in Nodes \ late : Unembedded(n)' = {}
      BY <1>0, <1>4 DEF BuildActivate, BuiltIsCovered, Unembedded
    <2> QED BY <1>0, <1>4, <2>1, <2>2 DEF BuildActivate, QueueMirrorsWork
  <1>5. CASE UNCHANGED <<store, build, late>>
    <2>1. Forgotten' = Forgotten
      BY <1>5 DEF Forgotten
    <2> QED BY <1>0, <1>5, <2>1, QuietMirrors DEF store
  <1>6. ASSUME BuildStep, UNCHANGED store PROVE QueueMirrorsWork'
    <2>1. Forgotten \subseteq Forgotten'
      BY <1>6, <1>f
    <2> QED BY <1>0, <1>6, <2>1, QuietMirrors DEF store
  <1>7. ASSUME NEW w \in Workers, WorkerStep(w) PROVE QueueMirrorsWork'
    BY <1>0, <1>7, WorkerMirrors
  <1>8. ASSUME BuildStep PROVE QueueMirrorsWork'
    BY <1>3, <1>4, <1>6, <1>8
       DEF BuildStep, BuildStarts, BuildRead, BuildFails, BuildCoverage
  <1> QED BY <1>1, <1>2, <1>5, <1>7, <1>8
          DEF Next, Stop, Exit, Crash, Start, LeaseLapses, vars

LEMMA VectorsGrowOrSync ==
  ASSUME TypeOK, NEW w \in Workers, WorkerStep(w)
  PROVE  \/ chunks' = chunks /\ vectors \subseteq vectors'
         \/ \E n \in Nodes : /\ SyncChunks(n, {})
                            /\ \A p \in Pieces : chunks[<<n, p>>] = "absent"
  BY DEF WorkerStep, Reconcile, FinalizeNode, Finalized, Commit, RecordFailure, Reconciled,
         HoldLease, ReadRows, ReadChunks, Embed, EmbedFails, CommitRefused, TickEnds, store

(* Bringing a node without chunk rows up to date changes nothing of note. *)
LEMMA EmptySync ==
  ASSUME TypeOK, NEW n \in Nodes, SyncChunks(n, {}), NEW m \in Nodes, NEW s,
         \A p \in Pieces : chunks[<<n, p>>] = "absent"
  PROVE  Missing(m, chunks', vectors', s) \subseteq Missing(m, chunks, vectors, s)
  <1>1. SUFFICES ASSUME NEW p \in Pieces, chunks'[<<m, p>>] = "live"
                 PROVE  /\ chunks[<<m, p>>] = "live"
                        /\ <<s, <<m, p>>>> \in vectors => <<s, <<m, p>>>> \in vectors'
    BY DEF Missing
  <1>2. <<m, p>> \in Chunks
    BY DEF Chunks
  <1>3. m # n
    BY <1>1, <1>2 DEF SyncChunks
  <1> QED BY <1>1, <1>2, <1>3 DEF SyncChunks, VectorsKept

LEMMA StepCovered ==
  ASSUME IndexInv, [Next]_vars PROVE BuiltIsCovered'
  <1>0. TypeOK /\ BuiltIsCovered
    BY DEF IndexInv
  <1> SUFFICES ASSUME build'.pc = "activate", NEW n \in Nodes, n \notin late'
               PROVE  Missing(n, chunks', vectors', build'.space) = {}
    BY DEF BuiltIsCovered
  <1>1. ASSUME NEW m \in Nodes, NEW text \in SUBSET Pieces, Write(m, text)
        PROVE  Missing(n, chunks', vectors', build'.space) = {}
    <2>1. build' = build /\ n # m /\ n \notin late
      BY <1>1 DEF Write
    <2>2. Missing(n, chunks, vectors, build.space) = {}
      BY <1>0, <2>1 DEF BuiltIsCovered
    <2>3. SyncChunks(m, text)
      BY <1>1 DEF Write
    <2>4. \A p \in Pieces : <<n, p>> \in Chunks /\ chunks'[<<n, p>>] = chunks[<<n, p>>]
      BY <2>1, <2>3 DEF SyncChunks, Chunks
    <2>5. \A s : \A p \in Pieces : <<s, <<n, p>>>> \in vectors => <<s, <<n, p>>>> \in vectors'
      BY <2>1, <2>3 DEF SyncChunks, VectorsKept
    <2>6. Missing(n, chunks', vectors', build.space) \subseteq Missing(n, chunks, vectors, build.space)
      BY <2>4, <2>5 DEF Missing
    <2> QED BY <2>1, <2>2, <2>6
  <1>2. ASSUME NEW w \in Workers, WorkerStep(w)
        PROVE  Missing(n, chunks', vectors', build'.space) = {}
    <2>1. build' = build /\ late' = late
      BY <1>2, WorkerLeavesScript
    <2>2. Missing(n, chunks', vectors', build.space) \subseteq Missing(n, chunks, vectors, build.space)
      BY <1>0, <1>2, VectorsGrowOrSync, MoreVectors, EmptySync
    <2> QED BY <1>0, <2>1, <2>2 DEF BuiltIsCovered
  <1>3. CASE BuildCoverage
    <2>1. Missing(n, chunks, vectors, build.space) \subseteq Uncovered(build.space)
      BY DEF Uncovered
    <2>2. build.space = build'.space /\ Covers(build.space) /\ UNCHANGED <<chunks, vectors>>
      BY <1>3 DEF BuildCoverage, Builds, store
    <2> QED BY <2>1, <2>2 DEF Covers
  <1>4. CASE BuildPut \/ BuildFails \/ BuildActivate \/ BuildRead \/ \E s \in Spaces : BuildStarts(s)
    <2>1. PICK pc \in {"read", "put", "coverage", "done"} : \E s, B : Builds(pc, s, B)
      BY <1>4 DEF BuildPut, BuildFails, BuildActivate, BuildRead, BuildStarts
    <2> QED BY <2>1 DEF Builds
  <1>5. CASE UNCHANGED <<chunks, vectors, build, late>>
    BY <1>0, <1>5 DEF BuiltIsCovered
  <1> QED BY <1>1, <1>2, <1>3, <1>4, <1>5
          DEF Next, BuildStep, Stop, Exit, Crash, Start, LeaseLapses, BackoffElapses, store, vars

LEMMA InitIndex == Init => IndexInv
  <1> SUFFICES ASSUME Init PROVE IndexInv
    OBVIOUS
  <1>1. QueueMirrorsWork
    <2>1. \A n \in Nodes : Unembedded(n) = {}
      BY DEF Init, Unembedded, Missing, Chunks
    <2> QED BY <2>1 DEF Init, QueueMirrorsWork, NoRow
  <1> QED BY <1>1, InitType DEF IndexInv, BuiltIsCovered, Init

(* A node that is not queued lacks no vector in the active space, and the    *)
(* flag of a node says whether it is queued: but for the nodes written       *)
(* between the count and the activation, until their next revision.          *)
THEOREM NothingForgotten == Spec => []QueueMirrorsWork
  <1>1. IndexInv /\ [Next]_vars => IndexInv'
    BY StepType, StepMirrors, StepCovered DEF IndexInv
  <1>2. IndexInv => QueueMirrorsWork
    BY DEF IndexInv
  <1> QED BY <1>1, <1>2, InitIndex, PTL DEF Spec

(* Whoever writes or commits between the count and the activation, what the  *)
(* activated space lacks belongs to a node written after the count.          *)
THEOREM ActivationIsSafe == Spec => ActivatedIsCovered
  <1>1. IndexInv /\ [Next]_vars => IndexInv'
    BY StepType, StepMirrors, StepCovered DEF IndexInv
  <1>2. IndexInv /\ [Next]_vars
        => [active' # active => \A n \in Nodes \ late : Missing(n, chunks, vectors, active') = {}]_vars
    <2> SUFFICES ASSUME IndexInv, Next, active' # active, NEW n \in Nodes \ late
                 PROVE  Missing(n, chunks, vectors, active') = {}
      BY DEF vars
    <2>1. BuildActivate
      BY DEF Next, WorkerStep, BuildStep, BuildStarts, BuildRead, BuildPut, BuildFails,
             BuildCoverage, Stop, Exit, Crash, Start, LeaseLapses, BackoffElapses, Write,
             Reconcile, FinalizeNode, Commit, RecordFailure, Reconciled, HoldLease, ReadRows,
             ReadChunks, Embed, EmbedFails, CommitRefused, TickEnds, store
    <2> QED BY <2>1 DEF BuildActivate, IndexInv, BuiltIsCovered
  <1> QED BY <1>1, <1>2, InitIndex, PTL DEF Spec, ActivatedIsCovered

(* A live chunk that has its vector keeps it while it is live and the space  *)
(* is the same.                                                              *)
THEOREM VectorsAreKept == Spec => VectorsStay
  <1> DEFINE Stays == \A c \in Chunks :
                 /\ chunks[c] = "live" /\ <<active, c>> \in vectors
                 /\ chunks'[c] = "live" /\ active' = active
                 => <<active, c>> \in vectors'
  <1>1. TypeOK /\ [Next]_vars => [Stays]_vars
    <2> SUFFICES ASSUME TypeOK, Next, NEW c \in Chunks,
                        <<active, c>> \in vectors, chunks'[c] = "live"
                 PROVE  <<active, c>> \in vectors'
      BY DEF vars
    <2>1. ASSUME NEW n \in Nodes, NEW text, SyncChunks(n, text)
          PROVE  <<active, c>> \in vectors'
      <3>1. c[1] # n \/ c[2] \in text
        BY <2>1 DEF SyncChunks
      <3> QED BY <2>1, <3>1 DEF SyncChunks, VectorsKept
    <2>2. CASE vectors \subseteq vectors'
      BY <2>2
    <2>3. ASSUME NEW w \in Workers, WorkerStep(w) PROVE <<active, c>> \in vectors'
      BY <2>1, <2>2, <2>3, VectorsGrowOrSync
    <2> QED BY <2>1, <2>2, <2>3
            DEF Next, Write, BuildStep, BuildStarts, BuildRead, BuildPut, BuildFails,
                BuildCoverage, BuildActivate, Stop, Exit, Crash, Start, LeaseLapses,
                BackoffElapses, store
  <1> QED BY <1>1, InitType, StepType, PTL DEF Spec, VectorsStay
=============================================================================
