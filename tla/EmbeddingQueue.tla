--------------------------- MODULE EmbeddingQueue ---------------------------
(* The vector index and the queue behind it: what a write of a node does to  *)
(* its chunks (syncChunks, refreshQueue), the worker that drains the queue   *)
(* (EmbeddingWorker over PgEmbeddingQueueRepo), its lease, and the script    *)
(* that builds another vector space and activates it (space-build.mts over   *)
(* PgVectorSpacesRepo).                                                      *)
(*                                                                           *)
(* The text of a node is the set of pieces it is cut into.  A chunk id is a  *)
(* hash of its node and text, so the same piece of the same node is the same *)
(* chunk, whatever revision it comes back in.                                *)
(*                                                                           *)
(* A step is one transaction or one read.  The worker reads the queue, then  *)
(* the chunks, then waits for the model, then writes: what it read may be    *)
(* out of date at each of them.  Not represented: queueRows' LIMIT of four   *)
(* batches, which no instance reaches.                                       *)
EXTENDS Integers, FiniteSets

CONSTANTS
    MaxNodes,    \* node ids, in ULID order
    Pieces,      \* what a text is cut into; a number is its place in the text
    Poison,      \* pieces the embedding model always fails on
    Spaces,      \* vector spaces, one per model: a space stands for its model
    First,       \* the space that is active at first
    Workers,     \* processes that may run the worker
    None, Gone,  \* no owner; an owner whose process is gone
    Batch,       \* chunks per embedding call, 16 in the code
    MaxAttempts, \* MAX_EMBED_ATTEMPTS, 5 in the code
    MaxRevs,     \* bound: revisions of a node
    MaxOutages,  \* bound: embedding calls that fail for no fault of the text
    MaxStops,    \* bound: worker processes that stop or crash
    MayBuild     \* is the space-build script run?

Nodes == 1 .. MaxNodes
Chunks == Nodes \X Pieces

ASSUME EmbeddingAssumption ==
    /\ MaxNodes \in Nat
    /\ Pieces \subseteq Nat
    /\ Poison \subseteq Pieces
    /\ First \in Spaces
    /\ None \notin Workers /\ Gone \notin Workers /\ None # Gone
    /\ Batch \in Nat \ {0}
    /\ MaxAttempts \in Nat \ {0}
    /\ MaxRevs \in Nat
    /\ MaxOutages \in Nat
    /\ MaxStops \in Nat
    /\ MayBuild \in BOOLEAN

VARIABLES
    rev,      \* revisions written of each node, 0 before it is created
    chunks,   \* the chunks table
    vectors,  \* chunk_vectors: which chunk has a vector in which space
    pending,  \* nodes.pending_embedding
    queue,    \* embedding_queue
    active,   \* the active vector space
    lease,    \* the embedding row of worker_lease
    worker,   \* the worker of each process
    build,    \* the space-build script
    late,     \* history: nodes written since the script counted its coverage
    outages, stops

store == <<rev, chunks, vectors, pending, queue, active>>
vars == <<store, lease, worker, build, late, outages, stops>>

NoRow == [in |-> FALSE, attempts |-> 0, rested |-> TRUE]

Off == [pc |-> "off", model |-> First, nodes |-> {}, batch |-> {}, stopping |-> FALSE]

Init ==
    /\ rev = [n \in Nodes |-> 0]
    /\ chunks = [c \in Chunks |-> "absent"]
    /\ vectors = {}
    /\ pending = [n \in Nodes |-> FALSE]
    /\ queue = [n \in Nodes |-> NoRow]
    /\ active = First
    /\ lease = [owner |-> None, lapsed |-> FALSE]
    /\ worker = [w \in Workers |-> Off]
    /\ build = [pc |-> "none", space |-> First, batch |-> {}]
    /\ late = {}
    /\ outages = 0
    /\ stops = 0

-----------------------------------------------------------------------------
(* The tables *)

(* The live chunks of n without a vector, given the chunks and the vectors. *)
Missing(n, C, V, s) ==
    {c \in {n} \X Pieces : C[c] = "live" /\ <<s, c>> \notin V}

Unembedded(n) == Missing(n, chunks, vectors, active)

Before(c, d) == c[1] < d[1] \/ (c[1] = d[1] /\ c[2] < d[2])

(* The first chunks of S: ORDER BY node_id, seq LIMIT batch. *)
Leading(S) == {c \in S : Cardinality({d \in S : Before(d, c)}) < Batch}

(* slip: the node is queued once, when it is created *)
QueueOnce(n, C, V) ==
    IF Missing(n, C, V, active) # {} /\ rev[n] = 0
    THEN /\ queue' = [queue EXCEPT ![n] = [in |-> TRUE, attempts |-> 0, rested |-> TRUE]]
         /\ pending' = [pending EXCEPT ![n] = TRUE]
    ELSE UNCHANGED <<queue, pending>>

RefreshQueue(n, C, V) ==
    /\ queue' = [queue EXCEPT ![n] =
                   [in |-> Missing(n, C, V, active) # {}, attempts |-> 0, rested |-> TRUE]]
    /\ pending' = [pending EXCEPT ![n] = Missing(n, C, V, active) # {}]

(* Only the vectors of what the text no longer has are dropped, everywhere. *)
VectorsKept(n, text) == {v \in vectors : v[2][1] # n \/ v[2][2] \in text}

SyncChunks(n, text) ==
    LET C == [c \in Chunks |->
                IF c[1] # n THEN chunks[c]
                ELSE IF c[2] \in text THEN "live"
                ELSE IF chunks[c] = "absent" THEN "absent" ELSE "stale"]
    IN  /\ chunks' = C
        /\ vectors' = VectorsKept(n, text)
        /\ RefreshQueue(n, C, VectorsKept(n, text))

(* createNode and applyDistillation, and the revisions of updateMemory and   *)
(* applyMerge.  Nothing else changes a node's text.  Nothing keeps a write   *)
(* out while the script runs, which has no lock to take.                     *)
Write(n, text) ==
    /\ rev[n] < MaxRevs
    /\ \A m \in 1 .. (n - 1) : rev[m] > 0
    /\ rev' = [rev EXCEPT ![n] = rev[n] + 1]
    /\ late' = IF build.pc = "activate" THEN late \cup {n} ELSE late \ {n}
    /\ SyncChunks(n, text)
    /\ UNCHANGED <<active, lease, worker, build, outages, stops>>

(* What finalize makes of the rows of S: embedded, or queued afresh. *)
Finalized(S, V) ==
    LET done == {n \in S : Missing(n, chunks, V, active) = {}}
    IN  /\ queue' = [n \in Nodes |->
                       IF n \in done THEN NoRow
                       ELSE IF n \in S /\ queue[n].in
                            THEN [in |-> TRUE, attempts |-> 0, rested |-> TRUE]
                            ELSE queue[n]]
        /\ pending' = [n \in Nodes |-> pending[n] /\ n \notin done]

Parked(n) == queue[n].in /\ queue[n].attempts >= MaxAttempts

-----------------------------------------------------------------------------
(* The worker *)

Goes(w, pc, nodes, batch) ==
    worker' = [worker EXCEPT ![w] = [pc |-> pc, model |-> worker[w].model, nodes |-> nodes,
                                     batch |-> batch, stopping |-> worker[w].stopping]]

Involved(w) == {c[1] : c \in worker[w].batch}

(* The process starts with the model it is configured for, and reads which   *)
(* nodes are pending.                                                        *)
Start(w, m) ==
    /\ worker[w].pc = "off"
    /\ worker' = [worker EXCEPT ![w] = [pc |-> "reconcile", model |-> m,
                                        nodes |-> {n \in Nodes : pending[n]},
                                        batch |-> {}, stopping |-> FALSE]]
    /\ UNCHANGED <<store, lease, build, late, outages, stops>>

(* One node of reconcilePending.  A node without any chunk row has a text    *)
(* without chunks.                                                           *)
Reconcile(w, n) ==
    /\ worker[w].pc = "reconcile" /\ n \in worker[w].nodes
    /\ IF \A p \in Pieces : chunks[<<n, p>>] = "absent"
       THEN SyncChunks(n, {})
       ELSE /\ IF queue[n].in THEN UNCHANGED <<queue, pending>>
               ELSE RefreshQueue(n, chunks, vectors)
            /\ UNCHANGED <<chunks, vectors>>
    /\ Goes(w, "reconcile", worker[w].nodes \ {n}, {})
    /\ UNCHANGED <<rev, active, lease, build, late, outages, stops>>

Reconciled(w) ==
    /\ worker[w].pc = "reconcile" /\ worker[w].nodes = {}
    /\ Goes(w, "lease", {}, {})
    /\ UNCHANGED <<store, lease, build, late, outages, stops>>

(* Taken or renewed at the start of a tick, and not looked at again. *)
HoldLease(w) ==
    /\ worker[w].pc = "lease" /\ ~worker[w].stopping
    /\ lease.owner \in {None, w} \/ lease.lapsed
    /\ lease' = [owner |-> w, lapsed |-> FALSE]
    /\ Goes(w, "rows", {}, {})
    /\ UNCHANGED <<store, build, late, outages, stops>>

Eligible(n) ==
    /\ queue[n].in /\ queue[n].attempts < MaxAttempts
    /\ queue[n].attempts = 0 \/ queue[n].rested

ReadRows(w) ==
    /\ worker[w].pc = "rows"
    /\ LET nodes == {n \in Nodes : Eligible(n)}
       IN  Goes(w, IF nodes = {} THEN "lease" ELSE "chunks", nodes, {})
    /\ UNCHANGED <<store, lease, build, late, outages, stops>>

ReadChunks(w) ==
    /\ worker[w].pc = "chunks"
    /\ LET batch == Leading(UNION {Unembedded(n) : n \in worker[w].nodes})
       IN  Goes(w, IF batch = {} THEN "finalize" ELSE "embed", worker[w].nodes, batch)
    /\ UNCHANGED <<store, lease, build, late, outages, stops>>

HasPoison(batch) == \E c \in batch : c[2] \in Poison

Embed(w) ==
    /\ worker[w].pc = "embed" /\ ~HasPoison(worker[w].batch)
    /\ Goes(w, "commit", worker[w].nodes, worker[w].batch)
    /\ UNCHANGED <<store, lease, build, late, outages, stops>>

EmbedFails(w) ==
    /\ worker[w].pc = "embed"
    /\ \/ HasPoison(worker[w].batch) /\ UNCHANGED outages
       \/ ~HasPoison(worker[w].batch) /\ outages < MaxOutages /\ outages' = outages + 1
    /\ Goes(w, "failed", worker[w].nodes, worker[w].batch)
    /\ UNCHANGED <<store, lease, build, late, stops>>

Fits(w) == worker[w].model = active

Commit(w) ==
    /\ worker[w].pc = "commit" /\ Fits(w)
    /\ vectors' = vectors \cup ({active} \X worker[w].batch)
    /\ Finalized(Involved(w), vectors')
    /\ Goes(w, "finalize", worker[w].nodes \ Involved(w), {})
    /\ UNCHANGED <<rev, chunks, active, lease, build, late, outages, stops>>

CommitRefused(w) ==
    /\ worker[w].pc = "commit" /\ ~Fits(w)
    /\ Goes(w, "failed", worker[w].nodes, worker[w].batch)
    /\ UNCHANGED <<store, lease, build, late, outages, stops>>

(* slip: the failure leaves no trace on the row *)
UncountedFailure(n) == [queue[n] EXCEPT !.rested = FALSE]

Failure(n) ==
    [in |-> TRUE, attempts |-> queue[n].attempts + 1, rested |-> FALSE]

RecordFailure(w) ==
    /\ worker[w].pc = "failed"
    /\ queue' = [n \in Nodes |->
                   IF n \in Involved(w) /\ queue[n].in THEN Failure(n) ELSE queue[n]]
    /\ Goes(w, "lease", {}, {})
    /\ UNCHANGED <<rev, chunks, vectors, pending, active, lease, build, late, outages, stops>>

(* finalizeNode, a transaction per node, in the order of the queue or any. *)
FinalizeNode(w, n) ==
    /\ worker[w].pc = "finalize" /\ n \in worker[w].nodes
    /\ Finalized({n}, vectors)
    /\ Goes(w, "finalize", worker[w].nodes \ {n}, {})
    /\ UNCHANGED <<rev, chunks, vectors, active, lease, build, late, outages, stops>>

TickEnds(w) ==
    /\ worker[w].pc = "finalize" /\ worker[w].nodes = {}
    /\ Goes(w, "lease", {}, {})
    /\ UNCHANGED <<store, lease, build, late, outages, stops>>

(* The daemon shuts down: the lease is released at once, and the tick in     *)
(* flight goes on until the process exits.                                   *)
Stop(w) ==
    /\ worker[w].pc # "off" /\ ~worker[w].stopping /\ stops < MaxStops
    /\ stops' = stops + 1
    /\ worker' = [worker EXCEPT ![w].stopping = TRUE]
    /\ lease' = IF lease.owner = w THEN [owner |-> None, lapsed |-> FALSE] ELSE lease
    /\ UNCHANGED <<store, build, late, outages>>

Exit(w) ==
    /\ worker[w].pc # "off" /\ worker[w].stopping
    /\ worker' = [worker EXCEPT ![w] = Off]
    /\ lease' = IF lease.owner = w THEN [lease EXCEPT !.owner = Gone] ELSE lease
    /\ UNCHANGED <<store, build, late, outages, stops>>

(* The next instance has an id of its own: the lease has to lapse. *)
Crash(w) ==
    /\ worker[w].pc # "off" /\ ~worker[w].stopping /\ stops < MaxStops
    /\ stops' = stops + 1
    /\ worker' = [worker EXCEPT ![w] = Off]
    /\ lease' = IF lease.owner = w THEN [lease EXCEPT !.owner = Gone] ELSE lease
    /\ UNCHANGED <<store, build, late, outages>>

LeaseLapses ==
    /\ lease.owner # None /\ ~lease.lapsed
    /\ lease' = [lease EXCEPT !.lapsed = TRUE]
    /\ UNCHANGED <<store, worker, build, late, outages, stops>>

BackoffElapses(n) ==
    /\ queue[n].in /\ ~queue[n].rested
    /\ queue' = [queue EXCEPT ![n].rested = TRUE]
    /\ UNCHANGED <<rev, chunks, vectors, pending, active, lease, worker, build, late, outages, stops>>

-----------------------------------------------------------------------------
(* The space-build script, run once *)

Builds(pc, s, batch) ==
    /\ build' = [pc |-> pc, space |-> s, batch |-> batch]
    /\ UNCHANGED <<lease, worker, outages, stops>>

BuildStarts(s) ==
    /\ MayBuild /\ build.pc = "none"
    /\ Builds("read", s, {}) /\ UNCHANGED <<store, late>>

(* slip: a vector in any space will do *)
UncoveredAnywhere(s) ==
    {c \in Chunks : chunks[c] = "live" /\ \A z \in Spaces : <<z, c>> \notin vectors}

Uncovered(s) == UNION {Missing(n, chunks, vectors, s) : n \in Nodes}

BuildRead ==
    /\ build.pc = "read"
    /\ LET batch == Leading(Uncovered(build.space))
       IN  Builds(IF batch = {} THEN "coverage" ELSE "put", build.space, batch)
    /\ UNCHANGED <<store, late>>

BuildPut ==
    /\ build.pc = "put"
    /\ vectors' = vectors \cup ({build.space} \X build.batch)
    /\ Builds("read", build.space, {})
    /\ UNCHANGED <<rev, chunks, pending, queue, active, late>>

(* A batch the model refuses ends the script, as does any other error. *)
BuildFails ==
    /\ build.pc \in {"read", "put", "coverage", "activate"}
    /\ Builds("done", build.space, {}) /\ late' = {}
    /\ UNCHANGED store

Covers(s) == Uncovered(s) = {}

BuildCoverage ==
    /\ build.pc = "coverage"
    /\ Builds(IF Covers(build.space) THEN "activate" ELSE "done", build.space, {})
    /\ UNCHANGED <<store, late>>

BuildActivate ==
    /\ build.pc = "activate"
    /\ active' = build.space
    /\ Builds("done", build.space, {})
    /\ UNCHANGED <<rev, chunks, vectors, pending, queue, late>>

-----------------------------------------------------------------------------
WorkerStep(w) ==
    \/ \E n \in Nodes : Reconcile(w, n) \/ FinalizeNode(w, n)
    \/ Reconciled(w) \/ HoldLease(w) \/ ReadRows(w) \/ ReadChunks(w)
    \/ Embed(w) \/ EmbedFails(w) \/ Commit(w) \/ CommitRefused(w)
    \/ RecordFailure(w) \/ TickEnds(w)

BuildStep ==
    \/ \E s \in Spaces : BuildStarts(s)
    \/ BuildRead \/ BuildPut \/ BuildFails \/ BuildCoverage \/ BuildActivate

Next ==
    \/ \E n \in Nodes, text \in SUBSET Pieces : Write(n, text)
    \/ \E w \in Workers : WorkerStep(w) \/ Stop(w) \/ Exit(w) \/ Crash(w)
    \/ \E w \in Workers, m \in Spaces : Start(w, m)
    \/ LeaseLapses
    \/ \E n \in Nodes : BackoffElapses(n)
    \/ BuildStep

Spec == Init /\ [][Next]_vars

(* The loop ticks, a call to the model returns or fails, a process that has  *)
(* stopped is started again, and time passes.  A live worker renews its      *)
(* lease, so only a lease whose owner is gone must lapse.                    *)
Fairness ==
    /\ \A w \in Workers : /\ WF_vars(WorkerStep(w))
                          /\ WF_vars(Exit(w))
                          /\ WF_vars(\E m \in Spaces : Start(w, m))
    /\ WF_vars(lease.owner = Gone /\ LeaseLapses)
    /\ \A n \in Nodes : WF_vars(BackoffElapses(n))

FairSpec == Spec /\ Fairness
-----------------------------------------------------------------------------
(* Properties *)

Row == [in : BOOLEAN, attempts : Nat, rested : BOOLEAN]

Drainer == [pc : {"off", "reconcile", "lease", "rows", "chunks", "embed", "commit",
                  "failed", "finalize"},
            model : Spaces, nodes : SUBSET Nodes, batch : SUBSET Chunks,
            stopping : BOOLEAN]

Builder == [pc : {"none", "read", "put", "coverage", "activate", "done"},
            space : Spaces, batch : SUBSET Chunks]

(* Every variable has its type. *)
TypeOK ==
    /\ rev \in [Nodes -> 0 .. MaxRevs]
    /\ chunks \in [Chunks -> {"absent", "live", "stale"}]
    /\ vectors \subseteq Spaces \X Chunks
    /\ pending \in [Nodes -> BOOLEAN]
    /\ queue \in [Nodes -> Row]
    /\ active \in Spaces
    /\ lease \in [owner : Workers \cup {None, Gone}, lapsed : BOOLEAN]
    /\ worker \in [Workers -> Drainer]
    /\ build \in Builder
    /\ late \subseteq Nodes
    /\ outages \in 0 .. MaxOutages
    /\ stops \in 0 .. MaxStops

(* Nodes the change of space may have forgotten: they were written between   *)
(* the count and the activation, and not revised since.                      *)
Forgotten == IF build.pc = "done" THEN late ELSE {}

(* The queue row and the flag of a node agree, and a node that is not queued *)
(* lacks no vector in the active space: nothing but a queue row ever makes   *)
(* the worker look for it.  Writes that revive chunks, ticks that commit     *)
(* vectors for a revision that is gone, two workers and writes while the     *)
(* script runs all keep it so (refreshQueue, finalize), but for a node that  *)
(* is written between the two steps of the script (space-build.mts:112-125), *)
(* which the next revision of the node puts right.                           *)
QueueMirrorsWork ==
    \A n \in Nodes :
        /\ pending[n] = queue[n].in
        /\ ~queue[n].in /\ n \notin Forgotten => Unembedded(n) = {}

(* Once a live chunk can be found by its vector it stays so, as long as it   *)
(* is live and the space is the same one: "unchanged ids keep their vectors" *)
(* (internal.ts:132).                                                        *)
VectorsStay ==
    [][\A c \in Chunks :
          /\ chunks[c] = "live" /\ <<active, c>> \in vectors
          /\ chunks'[c] = "live" /\ active' = active
          => <<active, c>> \in vectors']_vars

(* What an activated space does not cover was written after the script had   *)
(* counted: it counts in one read and activates in a later transaction,      *)
(* while nodes are written and the worker commits (space-build.mts:112-125). *)
ActivatedIsCovered ==
    [][active' # active =>
         \A n \in Nodes \ late : Missing(n, chunks, vectors, active') = {}]_vars

(* A write is embedded in the end, or parked where the statistics show it,   *)
(* though models fail, leases lapse and processes come and go.               *)
EmbeddedOrParked ==
    \A n \in Nodes : queue[n].in ~> (~queue[n].in \/ Parked(n))

-----------------------------------------------------------------------------
(* What the documents of the code say, and the code does not do *)

(* "should drop the vector when a revision supersedes a chunk": no stale     *)
(* chunk has one (stale-vectors.test.ts:58).                                 *)
StaleChunksHaveNoVector ==
    \A s \in Spaces, c \in Chunks : chunks[c] = "stale" => <<s, c>> \notin vectors

(* "refusing to activate a space that does not cover every live chunk": the  *)
(* activation does not ask again (space-build.mts:122).                      *)
ActivatedCoversAll ==
    [][active' # active => \A n \in Nodes : Missing(n, chunks, vectors, active') = {}]_vars
=============================================================================
