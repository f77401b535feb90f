# Cerebrium: a formal model

Cerebrium is a memory for AI agents: one daemon owns a Postgres store of
append-only, revisioned nodes joined by a typed graph; agents reach it through a
stdio MCP plugin over RPC; background work inside the daemon embeds text and
tidies the graph; runner processes beside the daemon execute unattended agent
jobs. This directory holds TLA+ specifications of that code, the TLC
configurations that check them, and TLAPS proofs of the theorems that matter most.

Paths below are relative to `src/`; `K/` abbreviates `packages/kernel/src/` and `H/`
abbreviates `apps/host/src/`.

## 1. The system

### 1.1 What all the parts share

Every write goes through `PgDatabase.tx` (`K/db/postgres/database.ts:127-199`): one
in-process lane, a store-wide advisory lock, and a transaction whose client nested
repository calls join. Writes are therefore serial and atomic, whichever process they
come from. Reads are not: a plain `one`/`all` goes to the pool, and what it returns is
as old as the next `await` makes it. Nearly every hazard of this code has this shape:

    read (pool) ... await a model, a socket, another read ... write (lane)

So the models take **one transaction or one read outside a transaction as one step**,
and everything between two steps may interleave. That is the finest grain at which
another actor can act, and the coarsest that hides nothing.

### 1.2 Components

| component | state it keeps | operations | talks to |
|---|---|---|---|
| **job queue and runner** (`K/db/postgres/jobs.ts`, `K/application/services/agent-run.service.ts`, `H/runner.ts`) | `jobs` rows: state, owner, lease, attempts; the runner's loop | submit, schedule, claim, renew, finish, reconcile on start | runner ↔ daemon over RPC with 30 s deadlines |
| **embedding queue and vector index** (`K/db/postgres/embedding-queue.ts`, `internal.ts`, `vector-spaces.ts`, `K/application/workers/embedding.worker.ts`) | `chunks`, `chunk_vectors`, `embedding_queue`, `nodes.pending_embedding`, `vector_spaces`, the `embedding` lease | write of a text, drain tick, reconcile, space build and activation | embedding model in a worker thread |
| **memory graph** (`K/db/postgres/nodes.ts`, `edges.ts`, the node use cases) | `nodes.invalidated_at`, `edges` with type and provenance | create, link, supersede/invalidate, restore, merge | agents' calls; the sweep |
| **consolidation sweep** (`K/application/workers/consolidation.worker.ts`, `K/db/postgres/consolidation.ts`) | `consolidation_candidates`, `consolidation_runs`, the `consolidation` lease | a tick's stages: prune, link, retype, recheck, repoint, distill, merge, drain; a reviewer's apply/dismiss/retry | generating model; memory graph; daemon loop |
| **daemon lifecycle** (`H/daemon.ts`, `K/runtime/daemon-pid.ts`, `ensure-daemon.ts`, `launch-agent.ts`) | pid file, socket, registered processes | start, take ownership, idle, shut down | launchd/systemd, every other process |
| **RPC and pools** (`K/presentation/rpc`, `K/runtime/rpc-client.ts`, `pipelined-kernel.ts`, `read-pool.ts`, `code-worker-pool.ts`, `K/embeddings/worker-provider.ts`) | calls in flight, workers, restarts | call, reply, time out, reconnect, hand to a worker, replace a dead worker | plugin, runner, dashboard |
| **call pipeline and access** (`K/application/call-pipeline.ts`, principal*, session services) | principals, tokens, quotas, sessions, `events` | authenticate, check capability and quota, run, record | every call |
| **branch code index** (`K/db/postgres/branch-code.ts`, `K/application/services/branch-code.service.ts`, `code-read.service.ts`, `K/application/workers/code-embedding.worker.ts`) | `code_blobs`, `code_units`, `code_symbols`, `code_branches`, `code_branch_files`, `code_vectors`; cached directories | ask what lacks, upload, commit a branch's list, retire what nobody has, embed, read | plugin indexer; code parser pool; daemon loop |
| **retrieval** (`K/application/use-cases/local/search-memory.ts`, `K/application/retrieval`, `K/db/postgres/search.ts`) | none but a search's own entries | lexical and vector search, fuse, trust, page rank, fold and diversify | memory graph, over many reads; read pool |
| **pure primitives** (`K/core`, `packages/contracts`) | none | ids, chunking, wikilinks, pages | everything |
| **code extraction** (`K/code`) | none | parse, extract symbols, resolve calls | code worker pool |
| **front ends** (`apps/plugin`, `apps/dashboard-*`, `K/presentation/mcp`) | none of the store's | MCP tools, installer, pages | RPC |

### 1.3 What is hard here, and what makes each part correct

* **Job queue.** A lease can lapse under a live runner; a report spans four steps and three
  transactions, any of which may fail; a daemon restart reopens rows whose runner lives on. Correct means: a job
  settles once, only its holder settles it and is told of as having done so, no kind is
  scheduled twice, a failed job has used its attempts, and an open job does settle.
* **Embedding queue.** Text changes while the model works on it; two drainers can overlap;
  a space is activated while workers run. Correct means: what has no vector is queued,
  vectors of live text stay, an activated space lacks only what was written since it was counted,
  and everything is embedded or visibly parked in the end.
* **Memory graph.** A link is checked live by reads and written later; a supersede moves
  referrers in one transaction that a link can straddle; the sweep repairs edges from a
  list it read earlier. Correct means: similarity joins live notes, an author's relation
  is never lost, and the sweep's repairs leave nothing stranded that it could repair.
* **Consolidation.** Candidates are proposed, applied, dismissed and retried by a sweep
  and by reviewers at once; a tick may outlive its lease; a run is closed by whoever
  ends it first. Correct means: a candidate is settled once, an applied one has had its effect,
  and a closed run stays closed.
* **Daemon.** Daemons are started by launchd, by sessions and by the desktop app, and look before
  they claim. Correct means: one owner, whose pid file and socket lead to it, whose work nobody
  reopens, and an answer in the end.
* **RPC.** One socket carries every call of a process; it breaks, and late replies come. Correct
  means: every call settles once, with its own answer, a write runs once at most, and "was not sent"
  is true.
* **Worker pools.** Threads die with calls in hand, and a death is heard of twice. Correct means:
  nobody waits beside a slot it may use, and a call ends, and fails only with its own thread.
* **Branch index.** Clients commit the same branch over each other while the host parses in
  batches. Correct means: what is live is one client's list, parsed and in the end embedded, and its
  past is a function of time.
* **Retrieval.** A search is a chain of reads of a graph that moves on between them. Correct means: what it names was live at some moment of
  the search, nothing it found is hidden while there is room, and nobody revoked is heard for his own words.
* **Access.** A token is looked up, remembered and revoked while frames wait for its verdict. Correct
  means: a revocation reaches a held connection within the window, ceilings hold in every window,
  nobody is refused for another's trouble, and no frame is forgotten.

## 2. Plan

In order of what the system is trusted for:

| # | module | models | composes / implements | state |
|---|---|---|---|---|
| 1 | `JobQueue` | jobs table, daemon handlers, runners | implements `JobLedger` | done, proved |
| 2 | `EmbeddingQueue` | chunks, vectors, queue, worker, space build | | done, proved |
| 3 | `MemoryGraph` | nodes, edges, linking clients, the sweep's repairs | clients with the sweep | done, proved |
| 4 | `Consolidation` | candidates, runs, the tick's lease, reviewers | daemons with reviewers | done, proved |
| 5 | `DaemonLifecycle` | pid file, launchd, socket path, list of processes | daemons with launchd | done, proved |
| 6 | `RpcChannel` | the shared connection of a client and the daemon's end | client with server | done, proved |
| 7 | `WorkerPools` | read pool, code parser, embedding model | a search goes through two of them | done, proved |
| 8 | `BranchIndex` | manifest, upload, commit, retirement, embedding, cached reads | clients with host, worker and reader | done, proved |
| 9 | `Access` | tokens, connections, verdicts, quotas | network server with the pipeline's gate | done, verdicts and quotas proved |
| 10 | `Retrieval` | a search over many reads, with trust and folding | search with clients and the sweep's links | done, proved |

Every safety property that a run checks is stated by a theorem (section 6). What is left to model is in section 8. Liveness stays with TLC.

## 3. The modules

### 3.1 `JobQueue`, `JobLedger`

`jobs` is the table, one record per row; `handlers` are the `job_finish` calls alive inside the
daemon, each at the step it has reached; `runner` are the runner processes. A loop
(`Loops`) schedules and claims every kind for ever; a `--once` process (`Onces`) submits
one job, claims at most one of its kind, and exits. `due` stands for "the cadence has
elapsed since the last job of this kind ended", `lease` for an expiry time: any moment may be the
one at which they change, which covers every clock.

| action | code |
|---|---|
| `ScheduleDue`, `StartOnce` | `submitIfDue`, `submit` — the check and the insert share a transaction |
| `Claim`, `ClaimReplyLost` | `PgJobsRepo.claim`, and the same when the RPC reply never arrives |
| `Renew` | `renew`, which asks for the owner and the state but not for an unexpired lease |
| `Report`, `ReportLost`, `GiveUp` | the run's end, its call to `job_finish`, and the 30 s deadline |
| `FinishRead`, `FailRead`, `Close`, `Record` | the four steps of `AgentRunService.finish` |
| `Rejected` | a read or a transaction of those steps fails, `finish` throws, and the runner hears an error |
| `LeavesIdle` | a `--once` process that finds nothing to claim, or whose call fails |
| `DaemonStops`, `DaemonStarts` | shutdown, and `reconcileAbandoned` before the socket opens |

`JobLedger` is what a submitter is promised with no runner in sight: submitted once, attempted at
most `MaxAttempts` times, settled at most once and only after an attempt. `JobQueue`
implements it (`KeepsLedger`) under `phase = state` with pending and running both open.

`PgJobsRepo.claim` knows nothing of the reports in flight, and neither does `ClaimRow`: a runner may be given the very job
whose previous report of its own is still between its read and its close. `fail` decides from attempts it read earlier, and with that
overlap a row can be left pending with no attempt left. `Orphaned` is what becomes of an open job whose attempts are used up
with nobody on it, running or pending; `SettlesOrOrphaned` is that an open job settles unless it comes to that.

Closing a row and writing the run down are separate transactions (`agent-run.service.ts:99-151`). The history `lost` holds
what closed a row and was then not written down, because the daemon stopped or a transaction was rejected; `Told` is what is written, about
to be, or lost, and `SuccessIsToldOnce` relates it to the table. `cancel` is not modelled: nothing calls it.

Bounds: `MaxTroubles` caps the stops of the daemon and the records that are rejected, together, `MaxDeaths` the runners that die. One
trouble covers a restart during an attempt or a report, and a lost record; a death is in the liveness run only. Rejections before the
row is closed are not bounded. The safety run explores no further where more than two reports are in flight (`FewReports`), the most there are of one job with two
attempts: three would be of two jobs, which share nothing but their kind. The theorems have no such bound. Two attempts cover one that may be repeated and the last.

### 3.2 `EmbeddingQueue`

A text is the set of pieces it is cut into; a chunk id is a hash of node and text, so the same
piece of the same node is the same chunk in whatever revision. `Write` is every write of a
text: `syncChunks` retires, keeps or revives chunks, drops the vectors of what is gone, and
`refreshQueue` recomputes the queue row and the flag. The worker is a program counter through
reconcile → lease → rows → chunks → embed → commit → finalize, where each arrow is an `await`
at which anything else may run. `stopping` is a process that has released its lease and whose tick goes on.
`build` is the `space-build` script: read, put, count, activate.

Nothing keeps writes, or a worker, away while the script runs: its help text asks for a copy of the store, its code takes no lock. `late` is a
history: the nodes written since the script counted. Once the space is active they are `Forgotten` until their next revision: what a write
queues is what it lacks in the space that is active at that moment, and the activation does not ask again (section 7).
`queueRows` reads at most four batches of rows; no instance has that many, and the limit is left out.

Bounds: a node of two pieces with a batch of one, written three times, so that a batch splits the node, a
tick has leftovers and a dropped piece comes back; two attempts, so that a row parks; two outages and one stop or
crash, each of which may come at any step; a second space. The run has one worker and its successors;
that two overlapping workers leave nothing unqueued is what the theorem `NothingForgotten` says of
any number of them. Poisonous pieces are texts the model always refuses. With one node, that a
batch charges other nodes for a piece refused, or that others keep it full, does not occur.


### 3.3 `MemoryGraph`

`node` is the state of each note and `edge` that of each row of the edges table, which is unique by source,
destination and type: absent, cut, or drawn by an agent or by the system. `consolidated` are the episodes
already distilled. `client` holds the calls that read the notes they name in one statement and write in a later one
(`link_nodes`, `create_node`); `sweep` holds the consolidation workers, each a program counter with the list its
stage read, what is left of it, and the edge, verdict or walk it is at.

| action | code |
|---|---|
| `LinkStart`, `CreateStart`, `LinkWrite`, `CreateWrite` | `requireLive`, then the transaction |
| `Invalidate`, `Restore`, `Merge`, `Distill`, `Undo`, `MarkDuplicate` | one transaction each |
| `DiscoverLink`, `ResolveCitation` | the stages that draw from vectors and from citations: one insert at a time |
| `ListStranded`, `ListCrossProject`, `ListOverCap`, `ListUntyped`, `ListRevised` | the stages that read a list first |
| `Drop`, `Repoint…`, `Retype…`, `Supersede…` | the statements each entry of a list gets, a step for each transaction |
| `ListDone`, `Stop` | the stage is through; the process stops or its lease is gone, wherever it is |

One step is one transaction, or one read outside one; the walk over `supersedes` reads one hop a step. `Stages`
says which stages a tick runs. The module splits them finer than the configured postures do: the posture
`reattach` is three of them (`repoint`, `unlink`, `attach`), and `retype` two (`retype`, `recheck`).
Weights, titles, confidence and the cap itself are abstracted: which rows are over the cap is any
set of the similarities, which pairs are similar and what the model answers is any choice. What
they decide is thereby larger than what the code can decide.

Bounds: `MaxWrites` counts what clients and finds of the sweep start, two in the run. Three notes are enough for a chain of two supersedes,
for an edge one end of which moved, and for a distilled note with a source and a bystander; one is of another family, so that
the stage that cuts across families has what to cut. Four, with a chain on each side of an edge, are beyond a run. `MaxLinks` is the links a new note
carries, none in the runs: the theorems are for any number, and for any stages. `graph_sweep` runs every stage. `AuthoredIsKept` does not hold with the
stages that cut by an old list (section 7): it is checked in `search`, where the sweep only links, and proved for any set of the other stages.

### 3.4 `Consolidation`

`cand` is the table of candidates: the status of each, whether it has a proposal and which, and which note is to stay. A
candidate is known by its kind and its members in any order, which is what `candidateHash` hashes. `live`, `spent` and `facts`
are what a settlement changes: the notes not retired, the episodes with a `consolidated_at`, and how many facts each went into.
`runs` are the rows of `consolidation_runs`, `lease` the row of `worker_lease`. `worker` is a daemon: its program counter, the
posture it was started with, the stage, the run it reports to, what the stage has listed and the candidate it is at, and how far its `stop()`
has come. `retrying` are the retries between their two transactions.

| action | code |
|---|---|
| `Start`, `Stop`, `StopCloses`, `StopReleases`, `Exit` | `closeAbandonedRuns` at the start of the daemon; `stop()`, whose statements run beside the tick in flight until the process exits |
| `Crash`, `LeaseLapses` | the process dies; `expires_at` passes, of a live owner too |
| `TickStarts`, `Enter`, `LastEnds`, `Yield`, `StepFails`, `TickEnds` | `tick`: hold the lease, report each stage, stop between stages when a client waits, report the failure of a stage |
| `Skip`, `LeaseLost`, `Take` | the top of the loop over a list: known already, lease gone, or on with this one |
| `Generate`, `GenerateFails`, `Judge` | the model's answer: a draft, better apart, nothing; the verdict on a linked pair |
| `Insert`, `Dismiss`, `Apply`, `Propose` | the transactions that follow, in `distill`, `mergeDuplicates`, `drainPending`, `backfillProposals`, `applyRelation` |
| `DismissRetired` | the one statement of the stage `retired` |
| `Check`, `RetireOlder`, `Close` | `settleSupersedes` |
| `Review`, `Reject` | `LocalApplyCandidate`, whose checks and effect are one transaction |
| `RetryClears`, `RetryReopens`, `RetryLost` | `LocalRetryCandidate`, which is two |
| `Turns` | an agent invalidates or restores a note |

Abstracted: the ranking and the size of a list (a batch has room for all that is listed), the wait for a pair that one session wrote
minutes apart, the second attempt at a merge that left something out, and who looks after a note by hand (a merge may keep
both, a supersede may be refused, whatever the notes). The pairs found alike are listed where they are used, not at the start of the tick. That a
pair once superseded is not proposed again is left out, so the model proposes more than the code. Edges are
`MemoryGraph`'s. The provider is enabled: with none, nothing is judged.

Bounds: two clusters that share an episode, and two daemons of different postures, are what it takes for a source to be listed twice and for
one worker's verdict to meet another's; the notes and the pair are in `consolidation_ends`, with one daemon that may come back in the other posture.
Two run ids are enough for a row of a dead sweep beside a live one: a closed one that nobody holds is taken again.
`MaxTrouble` counts what nobody can be relied on to do: two of them are a crash and a lapse, a retry and a failure, a stop and a retirement.

### 3.5 `RpcChannel`

The connection all calls of a process share, and the daemon's end of it, over the unix socket. `call` is what each call waits
for and what became of it; `current` and `opening` are the fields `socket` and `opening` of the class, `sock` the client's end of each
socket it ever opened; `frames` are requests and replies on their way; `served` are the sockets the daemon holds; `ran` counts how often it
ran each call.

| action | code |
|---|---|
| `Call`, `Connected` | `attempt`, `live`, `open`, `request`: the frame is written at once, or when the socket that is being opened is |
| `Refused`, `ConnectTimesOut` | the connect fails, or its own timer fires; whoever waited learns that nothing was sent |
| `Deadline` | the timer of one call |
| `Ends`, `Closed` | the daemon's end of a socket arrives; its close event, which fails all that is pending, and what may be retried is tried once more |
| `Receive` | a line of a reply, which is whoever's it is the id of |
| `Take`, `Run` | `handleLine`: a request is taken up, and answered |
| `DaemonCloses`, `DaemonExits`, `DaemonStarts` | `RpcServer.close`, the process that lingers after it and goes, the next one |

A step is one event of the client's loop with the promise jobs it queues. There is no clock: a deadline may pass at any moment.
Bounds: two reads and a write, the least with which a retry can destroy the socket of another call while a third uses it; one stop of the
daemon. Sockets and ids are not bounded but counted: an attempt opens one and a call is attempted twice at most.

### 3.6 `WorkerPools`

`slot` are the threads of the read pool with their flag `busy`, `waiting` its queue; `parser` is the field `worker` of `WorkerCodeParser` and
`parsers` the threads it has spawned; `model` is the thread of the embedding provider and `dead` its field. The
specification is `PoolsSpec`: its names begin with `Pools` where `DaemonLifecycle` has the same, since `Daemon_proofs` extends both. `Drain`
goes through the queue with `Offered`, one call at a time.

| action | code |
|---|---|
| `Search`, `Embedded`, `Unembedded` | `embedForRead`: the vector first, then the pool; without one the search goes on in words alone |
| `ControlRead` | `operator_snapshot`, `stats_snapshot`, which have a lane of their own |
| `Answer`, `ReaderErrors`, `ReaderExits` | the handlers of a slot's thread; `drain` is the last call of each |
| `Parse`, `Parsed`, `ParserErrors`, `ParserExits` | the parser, spawned at the first use after a death; `retire` asks whether the thread that exits is the one in use |
| `ModelErrors`, `ModelExits` | the provider, which is not spawned again |
| `ShutDown` | `close` of the pool and of the parser; the thread of the model is left as it is |

A thread that dies is heard of twice, by its error and then its exit, or by its exit alone, and anything may happen between the two.
`Endless` is a read whose thread never comes back. Bounds: two slots, one of them held back; two calls of each kind, so that one waits
behind another; two deaths, so that a thread dies of which the other's exit is still to come.

### 3.7 `DaemonLifecycle`

`phase` is where each process is in `main`; `managed` is launchd's child, `answer` what `launchctl` told a process; `pidfile` and `bound`
are the contents of `daemon.pid` and the process whose socket the path leads to; `registry` is the table `processes`.

| action | code |
|---|---|
| `LaunchdStarts`, `StrayStarts` | launchd keeps its agent alive; a session or the desktop app starts a daemon of its own |
| `AskLaunchd`, `FindsFree`, `FindsOwner`, `TakesOver` | `launchdPid`, `ownedByAnother`, `stepsAside`, `waitForOwnership` |
| `WritePid`, `Publish` | `writeDaemonPid`; the row of the process and the sweep of rows whose pid is dead |
| `LookAtSocket`, `BindSocket` | `RpcServer.listen`, which removes a path nobody answers at, and binds in a later step |
| `Stop`, `StopsServing`, `Retire`, `ClearAndExit` | `shutdown`, whose steps are apart, and whose last removes the pid file by name |
| `Crash` | the process dies wherever it is |
| `Reuse`, `ForeignEnds` | another program gets the number of a daemon that is gone, and ends or runs on |

`raced` records that two starts overlapped, the later one looking before the earlier had written: nothing in the code prevents it, and what follows from
it is in section 7. `isProcessAlive` takes any process with the number for a daemon, one it may not signal
included (`daemon-pid.ts:24-31`): `IsAlive` counts `foreign` numbers, `Runs` is what launchd knows of its own child. `Misled` says that the pid
file names such a program. Bounds: one death, signal or idle exit, one silence of `launchctl` and one number reused, two strays; pids are as many as launchd may then need.

### 3.8 `BranchIndex`

`blobs`, `parse`, `symbols`, `branch`, `rows`, `vectors` are the tables of code; `client` is what each client has sent, and where the host is in the
commit it asked for; `embedder` the batch the worker has with the model; `dirs` the directories a reader's process keeps.

| action | code |
|---|---|
| `Manifest`, `Upload` | what the host lacks of a checkout; its contents |
| `StartCommit`, `ParseBatchOf`, `StoreParse`, `RecordParseFailure` | `BranchCodeService.commit`: repository and units, then the batches of units that nobody has parsed |
| `CommitBranch`, `SeeBranches`, `RetireUnseen`, `Abandon` | the transaction that makes the list the branch's; the branches the checkout names, and those nobody has named for weeks |
| `PendingEmbeddings`, `CommitVectors`, `EmbedFails` | `CodeEmbeddingWorker.tick` |
| `ReadBranch`, `ReadDirectory`, `ReadEnds` | `CodeReadService`: the branch's row, then its directory, from the cache or the store |
| `Gap` | weeks pass |

The summary of a unit's symbols is that of its content, and what a client uploads is what it listed: the host checks the hash. The clock gives
each commit a time of its own. Bounds: two clients and three checkouts of two branches and two files, of which one changes a file and drops the
other, one has a file that does not parse, one a summary the model refuses; two commits in all; batches of one, so that two commits are in each other's.

### 3.9 `Access`

`cache` is the memory of `PrincipalTokenService`, `revoked` what the store says; `conn` and `frame` are the connections of the network and the frames
the daemon is at; `spent` are the calls `PrincipalQuotaService` counts, `ran` the history it should be.

| action | code |
|---|---|
| `Handshake`, `Arrive`, `VerdictIsIn` | `RpcServer.admit`: the first frame asks, the ones before its verdict wait, each later one asks for itself |
| `Look`, `Fill`, `LookupFails` | `authenticate`: the row is read; the cache is filled, as of when it was asked; `last_used_at` is written, which may fail |
| `Admitted`, `TurnedAway` | the verdict, `verify` and `refuse` |
| `Revoke` | by a CLI, in another process |
| `Denied`, `Consume` | `CallPipeline.invoke` up to the call: session and posture; the quota |
| `Report` | `usage`, which prunes with its own window |

A lookup takes three steps, so two of them overlap, and the one that read before a revocation may fill the cache after the one that read it.
Left out: a first frame without a token, which is refused at once; the timeout of a handshake; what a cache at its limit forgets.
Bounds: one token on two connections, two frames at once and three in all, after which a ceiling of two calls, one of them a write, is reached; a
clock of three readings with a window of two, so that calls leave it; a recheck after one.



### 3.10 `Retrieval`

A search (`LocalSearchMemory.invoke`) beside `MemoryGraph`, whose variables it reads and never writes. `search` is how far the search is
and what it holds: `found`, the entries the query matched; `surfaced`, what the graph adds; `apart`, the pairs that supersede;
`shown` and `folded`, the answer. Three more fields note what the properties ask of the past: the notes it would have been right
to see at some moment since the search began (`lived`), those that had nobody distrusted behind them at some moment (`credible`),
and the pairs that superseded all the while (`steady`). Each read of the code is a step, and the graph moves between any two:

| step | code |
|---|---|
| `Ask` | `textCandidates`, with the search's filters; a search by vectors alone has none of the text |
| `ReadVectors` | `vectorCandidates`: the model may not answer, and the text goes on alone |
| `Weigh` | `applyTrust`: what a principal of weight 0 stands behind, through `derived_from` and `supersedes`, is dropped |
| `Expand`, `ReadRows` | `expandByRank`: the subgraph of what is left, then the rows of what it ranks |
| `ReadApart`, `Select` | `supersedesPairs`, then `duplicatePairs` and `selectDiverse` |
| `WeighText` | the rest of a search by text alone: trust, and the best |

Scores are any order of the entries, and whether two are similar enough to fold is a constant, here of every pair, so that only
`supersedes` keeps two apart. A search may or may not be of history, may do without the graph, and starts at any moment of the graph's.

Bounds: three notes, of which the first is by a distrusted principal, two have a word of the query and two a vector near it; two
results; two hops of the graph, three of origins, as in the code; two writes of clients or finds of the sweep's link stage before, between
or after the reads. Two places for three notes is where an answer is full, and two writes are enough to supersede a note the search has
read and to link another to it.

## 4. What each run checks

| run | question | bounds reached |
|---|---|---|
| `jobs_two` | two rows, a loop and a `--once`, overlapping reports, a restart or a rejected record: is a kind ever scheduled twice, a job settled twice, done without a report that closed it, or told as done twice? | 1,057,459 states, one trouble |
| `jobs_live` | one row, two loops and a `--once`, a death and a restart: does an open job settle unless its attempts are used up with nobody on it, and does the queue keep the ledger? | 79,413 states, one trouble, one death |
| `embedding` | a worker that stops, crashes and loses its lease, revisions, a poisonous piece, outages, a space that is built while notes are written: is anything missing and not queued but what the change of space came upon, does an activated space lack more than what was written after the count, is a node neither embedded nor parked in the end? | 538,627 states |
| `graph_sweep` | every stage of the sweep, whoever writes, supersedes, restores, merges or distills meanwhile (clients that link are in `search`): is a similarity ever on a retired note, or a pair related twice by the system; does every edge stranded on a superseded note come off it in the end? | about 200,000 states |
| `search` | does an answer ever name what was gone before the search began, hide what it found, fold what supersedes, or tell what only a revoked principal says; is what an author said ever lost? | 349,216 states |
| `consolidation_sweep` | two daemons, two overlapping clusters, reviewers and retries: is an episode ever distilled twice, a verdict overruled, a released lease taken back? | two troubles |
| `consolidation_ends` | one daemon, one pair: is every sweep's row closed, every candidate of a retired note out of the inbox, every candidate judged in the end? No episode is distilled here before its candidate comes: that is in `consolidation_sweep` | two troubles |
| `rpc` | does a write ever run twice, or run after the caller was told it was not sent; does a call get another's answer, or none? | one stop of the daemon |
| `pools` | does anybody wait beside a slot it may use, fail with a thread that is not its own, or wait for ever? | two deaths |
| `daemon` | are two daemons ever at work, does the pid file or the socket lead elsewhere, does no daemon answer in the end, but for a pid file that names another program? | 803,588 states, one end, one silence, one number reused |
| `branch` | is a branch ever a mix of two lists, unparsed, or its past two things at once; a cached directory stale, a summary left without its vector? | two commits |
| `access` | does anything pass on a verdict asked a window after the revocation, or over its ceiling; is a connection refused for another's trouble; is a frame forgotten? | 423,485 states |

`TypeOK` of every module is left to the proofs (section 6); the properties that the theorems state are checked here too, since a
theorem about a model says nothing of whether the model can do what it should: the mutants do.
All runs stop by themselves where bounds are used up, hence `CHECK_DEADLOCK FALSE` in those whose actors may be done.


## 5. Fairness

Weak fairness, with one exception below, and only of what the code's own loops and timers keep trying:

* a runner's loop turns (`runLoop`), an agent run ends (its timeout kills the process), a call
  gives up at its deadline, the daemon is restarted by its supervisor (launchd `KeepAlive`,
  compose `restart`) and serves the calls it has;
* a worker's timer ticks, a call to the model returns or fails, a process that stopped is started again;
* a lease whose owner is gone lapses. A live owner renews, so nothing forces a live lease to lapse;
  but nothing forbids it either, which is what makes overlap possible.

In `Consolidation` all of it is weak: a worker's next step of a tick, the steps of a stop once it has
begun, the start of a daemon that is off, the lapse of a lease whose owner is gone, and the second
transaction of a retry. A call to the model, a step or a process may fail, but `MaxTrouble` times in all: the liveness is of a
system that is left alone for long enough, which is what the code promises.

The sweep over edges adds one use of strong fairness (`graph_sweep`): a tick runs its stages in a fixed order, so the stage that
lists stranded edges comes round for ever although other stages run in between; and a stage that
has begun goes on (weak fairness of its next step).

* `RpcChannel` asks nothing of the daemon, which may hang or never come back: only the client's own timers run (`Timers`).
* `WorkerPools`: a thread that lives comes back with what it was given, unless that is an `Endless` read, and the exit of a thread whose error was
  heard comes (`Returns`). `EveryCallEnds` names the calls that no thread will come back to and excuses them.
* `DaemonLifecycle`: launchd starts its agent again (`KeepAlive`), and each process goes on with the step it is at.
* `BranchIndex`: the daemon's loop comes back to the embedding of code (`H/daemon.ts:235-239`). Clients and readers may stop anywhere.
* `Access`: the store answers or fails, and the daemon goes on with each frame it has been sent.

Nobody is obliged to write, to die, to lose a reply, to reject a transaction or to stop; no program is obliged to give up a number it got
from a daemon.


## 6. What is proved

All theorems hold for every value of the constants that satisfies the module's `ASSUME`; the run
of the same name shows them on a small instance.

* `JobQueue_proofs`. The invariant is `Inv`: types, plus `LastIsSpent` (a report that has decided the
  attempt was the last is right about it, and stays right because attempts never fall),
  `AbsentIsBlank`, `RunningIsAttempt` and the two properties themselves. Neither `FailedOnlyWhenSpent`
  nor `OneOpenRecurringJob` is inductive alone: the first needs the decision in flight in
  `handlers`, the second that an absent row has no kind. Every action is first reduced to what it
  may do to one row (`StepOfTable`), and the properties, the refinement `QueueImplementsLedger`
  and `SettledIsFinal` all follow from that one lemma. `SuccessIsTold` proves `SuccessIsToldOnce` with `Inv`: a step either leaves alone both the
  rows that become done and what is told of success (`NoTale`: only `Close` adds to it, and a record, a rejection or a stop moves it from one place to another), or
  is the one report that closes a running row as completed (`Tale`, `ByReport`), of which nothing was told before because it was not done; a runner, a
  lapse and a restart make no row done (`NotByRunner`). It holds with overlapping reports and rejected records.
* `EmbeddingQueue_proofs`. The invariant is `IndexInv`: types, `QueueMirrorsWork`, and
  `BuiltIsCovered` (from the count to the activation the built space stays complete but for `late` nodes: a write that
  could uncover a node makes it late, and of the others vectors only grow). `QueueMirrorsWork` alone does not survive `BuildActivate`, which changes which
  vectors count. The lemmas say that more vectors never mean more missing chunks, and that a transaction that
  leaves a node's row and chunks alone keeps what holds of it.
* `MemoryGraph_proofs`. `SimilarityJoinsLive` is inductive with the types: every transaction that retires a note
  cuts its similarities, and every one that draws a similarity asks for both ends in the same statement. `OneSystemRelation`
  needs `SystemEndsExist` beside it, because `Distill` writes a note and an edge to a note that does not
  exist yet would become a second relation. `AuthoredIsKept` needs four facts (`AInv`): what a
  sweep holds in its hands is what it may cut (`CutsSimilarities`), a call in flight joins two different notes
  (`CallsJoinOthers`), a loop is on a retired note only (`LoopsAreRetired`), and whoever says something exists
  (`SayersExist`). It is proved under the assumption, stated in the theorem, that the stages cutting relations by
  a list read earlier are off; with them on it is false (section 7). Each action is reduced to
  the rows it writes (`...Row`, `...From` lemmas), and a property is kept because each row written keeps it.
  The same module proves the searches of `Retrieval`, which read this graph while it moves. Their invariant, `SearchInv`, asks
  nothing of the graph's steps. `Remembers`: what the search has gathered as alive, credible or steadily joined since it began
  includes what is so now, so that whatever a read sees was so at some moment. `SawRight`: what each stage found, it saw in that
  sense (`found` and `surfaced` within what lived, `found` credible once weighed, pairs of a supersession kept apart). The properties of an
  answer are not inductive without them, because the read that saw a note and the step that answers lie apart. Places are given out
  along an order that need not be computed: that a finite set has a first and a last (`Least`, `Greatest`) is enough to show that an entry
  neither shown nor named met a full page.
* `Daemon_proofs`, of two modules: the daemons, and the worker threads inside one. What a stray was told is in `yields`, so `StraysYield` needs to know that whoever was told of another was told of
  launchd's child (`ToldIsManaged`), that a pid not handed out has done nothing (`UnbornIsBlank`) and that nobody yields to itself (`YieldsToAnother`).
  `AloneUnlessRaced` and `OwnerIsFound` are proved together: `OneOwner` says that whoever is past the decision to claim is alone, that the
  pid file is its own from the write on, and the socket path from the bind on. `LivingAreListed` needs no more than the types, because a
  sweep asks of each row whether its process is alive. A number that another program has reads as alive (`IsAlive`) although no daemon runs (`Runs`): all
  of this needs only that what runs reads as alive, so reuse costs safety nothing.
  The second half is about `WorkerPools`, whose specification is named `PoolsSpec` so that both can be extended together.
  The invariant is `ThreadsInv`: types;
  `Posts` (who is posted holds a busy slot alone, and a busy slot is held); `Waits` (who waits is in the queue, once); `NobodyWaitsInVain`; `OnCurrent`
  (the current parser thread lives, and all parses under way are on it); and no more parser threads spawned than parses begun, a count that leaves
  `Parse` a thread to spawn. `NobodyWaitsInVain` needs `Posts` and `Waits` because the end of a thread frees a slot and drains the queue in one step:
  the claim about those left waiting holds of the queue and the slots that `Drain` returns. `Drain` goes through
  the queue with a recursive function, so it is proved first that there is such a function (`PassExists`), then what one more call
  changes (`PassOne`), then what holds at the end (`DrainPasses`); the two inductions are by the least number at which a claim fails (`LeastNumber`,
  `AllNumbers`). Slots are only taken on the way, never freed, so a call passed over
  without a slot has none at the end either: that is why once through is enough.
* `Consolidation_proofs`. With `TypeOK` goes `Consistent`: a worker has a candidate in hand exactly while it works at one, a
  run exactly while it ticks, a stage exactly while it is in one. `SourcesDistilledOnce` is inductive with the types, because
  `applyDistillation` asks in its own transaction whether each source is still undistilled: what a worker listed, or a
  reviewer read, matters for nothing. `SettledKeepsItsVerdict` and `ClosedRunsStay` hold step by step: each update of a
  candidate or of a run is reduced to what it may do to one row (`status = 'pending'`, `ended_at IS NULL`). `ReleasedStaysReleased`
  holds because the gate a stop shuts is asked by every hold, and the transaction of a hold that passed it before precedes the
  release in the lane.
* `RpcChannel_proofs`. The invariant is `ChannelInv`. Every step is first sorted into one that writes frames (`Sends`), one that only moves
  calls on (`Settles`, call by call: `Moves`) and one of the daemon's (`Serves`), and all but the sockets is proved from these three.
  `WriteRunsOnce` and `UnsentNeverRuns` come from `WritesOnce`: a write that is not sent yet, or failed before it was, is on no frame,
  and one that was has a single frame, not run before it is answered; a recovery sends no write twice because `Retries` asks
  `retryable`. `AnswerIsOwn` comes from `Matched`: ids grow, and the id a call waits for is on its own frames only, also while a reply to
  an attempt that was given up is still under way. That ids and sockets stay within two a call, which `TypeOK` says, is a count
  (`IdsLeft`, `SocketsLeft`): what is used and the attempts yet to begin, or to write, are never more than the attempts there are; and a
  step that takes a socket begins an attempt, so `NextSocket` always has one to choose.
* `BranchIndex_proofs`. `LiveIsParsed` needs `Parsed`: what a commit under way is parsing the host has and was asked to parse, and it
  forgets neither. `LiveIsOneCommit` needs the types only, since one transaction replaces a branch's list. `HistoryUnlessOverlapped` needs
  `Alone` (two commits of a branch that run at once are on record in `overlapped`) and `Before` (where there are none, a commit's time is
  after everything its branch has seen). `DirectoryIsFresh` needs `Stamped` (the key of a commit under way is nobody's, and no key is of
  the future) and `Kept` (a directory cached under a branch's present key is what it lists, and one under the key a reader asks for is what it has listed
  since).
* `Access_proofs`. `RevocationReaches` and `RefusedForCause` speak of a verdict at the end of a chain: lookup, cache, connection, the frames that
  wait for it. `GateInv` follows the chain: nothing is dated after now (`InThePast`), a frame under way belongs to a connection that
  names its token (`Attached`), the frames that wait share the verdict of the first (`OneVerdict`), what a lookup found or
  the cache holds was asked before the revocation, and what the cache answered was asked within the window (`InTime`), and a refusal that is in a frame's hands
  already has its cause (`Caused`). A step changes one frame, and perhaps the connection it is on: `OneFrame`, `OneConnection` and `Unmoved`
  say once what such a step leaves true of the others. `QuotaHolds` needs `Tallied`: of a principal no report has forgotten, the daemon's
  ledger and the history agree on every call that still counts, so a call that passes `Exceeded` was compared with what really ran. A
  window's calls are counted as a set with one entry for each call (`Entries`), so that the library's facts about cardinality bound it: a
  window that starts later has no more entries (`LaterWindow`), and a call that is let through adds one (`OneMoreCall`).

Every invariant and every action property that a run checks is stated by a theorem. Model-checked only: liveness, since fairness and ENABLED are beyond
the prover.

## 7. Seen while modelling

Behaviours that the models contain, most of them against what a comment or a document says. Where a property states the
document's side it stands in its module and is in no run, because it does not hold.

Jobs:

* A running row at its last attempt whose runner is gone is claimable by nobody (`K/db/postgres/jobs.ts:50`) and is retired by
  a start of the daemon only; until then `submitIfDue` finds it open and queues nothing of its kind, though `everyMs` is "How often the runner
  enqueues this task for itself" (`H/runner/tasks.ts:28`). `JobQueue!RecurringKindRunsAgain`.
* "Recorded on every run so the week's total is answerable" (`K/application/services/agent-run.service.ts:143`), but the row is closed first, and the session and the note are written by
  later transactions: one that is rejected, or a stop in between, leaves a job done, or failed, without a record, and nothing writes it later. `lost` holds what was lost so.
* `fail` reads the attempts before its transaction (`K/db/postgres/jobs.ts:105`). If its runner is given the job again in between, for the last
  time, the row goes back to pending with no attempt left: no claim takes it, no daemon start retires it, and its kind is open for good. `Orphaned` names it.
* A report that arrives after its lease was reclaimed leaves no run record; a daemon start says of every running job that its runner exited.

Embedding:

* `commitBatchEmbeddings` (`K/db/postgres/embedding-queue.ts:79`) inserts the vector of every chunk it is given without asking whether
  the chunk is still live: a revision that lands while the model works is followed by vectors for the chunks it retired, which the revision
  had just dropped (`K/db/postgres/internal.ts:175`, `packages/kernel/test/stale-vectors.test.ts:58`). `EmbeddingQueue!StaleChunksHaveNoVector`.
* `activate` (`K/db/postgres/vector-spaces.ts:95`) does not ask again what the script counted, though the script is "refusing to activate a space that does not cover every live chunk"
  (`packages/kernel/scripts/space-build.mts:122`): a note that is written in between has no vector there, is queued for the old
  space at most, and once it has left the queue lacks its vector until its next revision. Only the help text keeps writers away. `EmbeddingQueue!ActivatedCoversAll`.
* Two embedding workers drain at once when a tick outlives its lease.

Graph:

* `unlinkCrossProject` (`K/application/workers/consolidation.worker.ts:1107`) cuts by a list it read earlier, and `invalidateEdge`
  (`K/db/postgres/internal.ts:202`) does not ask whose the edge is: what an author has said meanwhile is cut with it
  (`packages/kernel/test/graph-integrity.test.ts:457`). `MemoryGraph!SweepKeepsAuthored`.
* A note may be superseded by itself; a new note's links may carry `duplicate_of`, which `link` refuses; a batch that unrepairable edges fill
  keeps the sweep from the rest; a link written between notes that were live when they were read, of which one is superseded in
  between, stays at the retired note, off which superseding had moved the others (`README.md:240` says nobody is stranded).

Retrieval:

* "a revoked principal's nodes leave the candidate set outright — before graph expansion" (`K/application/use-cases/local/search-memory.ts:428`,
  `README.md:221`), but the expansion asks for what is *not* among the entries, and what was just removed no longer is: a live note of a revoked principal
  that is linked to a trusted result comes back with it, and trust is not asked again. `RevokedOnlyThroughLinks` says exactly that much.

Consolidation:

* A rejected proposal whose dismissal was cut off by a crash stays in the inbox; a supersede candidate that is retried never gets its proposal back; one
  that a reviewer rejects after `settleSupersedes` has looked at its notes is retired all the same, and the verdict reads dismissed; a tick
  stopped between its hold of the lease and its first report opens its run after the stop has closed nothing, and the row is open until the next start.

RPC and pools:

* When two reads are in flight on a connection that drops, the retry of the second destroys the socket the first is opening anew, and both
  wait for one that cannot connect, until their timers fire; "exactly one more attempt, on a connection built from scratch"
  (`K/runtime/rpc-client.ts:96`) is then none. `RpcChannel!RetriesCanConnect`.
* A thread of the read pool that dies is not replaced, though "Replacing the slot keeps the pool's capacity constant"
  (`K/runtime/read-pool.ts:109`): its slot is free again, and a read that is posted there before the exit is heard of fails with it; one
  posted later is never answered. `WorkerPools!PostedToTheLiving`.

Daemon:

* Two starts that overlap both find no owner, and both claim; the one that exits first removes the pid file whoever's it is
  (`K/runtime/daemon-pid.ts:43`); closing a listener unlinks the path a newer one is bound to. A start
  repairs runs and jobs before it writes the pid file (`H/daemon.ts:424`). `raced` records all of it.
* "A stale pidfile (dead pid) reads as dead" (`K/runtime/daemon-pid.ts:23`), but the number may be another program's by then, after a restart of the
  machine above all, and it reads as alive, also where signalling it is not permitted (`EPERM`): launchd's daemon waits for it as long as it runs
  (`H/daemon.ts:166-183`), and strays end at once. `Misled` names it. `DaemonLifecycle!ReachableWhateverIsLeft`.

Branch index:

* Two commits of one branch at once: the list committed last wins, whichever checkout is newer, and its past shows two
  contents of a path at one time, or a row that ends before it begins.
* Any error of the store while a unit is recorded marks the unit as parsed with a failure, and nothing parses it again.
* A summary that the model refuses, at the head of the batch of the oldest, keeps every later one from its vector.
* `retireUnseen` spares the default branch the client of this commit knew, not one recorded meanwhile.

Access:

* While one connection is refused by a lookup that saw the revocation, another may be let in, for the rest of the window, by one that read before it
  and filled the cache after it.
* The usage report prunes by `DEFAULT_WINDOW_MS` what a principal with a longer window still owes, and such a principal gets more
  through than its ceiling. `forgot` records it.
* A store that does not answer, or a `last_used_at` that cannot be written, refuses the connection: it must be made again.

## 8. What is not modelled, and why

* **Of retrieval**: the scores, which are floats, with the caps that cut by them; searches as of a time (`as_of`, `valid_at`), of code, and by project, kind or
  age; the notes on context; `fetch` and the explorations of the graph (`K/db/postgres/graph.ts`), single reads that change nothing but a counter of use.
* **Code extraction** (`K/code`) is a function from a syntax tree to symbols, over eight grammars: its cases are theirs, and a bounded input
  would not reach them. Its calls are in `WorkerPools`, its failures in `BranchIndex`.
* **Prompts and parsing of what a model answers** have no state; the answer is a choice of the environment in the modules that ask.
* **Configuration** is read at the start of a process and never written; **migrations** run once under an advisory lock before anything else.
* **Front ends** (MCP tools, plugin, installer, dashboards) and **scripts** parse, call and format: they are clients of the calls that the models have as actions.
  They are more than half of the lines that the map does not reach.
* Of the modelled parts: the queue of reviews and its marks; the audit row, what is kept of a session, subscriptions; issuing tokens and a
  cache at its limit; notifications, the size limit of a line and `cancel` of a job, which nothing calls; a worker thread that exits with
  code 0 by itself; savepoints and reconnection of the store; tags, importance and trust of notes; how a citation is spelled and found.
* Two daemons that get the same process number, one after the other.
* Clocks that jump. `BranchIndex` gives each commit a time of its own, in order; the lane makes two within a millisecond
  unlikely, and the code does not exclude them.
