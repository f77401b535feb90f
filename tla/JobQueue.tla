------------------------------ MODULE JobQueue ------------------------------
(* The queue of unattended agent runs: the jobs table (PgJobsRepo), the      *)
(* daemon's handlers over it (AgentRunService), the runner processes that    *)
(* claim, run and report (apps/host/src/runner.ts) and the daemon restart    *)
(* that reopens what was running (reconcileAbandoned).                       *)
(*                                                                           *)
(* One action is one write of the store: PgDatabase.tx serialises every      *)
(* write behind one lane and one advisory lock, while a plain read goes to   *)
(* the pool.  job_finish is therefore several steps: it reads the row, reads *)
(* it again to see the attempts when the run failed, closes the row, and     *)
(* only then writes the record of the run.                                   *)
(*                                                                           *)
(* Time is abstract.  A lease is live or lapsed, the cadence of a kind has   *)
(* elapsed or not; any moment may be the one at which they change.           *)
EXTENDS Naturals, FiniteSets

CONSTANTS
    MaxJobs,      \* job ids, in ULID order: scheduled_for, id
    Kinds,        \* the registered agent.* kinds, all of them recurring
    Loops,        \* owner ids of the runner service's processes, one each
    Onces,        \* owner ids of the processes an operator starts with --once
    None,
    MaxAttempts,  \* max_attempts of a row, 3 when the submitter names none
    MaxTroubles,  \* bound: stops of the daemon and records that are rejected
    MaxDeaths     \* bound: how many runners die

Jobs == 1 .. MaxJobs
Runners == Loops \cup Onces
OpenStates == {"pending", "running"}
TerminalStates == {"done", "failed"}

ASSUME JobsAssumption ==
    /\ MaxJobs \in Nat
    /\ MaxAttempts \in Nat \ {0}
    /\ MaxTroubles \in Nat
    /\ MaxDeaths \in Nat
    /\ None \notin Runners
    /\ None \notin Kinds
    /\ Loops \cap Onces = {}

VARIABLES
    jobs,      \* the jobs table
    due,       \* per kind: everyMs has passed since a job of it last ended
    daemon,    \* "up" | "down"
    handlers,  \* the job_finish calls in flight inside the daemon
    runner,    \* the runner processes
    records,   \* the event_note of each recorded run
    lost,      \* history: what closed a row and was then not written down
    troubles   \* how many of both there have been

vars == <<jobs, due, daemon, handlers, runner, records, lost, troubles>>

(* A run is one claim of one job: the claim number is attempts, which the    *)
(* claim increments and nothing resets.                                      *)
Runs == [job : Jobs, attempt : 1 .. MaxAttempts]

Row == [state : {"absent"} \cup OpenStates \cup TerminalStates,
        kind : Kinds \cup {None}, recurring : BOOLEAN,
        owner : Runners \cup {None}, lease : {"none", "live", "lapsed"},
        attempts : 0 .. MaxAttempts]

Handler == [runner : Runners, run : Runs, ok : BOOLEAN,
            pc : {"read", "attempts", "close", "record"}, last : BOOLEAN]

(* What a report says of a run, as far as its row and its record go. *)
Telling == [run : Runs, ok : BOOLEAN]

Process == [pc : {"off", "idle", "working", "waiting", "exited", "dead"},
            kinds : SUBSET Kinds, run : Runs \cup {None}]

Absent == [state |-> "absent", kind |-> None, recurring |-> FALSE,
           owner |-> None, lease |-> "none", attempts |-> 0]

Off == [pc |-> "off", kinds |-> {}, run |-> None]

Init ==
    /\ jobs = [j \in Jobs |-> Absent]
    /\ due = [k \in Kinds |-> TRUE]
    /\ daemon = "up"
    /\ handlers = {}
    /\ runner = [r \in Runners |-> Off]
    /\ records = {} /\ lost = {}
    /\ troubles = 0

-----------------------------------------------------------------------------
(* The jobs table *)

IsOpen(j) == jobs[j].state \in OpenStates

(* slip: only a queued job counts as open *)
HasQueued(k) == \E j \in Jobs : jobs[j].kind = k /\ jobs[j].state = "pending"

HasOpen(k) == \E j \in Jobs : jobs[j].kind = k /\ IsOpen(j)

NextId(j) == /\ jobs[j].state = "absent"
             /\ \A i \in Jobs : jobs[i].state = "absent" => j <= i

Pending(k, isRecurring) ==
    [state |-> "pending", kind |-> k, recurring |-> isRecurring,
     owner |-> None, lease |-> "none", attempts |-> 0]

Submit(k, isRecurring) ==
    \E j \in Jobs : /\ NextId(j)
                    /\ jobs' = [jobs EXCEPT ![j] = Pending(k, isRecurring)]

(* slip: the attempts are not compared *)
ClaimableHoweverOften(j) ==
    \/ jobs[j].state = "pending"
    \/ jobs[j].state = "running" /\ jobs[j].lease = "lapsed"

(* slip: a lapsed lease does not make the row claimable *)
ClaimableWhenQueued(j) ==
    jobs[j].state = "pending" /\ jobs[j].attempts < MaxAttempts

Claimable(j) ==
    /\ \/ jobs[j].state = "pending"
       \/ jobs[j].state = "running" /\ jobs[j].lease = "lapsed"
    /\ jobs[j].attempts < MaxAttempts

Spent(j) == jobs[j].attempts >= MaxAttempts

(* The candidate the claim's SELECT returns for these kinds. *)
Candidate(j, K) ==
    /\ Claimable(j) /\ jobs[j].kind \in K
    /\ \A i \in Jobs : Claimable(i) /\ jobs[i].kind \in K => j <= i

Claimed(j, r) ==
    [jobs[j] EXCEPT !.state = "running", !.owner = r, !.lease = "live",
                    !.attempts = jobs[j].attempts + 1]

(* slip: the UPDATE asks for the id alone *)
HoldsById(j, r) == jobs[j].state # "absent"

Holds(j, r) == jobs[j].state = "running" /\ jobs[j].owner = r

Released(j, s) ==
    [jobs[j] EXCEPT !.state = s, !.owner = None, !.lease = "none"]

(* ended_at is stamped by a terminal state only: it restarts the cadence. *)
Ended(j) == due' = [due EXCEPT ![jobs[j].kind] = FALSE]

-----------------------------------------------------------------------------
(* The runner processes *)

(* Where a runner goes when its turn is over, whatever became of it. *)
TurnOver(r) ==
    [runner[r] EXCEPT !.pc = IF r \in Onces THEN "exited" ELSE "idle",
                      !.run = None]

StartLoop(r) ==
    /\ r \in Loops /\ runner[r].pc = "off"
    /\ runner' = [runner EXCEPT ![r] =
                    [pc |-> "idle", kinds |-> Kinds, run |-> None]]
    /\ UNCHANGED <<jobs, due, daemon, handlers, records, lost, troubles>>

(* --once enqueues unconditionally, and may then claim only that kind. *)
StartOnce(r, k) ==
    /\ r \in Onces /\ runner[r].pc = "off" /\ daemon = "up"
    /\ Submit(k, FALSE)
    /\ runner' = [runner EXCEPT ![r] =
                    [pc |-> "idle", kinds |-> {k}, run |-> None]]
    /\ UNCHANGED <<due, daemon, handlers, records, lost, troubles>>

(* One entry of scheduleDue: whether the kind is due is settled in the same  *)
(* transaction as the insert.                                                *)
ScheduleDue(r, k) ==
    /\ r \in Loops /\ runner[r].pc = "idle" /\ daemon = "up"
    /\ ~HasOpen(k) /\ due[k]
    /\ Submit(k, TRUE)
    /\ UNCHANGED <<due, daemon, handlers, runner, records, lost, troubles>>

ClaimRow(r, j) ==
    /\ runner[r].pc = "idle" /\ daemon = "up"
    /\ Candidate(j, runner[r].kinds)
    /\ jobs' = [jobs EXCEPT ![j] = Claimed(j, r)]
    /\ UNCHANGED <<due, daemon, handlers, records, lost, troubles>>

Claim(r, j) ==
    /\ ClaimRow(r, j)
    /\ runner' = [runner EXCEPT ![r].pc = "working",
                    ![r].run = [job |-> j, attempt |-> jobs[j].attempts + 1]]

(* The claim commits and its reply is lost or late: nobody runs the job. *)
ClaimReplyLost(r, j) ==
    /\ ClaimRow(r, j)
    /\ runner' = [runner EXCEPT ![r] = TurnOver(r)]

(* A --once process exits when it finds nothing to claim, as when a call of  *)
(* its own fails, that which queued its job included.                        *)
LeavesIdle(r) ==
    /\ r \in Onces /\ runner[r].pc = "idle"
    /\ runner' = [runner EXCEPT ![r] = TurnOver(r)]
    /\ UNCHANGED <<jobs, due, daemon, handlers, records, lost, troubles>>

(* Renewal asks for the owner and the state, not for an unexpired lease. *)
Renew(r) ==
    /\ runner[r].pc = "working" /\ daemon = "up"
    /\ LET j == runner[r].run.job
       IN  /\ Holds(j, r) /\ jobs[j].lease = "lapsed"
           /\ jobs' = [jobs EXCEPT ![j].lease = "live"]
    /\ UNCHANGED <<due, daemon, handlers, runner, records, lost, troubles>>

(* The run ends, usably or not (a rejected result, a missing task and a      *)
(* source checkout count as not), and the report reaches the daemon.         *)
Report(r, ok) ==
    /\ runner[r].pc = "working" /\ daemon = "up"
    /\ handlers' = handlers \cup
         {[runner |-> r, run |-> runner[r].run, ok |-> ok, pc |-> "read", last |-> FALSE]}
    /\ runner' = [runner EXCEPT ![r].pc = "waiting"]
    /\ UNCHANGED <<jobs, due, daemon, records, lost, troubles>>

(* The run ends and the report never arrives: the call's error ends the turn. *)
ReportLost(r) ==
    /\ runner[r].pc = "working"
    /\ runner' = [runner EXCEPT ![r] = TurnOver(r)]
    /\ UNCHANGED <<jobs, due, daemon, handlers, records, lost, troubles>>

(* The 30 s deadline of the call passes, or its connection closes. *)
GiveUp(r) ==
    /\ runner[r].pc = "waiting"
    /\ runner' = [runner EXCEPT ![r] = TurnOver(r)]
    /\ UNCHANGED <<jobs, due, daemon, handlers, records, lost, troubles>>

Gone == {r \in Runners : runner[r].pc = "dead"}

RunnerDies(r) ==
    /\ runner[r].pc \in {"idle", "working", "waiting"}
    /\ Cardinality(Gone) < MaxDeaths
    /\ runner' = [runner EXCEPT ![r].pc = "dead", ![r].run = None]
    /\ UNCHANGED <<jobs, due, daemon, handlers, records, lost, troubles>>

-----------------------------------------------------------------------------
(* job_finish inside the daemon *)

Becomes(h, g) == handlers' = (handlers \ {h}) \cup {g}

(* The handler returns.  Its runner hears it if it is still waiting. *)
Answer(h) ==
    /\ handlers' = handlers \ {h}
    /\ runner' = [r \in Runners |->
                    IF r = h.runner /\ runner[r].pc = "waiting" /\ runner[r].run = h.run
                    THEN TurnOver(r) ELSE runner[r]]

(* AgentRunService.finish reads the row and asks who holds it. *)
FinishRead(h) ==
    /\ daemon = "up" /\ h \in handlers /\ h.pc = "read"
    /\ IF jobs[h.run.job].owner = h.runner
       THEN /\ Becomes(h, [h EXCEPT !.pc = IF h.ok THEN "close" ELSE "attempts"])
            /\ UNCHANGED runner
       ELSE Answer(h)
    /\ UNCHANGED <<jobs, due, daemon, records, lost, troubles>>

(* PgJobsRepo.fail reads the attempts outside the transaction that uses them. *)
FailRead(h) ==
    /\ daemon = "up" /\ h \in handlers /\ h.pc = "attempts"
    /\ Becomes(h, [h EXCEPT !.pc = "close",
                            !.last = Spent(h.run.job)])
    /\ UNCHANGED <<jobs, due, daemon, runner, records, lost, troubles>>

Outcome(h) == IF h.ok THEN "done" ELSE IF h.last THEN "failed" ELSE "pending"

(* slip: a report that closed nothing is written down too *)
CloseUnasked(h) ==
    LET j == h.run.job
    IN  /\ daemon = "up" /\ h \in handlers /\ h.pc = "close"
        /\ IF Holds(j, h.runner)
           THEN /\ jobs' = [jobs EXCEPT ![j] = Released(j, Outcome(h))]
                /\ IF Outcome(h) = "pending" THEN UNCHANGED due ELSE Ended(j)
           ELSE UNCHANGED <<jobs, due>>
        /\ Becomes(h, [h EXCEPT !.pc = "record"])
        /\ UNCHANGED <<daemon, runner, records, lost, troubles>>

Close(h) ==
    LET j == h.run.job
    IN  /\ daemon = "up" /\ h \in handlers /\ h.pc = "close"
        /\ IF Holds(j, h.runner)
           THEN /\ jobs' = [jobs EXCEPT ![j] = Released(j, Outcome(h))]
                /\ IF Outcome(h) = "pending" THEN UNCHANGED due ELSE Ended(j)
                /\ Becomes(h, [h EXCEPT !.pc = "record"])
                /\ UNCHANGED runner
           ELSE /\ Answer(h)
                /\ UNCHANGED <<jobs, due>>
        /\ UNCHANGED <<daemon, records, lost, troubles>>

Tells(h) == [run |-> h.run, ok |-> h.ok]

(* Only a report that closed its row is written down: a session in one       *)
(* transaction, and the note, which is the record, in another.               *)
Record(h) ==
    /\ daemon = "up" /\ h \in handlers /\ h.pc = "record"
    /\ records' = records \cup {Tells(h)}
    /\ Answer(h)
    /\ UNCHANGED <<jobs, due, daemon, lost, troubles>>

(* A read or a transaction of the handler is rejected, and the caller is     *)
(* told of an error.  The row that is closed stays closed: there is no       *)
(* record, and nobody writes one later.  (A transaction that commits, and is *)
(* taken for rejected, is its step and then this one.)                       *)
Rejected(h) ==
    /\ daemon = "up" /\ h \in handlers
    /\ \/ h.pc # "record" /\ UNCHANGED <<lost, troubles>>
       \/ /\ h.pc = "record" /\ troubles < MaxTroubles
          /\ lost' = lost \cup {Tells(h)} /\ troubles' = troubles + 1
    /\ Answer(h)
    /\ UNCHANGED <<jobs, due, daemon, records>>

-----------------------------------------------------------------------------
(* The daemon process, and time *)

DaemonStops ==
    /\ daemon = "up" /\ troubles < MaxTroubles
    /\ daemon' = "down" /\ troubles' = troubles + 1
    /\ handlers' = {}
    /\ lost' = lost \cup {Tells(h) : h \in {g \in handlers : g.pc = "record"}}
    /\ UNCHANGED <<jobs, due, runner, records>>

(* reconcileAbandoned, before the socket opens.  A row it retires ended when  *)
(* it was last updated, which may be longer ago than the cadence.             *)
DaemonStarts ==
    /\ daemon = "down"
    /\ daemon' = "up"
    /\ jobs' = [j \in Jobs |->
                  IF jobs[j].state # "running" THEN jobs[j]
                  ELSE Released(j, IF Spent(j) THEN "failed" ELSE "pending")]
    /\ \E K \in SUBSET {jobs[j].kind : j \in {i \in Jobs : jobs[i].state = "running" /\ Spent(i)}} :
         due' = [k \in Kinds |-> due[k] /\ k \notin K]
    /\ UNCHANGED <<handlers, runner, records, lost, troubles>>

LeaseLapses(j) ==
    /\ jobs[j].state = "running" /\ jobs[j].lease = "live"
    /\ jobs' = [jobs EXCEPT ![j].lease = "lapsed"]
    /\ UNCHANGED <<due, daemon, handlers, runner, records, lost, troubles>>

CadenceElapses(k) ==
    /\ ~due[k]
    /\ due' = [due EXCEPT ![k] = TRUE]
    /\ UNCHANGED <<jobs, daemon, handlers, runner, records, lost, troubles>>

-----------------------------------------------------------------------------
RunnerStep(r) ==
    \/ StartLoop(r)
    \/ \E k \in Kinds : StartOnce(r, k) \/ ScheduleDue(r, k)
    \/ \E j \in Jobs : Claim(r, j) \/ ClaimReplyLost(r, j)
    \/ LeavesIdle(r)
    \/ Renew(r)
    \/ \E ok \in BOOLEAN : Report(r, ok)
    \/ ReportLost(r)
    \/ GiveUp(r)
    \/ RunnerDies(r)

HandlerStep(h) ==
    FinishRead(h) \/ FailRead(h) \/ Close(h) \/ Record(h) \/ Rejected(h)

Next ==
    \/ \E r \in Runners : RunnerStep(r)
    \/ \E h \in handlers : HandlerStep(h)
    \/ DaemonStops
    \/ DaemonStarts
    \/ \E j \in Jobs : LeaseLapses(j)
    \/ \E k \in Kinds : CadenceElapses(k)

Spec == Init /\ [][Next]_vars

(* Somebody is still on the job: a runner at work, or its report in flight. *)
Attended(j) ==
    \/ \E r \in Runners : runner[r].pc = "working" /\ runner[r].run.job = j
                          /\ Holds(j, r)
    \/ \E h \in handlers : h.run.job = j /\ h.pc # "record" /\ Holds(j, h.runner)

(* The loop keeps turning, an agent run ends (its timeout kills it), the     *)
(* daemon is restarted by its supervisor and serves its calls, and the lease *)
(* of a job nobody attends runs out.  Nobody is obliged to start a --once,   *)
(* to die, to lose a reply or to stop the daemon.                            *)
Fairness ==
    /\ \A r \in Loops : /\ WF_vars(StartLoop(r))
                        /\ \A k \in Kinds : WF_vars(ScheduleDue(r, k))
    /\ \A r \in Runners :
         /\ WF_vars(\E j \in Jobs : Claim(r, j) \/ ClaimReplyLost(r, j))
         /\ WF_vars((\E ok \in BOOLEAN : Report(r, ok)) \/ ReportLost(r))
         /\ WF_vars(GiveUp(r))
    /\ WF_vars(\E h \in handlers : HandlerStep(h))
    /\ WF_vars(DaemonStarts)
    /\ \A j \in Jobs : WF_vars(~Attended(j) /\ LeaseLapses(j))
    /\ \A k \in Kinds : WF_vars(CadenceElapses(k))

FairSpec == Spec /\ Fairness
-----------------------------------------------------------------------------
(* Properties *)

RowConsistent(x) == /\ x.state = "running" <=> x.owner # None
                    /\ x.state = "running" <=> x.lease # "none"
                    /\ x.state # "absent" => x.kind \in Kinds

BusyHasRun(p) == p.pc \in {"working", "waiting"} => p.run \in Runs

(* Every variable has its type, a row is held and leased exactly while it is *)
(* running, and a busy runner is busy with some run.                         *)
TypeOK ==
    /\ jobs \in [Jobs -> Row]
    /\ due \in [Kinds -> BOOLEAN]
    /\ daemon \in {"up", "down"}
    /\ handlers \subseteq Handler
    /\ runner \in [Runners -> Process]
    /\ records \subseteq Telling /\ lost \subseteq Telling
    /\ troubles \in 0 .. MaxTroubles
    /\ \A j \in Jobs : RowConsistent(jobs[j])
    /\ \A r \in Runners : BusyHasRun(runner[r])

(* Two runners scheduling at once, a runner racing a --once, and a restart   *)
(* that reopens rows never leave two open jobs of a kind that both came from *)
(* the schedule (submitIfDue, and the comment at runner.ts:207).             *)
OneOpenRecurringJob ==
    \A i, j \in Jobs :
        /\ jobs[i].recurring /\ IsOpen(i)
        /\ jobs[j].recurring /\ IsOpen(j)
        /\ jobs[i].kind = jobs[j].kind
        => i = j

(* A job is retired as failed only after its last attempt, whichever of the  *)
(* report of a failure and the daemon's restart retires it.                  *)
FailedOnlyWhenSpent ==
    \A j \in Jobs : jobs[j].state = "failed" => jobs[j].attempts = MaxAttempts

(* What closed a row, and is written down, about to be, or was lost.         *)
Told == records \cup lost \cup {Tells(h) : h \in {g \in handlers : g.pc = "record"}}

(* The history of runs and the table agree on success.  A job is done        *)
(* exactly if one report closed it as completed, and only that report is     *)
(* ever written down as such: not the late one of a run whose job was taken  *)
(* away, nor both when a runner was given its own job again.  The record is  *)
(* missing only where the daemon stopped, or a write was rejected, between   *)
(* the close and the note (agent-run.service.ts:99-108).                     *)
SuccessIsToldOnce ==
    /\ \A x \in Told : x.ok => jobs[x.run.job].state = "done"
    /\ \A x, y \in Told : x.ok /\ y.ok /\ x.run.job = y.run.job => x = y
    /\ \A j \in Jobs : jobs[j].state = "done" => \E x \in Told : x.ok /\ x.run.job = j

(* A terminal state is never left (vocab.ts:158), not by a late report, a    *)
(* lapsed lease or a restart.                                                *)
SettledForever ==
    [][\A j \in Jobs : jobs[j].state \in TerminalStates => jobs'[j] = jobs[j]]_vars

(* Nobody will ever end this job: its attempts are used up, so that neither  *)
(* a lapsed lease nor a place in the queue makes it claimable, and no runner *)
(* or report is on it.  It is running when the last one was lost, and        *)
(* pending when a failure was reported by attempts read before its runner    *)
(* was given the job again (jobs.ts:105).                                    *)
Orphaned(j) == IsOpen(j) /\ Spent(j) /\ ~Attended(j)

(* An open job settles, however often it fails, lapses, is reported late or  *)
(* loses its runner, unless its last attempt is the one that is orphaned.    *)
SettlesOrOrphaned ==
    \A j \in Jobs : IsOpen(j) ~> (jobs[j].state \in TerminalStates \/ Orphaned(j))

(* The queue keeps the promise of JobLedger. *)
Phase(j) == IF jobs[j].state = "absent" THEN "absent"
            ELSE IF IsOpen(j) THEN "open" ELSE "settled"

Ledger == INSTANCE JobLedger WITH
            phase <- [j \in Jobs |-> Phase(j)],
            attempts <- [j \in Jobs |-> jobs[j].attempts]

(* As seen by a submitter a job is one attempt after another, at most        *)
(* MaxAttempts of them, and settles at most once.                            *)
KeepsLedger == Ledger!LSpec

-----------------------------------------------------------------------------
(* What the comments and messages of the code say, and the code does not do *)

(* "How often the runner enqueues this task for itself": a recurring kind    *)
(* whose job is open gets its next job some day (runner/tasks.ts:28).        *)
RecurringKindRunsAgain == \A k \in Kinds : HasOpen(k) ~> ~HasOpen(k)
=============================================================================
