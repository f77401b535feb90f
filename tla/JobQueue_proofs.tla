--------------------------- MODULE JobQueue_proofs ---------------------------
(* Theorems about the job queue for any number of jobs, runners, kinds and   *)
(* attempts.                                                                 *)
EXTENDS JobQueue, TLAPS

-----------------------------------------------------------------------------
(* Type correctness *)

RowOK(x) == x \in Row /\ RowConsistent(x)
ProcessOK(p) == p \in Process /\ BusyHasRun(p)

(* What a write of one row, or of one runner, needs to keep the types. *)
LEMMA RowWritten ==
    ASSUME TypeOK, NEW j \in Jobs, NEW x, RowOK(x), jobs' = [jobs EXCEPT ![j] = x]
    PROVE  jobs' \in [Jobs -> Row] /\ \A i \in Jobs : RowConsistent(jobs'[i])
  BY DEF TypeOK, RowOK

LEMMA RunnerWritten ==
    ASSUME TypeOK, NEW r \in Runners, NEW p, ProcessOK(p), runner' = [runner EXCEPT ![r] = p]
    PROVE  runner' \in [Runners -> Process] /\ \A s \in Runners : BusyHasRun(runner'[s])
  BY DEF TypeOK, ProcessOK

LEMMA TurnOverOK == ASSUME TypeOK, NEW r \in Runners PROVE ProcessOK(TurnOver(r))
  BY DEF TypeOK, TurnOver, ProcessOK, Process, BusyHasRun

LEMMA PendingOK == ASSUME NEW k \in Kinds, NEW b \in BOOLEAN PROVE RowOK(Pending(k, b))
  BY JobsAssumption DEF Pending, RowOK, Row, RowConsistent, OpenStates, TerminalStates

LEMMA ReleasedOK ==
    ASSUME TypeOK, NEW j \in Jobs, jobs[j].state = "running",
           NEW s \in {"pending", "done", "failed"}
    PROVE  RowOK(Released(j, s))
  <1>1. jobs[j] \in Row /\ RowConsistent(jobs[j]) BY DEF TypeOK
  <1> DEFINE x == Released(j, s)
  <1>2. /\ x.state = s /\ x.owner = None /\ x.lease = "none"
        /\ x.kind = jobs[j].kind
    BY <1>1 DEF Released, Row
  <1>3. x \in Row BY <1>1, <1>2 DEF Released, Row, OpenStates, TerminalStates
  <1> QED BY <1>1, <1>2, <1>3 DEF RowOK, RowConsistent

LEMMA ClaimedOK ==
    ASSUME TypeOK, NEW j \in Jobs, NEW r \in Runners, Claimable(j)
    PROVE  /\ RowOK(Claimed(j, r))
           /\ jobs[j].attempts + 1 \in 1 .. MaxAttempts
  <1>1. jobs[j] \in Row /\ RowConsistent(jobs[j]) /\ jobs[j].state \in OpenStates
    BY DEF TypeOK, Claimable, OpenStates
  <1>2. jobs[j].attempts + 1 \in 1 .. MaxAttempts
    BY <1>1, JobsAssumption DEF Claimable, Row
  <1> DEFINE x == Claimed(j, r)
  <1>3. /\ x.state = "running" /\ x.owner = r /\ x.lease = "live"
        /\ x.kind = jobs[j].kind
    BY <1>1 DEF Claimed, Row
  <1>4. jobs[j].attempts + 1 \in 0 .. MaxAttempts
    BY <1>2
  <1>5. x \in Row BY <1>1, <1>4 DEF Claimed, Row, OpenStates
  <1> QED BY <1>1, <1>2, <1>3, <1>5, JobsAssumption DEF RowOK, RowConsistent, OpenStates

LEMMA AnswerType ==
    ASSUME TypeOK, NEW h \in handlers, Answer(h)
    PROVE  /\ handlers' \subseteq Handler
           /\ runner' \in [Runners -> Process]
           /\ \A s \in Runners : BusyHasRun(runner'[s])
  BY TurnOverOK DEF Answer, TypeOK, ProcessOK

LEMMA TellsType == ASSUME NEW h \in Handler PROVE Tells(h) \in Telling
  BY DEF Tells, Telling, Handler

LEMMA TypeInit == Init => TypeOK
  BY JobsAssumption
  DEF Init, TypeOK, Row, Absent, Off, Process, Runs, RowConsistent, BusyHasRun

LEMMA RunnerStepType ==
    ASSUME TypeOK, NEW r \in Runners, RunnerStep(r) PROVE TypeOK'
  <1>1. ASSUME NEW K \in SUBSET Kinds
        PROVE  ProcessOK([pc |-> "idle", kinds |-> K, run |-> None])
    BY DEF ProcessOK, Process, BusyHasRun
  <1>2. CASE StartLoop(r)
    BY <1>1, <1>2, RunnerWritten DEF StartLoop, TypeOK
  <1>3. ASSUME NEW k \in Kinds, NEW b \in BOOLEAN, Submit(k, b)
        PROVE  jobs' \in [Jobs -> Row] /\ \A i \in Jobs : RowConsistent(jobs'[i])
    BY <1>3, PendingOK, RowWritten DEF Submit
  <1>4. ASSUME NEW k \in Kinds, StartOnce(r, k) PROVE TypeOK'
    <2>1. runner' \in [Runners -> Process] /\ \A s \in Runners : BusyHasRun(runner'[s])
      BY <1>1, <1>4, RunnerWritten DEF StartOnce
    <2> QED BY <1>3, <1>4, <2>1 DEF StartOnce, TypeOK
  <1>5. ASSUME NEW k \in Kinds, ScheduleDue(r, k) PROVE TypeOK'
    BY <1>3, <1>5 DEF ScheduleDue, TypeOK
  <1>6. ASSUME NEW j \in Jobs, ClaimRow(r, j)
        PROVE  jobs' \in [Jobs -> Row] /\ \A i \in Jobs : RowConsistent(jobs'[i])
    BY <1>6, ClaimedOK, RowWritten DEF ClaimRow, Candidate
  <1>7. ASSUME NEW j \in Jobs, Claim(r, j) PROVE TypeOK'
    <2>1. [job |-> j, attempt |-> jobs[j].attempts + 1] \in Runs
      BY <1>7, ClaimedOK DEF Claim, ClaimRow, Candidate, Runs
    <2> DEFINE p == [runner[r] EXCEPT !.pc = "working",
                       !.run = [job |-> j, attempt |-> jobs[j].attempts + 1]]
    <2>2. ProcessOK(p) BY <2>1 DEF TypeOK, ProcessOK, Process, BusyHasRun
    <2>3. runner' = [runner EXCEPT ![r] = p] BY <1>7 DEF Claim, TypeOK
    <2>4. runner' \in [Runners -> Process] /\ \A s \in Runners : BusyHasRun(runner'[s])
      BY <2>2, <2>3, RunnerWritten
    <2> QED BY <1>6, <1>7, <2>4 DEF Claim, ClaimRow, TypeOK
  <1>8. ASSUME NEW j \in Jobs, ClaimReplyLost(r, j) PROVE TypeOK'
    <2>1. runner' \in [Runners -> Process] /\ \A s \in Runners : BusyHasRun(runner'[s])
      BY <1>8, TurnOverOK, RunnerWritten DEF ClaimReplyLost
    <2> QED BY <1>6, <1>8, <2>1 DEF ClaimReplyLost, ClaimRow, TypeOK
  <1>9. CASE LeavesIdle(r) \/ ReportLost(r) \/ GiveUp(r)
    <2>1. runner' \in [Runners -> Process] /\ \A s \in Runners : BusyHasRun(runner'[s])
      BY <1>9, TurnOverOK, RunnerWritten DEF LeavesIdle, ReportLost, GiveUp
    <2> QED BY <1>9, <2>1 DEF LeavesIdle, ReportLost, GiveUp, TypeOK
  <1>10. CASE Renew(r)
    <2> DEFINE j == runner[r].run.job
    <2>1. j \in Jobs /\ Holds(j, r) BY <1>10 DEF Renew, TypeOK, BusyHasRun, Runs
    <2> DEFINE x == [jobs[j] EXCEPT !.lease = "live"]
    <2>2. RowOK(x) BY <2>1 DEF TypeOK, RowOK, Row, RowConsistent, Holds
    <2>3. jobs' = [jobs EXCEPT ![j] = x] BY <1>10, <2>1 DEF Renew, TypeOK
    <2>4. jobs' \in [Jobs -> Row] /\ \A i \in Jobs : RowConsistent(jobs'[i])
      BY <2>1, <2>2, <2>3, RowWritten
    <2> QED BY <1>10, <2>4 DEF Renew, TypeOK
  <1>11. ASSUME NEW ok \in BOOLEAN, Report(r, ok) PROVE TypeOK'
    <2>1. runner[r].run \in Runs BY <1>11 DEF Report, TypeOK, BusyHasRun
    <2> DEFINE p == [runner[r] EXCEPT !.pc = "waiting"]
    <2>2. ProcessOK(p) BY <2>1 DEF TypeOK, ProcessOK, Process, BusyHasRun
    <2>3. runner' = [runner EXCEPT ![r] = p] BY <1>11 DEF Report, TypeOK
    <2>4. runner' \in [Runners -> Process] /\ \A s \in Runners : BusyHasRun(runner'[s])
      BY <2>2, <2>3, RunnerWritten
    <2> DEFINE g == [runner |-> r, run |-> runner[r].run, ok |-> ok,
                     pc |-> "read", last |-> FALSE]
    <2>5. g \in Handler BY <2>1, Zenon DEF Handler
    <2>6. handlers' \subseteq Handler BY <1>11, <2>5 DEF Report, TypeOK
    <2> QED BY <1>11, <2>4, <2>6 DEF Report, TypeOK
  <1>12. CASE RunnerDies(r)
    <2> DEFINE p == [runner[r] EXCEPT !.pc = "dead", !.run = None]
    <2>1. ProcessOK(p) BY DEF TypeOK, ProcessOK, Process, BusyHasRun
    <2>2. runner' = [runner EXCEPT ![r] = p] BY <1>12 DEF RunnerDies, TypeOK
    <2>3. runner' \in [Runners -> Process] /\ \A s \in Runners : BusyHasRun(runner'[s])
      BY <2>1, <2>2, RunnerWritten
    <2> QED BY <1>12, <2>3 DEF RunnerDies, TypeOK
  <1> QED
    BY <1>2, <1>4, <1>5, <1>7, <1>8, <1>9, <1>10, <1>11, <1>12 DEF RunnerStep

LEMMA CloseType ==
    ASSUME TypeOK, NEW h \in handlers, Close(h) PROVE TypeOK'
  <1> DEFINE j == h.run.job
  <1>1. h \in Handler /\ j \in Jobs BY DEF TypeOK, Handler, Runs
  <1>2. CASE Holds(j, h.runner)
    <2>1. jobs[j].state = "running" /\ jobs[j].kind \in Kinds
      BY <1>1, <1>2 DEF Holds, TypeOK, RowConsistent
    <2>2. Outcome(h) \in {"pending", "done", "failed"} BY DEF Outcome
    <2>3. jobs' = [jobs EXCEPT ![j] = Released(j, Outcome(h))]
      BY <1>2, Zenon DEF Close
    <2>4. jobs' \in [Jobs -> Row] /\ \A i \in Jobs : RowConsistent(jobs'[i])
      BY <1>1, <2>1, <2>2, <2>3, ReleasedOK, RowWritten
    <2>5. handlers' \subseteq Handler
      BY <1>1, <1>2 DEF Close, Becomes, TypeOK, Handler
    <2>6. due' \in [Kinds -> BOOLEAN]
      BY <1>2, <2>1 DEF Close, Ended, TypeOK
    <2>7. UNCHANGED <<daemon, records, lost, troubles, runner>>
      BY <1>2 DEF Close
    <2> QED BY <2>4, <2>5, <2>6, <2>7 DEF TypeOK
  <1>3. CASE ~Holds(j, h.runner)
    BY <1>3, AnswerType DEF Close, TypeOK
  <1> QED BY <1>2, <1>3

LEMMA HandlerStepType ==
    ASSUME TypeOK, NEW h \in handlers, HandlerStep(h) PROVE TypeOK'
  <1>1. h \in Handler BY DEF TypeOK
  <1>2. CASE FinishRead(h)
    <2>1. CASE jobs[h.run.job].owner = h.runner
      <3>1. handlers' \subseteq Handler
        BY <1>1, <1>2, <2>1 DEF FinishRead, Becomes, TypeOK, Handler
      <3> QED BY <1>2, <2>1, <3>1 DEF FinishRead, TypeOK
    <2>2. CASE jobs[h.run.job].owner # h.runner
      BY <1>2, <2>2, AnswerType DEF FinishRead, TypeOK
    <2> QED BY <2>1, <2>2
  <1>3. CASE FailRead(h)
    <2> DEFINE b == Spent(h.run.job)
               g == [h EXCEPT !.pc = "close", !.last = b]
    <2>1. b \in BOOLEAN BY DEF Spent
    <2>2. g \in Handler BY <1>1, <2>1, Zenon DEF Handler
    <2>3. handlers' = (handlers \ {h}) \cup {g} BY <1>3 DEF FailRead, Becomes
    <2>4. handlers' \subseteq Handler BY <2>2, <2>3 DEF TypeOK
    <2> QED BY <1>3, <2>4 DEF FailRead, TypeOK
  <1>4. CASE Close(h)
    BY <1>4, CloseType
  <1>5. CASE Record(h)
    <2>1. records' \subseteq Telling BY <1>1, <1>5, TellsType DEF Record, TypeOK
    <2> QED BY <1>5, <2>1, AnswerType DEF Record, TypeOK
  <1>6. CASE Rejected(h)
    <2>1. lost' \subseteq Telling /\ troubles' \in 0 .. MaxTroubles
      BY <1>1, <1>6, TellsType, JobsAssumption DEF Rejected, TypeOK
    <2> QED BY <1>6, <2>1, AnswerType DEF Rejected, TypeOK
  <1> QED BY <1>2, <1>3, <1>4, <1>5, <1>6 DEF HandlerStep

LEMMA TypeNext == TypeOK /\ [Next]_vars => TypeOK'
  <1> SUFFICES ASSUME TypeOK, [Next]_vars PROVE TypeOK'
    OBVIOUS
  <1>1. CASE DaemonStops
    <2>1. lost' \subseteq Telling
      BY <1>1, TellsType DEF DaemonStops, TypeOK
    <2> QED BY <1>1, <2>1, JobsAssumption DEF DaemonStops, TypeOK
  <1>2. CASE DaemonStarts
    <2>1. \A j \in Jobs : RowOK(jobs'[j])
      BY <1>2, ReleasedOK DEF DaemonStarts, TypeOK, RowOK
    <2>2. jobs' \in [Jobs -> Row] BY <1>2, <2>1 DEF DaemonStarts, RowOK
    <2>3. due' \in [Kinds -> BOOLEAN] BY <1>2 DEF DaemonStarts, TypeOK
    <2> QED BY <1>2, <2>1, <2>2, <2>3 DEF DaemonStarts, TypeOK, RowOK
  <1>3. ASSUME NEW j \in Jobs, LeaseLapses(j) PROVE TypeOK'
    <2> DEFINE x == [jobs[j] EXCEPT !.lease = "lapsed"]
    <2>1. RowOK(x) BY <1>3 DEF LeaseLapses, TypeOK, RowOK, Row, RowConsistent
    <2>2. jobs' = [jobs EXCEPT ![j] = x] BY <1>3 DEF LeaseLapses, TypeOK
    <2>3. jobs' \in [Jobs -> Row] /\ \A i \in Jobs : RowConsistent(jobs'[i])
      BY <2>1, <2>2, RowWritten
    <2> QED BY <1>3, <2>3 DEF LeaseLapses, TypeOK
  <1>4. ASSUME NEW k \in Kinds, CadenceElapses(k) PROVE TypeOK'
    BY <1>4 DEF CadenceElapses, TypeOK
  <1>5. CASE UNCHANGED vars
    BY <1>5 DEF vars, TypeOK
  <1> QED
    BY <1>1, <1>2, <1>3, <1>4, <1>5, RunnerStepType, HandlerStepType DEF Next

(* Every variable keeps its type, a row is held and leased exactly while it  *)
(* is running, and a busy runner is busy with some run.                      *)
THEOREM TypeCorrect == Spec => []TypeOK
  BY TypeInit, TypeNext, PTL DEF Spec

-----------------------------------------------------------------------------
(* What a step may do to the table of jobs *)

Submitted == \E k \in Kinds, b \in BOOLEAN : Submit(k, b) /\ (b => ~HasOpen(k))

Taken(j, r) == Claimable(j) /\ jobs' = [jobs EXCEPT ![j] = Claimed(j, r)]

Leased(j, x) == /\ jobs[j].state = "running"
                /\ jobs' = [jobs EXCEPT ![j] = [jobs[j] EXCEPT !.lease = x]]

Let(S, f) == /\ \A j \in S : /\ jobs[j].state = "running"
                             /\ f[j] \in {"pending", "done", "failed"}
                             /\ f[j] = "failed" => Spent(j)
             /\ jobs' = [j \in Jobs |-> IF j \in S THEN Released(j, f[j]) ELSE jobs[j]]

TableStep ==
    \/ jobs' = jobs
    \/ Submitted
    \/ \E j \in Jobs, r \in Runners : Taken(j, r)
    \/ \E j \in Jobs, x \in {"live", "lapsed"} : Leased(j, x)
    \/ \E S \in SUBSET Jobs : \E f \in [Jobs -> {"pending", "done", "failed"}] : Let(S, f)

(* A failure is final only if the attempts read by fail() were spent, and    *)
(* attempts never go down, so they still are when the row is closed.         *)
LastIsSpent == \A h \in handlers : h.last => Spent(h.run.job)

RunningIsAttempt == \A j \in Jobs : jobs[j].state = "running" => jobs[j].attempts > 0

AbsentIsBlank == \A j \in Jobs : jobs[j].state = "absent" => jobs[j].attempts = 0

Inv == /\ TypeOK
       /\ LastIsSpent
       /\ AbsentIsBlank
       /\ RunningIsAttempt
       /\ FailedOnlyWhenSpent
       /\ OneOpenRecurringJob

LEMMA StepOfTable == ASSUME TypeOK, LastIsSpent, [Next]_vars PROVE TableStep
  <1>1. ASSUME NEW r \in Runners, RunnerStep(r) PROVE TableStep
    <2>1. CASE StartLoop(r) \/ LeavesIdle(r) \/ ReportLost(r) \/ GiveUp(r) \/ RunnerDies(r)
      BY <2>1 DEF StartLoop, LeavesIdle, ReportLost, GiveUp, RunnerDies, TableStep
    <2>2. ASSUME NEW k \in Kinds, StartOnce(r, k) PROVE TableStep
      BY <2>2 DEF StartOnce, TableStep, Submitted
    <2>3. ASSUME NEW k \in Kinds, ScheduleDue(r, k) PROVE TableStep
      BY <2>3 DEF ScheduleDue, TableStep, Submitted
    <2>4. ASSUME NEW j \in Jobs, Claim(r, j) \/ ClaimReplyLost(r, j) PROVE TableStep
      BY <2>4 DEF Claim, ClaimReplyLost, ClaimRow, Candidate, TableStep, Taken
    <2>5. CASE Renew(r)
      <3> DEFINE j == runner[r].run.job
      <3>1. j \in Jobs /\ jobs[j].state = "running"
        BY <2>5 DEF Renew, Holds, TypeOK, BusyHasRun, Runs
      <3>2. Leased(j, "live") BY <2>5, <3>1 DEF Renew, Leased, TypeOK
      <3> QED BY <3>1, <3>2 DEF TableStep
    <2>6. ASSUME NEW ok \in BOOLEAN, Report(r, ok) PROVE TableStep
      BY <2>6 DEF Report, TableStep
    <2> QED BY <1>1, <2>1, <2>2, <2>3, <2>4, <2>5, <2>6 DEF RunnerStep
  <1>2. ASSUME NEW h \in handlers, HandlerStep(h) PROVE TableStep
    <2>1. CASE FinishRead(h) \/ FailRead(h) \/ Record(h) \/ Rejected(h)
      BY <2>1 DEF FinishRead, FailRead, Record, Rejected, TableStep
    <2>2. CASE Close(h)
      <3> DEFINE j == h.run.job
                 f == [i \in Jobs |-> Outcome(h)]
      <3>1. j \in Jobs BY DEF TypeOK, Handler, Runs
      <3>2. CASE Holds(j, h.runner)
        <4>1. f \in [Jobs -> {"pending", "done", "failed"}] BY DEF Outcome
        <4>2. Outcome(h) = "failed" => Spent(j) BY DEF Outcome, LastIsSpent
        <4>3. jobs' = [jobs EXCEPT ![j] = Released(j, Outcome(h))]
          BY <2>2, <3>2, Zenon DEF Close
        <4>4. Let({j}, f)
          BY <3>1, <3>2, <4>1, <4>2, <4>3 DEF Let, Holds, TypeOK
        <4> QED BY <3>1, <4>1, <4>4 DEF TableStep
      <3>3. CASE ~Holds(j, h.runner)
        BY <2>2, <3>3 DEF Close, TableStep
      <3> QED BY <3>2, <3>3
    <2> QED BY <1>2, <2>1, <2>2 DEF HandlerStep
  <1>3. CASE DaemonStarts
    <2> DEFINE S == {j \in Jobs : jobs[j].state = "running"}
               f == [j \in Jobs |-> IF Spent(j) THEN "failed" ELSE "pending"]
    <2>1. f \in [Jobs -> {"pending", "done", "failed"}] /\ S \in SUBSET Jobs
      OBVIOUS
    <2>2. jobs' = [j \in Jobs |-> IF j \in S THEN Released(j, f[j]) ELSE jobs[j]]
      BY <1>3 DEF DaemonStarts
    <2>3. Let(S, f) BY <2>1, <2>2 DEF Let
    <2> QED BY <2>1, <2>3 DEF TableStep
  <1>4. ASSUME NEW j \in Jobs, LeaseLapses(j) PROVE TableStep
    <2>1. Leased(j, "lapsed") BY <1>4 DEF LeaseLapses, Leased, TypeOK
    <2> QED BY <2>1 DEF TableStep
  <1>5. ASSUME NEW k \in Kinds, CadenceElapses(k) PROVE TableStep
    BY <1>5 DEF CadenceElapses, TableStep
  <1>6. CASE DaemonStops \/ UNCHANGED vars
    BY <1>6 DEF DaemonStops, vars, TableStep
  <1> QED BY <1>1, <1>2, <1>3, <1>4, <1>5, <1>6 DEF Next

(* The same, seen from one row. *)
Kept(j) == /\ jobs'[j].state = jobs[j].state /\ jobs'[j].kind = jobs[j].kind
           /\ jobs'[j].recurring = jobs[j].recurring
           /\ jobs'[j].attempts = jobs[j].attempts

Enters(j) == /\ jobs[j].state = "absent" /\ jobs'[j].state = "pending"
             /\ jobs'[j].attempts = jobs[j].attempts
             /\ jobs'[j].recurring => ~HasOpen(jobs'[j].kind)

Starts(j) == /\ IsOpen(j) /\ jobs[j].attempts < MaxAttempts
             /\ jobs'[j].state = "running" /\ jobs'[j].kind = jobs[j].kind
             /\ jobs'[j].recurring = jobs[j].recurring
             /\ jobs'[j].attempts = jobs[j].attempts + 1

Ends(j) == /\ jobs[j].state = "running" /\ jobs'[j].kind = jobs[j].kind
           /\ jobs'[j].recurring = jobs[j].recurring
           /\ jobs'[j].attempts = jobs[j].attempts
           /\ \/ jobs'[j].state \in {"pending", "done"}
              \/ jobs'[j].state = "failed" /\ Spent(j)

LEMMA RowView ==
    ASSUME TypeOK, AbsentIsBlank, TableStep, NEW j \in Jobs
    PROVE  Kept(j) \/ Enters(j) \/ Starts(j) \/ Ends(j)
  <1>0. jobs[j] \in Row BY DEF TypeOK
  <1>1. CASE jobs' = jobs
    BY <1>1 DEF Kept
  <1>2. CASE Submitted
    <2>1. PICK k \in Kinds, b \in BOOLEAN, i \in Jobs :
            /\ b => ~HasOpen(k)
            /\ jobs[i].state = "absent"
            /\ jobs' = [jobs EXCEPT ![i] = Pending(k, b)]
      BY <1>2 DEF Submitted, Submit, NextId
    <2>2. CASE i = j
      BY <2>1, <2>2 DEF Enters, Pending, TypeOK, AbsentIsBlank
    <2>3. CASE i # j
      BY <2>1, <2>3 DEF Kept, TypeOK
    <2> QED BY <2>2, <2>3
  <1>3. ASSUME NEW i \in Jobs, NEW r \in Runners, Taken(i, r)
        PROVE  Kept(j) \/ Starts(j)
    <2>1. CASE i = j
      <3>1. jobs'[j] = Claimed(j, r) BY <1>3, <2>1 DEF Taken, TypeOK
      <3>2. /\ Claimed(j, r).state = "running" /\ Claimed(j, r).kind = jobs[j].kind
            /\ Claimed(j, r).recurring = jobs[j].recurring
            /\ Claimed(j, r).attempts = jobs[j].attempts + 1
        BY <1>0 DEF Claimed, Row
      <3> QED BY <1>3, <2>1, <3>1, <3>2 DEF Taken, Claimable, Starts, IsOpen, OpenStates
    <2>2. CASE i # j
      BY <1>3, <2>2 DEF Taken, Kept, TypeOK
    <2> QED BY <2>1, <2>2
  <1>4. ASSUME NEW i \in Jobs, NEW x \in {"live", "lapsed"}, Leased(i, x) PROVE Kept(j)
    BY <1>0, <1>4 DEF Leased, Kept, TypeOK, Row
  <1>5. ASSUME NEW S \in SUBSET Jobs, NEW f \in [Jobs -> {"pending", "done", "failed"}],
               Let(S, f)
        PROVE  Kept(j) \/ Ends(j)
    <2>1. CASE j \in S
      <3>1. jobs'[j] = Released(j, f[j]) BY <1>5, <2>1 DEF Let
      <3>2. /\ Released(j, f[j]).state = f[j] /\ Released(j, f[j]).kind = jobs[j].kind
            /\ Released(j, f[j]).recurring = jobs[j].recurring
            /\ Released(j, f[j]).attempts = jobs[j].attempts
        BY <1>0 DEF Released, Row
      <3> QED BY <1>5, <2>1, <3>1, <3>2 DEF Let, Ends
    <2>2. CASE j \notin S
      BY <1>5, <2>2 DEF Let, Kept
    <2> QED BY <2>1, <2>2
  <1> QED BY <1>1, <1>2, <1>3, <1>4, <1>5 DEF TableStep

(* One step submits at most one job. *)
LEMMA OneEntry ==
    ASSUME TypeOK, TableStep, NEW i \in Jobs, NEW j \in Jobs,
           jobs[i].state = "absent", jobs'[i].state # "absent",
           jobs[j].state = "absent", jobs'[j].state # "absent"
    PROVE  i = j
  <1>1. CASE Submitted
    BY <1>1 DEF Submitted, Submit, TypeOK
  <1>2. ASSUME NEW n \in Jobs, NEW r \in Runners, Taken(n, r) PROVE FALSE
    BY <1>2 DEF Taken, Claimable, TypeOK
  <1>3. ASSUME NEW n \in Jobs, NEW x \in {"live", "lapsed"}, Leased(n, x) PROVE FALSE
    BY <1>3 DEF Leased, TypeOK
  <1>4. ASSUME NEW S \in SUBSET Jobs, NEW f \in [Jobs -> {"pending", "done", "failed"}],
               Let(S, f)
        PROVE  FALSE
    BY <1>4 DEF Let
  <1> QED BY <1>1, <1>2, <1>3, <1>4 DEF TableStep

-----------------------------------------------------------------------------
(* The invariant *)

LEMMA InvInit == Init => Inv
  BY TypeInit DEF Init, Inv, Absent, LastIsSpent, AbsentIsBlank, RunningIsAttempt,
     FailedOnlyWhenSpent, OneOpenRecurringJob, IsOpen, OpenStates

LEMMA SpentStays ==
    ASSUME TypeOK, AbsentIsBlank, TableStep, NEW j \in Jobs, Spent(j)
    PROVE  Spent(j)'
  <1>1. jobs[j].attempts \in 0 .. MaxAttempts BY DEF TypeOK, Row
  <1>2. Kept(j) \/ Enters(j) \/ Starts(j) \/ Ends(j) BY RowView
  <1>3. \/ jobs'[j].attempts = jobs[j].attempts
        \/ jobs'[j].attempts = jobs[j].attempts + 1
    BY <1>2 DEF Kept, Enters, Starts, Ends
  <1> QED BY <1>1, <1>3, JobsAssumption DEF Spent

LEMMA LastNext == ASSUME Inv, [Next]_vars PROVE LastIsSpent'
  <1>1. TableStep BY StepOfTable DEF Inv
  <1>2. ASSUME NEW h \in handlers PROVE h.last => Spent(h.run.job)'
    BY <1>1, <1>2, SpentStays DEF Inv, LastIsSpent, TypeOK, Handler, Runs
  <1>3. CASE handlers' \subseteq handlers
    BY <1>2, <1>3 DEF LastIsSpent
  <1>4. ASSUME NEW r \in Runners, NEW ok \in BOOLEAN, Report(r, ok) PROVE LastIsSpent'
    BY <1>2, <1>4 DEF Report, LastIsSpent
  <1>5. ASSUME NEW h \in handlers, FinishRead(h) \/ FailRead(h) \/ Close(h)
        PROVE  LastIsSpent' \/ handlers' \subseteq handlers
    <2>1. h \in Handler BY DEF Inv, TypeOK
    <2>2. CASE FinishRead(h)
      BY <1>2, <2>1, <2>2 DEF FinishRead, Becomes, Answer, LastIsSpent, Handler
    <2>3. CASE FailRead(h)
      <3>1. Spent(h.run.job)' = Spent(h.run.job) BY <2>3 DEF FailRead, Spent
      <3> DEFINE g == [h EXCEPT !.pc = "close", !.last = Spent(h.run.job)]
      <3>2. handlers' = (handlers \ {h}) \cup {g} BY <2>3 DEF FailRead, Becomes
      <3>3. g.run = h.run BY <2>1, Zenon DEF Handler
      <3>4. g.last = Spent(h.run.job) BY <2>1, Zenon DEF Handler
      <3> QED BY <1>2, <3>1, <3>2, <3>3, <3>4 DEF LastIsSpent
    <2>4. CASE Close(h)
      <3>1. CASE handlers' = (handlers \ {h}) \cup {[h EXCEPT !.pc = "record"]}
        BY <1>2, <2>1, <3>1 DEF LastIsSpent, Handler
      <3>2. CASE handlers' = handlers \ {h}
        BY <3>2
      <3> QED BY <2>4, <3>1, <3>2 DEF Close, Becomes, Answer
    <2> QED BY <1>5, <2>2, <2>3, <2>4
  <1>6. CASE \E h \in handlers : Record(h) \/ Rejected(h)
    BY <1>6, <1>3 DEF Record, Rejected, Answer
  <1> QED
    BY <1>3, <1>4, <1>5, <1>6
    DEF Next, RunnerStep, HandlerStep, vars, StartLoop, StartOnce, ScheduleDue, Claim,
        ClaimReplyLost, ClaimRow, LeavesIdle, Renew, ReportLost, GiveUp, RunnerDies,
        DaemonStops, DaemonStarts, LeaseLapses, CadenceElapses

LEMMA InvNext == Inv /\ [Next]_vars => Inv'
  <1> SUFFICES ASSUME Inv, [Next]_vars PROVE Inv'
    OBVIOUS
  <1>1. TypeOK' BY TypeNext DEF Inv
  <1>2. TableStep BY StepOfTable DEF Inv
  <1>3. ASSUME NEW j \in Jobs
        PROVE  /\ Kept(j) \/ Enters(j) \/ Starts(j) \/ Ends(j)
               /\ jobs[j].attempts \in 0 .. MaxAttempts
    BY <1>2, RowView DEF Inv, TypeOK, Row
  <1>4. LastIsSpent' BY LastNext
  <1>5. AbsentIsBlank'
    BY <1>3 DEF Inv, AbsentIsBlank, Kept, Enters, Starts, Ends
  <1>6. RunningIsAttempt'
    BY <1>3 DEF Inv, RunningIsAttempt, Kept, Enters, Starts, Ends
  <1>7. FailedOnlyWhenSpent'
    BY <1>3, JobsAssumption DEF Inv, FailedOnlyWhenSpent, Spent, Kept, Enters, Starts, Ends
  <1>8. OneOpenRecurringJob'
    <2> SUFFICES ASSUME NEW i \in Jobs, NEW j \in Jobs,
                        jobs'[i].recurring, jobs'[i].state \in OpenStates,
                        jobs'[j].recurring, jobs'[j].state \in OpenStates,
                        jobs'[i].kind = jobs'[j].kind
                 PROVE  i = j
      BY DEF OneOpenRecurringJob, IsOpen
    <2>1. ASSUME NEW n \in Jobs, jobs'[n].recurring, jobs'[n].state \in OpenStates
          PROVE  \/ Enters(n)
                 \/ jobs[n].recurring /\ IsOpen(n) /\ jobs[n].kind = jobs'[n].kind
      BY <1>3, <2>1 DEF Kept, Starts, Ends, IsOpen, OpenStates
    <2>2. CASE Enters(i) /\ Enters(j)
      BY <1>2, <2>2, OneEntry DEF Enters, Inv
    <2>3. CASE Enters(i) /\ ~Enters(j)
      BY <2>1, <2>3 DEF Enters, HasOpen
    <2>4. CASE ~Enters(i) /\ Enters(j)
      BY <2>1, <2>4 DEF Enters, HasOpen
    <2>5. CASE ~Enters(i) /\ ~Enters(j)
      BY <2>1, <2>5 DEF Inv, OneOpenRecurringJob
    <2> QED BY <2>2, <2>3, <2>4, <2>5
  <1> QED BY <1>1, <1>4, <1>5, <1>6, <1>7, <1>8 DEF Inv

LEMMA InvHolds == Spec => []Inv
  BY InvInit, InvNext, PTL DEF Spec

(* The schedule never queues a kind twice: two open jobs of one kind that    *)
(* both came from submitIfDue are the same job.                              *)
THEOREM NoDoubleSchedule == Spec => []OneOpenRecurringJob
  <1>1. Inv => OneOpenRecurringJob BY DEF Inv
  <1> QED BY <1>1, InvHolds, PTL

(* fail() and reconcileAbandoned retire a job only after its last attempt.   *)
THEOREM RetiredOnlyWhenSpent == Spec => []FailedOnlyWhenSpent
  <1>1. Inv => FailedOnlyWhenSpent BY DEF Inv
  <1> QED BY <1>1, InvHolds, PTL

-----------------------------------------------------------------------------
(* A settled row is history *)

LEMMA SettledKept ==
    ASSUME TypeOK, TableStep, NEW j \in Jobs, jobs[j].state \in TerminalStates
    PROVE  jobs'[j] = jobs[j]
  <1>1. jobs[j].state \notin OpenStates /\ jobs[j].state # "absent"
    BY DEF TerminalStates, OpenStates
  <1>2. CASE Submitted
    BY <1>1, <1>2 DEF Submitted, Submit, NextId, TypeOK
  <1>3. ASSUME NEW n \in Jobs, NEW r \in Runners, Taken(n, r) PROVE jobs'[j] = jobs[j]
    BY <1>1, <1>3 DEF Taken, Claimable, OpenStates, TypeOK
  <1>4. ASSUME NEW n \in Jobs, NEW x \in {"live", "lapsed"}, Leased(n, x)
        PROVE  jobs'[j] = jobs[j]
    BY <1>1, <1>4 DEF Leased, OpenStates, TypeOK
  <1>5. ASSUME NEW S \in SUBSET Jobs, NEW f \in [Jobs -> {"pending", "done", "failed"}],
               Let(S, f)
        PROVE  jobs'[j] = jobs[j]
    BY <1>1, <1>5 DEF Let, OpenStates
  <1> QED BY <1>2, <1>3, <1>4, <1>5 DEF TableStep

(* A terminal state is never left: no late report, lapsed lease, renewal or  *)
(* restart writes the row of a settled job again.                            *)
THEOREM SettledIsFinal == Spec => SettledForever
  <1>1. Inv /\ [Next]_vars =>
          [\A j \in Jobs : jobs[j].state \in TerminalStates => jobs'[j] = jobs[j]]_vars
    BY StepOfTable, SettledKept DEF Inv
  <1> QED BY <1>1, InvHolds, PTL DEF Spec, SettledForever

-----------------------------------------------------------------------------
(* What the history tells of a job, and what the table says *)

(* Only the report that holds a running row adds to what is told, and its    *)
(* outcome is the row's; every other step passes on what is told already, or *)
(* loses it, and makes no job done.                                          *)
Tale(h) == /\ jobs[h.run.job].state = "running"
           /\ jobs'[h.run.job].state = Outcome(h)
           /\ \A j \in Jobs : j # h.run.job => jobs'[j] = jobs[j]
           /\ Told' = Told \cup {Tells(h)}

NoTale == /\ Told' = Told
          /\ \A j \in Jobs : jobs'[j].state = "done" => jobs[j].state = "done"

LEMMA NotByRunner ==
    ASSUME TypeOK, NEW r \in Runners, RunnerStep(r) PROVE NoTale
  <1>1. ASSUME NEW j \in Jobs, jobs'[j].state = "done", jobs[j].state # "done" PROVE FALSE
    <2>1. CASE UNCHANGED jobs
      BY <1>1, <2>1
    <2>2. ASSUME NEW k \in Kinds, NEW b \in BOOLEAN, Submit(k, b) PROVE FALSE
      BY <1>1, <2>2 DEF Submit, Pending, TypeOK
    <2>3. ASSUME NEW i \in Jobs, ClaimRow(r, i) PROVE FALSE
      <3>1. jobs' = [jobs EXCEPT ![i] = Claimed(i, r)] /\ jobs[i] \in Row
        BY <2>3 DEF ClaimRow, TypeOK
      <3>2. Claimed(i, r).state = "running"
        BY <3>1 DEF Claimed, Row
      <3> QED BY <1>1, <3>1, <3>2 DEF TypeOK
    <2>4. CASE Renew(r)
      BY <1>1, <2>4 DEF Renew, TypeOK, Row
    <2> QED
      BY <2>1, <2>2, <2>3, <2>4
      DEF RunnerStep, StartLoop, StartOnce, ScheduleDue, Claim, ClaimReplyLost, LeavesIdle,
          Report, ReportLost, GiveUp, RunnerDies
  <1>2. \/ handlers' = handlers
        \/ \E g \in [pc : {"read"}, runner : Runners, run : Runs, ok : BOOLEAN,
                     last : BOOLEAN] : handlers' = handlers \cup {g}
    <2>1. ASSUME NEW ok \in BOOLEAN, Report(r, ok)
          PROVE  \E g \in [pc : {"read"}, runner : Runners, run : Runs, ok : BOOLEAN,
                         last : BOOLEAN] : handlers' = handlers \cup {g}
      <3>1. runner[r].run \in Runs BY <2>1 DEF Report, TypeOK, BusyHasRun
      <3>2. PICK g : g = [runner |-> r, run |-> runner[r].run, ok |-> ok,
                          pc |-> "read", last |-> FALSE]
        OBVIOUS
      <3>3. g \in [pc : {"read"}, runner : Runners, run : Runs, ok : BOOLEAN, last : BOOLEAN]
        BY <3>1, <3>2
      <3>4. handlers' = handlers \cup {g}
        BY <2>1, <3>2, Zenon DEF Report
      <3> QED BY <3>3, <3>4
    <2> QED
      BY <2>1 DEF RunnerStep, StartLoop, StartOnce, ScheduleDue, Claim, ClaimReplyLost,
        ClaimRow, LeavesIdle, Renew, ReportLost, GiveUp, RunnerDies
  <1>3. {h \in handlers' : h.pc = "record"} = {h \in handlers : h.pc = "record"}
    BY <1>2
  <1>4. records' = records /\ lost' = lost
    BY DEF RunnerStep, StartLoop, StartOnce, ScheduleDue, Claim, ClaimReplyLost,
        ClaimRow, LeavesIdle, Renew, Report, ReportLost, GiveUp, RunnerDies
  <1> QED BY <1>1, <1>3, <1>4 DEF NoTale, Told, Tells

LEMMA ByReport ==
    ASSUME TypeOK, NEW h \in handlers, HandlerStep(h) PROVE NoTale \/ Tale(h)
  <1>1. h \in Handler /\ h.run.job \in Jobs
    BY DEF TypeOK, Handler, Runs
  <1> DEFINE Hand(S) == {g \in S : g.pc = "record"}
  <1>2. CASE FinishRead(h) \/ FailRead(h)
    <2>1. h.pc # "record"
      BY <1>2 DEF FinishRead, FailRead
    <2>2. \/ handlers' = handlers \ {h}
          \/ \E x \in {"close", "attempts"} :
               handlers' = (handlers \ {h}) \cup {[h EXCEPT !.pc = x]}
          \/ handlers' = (handlers \ {h}) \cup {[h EXCEPT !.pc = "close", !.last = Spent(h.run.job)]}
      BY <1>2 DEF FinishRead, FailRead, Answer, Becomes
    <2>3. [h EXCEPT !.pc = "close", !.last = Spent(h.run.job)].pc = "close"
      BY <1>1, Zenon DEF Handler
    <2>4. \A x \in {"close", "attempts"} : [h EXCEPT !.pc = x].pc = x
      BY <1>1 DEF Handler
    <2>5. Hand(handlers') = Hand(handlers)
      BY <2>1, <2>2, <2>3, <2>4
    <2>6. jobs' = jobs /\ records' = records /\ lost' = lost
      BY <1>2 DEF FinishRead, FailRead
    <2> QED BY <2>5, <2>6 DEF NoTale, Told, Tells
  <1>3. CASE Close(h) /\ Holds(h.run.job, h.runner)
    <2>1. PICK g : g = [h EXCEPT !.pc = "record"]
      OBVIOUS
    <2>2. g.run = h.run /\ g.ok = h.ok /\ g.pc = "record"
      BY <1>1, <2>1 DEF Handler
    <2>3. handlers' = (handlers \ {h}) \cup {g} /\ h.pc # "record"
      BY <1>3, <2>1 DEF Close, Becomes
    <2>4. Hand(handlers') = Hand(handlers) \cup {g}
      BY <2>2, <2>3
    <2>5. Told' = Told \cup {Tells(h)}
      BY <1>3, <2>2, <2>4 DEF Told, Tells, Close
    <2>6. jobs' = [jobs EXCEPT ![h.run.job] = Released(h.run.job, Outcome(h))]
      BY <1>3, Zenon DEF Close
    <2>7. Released(h.run.job, Outcome(h)).state = Outcome(h)
      BY <1>1 DEF Released, TypeOK, Row
    <2>8. jobs[h.run.job].state = "running"
      BY <1>3 DEF Holds
    <2>9. /\ jobs'[h.run.job].state = Outcome(h)
          /\ \A j \in Jobs : j # h.run.job => jobs'[j] = jobs[j]
      BY <1>1, <2>6, <2>7 DEF TypeOK
    <2> QED BY <2>5, <2>8, <2>9 DEF Tale
  <1>4. CASE Close(h) /\ ~Holds(h.run.job, h.runner)
    <2>1. Hand(handlers') = Hand(handlers)
      BY <1>4 DEF Close, Answer
    <2> QED BY <1>4, <2>1 DEF Close, NoTale, Told, Tells
  <1>5. CASE Record(h) \/ Rejected(h)
    <2>1. jobs' = jobs /\ handlers' = handlers \ {h}
      BY <1>5 DEF Record, Rejected, Answer
    <2>2. CASE h.pc = "record"
      <3>1. Hand(handlers) = Hand(handlers') \cup {h}
        BY <2>1, <2>2
      <3>2. records' \cup lost' = records \cup lost \cup {Tells(h)}
        BY <1>5, <2>2 DEF Record, Rejected
      <3>3. {Tells(g) : g \in Hand(handlers)} = {Tells(g) : g \in Hand(handlers')} \cup {Tells(h)}
        BY <3>1
      <3>4. Told' = records' \cup lost' \cup {Tells(g) : g \in Hand(handlers')}
        BY DEF Told, Tells
      <3> QED BY <2>1, <3>2, <3>3, <3>4 DEF NoTale, Told
    <2>3. CASE h.pc # "record"
      <3>1. Hand(handlers) = Hand(handlers')
        BY <2>1, <2>3
      <3>2. records' = records /\ lost' = lost
        BY <1>5, <2>3 DEF Record, Rejected
      <3> QED BY <2>1, <3>1, <3>2 DEF NoTale, Told, Tells
    <2> QED BY <2>2, <2>3
  <1> QED BY <1>2, <1>3, <1>4, <1>5 DEF HandlerStep

LEMMA TaleOfStep ==
    ASSUME TypeOK, [Next]_vars PROVE NoTale \/ \E h \in handlers : Tale(h)
  <1>1. CASE DaemonStops
    <2>1. handlers' = {} /\ records' = records /\ jobs' = jobs
      BY <1>1 DEF DaemonStops
    <2>2. lost' = lost \cup {Tells(h) : h \in {g \in handlers : g.pc = "record"}}
      BY <1>1 DEF DaemonStops
    <2> QED BY <2>1, <2>2 DEF NoTale, Told, Tells
  <1>2. CASE DaemonStarts
    <2>1. ASSUME NEW j \in Jobs, jobs'[j].state = "done" PROVE jobs[j].state = "done"
      <3>1. jobs'[j] = jobs[j] \/ \E s \in {"failed", "pending"} : jobs'[j] = Released(j, s)
        BY <1>2 DEF DaemonStarts
      <3>2. jobs[j] \in Row
        BY DEF TypeOK
      <3>3. \A s : Released(j, s).state = s
        BY <3>2 DEF Released, Row
      <3> QED BY <2>1, <3>1, <3>3
    <2> QED BY <1>2, <2>1 DEF DaemonStarts, NoTale, Told, Tells
  <1>3. ASSUME NEW i \in Jobs, LeaseLapses(i) PROVE NoTale
    <2>1. \A j \in Jobs : jobs'[j].state = jobs[j].state
      BY <1>3 DEF LeaseLapses, TypeOK, Row
    <2> QED BY <1>3, <2>1 DEF LeaseLapses, NoTale, Told, Tells
  <1>4. CASE UNCHANGED vars \/ \E k \in Kinds : CadenceElapses(k)
    BY <1>4 DEF CadenceElapses, vars, NoTale, Told, Tells
  <1> QED BY <1>1, <1>2, <1>3, <1>4, NotByRunner, ByReport, Zenon DEF Next

(* However reports are late, doubled, rejected or cut off, a job is done     *)
(* exactly if one report closed it as completed, and no other is ever told   *)
(* as a success.                                                             *)
THEOREM SuccessIsTold == Spec => []SuccessIsToldOnce
  <1>1. Init => SuccessIsToldOnce
    BY DEF Init, SuccessIsToldOnce, Told, Absent
  <1>2. Inv /\ SuccessIsToldOnce /\ [Next]_vars => SuccessIsToldOnce'
    <2> SUFFICES ASSUME Inv, SuccessIsToldOnce, [Next]_vars PROVE SuccessIsToldOnce'
      OBVIOUS
    <2>1. TypeOK /\ TableStep /\ Told \subseteq Telling
      BY StepOfTable, TellsType DEF Inv, Told, TypeOK
    <2>2. \A j \in Jobs : jobs[j].state = "done" => jobs'[j].state = "done"
      BY <2>1, SettledKept DEF TerminalStates
    <2>3. CASE NoTale
      BY <2>1, <2>2, <2>3 DEF NoTale, SuccessIsToldOnce, Telling, Runs
    <2>4. ASSUME NEW h \in handlers, Tale(h) PROVE SuccessIsToldOnce'
      <3>1. h.run.job \in Jobs /\ h.ok \in BOOLEAN
        BY <2>1 DEF TypeOK, Handler, Runs
      <3>2. Tells(h).run = h.run /\ Tells(h).ok = h.ok
        BY DEF Tells
      <3>3. h.ok <=> jobs'[h.run.job].state = "done"
        BY <2>4, <3>1 DEF Tale, Outcome
      <3>4. ASSUME NEW x \in Told, x.ok PROVE x.run.job # h.run.job
        BY <2>4, <3>4 DEF Tale, SuccessIsToldOnce
      <3>5. \A x \in Told' : x.ok => jobs'[x.run.job].state = "done"
        BY <2>1, <2>2, <2>4, <3>2, <3>3 DEF Tale, SuccessIsToldOnce, Telling, Runs
      <3>6. \A x, y \in Told' : x.ok /\ y.ok /\ x.run.job = y.run.job => x = y
        BY <2>4, <3>2, <3>4 DEF Tale, SuccessIsToldOnce
      <3>7. \A j \in Jobs : jobs'[j].state = "done" =>
                            \E x \in Told' : x.ok /\ x.run.job = j
        BY <2>4, <3>2, <3>3 DEF Tale, SuccessIsToldOnce
      <3> QED BY <3>5, <3>6, <3>7 DEF SuccessIsToldOnce
    <2> QED BY <2>1, <2>3, <2>4, TaleOfStep
  <1> QED BY <1>1, <1>2, InvHolds, PTL DEF Spec

-----------------------------------------------------------------------------
(* The queue implements the ledger *)

LEMMA LedgerInit == Init => Ledger!LInit
  BY DEF Init, Ledger!LInit, Absent, Phase

LEMMA LedgerStep == Inv /\ [Next]_vars => [Ledger!LNext]_(Ledger!lvars)
  <1> SUFFICES ASSUME Inv, [Next]_vars PROVE [Ledger!LNext]_(Ledger!lvars)
    OBVIOUS
  <1>0. TypeOK /\ TypeOK' /\ TableStep BY StepOfTable, TypeNext DEF Inv
  <1> DEFINE phase == [j \in Jobs |-> Phase(j)]
             tries == [j \in Jobs |-> jobs[j].attempts]
  <1>1. CASE jobs' = jobs
    BY <1>1 DEF Ledger!lvars, Phase, IsOpen
  <1>2. CASE Submitted
    <2>1. PICK k \in Kinds, b \in BOOLEAN, i \in Jobs :
            /\ jobs[i].state = "absent"
            /\ jobs' = [jobs EXCEPT ![i] = Pending(k, b)]
      BY <1>2 DEF Submitted, Submit, NextId
    <2>2. jobs'[i].state = "pending" /\ jobs'[i].attempts = jobs[i].attempts
      BY <2>1, <1>0 DEF Pending, TypeOK, Inv, AbsentIsBlank
    <2>3. \A j \in Jobs : j # i => jobs'[j] = jobs[j]
      BY <2>1, <1>0 DEF TypeOK
    <2>4. \A j \in Jobs : jobs'[j].attempts = jobs[j].attempts
      BY <2>2, <2>3
    <2>5. \A j \in Jobs : Phase(j)' = IF j = i THEN "open" ELSE Phase(j)
      BY <2>2, <2>3 DEF Phase, IsOpen, OpenStates
    <2>6. Phase(i) = "absent" BY <2>1 DEF Phase
    <2>7. Ledger!LSubmit(i)
      BY <2>4, <2>5, <2>6 DEF Ledger!LSubmit
    <2> QED BY <2>7 DEF Ledger!LNext
  <1>3. ASSUME NEW i \in Jobs, NEW r \in Runners, Taken(i, r)
        PROVE  Ledger!LNext
    <2>1. jobs'[i].state = "running" /\ jobs'[i].attempts = jobs[i].attempts + 1
      BY <1>0, <1>3 DEF Taken, Claimed, TypeOK, Row
    <2>2. jobs[i].state \in OpenStates /\ jobs[i].attempts < MaxAttempts
      BY <1>3 DEF Taken, Claimable, OpenStates
    <2>3. \A j \in Jobs : j # i => jobs'[j] = jobs[j]
      BY <1>0, <1>3 DEF Taken, TypeOK
    <2>4. Ledger!LAttempt(i)
      BY <2>1, <2>2, <2>3 DEF Ledger!LAttempt, Phase, IsOpen, OpenStates
    <2> QED BY <2>4 DEF Ledger!LNext
  <1>4. ASSUME NEW i \in Jobs, NEW x \in {"live", "lapsed"}, Leased(i, x)
        PROVE  UNCHANGED Ledger!lvars
    <2>1. \A j \in Jobs : jobs'[j].state = jobs[j].state /\ jobs'[j].attempts = jobs[j].attempts
      BY <1>0, <1>4 DEF Leased, TypeOK, Row
    <2> QED BY <2>1 DEF Ledger!lvars, Phase, IsOpen
  <1>5. ASSUME NEW S \in SUBSET Jobs, NEW f \in [Jobs -> {"pending", "done", "failed"}],
               Let(S, f)
        PROVE  Ledger!LNext
    <2> DEFINE T == {j \in S : f[j] # "pending"}
    <2>1. \A j \in S : /\ jobs[j].state = "running" /\ jobs[j].attempts > 0
                       /\ jobs'[j].state = f[j] /\ jobs'[j].attempts = jobs[j].attempts
      <3> SUFFICES ASSUME NEW j \in S
                   PROVE  /\ jobs[j].state = "running" /\ jobs[j].attempts > 0
                          /\ jobs'[j].state = f[j] /\ jobs'[j].attempts = jobs[j].attempts
        OBVIOUS
      <3>1. j \in Jobs /\ jobs[j] \in Row BY <1>0 DEF TypeOK
      <3>2. jobs[j].state = "running" /\ jobs'[j] = Released(j, f[j])
        BY <1>5, <3>1 DEF Let
      <3>3. jobs[j].attempts > 0 BY <3>1, <3>2 DEF Inv, RunningIsAttempt
      <3> QED BY <3>1, <3>2, <3>3 DEF Released, Row
    <2>2. \A j \in Jobs \ S : jobs'[j] = jobs[j]
      BY <1>5 DEF Let
    <2>3. Ledger!LSettle(T)
      BY <2>1, <2>2, <1>5 DEF Let, Ledger!LSettle, Phase, IsOpen, OpenStates
    <2> QED BY <2>3 DEF Ledger!LNext
  <1> QED BY <1>0, <1>1, <1>2, <1>3, <1>4, <1>5 DEF TableStep

(* Every behaviour of runners, handlers and daemon restarts is, for whoever  *)
(* submitted the jobs, a behaviour of JobLedger.                             *)
THEOREM QueueImplementsLedger == Spec => KeepsLedger
  BY LedgerInit, LedgerStep, InvHolds, PTL DEF Spec, KeepsLedger, Ledger!LSpec
=============================================================================
