---------------------------- MODULE Consolidation ----------------------------
(* What the consolidation sweep files for review and how it is settled: the  *)
(* candidates (consolidation_candidates), the log of sweeps                  *)
(* (consolidation_runs), the lease, and the calls of reviewers               *)
(* (LocalApplyCandidate, LocalRetryCandidate).                               *)
(*                                                                           *)
(* A step is one transaction, or the reads and the transaction that follows  *)
(* them where nothing in between is looked at again.  A report of a stage    *)
(* and the list the stage then reads are one step: neither touches what the  *)
(* other does.  What a stage listed is acted on later, one item at a time,   *)
(* and the model may work for minutes in between.                            *)
(*                                                                           *)
(* Edges are the business of MemoryGraph: a note here is live or retired,    *)
(* and a fact is counted by the episodes it was distilled from.              *)
EXTENDS Naturals, FiniteSets

CONSTANTS
    Notes,       \* semantic notes
    Episodes,    \* episodic notes
    Clusters,    \* the sets of old, similar episodes there may be
    Pairs,       \* the pairs of notes found alike or linked
    Workers,     \* daemons, each with a worker
    Postures,    \* what a worker may be set to when it starts: "suggest", or
                 \*   "auto" to apply too
    Runs,        \* ids of sweeps: taken again when nobody holds a closed one
    MaxTrouble,  \* bound: stops, crashes, lost leases, failures, yields,
                 \*   retries, retirements and restorations together
    None, Gone

(* A candidate is known by its kind and its members in any order (its        *)
(* member_hash).                                                             *)
Candidates == ({"distill"} \X Clusters) \cup ({"merge", "supersede"} \X Pairs)

Kind(c) == c[1]
Members(c) == c[2]

Written == Notes \cup Episodes

Settled == {"applied", "dismissed"}
Closed == {"idle", "failed", "interrupted"}
Drafts == {"none", "apply", "reject"}

ASSUME ConsolidationAssumption ==
    /\ Notes \cap Episodes = {}
    /\ Clusters \subseteq SUBSET Episodes
    /\ Pairs \subseteq SUBSET Notes
    /\ \A p \in Pairs : \E a, b \in Notes : a # b /\ p = {a, b}
    /\ Postures \in [Workers -> SUBSET {"suggest", "auto"}]
    /\ Runs \subseteq Nat
    /\ MaxTrouble \in Nat
    /\ None \notin Workers \cup Notes \cup Runs \cup Candidates
    /\ Gone \notin Workers \cup {None}

VARIABLES
    live,      \* the notes that are not invalidated
    spent,     \* the episodes with a consolidated_at
    facts,     \* how many facts were distilled from an episode
    cand,      \* the candidates: status, proposal and canonical_id
    runs,      \* the rows of consolidation_runs: no row, open or how it ended
    lease,
    worker,
    retrying,  \* the candidates a retry has cleared and not yet reopened
    trouble

notes == <<live, spent, facts>>
vars == <<notes, cand, runs, lease, worker, retrying, trouble>>

NoRow == [status |-> "absent", draft |-> "none", winner |-> None]

(* run: the row it reports to; abandoned: the row its stop is to close;      *)
(* todo: what the stage has listed; at, draft: the item it is at.            *)
Off == [pc |-> "off", posture |-> "suggest", stage |-> "none", run |-> None, todo |-> {},
        at |-> None, draft |-> "none", stop |-> "no", abandoned |-> None]

Init ==
    /\ live = Written
    /\ spent = {}
    /\ facts = [e \in Episodes |-> 0]
    /\ cand = [c \in Candidates |-> NoRow]
    /\ runs = [r \in Runs |-> "none"]
    /\ lease = [owner |-> None, lapsed |-> FALSE]
    /\ worker = [w \in Workers |-> Off]
    /\ retrying = {}
    /\ trouble = 0

Troubles == trouble < MaxTrouble /\ trouble' = trouble + 1

-----------------------------------------------------------------------------
(* The tables *)

Pending(c) == cand[c].status = "pending"

(* slip: a source another candidate has used is distilled again *)
LiveSources(c) == Members(c) \subseteq live

(* applyDistillation wants every source live and not distilled yet, any      *)
(* other kind every member live.                                             *)
Stands(c) ==
    /\ Members(c) \subseteq live
    /\ Kind(c) = "distill" => Members(c) \cap spent = {}

Loser(c) == Members(c) \ {cand[c].winner}

(* slip: whoever comes last has the last word *)
ResolvedAnyway(c, status) == cand' = [cand EXCEPT ![c].status = status]

(* UPDATE ... WHERE id = @id AND status = 'pending' *)
Resolved(c, status) ==
    cand' = IF Pending(c) THEN [cand EXCEPT ![c].status = status] ELSE cand

(* The effect of a candidate: a fact from the sources, or the loser retired  *)
(* into the winner; a merge may instead record the duplicate and keep both.  *)
Effect(c, collapse) ==
    IF Kind(c) = "distill"
    THEN /\ spent' = spent \cup Members(c)
         /\ facts' = [e \in Episodes |-> facts[e] + IF e \in Members(c) THEN 1 ELSE 0]
         /\ UNCHANGED live
    ELSE /\ live' = IF collapse THEN live \ Loser(c) ELSE live
         /\ UNCHANGED <<spent, facts>>

(* resolveCandidateAtomically: one transaction looks at the candidate again, *)
(* carries it out and closes it.                                             *)
Carried(c, collapse) ==
    \/ ~Pending(c) /\ UNCHANGED <<notes, cand>>
    \/ Pending(c) /\ Stands(c) /\ Effect(c, collapse) /\ Resolved(c, "applied")
    \/ Pending(c) /\ ~Stands(c) /\ Resolved(c, "dismissed") /\ UNCHANGED notes

(* Whether a merge collapses depends on how well each note is looked after.  *)
MayKeepBoth(c) == IF Kind(c) = "merge" THEN BOOLEAN ELSE {TRUE}

(* reportTick: ON CONFLICT ... WHERE ended_at IS NULL *)
Reported(r, state) ==
    runs' = IF runs[r] \in Closed THEN runs ELSE [runs EXCEPT ![r] = state]

(* slip: stop() does not close the gate *)
MayHoldStill(w) == lease.owner \in {None, w} \/ lease.lapsed

(* holdLease: not once the worker is stopping, and then only a lease that is *)
(* free, lapsed or its own.                                                  *)
MayHold(w) ==
    /\ worker[w].stop = "no"
    /\ lease.owner \in {None, w} \/ lease.lapsed

Holds(w) == MayHold(w) /\ lease' = [owner |-> w, lapsed |-> FALSE]

-----------------------------------------------------------------------------
(* The worker *)

(* The stages that file or settle candidates, as the tick orders them. *)
After(stage) ==
    CASE stage = "start" -> "distill"
      [] stage = "distill" -> "merge"
      [] stage = "merge" -> "retired"
      [] stage = "retired" -> "backfill"
      [] stage = "backfill" -> "drain"
      [] stage = "drain" -> "settle"
      [] OTHER -> "relate"

StageNames == {"none", "start", "distill", "merge", "retired", "backfill", "drain",
               "settle", "relate"}

(* shouldYield is asked between stages, but not after these. *)
Onward(stage) == stage \in {"backfill", "settle"}

Becomes(w, x) == worker' = [worker EXCEPT ![w] = x]

Goes(w, pc, todo, at, draft) ==
    Becomes(w, [worker[w] EXCEPT !.pc = pc, !.todo = todo, !.at = at, !.draft = draft])

Busy(w) == worker[w].pc \notin {"off", "idle"}

(* slip: what a killed daemon left open stays open *)
RunsLeftOpen == runs

(* closeAbandonedRuns *)
RunsAtStart == [r \in Runs |-> IF runs[r] = "open" THEN "interrupted" ELSE runs[r]]

(* A start takes every open row for one whose process is gone.               *)
Start(w, posture) ==
    /\ worker[w].pc = "off" /\ posture \in Postures[w]
    /\ runs' = RunsAtStart
    /\ Becomes(w, [worker[w] EXCEPT !.pc = "idle", !.posture = posture])
    /\ UNCHANGED <<notes, cand, lease, retrying, trouble>>

InUse(r) == \E w \in Workers : r \in {worker[w].run, worker[w].abandoned}

FreeRuns == {r \in Runs : runs[r] # "open" /\ ~InUse(r)}

TickStarts(w) ==
    /\ worker[w].pc = "idle"
    /\ Holds(w)
    /\ \E r \in FreeRuns :
          /\ \A q \in FreeRuns : r <= q
          /\ runs' = [runs EXCEPT ![r] = "none"]
          /\ Becomes(w, [worker[w] EXCEPT !.pc = "each", !.run = r, !.stage = "start"])
    /\ UNCHANGED <<notes, cand, retrying, trouble>>

(* slip: the backfill is for distills *)
UnjudgedDistills == {c \in Candidates : /\ Kind(c) = "distill" /\ Pending(c)
                                         /\ cand[c].draft = "none"}

(* pendingNeedingProposal *)
Unjudged == {c \in Candidates : /\ Kind(c) # "supersede" /\ Pending(c)
                                 /\ cand[c].draft = "none"}

(* The pairs and clusters that can be found, the candidates that can be read *)
Listed(w, stage) ==
    CASE stage = "distill" ->
            {<<<<"distill", m>>, "none">> : m \in {k \in Clusters : k \subseteq live \ spent}}
      [] stage = "merge" ->
            {<<<<"merge", m>>, "none">> : m \in {p \in Pairs : p \subseteq live}}
      [] stage = "backfill" ->
            {<<c, "none">> : c \in Unjudged}
      [] stage = "drain" /\ worker[w].posture = "auto" ->
            {<<c, cand[c].draft>> : c \in {d \in Candidates : Kind(d) # "supersede" /\ Pending(d)}}
      [] stage = "settle" /\ worker[w].posture = "auto" ->
            {<<c, "none">> : c \in {d \in Candidates : Kind(d) = "supersede" /\ Pending(d)}}
      [] stage = "relate" ->
            {<<<<k, m>>, "none">> : k \in {"merge", "supersede"}, m \in {p \in Pairs : p \subseteq live}}
      [] OTHER -> {}

Done(w) == worker[w].pc = "each" /\ worker[w].todo = {}

Enters(w, stage) ==
    /\ Reported(worker[w].run, "open")
    /\ Becomes(w, [worker[w] EXCEPT !.stage = stage, !.todo = Listed(w, stage)])
    /\ UNCHANGED <<notes, lease, retrying, trouble>>

(* A stage reports itself and lists its work. *)
Enter(w) ==
    /\ Done(w) /\ worker[w].stage \notin {"merge", "relate"}
    /\ Enters(w, After(worker[w].stage))
    /\ UNCHANGED cand

(* slip: only a source already distilled counts *)
RetiredWhenSpent(c) == Kind(c) = "distill" /\ Members(c) \cap spent # {}

Retired(c) ==
    ~(Members(c) \subseteq live) \/ (Kind(c) = "distill" /\ Members(c) \cap spent # {})

(* dismissRetiredCandidates, one statement for all; the lease is not asked.  *)
DismissRetired(w) ==
    /\ Done(w) /\ worker[w].stage = "merge"
    /\ Enters(w, "retired")
    /\ cand' = [c \in Candidates |->
                  IF Pending(c) /\ Retired(c)
                  THEN [cand[c] EXCEPT !.status = "dismissed"] ELSE cand[c]]

Finishes(w) == Becomes(w, [worker[w] EXCEPT !.pc = "finish", !.stage = "none"])

LastEnds(w) ==
    /\ Done(w) /\ worker[w].stage = "relate"
    /\ Finishes(w)
    /\ UNCHANGED <<notes, cand, runs, lease, retrying, trouble>>

Yield(w) ==
    /\ Done(w) /\ ~Onward(worker[w].stage)
    /\ Troubles
    /\ Finishes(w)
    /\ UNCHANGED <<notes, cand, runs, lease, retrying>>

(* A stage that throws ends the tick. *)
StepFails(w) ==
    /\ Busy(w) /\ worker[w].pc \notin {"finish", "failed"}
    /\ Troubles
    /\ Becomes(w, [worker[w] EXCEPT !.pc = "failed", !.stage = "none", !.todo = {},
                                    !.at = None, !.draft = "none"])
    /\ UNCHANGED <<notes, cand, runs, lease, retrying>>

TickEnds(w) ==
    /\ worker[w].pc \in {"finish", "failed"}
    /\ Reported(worker[w].run, IF worker[w].pc = "finish" THEN "idle" ELSE "failed")
    /\ Becomes(w, [worker[w] EXCEPT !.pc = "idle", !.run = None])
    /\ UNCHANGED <<notes, cand, lease, retrying, trouble>>

Filing(w) == worker[w].stage \in {"distill", "merge"}

Rest(w, x) == worker[w].todo \ {x}

(* candidateExists and duplicatePairFor are asked before the lease. *)
Skip(w, x) ==
    /\ worker[w].pc = "each" /\ Filing(w) /\ x \in worker[w].todo
    /\ cand[x[1]].status # "absent"
    /\ Goes(w, "each", Rest(w, x), None, "none")
    /\ UNCHANGED <<notes, cand, runs, lease, retrying, trouble>>

Unskipped(w, x) ==
    /\ worker[w].pc = "each" /\ worker[w].stage # "settle" /\ x \in worker[w].todo
    /\ Filing(w) => cand[x[1]].status = "absent"

(* Losing the lease ends the stage; the tick goes on to the next. *)
LeaseLost(w) ==
    /\ \E x \in worker[w].todo : Unskipped(w, x)
    /\ ~MayHold(w)
    /\ Goes(w, "each", {}, None, "none")
    /\ UNCHANGED <<notes, cand, runs, lease, retrying, trouble>>

Take(w, x) ==
    /\ Unskipped(w, x)
    /\ Holds(w)
    /\ IF worker[w].stage # "drain" THEN Goes(w, "generate", Rest(w, x), x[1], "none")
       ELSE IF x[2] = "apply" THEN Goes(w, "apply", Rest(w, x), x[1], "apply")
       ELSE Goes(w, "each", Rest(w, x), None, "none")
    /\ UNCHANGED <<notes, cand, runs, retrying, trouble>>

Back(w) == Goes(w, "each", worker[w].todo, None, "none")

Hands(w, pc, draft) == Goes(w, pc, worker[w].todo, worker[w].at, draft)

(* The model drafts a text or says the members are better left apart. *)
Generate(w, draft) ==
    /\ worker[w].pc = "generate" /\ worker[w].stage # "relate"
    /\ draft \in {"apply", "reject"}
    /\ Hands(w, "write", draft)
    /\ UNCHANGED <<notes, cand, runs, lease, retrying, trouble>>

GenerateFails(w) ==
    /\ worker[w].pc = "generate" /\ worker[w].stage # "relate"
    /\ Troubles
    /\ IF worker[w].stage = "backfill" THEN Back(w) ELSE Hands(w, "write", "none")
    /\ UNCHANGED <<notes, cand, runs, lease, retrying>>

(* The model judges a linked pair: no verdict that concerns us, a duplicate, *)
(* or that one replaces the other.  With the posture `auto` a replacement is *)
(* carried out at once, which is an invalidation like an agent's.            *)
Judge(w) ==
    /\ worker[w].pc = "generate" /\ worker[w].stage = "relate"
    /\ \/ Back(w)
       \/ Kind(worker[w].at) = "merge" /\ Hands(w, "write", "none")
       \/ /\ Kind(worker[w].at) = "supersede" /\ worker[w].posture = "suggest"
          /\ Hands(w, "write", "apply")
    /\ UNCHANGED <<notes, cand, runs, lease, retrying, trouble>>

Winners(c) == IF Kind(c) = "distill" THEN {None} ELSE Members(c)

(* insertCandidate: ON CONFLICT (member_hash) DO NOTHING. *)
Insert(w) ==
    LET c == worker[w].at
        new == cand[c].status = "absent"
    IN  /\ worker[w].pc = "write" /\ worker[w].stage # "backfill"
        /\ \E n \in Winners(c) :
              cand' = IF new
                      THEN [cand EXCEPT ![c] = [status |-> "pending", winner |-> n,
                                                draft |-> worker[w].draft]]
                      ELSE cand
        /\ IF new /\ Filing(w) /\ worker[w].draft = "reject" THEN Hands(w, "dismiss", "reject")
           ELSE IF new /\ Filing(w) /\ worker[w].draft = "apply" /\ worker[w].posture = "auto"
           THEN Hands(w, "apply", "apply")
           ELSE Back(w)
        /\ UNCHANGED <<notes, runs, lease, retrying, trouble>>

(* setCandidateProposal, if the candidate is still pending. *)
Propose(w) ==
    /\ worker[w].pc = "write" /\ worker[w].stage = "backfill"
    /\ cand' = IF Pending(worker[w].at)
               THEN [cand EXCEPT ![worker[w].at].draft = worker[w].draft] ELSE cand
    /\ IF worker[w].draft = "reject" THEN Hands(w, "dismiss", "reject") ELSE Back(w)
    /\ UNCHANGED <<notes, runs, lease, retrying, trouble>>

(* A rejected candidate is dismissed in a transaction of its own. *)
Dismiss(w) ==
    /\ worker[w].pc = "dismiss"
    /\ Resolved(worker[w].at, "dismissed")
    /\ Back(w)
    /\ UNCHANGED <<notes, runs, lease, retrying, trouble>>

Apply(w) ==
    /\ worker[w].pc = "apply"
    /\ \E collapse \in MayKeepBoth(worker[w].at) : Carried(worker[w].at, collapse)
    /\ Back(w)
    /\ UNCHANGED <<runs, lease, retrying, trouble>>

(* settleSupersedes: both notes are looked at, the older retired in one      *)
(* transaction and the candidate closed in another; the lease is not asked.  *)
(* A note that is looked after is kept.                                      *)
Check(w, x) ==
    /\ worker[w].pc = "each" /\ worker[w].stage = "settle" /\ x \in worker[w].todo
    /\ \/ Members(x[1]) \subseteq live /\ Goes(w, "retire", Rest(w, x), x[1], "apply")
       \/ Goes(w, "close", Rest(w, x), x[1], "reject")
    /\ UNCHANGED <<notes, cand, runs, lease, retrying, trouble>>

RetireOlder(w) ==
    /\ worker[w].pc = "retire"
    /\ live' = live \ Loser(worker[w].at)
    /\ Hands(w, "close", "apply")
    /\ UNCHANGED <<spent, facts, cand, runs, lease, retrying, trouble>>

Close(w) ==
    /\ worker[w].pc = "close"
    /\ Resolved(worker[w].at, IF worker[w].draft = "apply" THEN "applied" ELSE "dismissed")
    /\ Back(w)
    /\ UNCHANGED <<notes, runs, lease, retrying, trouble>>

-----------------------------------------------------------------------------
(* Stops and crashes *)

(* stop() shuts the gate and forgets the run, closes it, and gives the lease *)
(* back, while a tick in flight goes on until the process exits.             *)
Stop(w) ==
    /\ worker[w].pc # "off" /\ worker[w].stop = "no"
    /\ Troubles
    /\ Becomes(w, [worker[w] EXCEPT !.stop = "close", !.abandoned = worker[w].run])
    /\ UNCHANGED <<notes, cand, runs, lease, retrying>>

StopCloses(w) ==
    /\ worker[w].stop = "close"
    /\ runs' = [r \in Runs |-> IF r = worker[w].abandoned /\ runs[r] = "open"
                               THEN "interrupted" ELSE runs[r]]
    /\ Becomes(w, [worker[w] EXCEPT !.stop = "release", !.abandoned = None])
    /\ UNCHANGED <<notes, cand, lease, retrying, trouble>>

StopReleases(w) ==
    /\ worker[w].stop = "release"
    /\ lease' = IF lease.owner = w THEN [owner |-> None, lapsed |-> FALSE] ELSE lease
    /\ Becomes(w, [worker[w] EXCEPT !.stop = "exit"])
    /\ UNCHANGED <<notes, cand, runs, retrying, trouble>>

Leaves(w) ==
    /\ Becomes(w, Off)
    /\ lease' = IF lease.owner = w THEN [lease EXCEPT !.owner = Gone] ELSE lease
    /\ UNCHANGED <<notes, cand, runs, retrying>>

Exit(w) == worker[w].stop = "exit" /\ Leaves(w) /\ UNCHANGED trouble

(* The next instance has an id of its own: the lease has to lapse. *)
Crash(w) == worker[w].pc # "off" /\ Troubles /\ Leaves(w)

LeaseLapses ==
    /\ lease.owner # None /\ ~lease.lapsed
    /\ IF lease.owner = Gone THEN UNCHANGED trouble ELSE Troubles
    /\ lease' = [lease EXCEPT !.lapsed = TRUE]
    /\ UNCHANGED <<notes, cand, runs, worker, retrying>>

-----------------------------------------------------------------------------
(* Reviewers and agents *)

(* LocalApplyCandidate: what it reads first it reads again in the            *)
(* transaction.  A reviewer may write the text that a distill lacks.         *)
Review(c, collapse) ==
    /\ Pending(c)
    /\ Carried(c, collapse)
    /\ UNCHANGED <<runs, lease, worker, retrying, trouble>>

Reject(c) ==
    /\ Pending(c)
    /\ Resolved(c, "dismissed")
    /\ UNCHANGED <<notes, runs, lease, worker, retrying, trouble>>

(* LocalRetryCandidate: two transactions, and no look at the status. *)
RetryClears(c) ==
    /\ cand[c].status # "absent" /\ c \notin retrying
    /\ Troubles
    /\ cand' = [cand EXCEPT ![c].draft = "none"]
    /\ retrying' = retrying \cup {c}
    /\ UNCHANGED <<notes, runs, lease, worker>>

RetryReopens(c) ==
    /\ c \in retrying
    /\ cand' = [cand EXCEPT ![c].status = "pending"]
    /\ retrying' = retrying \ {c}
    /\ UNCHANGED <<notes, runs, lease, worker, trouble>>

(* The daemon that serves the retry may die in between. *)
RetryLost(c) ==
    /\ c \in retrying
    /\ Troubles
    /\ retrying' = retrying \ {c}
    /\ UNCHANGED <<notes, cand, runs, lease, worker>>

(* An agent invalidates or restores a note, an episode may be either.        *)
Turns(n) ==
    /\ Troubles
    /\ live' = IF n \in live THEN live \ {n} ELSE live \cup {n}
    /\ UNCHANGED <<spent, facts, cand, runs, lease, worker, retrying>>

-----------------------------------------------------------------------------
WorkerStep(w) ==
    \/ TickStarts(w) \/ Enter(w) \/ DismissRetired(w) \/ LastEnds(w) \/ TickEnds(w)
    \/ \E x \in worker[w].todo : Skip(w, x) \/ Take(w, x) \/ Check(w, x)
    \/ LeaseLost(w)
    \/ \E draft \in Drafts : Generate(w, draft)
    \/ Judge(w) \/ Insert(w) \/ Propose(w) \/ Dismiss(w) \/ Apply(w)
    \/ RetireOlder(w) \/ Close(w)

StopStep(w) == StopCloses(w) \/ StopReleases(w) \/ Exit(w)

ReviewStep(c) ==
    \/ \E collapse \in MayKeepBoth(c) : Review(c, collapse)
    \/ Reject(c) \/ RetryClears(c) \/ RetryLost(c)

Next ==
    \/ \E w \in Workers : \E posture \in Postures[w] : Start(w, posture)
    \/ \E w \in Workers : WorkerStep(w) \/ StopStep(w)
    \/ \E w \in Workers : Yield(w) \/ StepFails(w) \/ GenerateFails(w) \/ Stop(w) \/ Crash(w)
    \/ LeaseLapses
    \/ \E c \in Candidates : ReviewStep(c) \/ RetryReopens(c)
    \/ \E n \in Written : Turns(n)

Spec == Init /\ [][Next]_vars

(* The daemon's loop ticks, a call to the model returns or fails, a stopped  *)
(* daemon is started again and a retry in progress reopens.  A live worker   *)
(* renews its lease; one whose owner is gone lapses.                         *)
Fairness ==
    /\ \A w \in Workers : /\ WF_vars(WorkerStep(w))
                          /\ WF_vars(StopStep(w))
                          /\ WF_vars(\E posture \in Postures[w] : Start(w, posture))
    /\ WF_vars(lease.owner = Gone /\ LeaseLapses)
    /\ \A c \in Candidates : WF_vars(RetryReopens(c))

FairSpec == Spec /\ Fairness

-----------------------------------------------------------------------------
(* Properties *)

Waits == {"off", "idle", "each", "finish", "failed"}
Works == {"generate", "write", "dismiss", "apply", "retire", "close"}

RowType == [status : Settled \cup {"absent", "pending"}, draft : Drafts,
            winner : Notes \cup {None}]

WorkerType == [pc : Waits \cup Works, posture : {"suggest", "auto"}, stage : StageNames,
               run : Runs \cup {None}, todo : SUBSET (Candidates \X Drafts),
               at : Candidates \cup {None}, draft : Drafts,
               stop : {"no", "close", "release", "exit"}, abandoned : Runs \cup {None}]

(* A worker has a candidate in hand exactly while it works at one, a run     *)
(* exactly while it ticks, and is in a stage until the tick ends.            *)
Consistent(x) ==
    /\ x.at = None <=> x.pc \in Waits
    /\ x.run = None <=> x.pc \in {"off", "idle"}
    /\ x.stage = "none" <=> x.pc \in Waits \ {"each"}

TypeOK ==
    /\ live \subseteq Written
    /\ spent \subseteq Episodes
    /\ facts \in [Episodes -> Nat]
    /\ cand \in [Candidates -> RowType]
    /\ runs \in [Runs -> Closed \cup {"none", "open"}]
    /\ lease \in [owner : Workers \cup {None, Gone}, lapsed : BOOLEAN]
    /\ worker \in [Workers -> WorkerType]
    /\ retrying \subseteq Candidates
    /\ trouble \in 0 .. MaxTrouble
    /\ \A w \in Workers : Consistent(worker[w])

(* However the clusters overlap, whoever settles them and whatever is        *)
(* retried, an episode goes into one fact, and exactly when it has a         *)
(* consolidated_at (applyDistillation).                                      *)
SourcesDistilledOnce ==
    \A e \in Episodes : facts[e] = IF e \in spent THEN 1 ELSE 0

(* A verdict stands: the worker that held the candidate while the model      *)
(* worked, another worker or a reviewer changes it only after a retry        *)
(* (status = 'pending' in every update that resolves).                       *)
SettledKeepsItsVerdict ==
    [][\A c \in Candidates :
          cand[c].status \in Settled /\ cand'[c].status # cand[c].status => c \in retrying]_vars

(* "A closed run never re-opens, whoever closes it first names why": a late  *)
(* report of a tick whose daemon was stopped, or whose row a starting daemon *)
(* has closed, changes nothing (reportTick).                                 *)
ClosedRunsStay ==
    [][\A r \in Runs :
          runs[r] \in Closed => \/ runs'[r] = runs[r]
                               \/ (~InUse(r) /\ runs'[r] = "none")]_vars

(* A lease that stop() has released is never claimed again by the tick that  *)
(* is still in flight (holdLease).                                           *)
ReleasedStaysReleased ==
    \A w \in Workers : worker[w].stop = "exit" => lease.owner # w

(* A sweep that died does not read as one in progress forever                *)
(* (closeAbandonedRuns).                                                     *)
RunsClose == \A r \in Runs : runs[r] = "open" ~> runs[r] # "open"

(* A candidate with a member that is retired or already distilled leaves the *)
(* inbox, unless the member comes back (dismissRetiredCandidates).           *)
Hopeless(c) ==
    /\ cand[c].status = "pending"
    /\ \/ \E n \in Members(c) : n \notin live
       \/ \E e \in Members(c) : Kind(c) = "distill" /\ e \in spent

RetiredCandidatesLeave == \A c \in Candidates : Hopeless(c) ~> ~Hopeless(c)

(* A distill or merge filed or reopened without a proposal gets one, or a    *)
(* verdict, in the end, whatever the model and the daemons go through        *)
(* (backfillProposals).                                                      *)
Waiting(c) ==
    Kind(c) # "supersede" /\ cand[c].status = "pending" /\ cand[c].draft = "none"

JudgedInTheEnd == \A c \in Candidates : Waiting(c) ~> ~Waiting(c)
=============================================================================
