------------------------ MODULE Consolidation_proofs ------------------------
(* Theorems about the sweep's candidates, runs and lease, for any notes,     *)
(* clusters, pairs and workers.                                              *)
EXTENDS Consolidation, TLAPS

-----------------------------------------------------------------------------
(* Type correctness *)

RowOK(x) == x \in WorkerType /\ Consistent(x)

WorkersOK == worker \in [Workers -> WorkerType] /\ \A w \in Workers : Consistent(worker[w])

LEMMA CandidateKinds ==
    ASSUME NEW c \in Candidates
    PROVE  /\ Kind(c) \in {"distill", "merge", "supersede"}
           /\ Kind(c) = "distill" => Members(c) \in Clusters
           /\ Kind(c) # "distill" => Members(c) \in Pairs
           /\ c # None
  BY ConsolidationAssumption DEF Candidates, Kind, Members

(* What a write of one worker needs to keep the types. *)
LEMMA WorkerWritten ==
    ASSUME TypeOK, NEW w \in Workers, NEW x, RowOK(x), worker' = [worker EXCEPT ![w] = x]
    PROVE  WorkersOK'
  BY DEF TypeOK, RowOK, WorkersOK

InStage(w) == worker[w].pc \in {"each"} \cup Works

LEMMA GoesOK ==
    ASSUME TypeOK, NEW w \in Workers, InStage(w),
           NEW pc \in {"each"} \cup Works,
           NEW todo \in SUBSET (Candidates \X Drafts),
           NEW at \in Candidates \cup {None}, at = None <=> pc = "each",
           NEW draft \in Drafts,
           Goes(w, pc, todo, at, draft)
    PROVE  WorkersOK'
  <1> DEFINE y == [worker[w] EXCEPT !.pc = pc, !.todo = todo, !.at = at, !.draft = draft]
  <1>1. worker[w] \in WorkerType /\ Consistent(worker[w]) BY DEF TypeOK
  <1>2. worker' = [worker EXCEPT ![w] = y] BY DEF Goes, Becomes
  <1>3. pc \in Waits \cup Works BY DEF Waits
  <1>4. /\ y \in WorkerType
        /\ y.pc = pc /\ y.at = at /\ y.run = worker[w].run /\ y.stage = worker[w].stage
    BY <1>1, <1>3 DEF WorkerType
  <1> HIDE DEF y
  <1>5. Consistent(y)
    BY <1>1, <1>4 DEF Consistent, InStage, Waits, Works
  <1> QED BY <1>2, <1>4, <1>5, WorkerWritten DEF RowOK

LEMMA ListedType ==
    ASSUME TypeOK, NEW w \in Workers, NEW stage
    PROVE  Listed(w, stage) \in SUBSET (Candidates \X Drafts)
  <1>1. "none" \in Drafts BY DEF Drafts
  <1>2. \A m \in Clusters : <<"distill", m>> \in Candidates BY DEF Candidates
  <1>3. \A m \in Pairs : \A k \in {"merge", "supersede"} : <<k, m>> \in Candidates
    BY DEF Candidates
  <1>4. \A c \in Candidates : cand[c].draft \in Drafts BY DEF TypeOK, RowType
  <1>5. Unjudged \subseteq Candidates BY DEF Unjudged
  <1> DEFINE T == Candidates \X Drafts
  <1>6. \A c \in Candidates : <<c, "none">> \in T /\ <<c, cand[c].draft>> \in T
    BY <1>1, <1>4
  <1>7. \A m \in Clusters : <<<<"distill", m>>, "none">> \in T
    BY <1>2, <1>6
  <1>8. \A m \in Pairs : \A k \in {"merge", "supersede"} : <<<<k, m>>, "none">> \in T
    BY <1>3, <1>6
  <1> HIDE DEF T
  <1> SUFFICES ASSUME NEW x \in Listed(w, stage) PROVE x \in T
    BY DEF T
  <1>9. CASE stage = "distill"
    <2>1. \E m \in Clusters : x = <<<<"distill", m>>, "none">>
      BY <1>9 DEF Listed
    <2> QED BY <2>1, <1>7
  <1>10. CASE stage = "merge"
    <2>1. \E m \in Pairs : x = <<<<"merge", m>>, "none">>
      BY <1>10 DEF Listed
    <2> QED BY <2>1, <1>8
  <1>11. CASE stage = "backfill"
    <2>1. \E c \in Candidates : x = <<c, "none">>
      BY <1>11, <1>5 DEF Listed
    <2> QED BY <2>1, <1>6
  <1>12. CASE stage = "drain"
    <2>1. \E c \in Candidates : x = <<c, cand[c].draft>>
      BY <1>12 DEF Listed
    <2> QED BY <2>1, <1>6
  <1>13. CASE stage = "settle"
    <2>1. \E c \in Candidates : x = <<c, "none">>
      BY <1>13 DEF Listed
    <2> QED BY <2>1, <1>6
  <1>14. CASE stage = "relate"
    <2>1. \E m \in Pairs : \E k \in {"merge", "supersede"} : x = <<<<k, m>>, "none">>
      BY <1>14 DEF Listed
    <2> QED BY <2>1, <1>8
  <1>15. CASE stage \notin {"distill", "merge", "backfill", "drain", "settle", "relate"}
    BY <1>15 DEF Listed
  <1> QED BY <1>9, <1>10, <1>11, <1>12, <1>13, <1>14, <1>15

LEMMA ResolvedType ==
    ASSUME TypeOK, NEW c \in Candidates, NEW status \in Settled, Resolved(c, status)
    PROVE  cand' \in [Candidates -> RowType]
  BY DEF TypeOK, Resolved, RowType

LEMMA ReportedType ==
    ASSUME TypeOK, NEW r, NEW state \in Closed \cup {"none", "open"}, Reported(r, state)
    PROVE  runs' \in [Runs -> Closed \cup {"none", "open"}]
  BY DEF TypeOK, Reported

LEMMA EffectType ==
    ASSUME TypeOK, NEW c \in Candidates, NEW collapse \in BOOLEAN, Effect(c, collapse)
    PROVE  /\ live' \subseteq Written
           /\ spent' \subseteq Episodes
           /\ facts' \in [Episodes -> Nat]
  <1>1. CASE Kind(c) = "distill"
    <2>1. Members(c) \subseteq Episodes
      BY <1>1, CandidateKinds, ConsolidationAssumption
    <2>2. facts \in [Episodes -> Nat] BY DEF TypeOK
    <2>3. \A e \in Episodes : facts[e] + (IF e \in Members(c) THEN 1 ELSE 0) \in Nat
      BY <2>2
    <2> QED BY <1>1, <2>1, <2>3 DEF Effect, TypeOK
  <1>2. CASE Kind(c) # "distill"
    BY <1>2 DEF Effect, TypeOK
  <1> QED BY <1>1, <1>2

LEMMA CarriedType ==
    ASSUME TypeOK, NEW c \in Candidates, NEW collapse \in BOOLEAN, Carried(c, collapse)
    PROVE  /\ live' \subseteq Written
           /\ spent' \subseteq Episodes
           /\ facts' \in [Episodes -> Nat]
           /\ cand' \in [Candidates -> RowType]
  <1>1. "applied" \in Settled /\ "dismissed" \in Settled BY DEF Settled
  <1>2. CASE ~Pending(c) /\ UNCHANGED <<notes, cand>>
    BY <1>2 DEF TypeOK, notes
  <1>3. CASE Pending(c) /\ Stands(c) /\ Effect(c, collapse) /\ Resolved(c, "applied")
    BY <1>1, <1>3, EffectType, ResolvedType
  <1>4. CASE Pending(c) /\ ~Stands(c) /\ Resolved(c, "dismissed") /\ UNCHANGED notes
    BY <1>1, <1>4, ResolvedType DEF TypeOK, notes
  <1> QED BY <1>2, <1>3, <1>4 DEF Carried

LEMMA AtWork ==
    ASSUME TypeOK, NEW w \in Workers
    PROVE  /\ worker[w] \in WorkerType /\ Consistent(worker[w])
           /\ worker[w].todo \in SUBSET (Candidates \X Drafts)
           /\ worker[w].pc \in Works => worker[w].at \in Candidates
           /\ worker[w].draft \in Drafts
           /\ worker[w].run \in Runs \cup {None}
           /\ worker[w].pc \notin {"off", "idle"} => worker[w].run \in Runs
           /\ worker[w].stage \in StageNames
  <1>1. worker[w] \in WorkerType /\ Consistent(worker[w]) BY DEF TypeOK
  <1>2. worker[w].pc \in Works => worker[w].pc \notin Waits BY DEF Works, Waits
  <1> QED BY <1>1, <1>2 DEF WorkerType, Consistent

LEMMA BackOK ==
    ASSUME TypeOK, NEW w \in Workers, InStage(w), Back(w) PROVE WorkersOK'
  <1>1. None \in Candidates \cup {None} /\ "none" \in Drafts /\ "each" \in {"each"} \cup Works
    BY DEF Drafts
  <1> QED BY <1>1, AtWork, GoesOK DEF Back

LEMMA HandsOK ==
    ASSUME TypeOK, NEW w \in Workers, worker[w].pc \in Works, NEW pc \in Works,
           NEW draft \in Drafts, Hands(w, pc, draft)
    PROVE  WorkersOK'
  <1>1. InStage(w) BY DEF InStage
  <1>2. worker[w].at \in Candidates /\ worker[w].at # None BY AtWork, CandidateKinds
  <1>3. pc \in {"each"} \cup Works /\ pc # "each" BY DEF Works
  <1> QED BY <1>1, <1>2, <1>3, AtWork, GoesOK DEF Hands

LEMMA EntersType ==
    ASSUME TypeOK, NEW w \in Workers, Done(w), NEW stage \in StageNames \ {"none"},
           Enters(w, stage)
    PROVE  /\ WorkersOK'
           /\ runs' \in [Runs -> Closed \cup {"none", "open"}]
  <1> DEFINE todo == Listed(w, stage)
             x == [worker[w] EXCEPT !.stage = stage, !.todo = todo]
  <1>1. todo \in SUBSET (Candidates \X Drafts) BY ListedType
  <1>2. worker[w] \in WorkerType /\ Consistent(worker[w]) BY AtWork
  <1>3. worker' = [worker EXCEPT ![w] = x] BY DEF Enters, Becomes
  <1> HIDE DEF todo
  <1>4. /\ x \in WorkerType /\ x.stage = stage
        /\ x.pc = worker[w].pc /\ x.at = worker[w].at /\ x.run = worker[w].run
    BY <1>1, <1>2 DEF WorkerType
  <1> HIDE DEF x
  <1>5. Consistent(x) BY <1>2, <1>4 DEF Consistent, Done, Waits
  <1>6. WorkersOK' BY <1>3, <1>4, <1>5, WorkerWritten DEF RowOK
  <1> QED BY <1>6, ReportedType DEF Enters

LEMMA TickEdgesType ==
    ASSUME TypeOK, NEW w \in Workers,
           TickStarts(w) \/ LastEnds(w) \/ Yield(w) \/ StepFails(w) \/ TickEnds(w)
    PROVE  TypeOK'
  <1>1. worker[w] \in WorkerType /\ Consistent(worker[w]) BY AtWork
  <1>2. None \notin Runs /\ MaxTrouble \in Nat BY ConsolidationAssumption
  <1>3. CASE TickStarts(w)
    <2>1. PICK r \in Runs : /\ runs' = [runs EXCEPT ![r] = "none"]
                            /\ worker' = [worker EXCEPT ![w] = [worker[w] EXCEPT
                                           !.pc = "each", !.run = r, !.stage = "start"]]
      BY <1>3 DEF TickStarts, FreeRuns, Becomes
    <2> DEFINE x == [worker[w] EXCEPT !.pc = "each", !.run = r, !.stage = "start"]
    <2>2. /\ x \in WorkerType /\ x.pc = "each" /\ x.run = r /\ x.stage = "start"
          /\ x.at = worker[w].at
      BY <1>1 DEF WorkerType, Waits, StageNames
    <2>3. worker[w].at = None BY <1>1, <1>3 DEF TickStarts, Consistent, Waits
    <2>4. worker' = [worker EXCEPT ![w] = x] BY <2>1
    <2> HIDE DEF x
    <2>5. Consistent(x) BY <2>2, <2>3, <1>2 DEF Consistent, Waits
    <2>6. WorkersOK' BY <2>2, <2>4, <2>5, WorkerWritten DEF RowOK
    <2>7. lease' \in [owner : Workers \cup {None, Gone}, lapsed : BOOLEAN]
      BY <1>3 DEF TickStarts, Holds
    <2> QED BY <1>3, <2>1, <2>6, <2>7 DEF TickStarts, TypeOK, notes, WorkersOK
  <1>4. ASSUME Finishes(w), InStage(w), worker[w].at = None PROVE WorkersOK'
    <2> DEFINE x == [worker[w] EXCEPT !.pc = "finish", !.stage = "none"]
    <2>1. /\ x \in WorkerType /\ x.pc = "finish" /\ x.stage = "none"
          /\ x.at = worker[w].at /\ x.run = worker[w].run
      BY <1>1 DEF WorkerType, Waits, StageNames
    <2>2. worker' = [worker EXCEPT ![w] = x] BY <1>4 DEF Finishes, Becomes
    <2> HIDE DEF x
    <2>3. worker[w].run # None BY <1>1, <1>4 DEF Consistent, InStage, Works
    <2>4. Consistent(x) BY <2>1, <2>3, <1>4 DEF Consistent, Waits
    <2> QED BY <2>1, <2>2, <2>4, WorkerWritten DEF RowOK
  <1>5. ASSUME Done(w) PROVE InStage(w) /\ worker[w].at = None
    BY <1>1, <1>5 DEF Done, InStage, Consistent, Waits
  <1>6. CASE LastEnds(w)
    <2>1. WorkersOK' BY <1>4, <1>5, <1>6 DEF LastEnds
    <2> QED BY <1>6, <2>1 DEF LastEnds, TypeOK, notes, WorkersOK
  <1>7. ASSUME Troubles PROVE trouble' \in 0 .. MaxTrouble
    BY <1>2, <1>7 DEF Troubles, TypeOK
  <1>8. CASE Yield(w)
    <2>1. WorkersOK' BY <1>4, <1>5, <1>8 DEF Yield
    <2>2. trouble' \in 0 .. MaxTrouble BY <1>7, <1>8 DEF Yield
    <2> QED BY <1>8, <2>1, <2>2 DEF Yield, TypeOK, notes, WorkersOK
  <1>9. CASE StepFails(w)
    <2> DEFINE x == [worker[w] EXCEPT !.pc = "failed", !.stage = "none", !.todo = {},
                                      !.at = None, !.draft = "none"]
    <2>1. /\ x \in WorkerType /\ x.pc = "failed" /\ x.stage = "none" /\ x.at = None
          /\ x.run = worker[w].run
      BY <1>1 DEF WorkerType, Waits, StageNames, Drafts
    <2>2. worker' = [worker EXCEPT ![w] = x] BY <1>9 DEF StepFails, Becomes
    <2> HIDE DEF x
    <2>3. worker[w].run # None BY <1>1, <1>9 DEF StepFails, Busy, Consistent
    <2>4. Consistent(x) BY <2>1, <2>3 DEF Consistent, Waits
    <2>5. WorkersOK' BY <2>1, <2>2, <2>4, WorkerWritten DEF RowOK
    <2>6. trouble' \in 0 .. MaxTrouble BY <1>7, <1>9 DEF StepFails
    <2> QED BY <1>9, <2>5, <2>6 DEF StepFails, TypeOK, notes, WorkersOK
  <1>10. CASE TickEnds(w)
    <2> DEFINE x == [worker[w] EXCEPT !.pc = "idle", !.run = None]
    <2>1. /\ x \in WorkerType /\ x.pc = "idle" /\ x.run = None
          /\ x.stage = worker[w].stage /\ x.at = worker[w].at
      BY <1>1 DEF WorkerType, Waits
    <2>2. worker' = [worker EXCEPT ![w] = x] BY <1>10 DEF TickEnds, Becomes
    <2> HIDE DEF x
    <2>3. worker[w].at = None /\ worker[w].stage = "none"
      BY <1>1, <1>10 DEF TickEnds, Consistent, Waits
    <2>4. Consistent(x) BY <2>1, <2>3 DEF Consistent, Waits
    <2>5. WorkersOK' BY <2>1, <2>2, <2>4, WorkerWritten DEF RowOK
    <2>6. runs' \in [Runs -> Closed \cup {"none", "open"}]
      BY <1>10, ReportedType DEF TickEnds, Closed
    <2> QED BY <1>10, <2>5, <2>6 DEF TickEnds, TypeOK, notes, WorkersOK
  <1> QED BY <1>3, <1>6, <1>8, <1>9, <1>10

LEMMA StageStepType ==
    ASSUME TypeOK, NEW w \in Workers,
           Enter(w) \/ DismissRetired(w) \/ LeaseLost(w)
             \/ \E x \in worker[w].todo : Skip(w, x) \/ Take(w, x) \/ Check(w, x)
    PROVE  TypeOK'
  <1>1. worker[w] \in WorkerType /\ Consistent(worker[w]) BY AtWork
  <1>2. ASSUME NEW x \in worker[w].todo PROVE x[1] \in Candidates /\ x[1] # None
    BY <1>2, AtWork, CandidateKinds
  <1>3. \A x : worker[w].todo \ {x} \in SUBSET (Candidates \X Drafts) BY AtWork
  <1>4. \A s \in {"none", "apply", "reject"} : s \in Drafts BY DEF Drafts
  <1>5. {} \in SUBSET (Candidates \X Drafts) /\ None \in Candidates \cup {None}
        /\ "each" \in {"each"} \cup Works
    OBVIOUS
  <1>6. \A pc \in Works : pc \in {"each"} \cup Works /\ pc # "each" BY DEF Works
  <1>7. {"generate", "apply", "retire", "close"} \subseteq Works BY DEF Works
  <1>8. CASE Enter(w)
    <2>1. After(worker[w].stage) \in StageNames \ {"none"} BY DEF After, StageNames
    <2> QED BY <1>8, <2>1, EntersType DEF Enter, Enters, TypeOK, notes, WorkersOK
  <1>9. CASE DismissRetired(w)
    <2>1. "retired" \in StageNames \ {"none"} BY DEF StageNames
    <2>2. cand' \in [Candidates -> RowType]
      <3>1. \A c \in Candidates : cand[c] \in RowType BY DEF TypeOK
      <3>2. \A r \in RowType : [r EXCEPT !.status = "dismissed"] \in RowType
        BY DEF RowType, Settled
      <3> QED BY <1>9, <3>1, <3>2 DEF DismissRetired
    <2> QED BY <1>9, <2>1, <2>2, EntersType DEF DismissRetired, Enters, TypeOK, notes, WorkersOK
  <1>10. CASE LeaseLost(w)
    <2>1. InStage(w) BY <1>10 DEF LeaseLost, Unskipped, InStage
    <2>2. WorkersOK' BY <1>4, <1>5, <1>10, <2>1, GoesOK DEF LeaseLost
    <2> QED BY <1>10, <2>2 DEF LeaseLost, TypeOK, notes, WorkersOK
  <1>11. ASSUME NEW x \in worker[w].todo, Skip(w, x) PROVE TypeOK'
    <2>1. InStage(w) BY <1>11 DEF Skip, InStage
    <2>2. WorkersOK' BY <1>3, <1>4, <1>5, <1>11, <2>1, GoesOK DEF Skip, Rest
    <2> QED BY <1>11, <2>2 DEF Skip, TypeOK, notes, WorkersOK
  <1>12. ASSUME NEW x \in worker[w].todo, Take(w, x) PROVE TypeOK'
    <2>1. InStage(w) BY <1>12 DEF Take, Unskipped, InStage
    <2>2. x[1] \in Candidates /\ x[1] # None BY <1>2
    <2> DEFINE rest == worker[w].todo \ {x}
    <2>3. rest \in SUBSET (Candidates \X Drafts) BY <1>3
    <2>4. \/ Goes(w, "generate", rest, x[1], "none")
          \/ Goes(w, "apply", rest, x[1], "apply")
          \/ Goes(w, "each", rest, None, "none")
      BY <1>12 DEF Take, Rest
    <2> HIDE DEF rest
    <2>5. WorkersOK'
      BY <1>4, <1>5, <1>6, <1>7, <2>1, <2>2, <2>3, <2>4, GoesOK
    <2>6. lease' \in [owner : Workers \cup {None, Gone}, lapsed : BOOLEAN]
      BY <1>12 DEF Take, Holds
    <2> QED BY <1>12, <2>5, <2>6 DEF Take, TypeOK, notes, WorkersOK
  <1>13. ASSUME NEW x \in worker[w].todo, Check(w, x) PROVE TypeOK'
    <2>1. InStage(w) BY <1>13 DEF Check, InStage
    <2>2. x[1] \in Candidates /\ x[1] # None BY <1>2
    <2> DEFINE rest == worker[w].todo \ {x}
    <2>3. rest \in SUBSET (Candidates \X Drafts) BY <1>3
    <2>4. \/ Goes(w, "retire", rest, x[1], "apply")
          \/ Goes(w, "close", rest, x[1], "reject")
      BY <1>13 DEF Check, Rest
    <2> HIDE DEF rest
    <2>5. WorkersOK'
      BY <1>4, <1>6, <1>7, <2>1, <2>2, <2>3, <2>4, GoesOK
    <2> QED BY <1>13, <2>5 DEF Check, TypeOK, notes, WorkersOK
  <1> QED BY <1>8, <1>9, <1>10, <1>11, <1>12, <1>13

LEMMA ItemStepType ==
    ASSUME TypeOK, NEW w \in Workers,
           \/ \E draft \in Drafts : Generate(w, draft)
           \/ GenerateFails(w) \/ Judge(w) \/ Insert(w) \/ Propose(w) \/ Dismiss(w)
           \/ Apply(w) \/ RetireOlder(w) \/ Close(w)
    PROVE  TypeOK'
  <1> DEFINE c == worker[w].at
  <1>1. worker[w] \in WorkerType /\ worker[w].draft \in Drafts BY AtWork
  <1>2. {"generate", "write", "dismiss", "apply", "retire", "close"} \subseteq Works
    BY DEF Works
  <1>3. \A s \in {"none", "apply", "reject"} : s \in Drafts BY DEF Drafts
  <1>4. worker[w].pc \in Works => c \in Candidates /\ InStage(w)
    BY AtWork DEF InStage
  <1>5. "applied" \in Settled /\ "dismissed" \in Settled BY DEF Settled
  <1>6. ASSUME NEW draft \in Drafts, Generate(w, draft) PROVE TypeOK'
    <2>1. WorkersOK' BY <1>2, <1>6, HandsOK DEF Generate
    <2> QED BY <1>6, <2>1 DEF Generate, TypeOK, notes, WorkersOK
  <1>7. CASE GenerateFails(w)
    <2>1. worker[w].pc \in Works BY <1>2, <1>7 DEF GenerateFails
    <2>2. WorkersOK' BY <1>2, <1>3, <1>4, <1>7, <2>1, HandsOK, BackOK DEF GenerateFails
    <2>3. trouble' \in 0 .. MaxTrouble
      BY <1>7, ConsolidationAssumption DEF GenerateFails, Troubles, TypeOK
    <2> QED BY <1>7, <2>2, <2>3 DEF GenerateFails, TypeOK, notes, WorkersOK
  <1>8. CASE Judge(w)
    <2>1. worker[w].pc \in Works BY <1>2, <1>8 DEF Judge
    <2>2. WorkersOK' BY <1>2, <1>3, <1>4, <1>8, <2>1, HandsOK, BackOK DEF Judge
    <2> QED BY <1>8, <2>2 DEF Judge, TypeOK, notes, WorkersOK
  <1>9. CASE Insert(w)
    <2>1. worker[w].pc \in Works BY <1>2, <1>9 DEF Insert
    <2>2. WorkersOK' BY <1>2, <1>3, <1>4, <1>9, <2>1, HandsOK, BackOK DEF Insert
    <2>3. PICK n \in Winners(c) :
            cand' = IF cand[c].status = "absent"
                    THEN [cand EXCEPT ![c] = [status |-> "pending", winner |-> n,
                                              draft |-> worker[w].draft]]
                    ELSE cand
      BY <1>9 DEF Insert
    <2>4. n \in Notes \cup {None}
      <3>1. c \in Candidates BY <1>4, <2>1
      <3> QED BY <3>1, CandidateKinds, ConsolidationAssumption DEF Winners
    <2>5. [status |-> "pending", winner |-> n, draft |-> worker[w].draft] \in RowType
      BY <1>1, <2>4 DEF RowType
    <2>6. cand' \in [Candidates -> RowType] BY <2>3, <2>5 DEF TypeOK
    <2> QED BY <1>9, <2>2, <2>6 DEF Insert, TypeOK, notes, WorkersOK
  <1>10. CASE Propose(w)
    <2>1. worker[w].pc \in Works BY <1>2, <1>10 DEF Propose
    <2>2. WorkersOK' BY <1>2, <1>3, <1>4, <1>10, <2>1, HandsOK, BackOK DEF Propose
    <2>3. cand' \in [Candidates -> RowType] BY <1>1, <1>10 DEF Propose, TypeOK, RowType
    <2> QED BY <1>10, <2>2, <2>3 DEF Propose, TypeOK, notes, WorkersOK
  <1>11. CASE Dismiss(w)
    <2>1. worker[w].pc \in Works BY <1>2, <1>11 DEF Dismiss
    <2>2. WorkersOK' BY <1>4, <1>11, <2>1, BackOK DEF Dismiss
    <2>3. cand' \in [Candidates -> RowType]
      BY <1>4, <1>5, <1>11, <2>1, ResolvedType DEF Dismiss
    <2> QED BY <1>11, <2>2, <2>3 DEF Dismiss, TypeOK, notes, WorkersOK
  <1>12. CASE Apply(w)
    <2>1. worker[w].pc \in Works BY <1>2, <1>12 DEF Apply
    <2>2. WorkersOK' BY <1>4, <1>12, <2>1, BackOK DEF Apply
    <2>3. PICK collapse \in BOOLEAN : Carried(c, collapse)
      BY <1>12 DEF Apply, MayKeepBoth
    <2>4. /\ live' \subseteq Written
          /\ spent' \subseteq Episodes
          /\ facts' \in [Episodes -> Nat]
          /\ cand' \in [Candidates -> RowType]
      BY <1>4, <2>1, <2>3, CarriedType
    <2> QED BY <1>12, <2>2, <2>4 DEF Apply, TypeOK, WorkersOK
  <1>13. CASE RetireOlder(w)
    <2>1. worker[w].pc \in Works BY <1>2, <1>13 DEF RetireOlder
    <2>2. WorkersOK' BY <1>2, <1>3, <1>13, <2>1, HandsOK DEF RetireOlder
    <2> QED BY <1>13, <2>2 DEF RetireOlder, TypeOK, WorkersOK
  <1>14. CASE Close(w)
    <2>1. worker[w].pc \in Works BY <1>2, <1>14 DEF Close
    <2>2. WorkersOK' BY <1>4, <1>14, <2>1, BackOK DEF Close
    <2>3. cand' \in [Candidates -> RowType]
      BY <1>4, <1>5, <1>14, <2>1, ResolvedType DEF Close
    <2> QED BY <1>14, <2>2, <2>3 DEF Close, TypeOK, notes, WorkersOK
  <1> QED BY <1>6, <1>7, <1>8, <1>9, <1>10, <1>11, <1>12, <1>13, <1>14

LEMMA LifeType ==
    ASSUME TypeOK, NEW w \in Workers,
           \/ \E posture \in Postures[w] : Start(w, posture)
           \/ Stop(w) \/ StopStep(w) \/ Crash(w)
    PROVE  TypeOK'
  <1>1. worker[w] \in WorkerType /\ Consistent(worker[w]) BY AtWork
  <1>2. ASSUME NEW x, RowOK(x), Becomes(w, x) PROVE WorkersOK'
    BY <1>2, WorkerWritten DEF Becomes
  <1>3. RowOK(Off)
    BY DEF RowOK, Off, WorkerType, Consistent, Waits, StageNames, Drafts
  <1>4. ASSUME Troubles PROVE trouble' \in 0 .. MaxTrouble
    BY <1>4, ConsolidationAssumption DEF Troubles, TypeOK
  <1>5. ASSUME NEW posture \in Postures[w], Start(w, posture) PROVE TypeOK'
    <2> DEFINE x == [worker[w] EXCEPT !.pc = "idle", !.posture = posture]
    <2>1. posture \in {"suggest", "auto"} BY <1>5, ConsolidationAssumption
    <2>2. /\ x \in WorkerType /\ x.pc = "idle" /\ x.at = worker[w].at
          /\ x.run = worker[w].run /\ x.stage = worker[w].stage
      BY <1>1, <2>1 DEF WorkerType, Waits
    <2>3. Becomes(w, x) BY <1>5 DEF Start
    <2> HIDE DEF x
    <2>4. Consistent(x) BY <1>1, <1>5, <2>2 DEF Start, Consistent, Waits
    <2>5. WorkersOK' BY <1>2, <2>2, <2>3, <2>4 DEF RowOK
    <2>6. runs' \in [Runs -> Closed \cup {"none", "open"}]
      BY <1>5 DEF Start, RunsAtStart, TypeOK, Closed
    <2> QED BY <1>5, <2>5, <2>6 DEF Start, TypeOK, notes, WorkersOK
  <1>6. CASE Stop(w)
    <2> DEFINE x == [worker[w] EXCEPT !.stop = "close", !.abandoned = worker[w].run]
    <2>1. /\ x \in WorkerType /\ x.pc = worker[w].pc /\ x.at = worker[w].at
          /\ x.run = worker[w].run /\ x.stage = worker[w].stage
      BY <1>1 DEF WorkerType
    <2>2. Becomes(w, x) BY <1>6 DEF Stop
    <2> HIDE DEF x
    <2>3. WorkersOK' BY <1>1, <1>2, <2>1, <2>2 DEF RowOK, Consistent
    <2>4. trouble' \in 0 .. MaxTrouble BY <1>4, <1>6 DEF Stop
    <2> QED BY <1>6, <2>3, <2>4 DEF Stop, TypeOK, notes, WorkersOK
  <1>7. CASE StopCloses(w)
    <2> DEFINE x == [worker[w] EXCEPT !.stop = "release", !.abandoned = None]
    <2>1. /\ x \in WorkerType /\ x.pc = worker[w].pc /\ x.at = worker[w].at
          /\ x.run = worker[w].run /\ x.stage = worker[w].stage
      BY <1>1 DEF WorkerType
    <2>2. Becomes(w, x) BY <1>7 DEF StopCloses
    <2> HIDE DEF x
    <2>3. WorkersOK' BY <1>1, <1>2, <2>1, <2>2 DEF RowOK, Consistent
    <2>4. runs' \in [Runs -> Closed \cup {"none", "open"}]
      BY <1>7 DEF StopCloses, TypeOK, Closed
    <2> QED BY <1>7, <2>3, <2>4 DEF StopCloses, TypeOK, notes, WorkersOK
  <1>8. CASE StopReleases(w)
    <2> DEFINE x == [worker[w] EXCEPT !.stop = "exit"]
    <2>1. /\ x \in WorkerType /\ x.pc = worker[w].pc /\ x.at = worker[w].at
          /\ x.run = worker[w].run /\ x.stage = worker[w].stage
      BY <1>1 DEF WorkerType
    <2>2. Becomes(w, x) BY <1>8 DEF StopReleases
    <2> HIDE DEF x
    <2>3. WorkersOK' BY <1>1, <1>2, <2>1, <2>2 DEF RowOK, Consistent
    <2>4. lease' \in [owner : Workers \cup {None, Gone}, lapsed : BOOLEAN]
      BY <1>8 DEF StopReleases, TypeOK
    <2> QED BY <1>8, <2>3, <2>4 DEF StopReleases, TypeOK, notes, WorkersOK
  <1>9. ASSUME Leaves(w), trouble' \in 0 .. MaxTrouble PROVE TypeOK'
    <2>1. WorkersOK' BY <1>2, <1>3, <1>9 DEF Leaves
    <2>2. lease' \in [owner : Workers \cup {None, Gone}, lapsed : BOOLEAN]
      BY <1>9 DEF Leaves, TypeOK
    <2> QED BY <1>9, <2>1, <2>2 DEF Leaves, TypeOK, notes, WorkersOK
  <1>10. CASE Exit(w) BY <1>9, <1>10 DEF Exit, TypeOK
  <1>11. CASE Crash(w) BY <1>4, <1>9, <1>11 DEF Crash
  <1> QED BY <1>5, <1>6, <1>7, <1>8, <1>10, <1>11 DEF StopStep

LEMMA OutsideType ==
    ASSUME TypeOK,
           \/ LeaseLapses
           \/ \E c \in Candidates : ReviewStep(c) \/ RetryReopens(c)
           \/ \E n \in Written : Turns(n)
    PROVE  TypeOK'
  <1>1. ASSUME Troubles PROVE trouble' \in 0 .. MaxTrouble
    BY <1>1, ConsolidationAssumption DEF Troubles, TypeOK
  <1>2. CASE LeaseLapses
    <2>1. trouble' \in 0 .. MaxTrouble BY <1>1, <1>2 DEF LeaseLapses, TypeOK
    <2>2. lease' \in [owner : Workers \cup {None, Gone}, lapsed : BOOLEAN]
      BY <1>2 DEF LeaseLapses, TypeOK
    <2> QED BY <1>2, <2>1, <2>2 DEF LeaseLapses, TypeOK, notes
  <1>3. ASSUME NEW c \in Candidates, NEW collapse \in MayKeepBoth(c), Review(c, collapse)
        PROVE  TypeOK'
    <2>1. collapse \in BOOLEAN BY <1>3 DEF MayKeepBoth
    <2>2. /\ live' \subseteq Written
          /\ spent' \subseteq Episodes
          /\ facts' \in [Episodes -> Nat]
          /\ cand' \in [Candidates -> RowType]
      BY <1>3, <2>1, CarriedType DEF Review
    <2> QED BY <1>3, <2>2 DEF Review, TypeOK
  <1>4. ASSUME NEW c \in Candidates, Reject(c) PROVE TypeOK'
    <2>1. "dismissed" \in Settled BY DEF Settled
    <2>2. cand' \in [Candidates -> RowType] BY <1>4, <2>1, ResolvedType DEF Reject
    <2> QED BY <1>4, <2>2 DEF Reject, TypeOK, notes
  <1>5. ASSUME NEW c \in Candidates, RetryClears(c) PROVE TypeOK'
    <2>1. cand' \in [Candidates -> RowType] BY <1>5 DEF RetryClears, TypeOK, RowType, Drafts
    <2>2. trouble' \in 0 .. MaxTrouble BY <1>1, <1>5 DEF RetryClears
    <2> QED BY <1>5, <2>1, <2>2 DEF RetryClears, TypeOK, notes
  <1>6. ASSUME NEW c \in Candidates, RetryReopens(c) PROVE TypeOK'
    <2>1. cand' \in [Candidates -> RowType] BY <1>6 DEF RetryReopens, TypeOK, RowType
    <2> QED BY <1>6, <2>1 DEF RetryReopens, TypeOK, notes
  <1>7. ASSUME NEW c \in Candidates, RetryLost(c) PROVE TypeOK'
    <2>1. trouble' \in 0 .. MaxTrouble BY <1>1, <1>7 DEF RetryLost
    <2> QED BY <1>7, <2>1 DEF RetryLost, TypeOK, notes
  <1>8. ASSUME NEW n \in Written, Turns(n) PROVE TypeOK'
    <2>1. trouble' \in 0 .. MaxTrouble BY <1>1, <1>8 DEF Turns
    <2> QED BY <1>8, <2>1 DEF Turns, TypeOK
  <1> QED BY <1>2, <1>3, <1>4, <1>5, <1>6, <1>7, <1>8 DEF ReviewStep

LEMMA InitType == Init => TypeOK
  <1> SUFFICES ASSUME Init PROVE TypeOK
    OBVIOUS
  <1>1. Off \in WorkerType /\ Consistent(Off)
    BY DEF Off, WorkerType, Consistent, Waits, StageNames, Drafts
  <1>2. NoRow \in RowType BY DEF NoRow, RowType, Drafts
  <1>3. [owner |-> None, lapsed |-> FALSE] \in [owner : Workers \cup {None, Gone}, lapsed : BOOLEAN]
    OBVIOUS
  <1>4. 0 \in 0 .. MaxTrouble /\ 0 \in Nat BY ConsolidationAssumption
  <1> QED BY <1>1, <1>2, <1>3, <1>4 DEF Init, TypeOK

LEMMA StepType == ASSUME TypeOK, [Next]_vars PROVE TypeOK'
  <1>1. CASE UNCHANGED vars
    BY <1>1 DEF TypeOK, vars, notes
  <1>2. CASE Next
    BY <1>2, TickEdgesType, StageStepType, ItemStepType, LifeType, OutsideType
    DEF Next, WorkerStep
  <1> QED BY <1>1, <1>2

(* Every variable always has its type, and a worker is never between stages  *)
(* with a candidate in hand, whatever stops, crashes or is retried.          *)
THEOREM TypeCorrect == Spec => []TypeOK
  BY InitType, StepType, PTL DEF Spec

-----------------------------------------------------------------------------
(* An episode goes into one fact *)

LEMMA NotesStep ==
    ASSUME TypeOK, [Next]_vars
    PROVE  \/ UNCHANGED <<spent, facts>>
           \/ \E c \in Candidates, collapse \in BOOLEAN : Stands(c) /\ Effect(c, collapse)
  <1>1. ASSUME NEW c \in Candidates, NEW collapse \in BOOLEAN, Carried(c, collapse)
        PROVE  UNCHANGED <<spent, facts>> \/ (Stands(c) /\ Effect(c, collapse))
    <2>1. \/ UNCHANGED notes
          \/ Stands(c) /\ Effect(c, collapse)
      BY <1>1, Zenon DEF Carried
    <2>2. UNCHANGED notes => UNCHANGED <<spent, facts>> BY DEF notes
    <2> QED BY <2>1, <2>2, Zenon
  <1>2. ASSUME NEW w \in Workers, Apply(w)
        PROVE  \E c \in Candidates, collapse \in BOOLEAN : Carried(c, collapse)
    <2>1. worker[w].at \in Candidates BY <1>2, AtWork DEF Apply, Works
    <2>2. \E collapse \in BOOLEAN : Carried(worker[w].at, collapse)
      BY <1>2 DEF Apply, MayKeepBoth
    <2> QED BY <2>1, <2>2
  <1>3. ASSUME NEW c \in Candidates, ReviewStep(c)
        PROVE  UNCHANGED <<spent, facts>> \/ \E collapse \in BOOLEAN : Carried(c, collapse)
    BY <1>3 DEF ReviewStep, Review, Reject, RetryClears, RetryLost, MayKeepBoth, notes
  <1>4. ASSUME NEW w \in Workers, WorkerStep(w)
        PROVE  UNCHANGED <<spent, facts>> \/ Apply(w)
    BY <1>4 DEF WorkerStep, TickStarts, Enter, Enters, DismissRetired, LastEnds, TickEnds,
         Skip, Take, Check, LeaseLost, Generate, Judge, Insert, Propose, Dismiss,
         RetireOlder, Close, notes
  <1>5. ASSUME NEW w \in Workers,
               \/ StopStep(w) \/ Yield(w) \/ StepFails(w) \/ GenerateFails(w) \/ Stop(w)
               \/ Crash(w) \/ \E posture \in Postures[w] : Start(w, posture)
        PROVE  UNCHANGED <<spent, facts>>
    BY <1>5 DEF StopStep, StopCloses, StopReleases, Exit, Leaves, Yield, StepFails,
         GenerateFails, Stop, Crash, Start, notes
  <1>6. ASSUME LeaseLapses \/ (\E c \in Candidates : RetryReopens(c))
                 \/ \E n \in Written : Turns(n)
        PROVE  UNCHANGED <<spent, facts>>
    BY <1>6 DEF LeaseLapses, RetryReopens, Turns, notes
  <1>7. CASE UNCHANGED vars BY <1>7 DEF vars, notes
  <1>8. CASE Next BY <1>1, <1>2, <1>3, <1>4, <1>5, <1>6, <1>8 DEF Next
  <1> QED BY <1>7, <1>8

LEMMA CountStep ==
    ASSUME TypeOK, SourcesDistilledOnce, [Next]_vars PROVE SourcesDistilledOnce'
  <1>1. CASE UNCHANGED <<spent, facts>> BY <1>1 DEF SourcesDistilledOnce
  <1>2. ASSUME NEW c \in Candidates, NEW collapse \in BOOLEAN,
               Stands(c), Effect(c, collapse)
        PROVE  SourcesDistilledOnce'
    <2>1. CASE Kind(c) # "distill" BY <1>2, <2>1 DEF Effect, SourcesDistilledOnce
    <2>2. CASE Kind(c) = "distill"
      <3>1. Members(c) \cap spent = {} BY <1>2, <2>2 DEF Stands
      <3>2. /\ spent' = spent \cup Members(c)
            /\ facts' = [e \in Episodes |-> facts[e] + IF e \in Members(c) THEN 1 ELSE 0]
        BY <1>2, <2>2 DEF Effect
      <3>3. ASSUME NEW e \in Episodes
            PROVE  facts'[e] = IF e \in spent' THEN 1 ELSE 0
        <4>1. facts[e] = IF e \in spent THEN 1 ELSE 0 BY DEF SourcesDistilledOnce
        <4>2. facts'[e] = facts[e] + IF e \in Members(c) THEN 1 ELSE 0 BY <3>2
        <4>3. CASE e \in Members(c)
          <5>1. e \notin spent /\ e \in spent' BY <3>1, <3>2, <4>3
          <5> QED BY <4>1, <4>2, <4>3, <5>1
        <4>4. CASE e \notin Members(c)
          <5>1. e \in spent' <=> e \in spent BY <3>2, <4>4
          <5> QED BY <4>1, <4>2, <4>4, <5>1
        <4> QED BY <4>3, <4>4
      <3> QED BY <3>3 DEF SourcesDistilledOnce
    <2> QED BY <2>1, <2>2
  <1> QED BY <1>1, <1>2, NotesStep

(* However many clusters share an episode, and whoever settles them or       *)
(* retries them, it goes into one fact at most (applyDistillation).          *)
THEOREM DistilledOnce == Spec => []SourcesDistilledOnce
  <1>1. Init => SourcesDistilledOnce BY DEF Init, SourcesDistilledOnce
  <1> QED BY <1>1, InitType, StepType, CountStep, PTL DEF Spec

-----------------------------------------------------------------------------
(* A verdict stands *)

Stays(c) == cand[c].status \in Settled /\ cand'[c].status # cand[c].status => c \in retrying

LEMMA ResolvedStays ==
    ASSUME TypeOK, NEW d, NEW status, Resolved(d, status), NEW c \in Candidates
    PROVE  Stays(c)
  BY DEF TypeOK, RowType, Resolved, Pending, Settled, Stays

LEMMA CarriedStays ==
    ASSUME TypeOK, NEW d, NEW collapse, Carried(d, collapse), NEW c \in Candidates
    PROVE  Stays(c)
  <1>1. CASE cand' = cand BY <1>1 DEF Stays
  <1>2. CASE Resolved(d, "applied") \/ Resolved(d, "dismissed") BY <1>2, ResolvedStays
  <1> QED BY <1>1, <1>2 DEF Carried

LEMMA VerdictStep == ASSUME TypeOK, [Next]_vars, NEW c \in Candidates PROVE Stays(c)
  <1>1. CASE cand' = cand BY <1>1 DEF Stays
  <1>2. \A d \in Candidates : cand[d] \in RowType BY DEF TypeOK
  <1>3. ASSUME NEW w \in Workers, WorkerStep(w) PROVE Stays(c)
    <2>1. CASE DismissRetired(w)
      <3>1. cand'[c] = IF Pending(c) /\ Retired(c)
                       THEN [cand[c] EXCEPT !.status = "dismissed"] ELSE cand[c]
        BY <2>1 DEF DismissRetired
      <3> QED BY <3>1 DEF Stays, Pending, Settled
    <2>2. CASE Insert(w)
      <3>1. PICK n : cand' = IF cand[worker[w].at].status = "absent"
                     THEN [cand EXCEPT ![worker[w].at] = [status |-> "pending", winner |-> n,
                                                          draft |-> worker[w].draft]]
                     ELSE cand
        BY <2>2 DEF Insert
      <3> QED BY <1>1, <3>1 DEF Stays, Settled, TypeOK
    <2>3. CASE Propose(w)
      <3>1. cand'[c].status = cand[c].status BY <1>2, <2>3 DEF Propose, TypeOK, RowType
      <3> QED BY <3>1 DEF Stays
    <2>4. CASE Dismiss(w) BY <2>4, ResolvedStays DEF Dismiss
    <2>5. CASE Close(w) BY <2>5, ResolvedStays DEF Close
    <2>6. CASE Apply(w) BY <2>6, CarriedStays DEF Apply
    <2>7. CASE cand' = cand BY <1>1, <2>7
    <2> QED BY <1>3, <2>1, <2>2, <2>3, <2>4, <2>5, <2>6, <2>7
      DEF WorkerStep, TickStarts, Enter, LastEnds, TickEnds, Skip, Take, Check, LeaseLost,
          Generate, Judge, RetireOlder
  <1>4. ASSUME NEW d \in Candidates, ReviewStep(d) \/ RetryReopens(d) PROVE Stays(c)
    <2>1. ASSUME NEW collapse, Review(d, collapse) PROVE Stays(c)
      BY <2>1, CarriedStays DEF Review
    <2>2. CASE Reject(d) BY <2>2, ResolvedStays DEF Reject
    <2>3. CASE RetryClears(d)
      <3>1. cand'[c].status = cand[c].status BY <1>2, <2>3 DEF RetryClears, TypeOK, RowType
      <3> QED BY <3>1 DEF Stays
    <2>4. CASE RetryReopens(d)
      <3>1. c # d => cand'[c] = cand[c] BY <2>4 DEF RetryReopens, TypeOK
      <3> QED BY <2>4, <3>1 DEF RetryReopens, Stays
    <2>5. CASE RetryLost(d) BY <1>1, <2>5 DEF RetryLost
    <2> QED BY <1>4, <2>1, <2>2, <2>3, <2>4, <2>5 DEF ReviewStep
  <1>5. ASSUME NEW w \in Workers,
               \/ StopStep(w) \/ Yield(w) \/ StepFails(w) \/ GenerateFails(w) \/ Stop(w)
               \/ Crash(w) \/ \E posture \in Postures[w] : Start(w, posture)
        PROVE  cand' = cand
    BY <1>5 DEF StopStep, StopCloses, StopReleases, Exit, Leaves, Yield, StepFails,
         GenerateFails, Stop, Crash, Start
  <1>6. ASSUME LeaseLapses \/ \E n \in Written : Turns(n) PROVE cand' = cand
    BY <1>6 DEF LeaseLapses, Turns
  <1>7. CASE UNCHANGED vars BY <1>1, <1>7 DEF vars
  <1>8. CASE Next BY <1>1, <1>3, <1>4, <1>5, <1>6, <1>8 DEF Next
  <1> QED BY <1>7, <1>8

(* No worker and no reviewer changes a verdict that was not reopened, though *)
(* all of them act on candidates they read some time ago.                    *)
THEOREM VerdictsStand == Spec => SettledKeepsItsVerdict
  <1>1. TypeOK /\ [Next]_vars =>
          [\A c \in Candidates :
             cand[c].status \in Settled /\ cand'[c].status # cand[c].status
               => c \in retrying]_vars
    BY VerdictStep DEF Stays
  <1> QED BY <1>1, TypeCorrect, PTL DEF Spec, SettledKeepsItsVerdict

-----------------------------------------------------------------------------
(* A closed run stays closed *)

RunStays(r) == runs[r] \in Closed => runs'[r] = runs[r] \/ (~InUse(r) /\ runs'[r] = "none")

LEMMA ReportedStays ==
    ASSUME TypeOK, NEW q, NEW state, Reported(q, state), NEW r \in Runs PROVE RunStays(r)
  <1>1. CASE q = r /\ runs[r] \in Closed BY <1>1 DEF Reported, RunStays
  <1>2. CASE q # r BY <1>2 DEF Reported, RunStays, TypeOK
  <1> QED BY <1>1, <1>2 DEF RunStays

LEMMA RunsStep == ASSUME TypeOK, [Next]_vars, NEW r \in Runs PROVE RunStays(r)
  <1>1. CASE runs' = runs BY <1>1 DEF RunStays
  <1>2. runs \in [Runs -> Closed \cup {"none", "open"}] BY DEF TypeOK
  <1>3. ASSUME NEW w \in Workers, WorkerStep(w) PROVE RunStays(r)
    <2>1. CASE TickStarts(w)
      <3>1. PICK q \in FreeRuns : runs' = [runs EXCEPT ![q] = "none"] BY <2>1 DEF TickStarts
      <3>2. CASE q = r BY <1>2, <3>1, <3>2 DEF FreeRuns, RunStays
      <3>3. CASE q # r BY <1>2, <3>1, <3>3 DEF RunStays
      <3> QED BY <3>2, <3>3
    <2>2. CASE Enter(w) \/ DismissRetired(w) \/ TickEnds(w)
      BY <2>2, ReportedStays DEF Enter, DismissRetired, Enters, TickEnds
    <2>3. CASE runs' = runs BY <1>1, <2>3
    <2> QED BY <1>3, <2>1, <2>2, <2>3
      DEF WorkerStep, LastEnds, Skip, Take, Check, LeaseLost, Generate, Judge, Insert,
          Propose, Dismiss, Apply, RetireOlder, Close
  <1>4. ASSUME NEW w \in Workers, StopStep(w) PROVE RunStays(r)
    <2>1. CASE StopCloses(w)
      <3>1. runs[r] # "open" => runs'[r] = runs[r] BY <2>1 DEF StopCloses
      <3> QED BY <3>1 DEF RunStays, Closed
    <2> QED BY <1>1, <1>4, <2>1 DEF StopStep, StopReleases, Exit, Leaves
  <1>5. ASSUME NEW w \in Workers, NEW posture, Start(w, posture) PROVE RunStays(r)
    <2>1. runs[r] # "open" => runs'[r] = runs[r] BY <1>5 DEF Start, RunsAtStart
    <2> QED BY <2>1 DEF RunStays, Closed
  <1>6. ASSUME NEW w \in Workers,
               Yield(w) \/ StepFails(w) \/ GenerateFails(w) \/ Stop(w) \/ Crash(w)
        PROVE  runs' = runs
    BY <1>6 DEF Leaves, Yield, StepFails, GenerateFails, Stop, Crash
  <1>7. ASSUME \/ LeaseLapses
               \/ \E c \in Candidates : ReviewStep(c) \/ RetryReopens(c)
               \/ \E n \in Written : Turns(n)
        PROVE  runs' = runs
    BY <1>7 DEF LeaseLapses, Turns, ReviewStep, Review, Reject, RetryClears, RetryLost,
         RetryReopens
  <1>8. CASE UNCHANGED vars BY <1>1, <1>8 DEF vars
  <1>9. CASE Next BY <1>1, <1>3, <1>4, <1>5, <1>6, <1>7, <1>9 DEF Next
  <1> QED BY <1>8, <1>9

(* Whoever closes a run first names why: no later report of the tick that    *)
(* opened it, stopped or taken for abandoned, changes the row.               *)
THEOREM RunsStayClosed == Spec => ClosedRunsStay
  <1>1. TypeOK /\ [Next]_vars =>
          [\A r \in Runs :
             runs[r] \in Closed => \/ runs'[r] = runs[r]
                                  \/ (~InUse(r) /\ runs'[r] = "none")]_vars
    BY RunsStep DEF RunStays
  <1> QED BY <1>1, TypeCorrect, PTL DEF Spec, ClosedRunsStay

-----------------------------------------------------------------------------
(* A released lease stays released *)

LEMMA LeaseStep ==
    ASSUME TypeOK, ReleasedStaysReleased, [Next]_vars PROVE ReleasedStaysReleased'
  <1>1. worker \in [Workers -> WorkerType] BY DEF TypeOK
  <1>2. None \notin Workers /\ Gone \notin Workers BY ConsolidationAssumption
  <1> DEFINE Kept(w) == worker'[w].stop = worker[w].stop
  <1>3. ASSUME NEW w \in Workers, NEW x, Becomes(w, x), x.stop = worker[w].stop
        PROVE  \A v \in Workers : Kept(v)
    BY <1>1, <1>3 DEF Becomes
  <1>4. ASSUME \A v \in Workers : Kept(v), lease' = lease PROVE ReleasedStaysReleased'
    BY <1>4 DEF ReleasedStaysReleased
  <1>5. ASSUME \A v \in Workers : Kept(v), NEW w \in Workers, Holds(w)
        PROVE  ReleasedStaysReleased'
    BY <1>5 DEF ReleasedStaysReleased, Holds, MayHold
  <1>6. ASSUME NEW w \in Workers, NEW pc, NEW todo, NEW at, NEW draft,
               Goes(w, pc, todo, at, draft)
        PROVE  \A v \in Workers : Kept(v)
    <2> DEFINE x == [worker[w] EXCEPT !.pc = pc, !.todo = todo, !.at = at, !.draft = draft]
    <2>1. x.stop = worker[w].stop BY <1>1 DEF WorkerType
    <2>2. Becomes(w, x) BY <1>6 DEF Goes
    <2> HIDE DEF x
    <2> QED BY <1>3, <2>1, <2>2
  <1>7. ASSUME NEW w \in Workers, Back(w) \/ \E pc, draft : Hands(w, pc, draft)
        PROVE  \A v \in Workers : Kept(v)
    BY <1>6, <1>7 DEF Back, Hands
  <1>8. ASSUME NEW w \in Workers, TickStarts(w) PROVE ReleasedStaysReleased'
    <2>1. PICK r : Becomes(w, [worker[w] EXCEPT !.pc = "each", !.run = r, !.stage = "start"])
      BY <1>8 DEF TickStarts
    <2> DEFINE x == [worker[w] EXCEPT !.pc = "each", !.run = r, !.stage = "start"]
    <2>2. x.stop = worker[w].stop BY <1>1 DEF WorkerType
    <2>3. Becomes(w, x) BY <2>1
    <2> HIDE DEF x
    <2>4. \A v \in Workers : Kept(v) BY <1>3, <2>2, <2>3
    <2> QED BY <1>5, <1>8, <2>4 DEF TickStarts
  <1>9. ASSUME NEW w \in Workers, Enter(w) \/ DismissRetired(w) PROVE ReleasedStaysReleased'
    <2>1. PICK stage : Enters(w, stage) BY <1>9 DEF Enter, DismissRetired
    <2> DEFINE todo == Listed(w, stage)
               x == [worker[w] EXCEPT !.stage = stage, !.todo = todo]
    <2>2. Becomes(w, x) /\ lease' = lease BY <2>1 DEF Enters
    <2> HIDE DEF todo
    <2>3. x.stop = worker[w].stop BY <1>1 DEF WorkerType
    <2> HIDE DEF x
    <2> QED BY <1>3, <1>4, <2>2, <2>3
  <1>10. ASSUME NEW w \in Workers, LastEnds(w) \/ Yield(w) PROVE ReleasedStaysReleased'
    <2> DEFINE x == [worker[w] EXCEPT !.pc = "finish", !.stage = "none"]
    <2>1. x.stop = worker[w].stop BY <1>1 DEF WorkerType
    <2>2. Becomes(w, x) /\ lease' = lease BY <1>10 DEF LastEnds, Yield, Finishes
    <2> HIDE DEF x
    <2> QED BY <1>3, <1>4, <2>1, <2>2
  <1>11. ASSUME NEW w \in Workers, StepFails(w) PROVE ReleasedStaysReleased'
    <2> DEFINE x == [worker[w] EXCEPT !.pc = "failed", !.stage = "none", !.todo = {},
                                      !.at = None, !.draft = "none"]
    <2>1. x.stop = worker[w].stop BY <1>1 DEF WorkerType
    <2>2. Becomes(w, x) /\ lease' = lease BY <1>11 DEF StepFails
    <2> HIDE DEF x
    <2> QED BY <1>3, <1>4, <2>1, <2>2
  <1>12. ASSUME NEW w \in Workers, TickEnds(w) PROVE ReleasedStaysReleased'
    <2> DEFINE x == [worker[w] EXCEPT !.pc = "idle", !.run = None]
    <2>1. x.stop = worker[w].stop BY <1>1 DEF WorkerType
    <2>2. Becomes(w, x) /\ lease' = lease BY <1>12 DEF TickEnds
    <2> HIDE DEF x
    <2> QED BY <1>3, <1>4, <2>1, <2>2
  <1>13. ASSUME NEW w \in Workers, NEW x \in worker[w].todo, Take(w, x)
         PROVE  ReleasedStaysReleased'
    <2>1. \E pc, todo, at, draft : Goes(w, pc, todo, at, draft) BY <1>13, Zenon DEF Take
    <2>2. Holds(w) BY <1>13 DEF Take
    <2> QED BY <1>5, <1>6, <2>1, <2>2
  <1>14. ASSUME NEW w \in Workers, NEW x \in worker[w].todo, Skip(w, x) \/ Check(w, x)
         PROVE  ReleasedStaysReleased'
    <2>1. \E pc, todo, at, draft : Goes(w, pc, todo, at, draft)
      BY <1>14, Zenon DEF Skip, Check
    <2>2. lease' = lease BY <1>14 DEF Skip, Check
    <2> QED BY <1>4, <1>6, <2>1, <2>2
  <1>15. ASSUME NEW w \in Workers, LeaseLost(w) PROVE ReleasedStaysReleased'
    BY <1>4, <1>6, <1>15 DEF LeaseLost
  <1>16. ASSUME NEW w \in Workers,
                \/ \E draft \in Drafts : Generate(w, draft)
                \/ GenerateFails(w) \/ Judge(w) \/ Insert(w) \/ Propose(w) \/ Dismiss(w)
                \/ Apply(w) \/ RetireOlder(w) \/ Close(w)
         PROVE  ReleasedStaysReleased'
    <2>1. Back(w) \/ \E pc, draft : Hands(w, pc, draft)
      BY <1>16 DEF Generate, GenerateFails, Judge, Insert, Propose, Dismiss, Apply,
           RetireOlder, Close
    <2>2. lease' = lease
      BY <1>16 DEF Generate, GenerateFails, Judge, Insert, Propose, Dismiss, Apply,
           RetireOlder, Close
    <2> QED BY <1>4, <1>7, <2>1, <2>2
  <1>17. ASSUME NEW w \in Workers, NEW posture, Start(w, posture) PROVE ReleasedStaysReleased'
    <2> DEFINE x == [worker[w] EXCEPT !.pc = "idle", !.posture = posture]
    <2>1. x.stop = worker[w].stop BY <1>1 DEF WorkerType
    <2>2. Becomes(w, x) /\ lease' = lease BY <1>17 DEF Start
    <2> HIDE DEF x
    <2> QED BY <1>3, <1>4, <2>1, <2>2
  <1>18. ASSUME NEW w \in Workers, NEW x, Becomes(w, x), x.stop # "exit", lease' = lease
         PROVE  ReleasedStaysReleased'
    <2>1. worker'[w] = x /\ \A v \in Workers \ {w} : worker'[v] = worker[v]
      BY <1>1, <1>18 DEF Becomes
    <2> QED BY <1>18, <2>1 DEF ReleasedStaysReleased
  <1>19. ASSUME NEW w \in Workers, Stop(w) \/ StopCloses(w) PROVE ReleasedStaysReleased'
    <2>1. CASE Stop(w)
      <3> DEFINE x == [worker[w] EXCEPT !.stop = "close", !.abandoned = worker[w].run]
      <3>1. x.stop = "close" BY <1>1 DEF WorkerType
      <3>2. Becomes(w, x) /\ lease' = lease BY <2>1 DEF Stop
      <3> HIDE DEF x
      <3> QED BY <1>18, <3>1, <3>2
    <2>2. CASE StopCloses(w)
      <3> DEFINE x == [worker[w] EXCEPT !.stop = "release", !.abandoned = None]
      <3>1. x.stop = "release" BY <1>1 DEF WorkerType
      <3>2. Becomes(w, x) /\ lease' = lease BY <2>2 DEF StopCloses
      <3> HIDE DEF x
      <3> QED BY <1>18, <3>1, <3>2
    <2> QED BY <1>19, <2>1, <2>2
  <1>20. ASSUME NEW w \in Workers, StopReleases(w) PROVE ReleasedStaysReleased'
    <2>1. \A v \in Workers \ {w} : worker'[v] = worker[v]
      BY <1>1, <1>20 DEF StopReleases, Becomes
    <2>2. lease'.owner # w /\ (lease'.owner = None \/ lease' = lease)
      BY <1>2, <1>20 DEF StopReleases
    <2> QED BY <1>2, <2>1, <2>2 DEF ReleasedStaysReleased
  <1>21. ASSUME NEW w \in Workers, Leaves(w) PROVE ReleasedStaysReleased'
    <2>1. worker'[w].stop = "no" /\ \A v \in Workers \ {w} : worker'[v] = worker[v]
      BY <1>1, <1>21 DEF Leaves, Becomes, Off
    <2>2. lease'.owner \in {lease.owner, Gone}
      BY <1>21 DEF Leaves, TypeOK
    <2> QED BY <1>2, <2>1, <2>2 DEF ReleasedStaysReleased
  <1>22. ASSUME worker' = worker, lease'.owner = lease.owner PROVE ReleasedStaysReleased'
    BY <1>22 DEF ReleasedStaysReleased
  <1>23. CASE LeaseLapses
    <2>1. lease'.owner = lease.owner BY <1>23 DEF LeaseLapses, TypeOK
    <2> QED BY <1>22, <1>23, <2>1 DEF LeaseLapses
  <1>24. ASSUME \/ \E c \in Candidates : ReviewStep(c) \/ RetryReopens(c)
                \/ \E n \in Written : Turns(n)
         PROVE  ReleasedStaysReleased'
    <2>1. worker' = worker /\ lease' = lease
      BY <1>24 DEF Turns, ReviewStep, Review, Reject, RetryClears, RetryLost, RetryReopens
    <2> QED BY <1>22, <2>1
  <1>25. CASE UNCHANGED vars BY <1>22, <1>25 DEF vars
  <1>26. ASSUME NEW w \in Workers, WorkerStep(w) PROVE ReleasedStaysReleased'
    BY <1>8, <1>9, <1>10, <1>12, <1>13, <1>14, <1>15, <1>16, <1>26 DEF WorkerStep
  <1>27. ASSUME NEW w \in Workers, StopStep(w) \/ Crash(w) PROVE ReleasedStaysReleased'
    BY <1>19, <1>20, <1>21, <1>27 DEF StopStep, Exit, Crash
  <1>28. CASE Next
    BY <1>10, <1>11, <1>16, <1>17, <1>19, <1>23, <1>24, <1>26, <1>27, <1>28 DEF Next
  <1> QED BY <1>25, <1>28

(* A stopped worker never holds the lease again, though its tick is still in *)
(* flight and asks for it (stop shuts the gate first).                       *)
THEOREM LeaseStaysReleased == Spec => []ReleasedStaysReleased
  <1>1. Init => ReleasedStaysReleased BY DEF Init, Off, ReleasedStaysReleased
  <1> QED BY <1>1, InitType, StepType, LeaseStep, PTL DEF Spec
=============================================================================
