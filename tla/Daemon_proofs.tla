---------------------------- MODULE Daemon_proofs ----------------------------
(* Proofs about the daemon: its process (DaemonLifecycle), for any number of strays, ends and  *)
(* silences of launchctl, and its threads (WorkerPools), for any number of calls, slots and    *)
(* deaths.                                                                                     *)
EXTENDS DaemonLifecycle, WorkerPools, FiniteSetTheorems, WellFoundedInduction, TLAPS

(* What was not started has done nothing, and launchd supervises only what was started. *)
UnbornIsBlank ==
    /\ \A p \in Pids : phase[p] = "unborn" <=> p > started
    /\ \A p \in Pids : phase[p] \in {"unborn", "asking"} => answer[p] = None /\ p \notin yields
    /\ managed # None => managed <= started

(* Who was told that it is launchd's own still is: launchd replaces it only once it is gone. *)
ToldIsManaged ==
    /\ \A p \in Pids : Runs(p) /\ answer[p] = p => managed = p
    /\ \A p \in Pids : phase[p] = "waiting" => answer[p] = p

(* Who was told of another was told of a process that had been started. *)
YieldsToAnother ==
    \A p \in yields : answer[p] \in Pids \ {p} /\ phase[answer[p]] # "unborn"

(* The inductive invariant of StraysYield. *)
YieldInv == TypeOK /\ UnbornIsBlank /\ ToldIsManaged /\ YieldsToAnother /\ StraysYield

Owning == {"claimed", "published", "binding", "working", "stopped", "retired"}

(* Unless two starts overlapped: one process has decided to claim and not left; once it has      *)
(* written the pid file, that names it; a path it found free is free, and one it bound is its.   *)
OneOwner ==
    /\ \A p, q \in Pids : phase[p] \in Owning \cup {"starting"}
                          /\ phase[q] \in Owning \cup {"starting"} => p = q
    /\ \A p \in Pids : phase[p] \in Owning => pidfile = p
    /\ \A p \in Pids : phase[p] = "binding" /\ ~seen[p] => bound = None
    /\ \A p \in Pids : phase[p] = "working" => bound = p

(* The inductive invariant of AloneUnlessRaced and OwnerIsFound. *)
OwnerInv == TypeOK /\ (raced \/ OneOwner)

LEMMA PidsAreNat == Pids \subseteq Nat /\ None \notin Pids
BY BoundsAssumption DEF Pids

----------------------------------------------------------------------------
(* Types *)

LEMMA InitTypeOK == Init => TypeOK
<1> SUFFICES ASSUME Init PROVE TypeOK
  OBVIOUS
<1>1. phase \in [Pids -> Phases]
  BY DEF Init, Phases
<1>2. answer \in [Pids -> Pids \cup {None}] /\ seen \in [Pids -> BOOLEAN]
  BY DEF Init
<1>3. started \in 0 .. MaxStrays + MaxEnds + MaxSilences + 1 /\ strays \in 0 .. MaxStrays
  BY BoundsAssumption DEF Init
<1>4. ended \in 0 .. MaxEnds /\ silent \in 0 .. MaxSilences /\ reused \in 0 .. MaxReuses
  BY BoundsAssumption DEF Init
<1>5. /\ managed \in Pids \cup {None} /\ pidfile \in Pids \cup {None} /\ bound \in Pids \cup {None}
      /\ listens \subseteq Pids /\ registry \subseteq Pids /\ yields \subseteq Pids
      /\ foreign \subseteq Pids /\ raced \in BOOLEAN
  BY DEF Init
<1> QED
  BY <1>1, <1>2, <1>3, <1>4, <1>5 DEF TypeOK

LEMMA StepTypeOK == TypeOK /\ [Next]_vars => TypeOK'
<1> SUFFICES ASSUME TypeOK, [Next]_vars PROVE TypeOK'
  OBVIOUS
<1>1. CASE LaunchdStarts
  BY <1>1, BoundsAssumption DEF TypeOK, LaunchdStarts, Begin, Moves, Pids, Phases
<1>2. CASE StrayStarts
  BY <1>2, BoundsAssumption DEF TypeOK, StrayStarts, Begin, Moves, Pids, Phases
<1>3. ASSUME NEW p \in Pids, AskLaunchd(p) PROVE TypeOK'
  BY <1>3, BoundsAssumption DEF TypeOK, AskLaunchd, Moves, Phases
<1>4. ASSUME NEW p \in Pids, FindsFree(p) \/ TakesOver(p) PROVE TypeOK'
  BY <1>4, BoundsAssumption DEF TypeOK, FindsFree, TakesOver, Claims, Moves, Phases
<1>5. ASSUME NEW p \in Pids, FindsOwner(p) PROVE TypeOK'
  <2>1. CASE StepsAside(p)
    BY <1>5, <2>1, BoundsAssumption DEF TypeOK, FindsOwner, Exits, Phases
  <2>2. CASE ~StepsAside(p)
    BY <1>5, <2>2, BoundsAssumption DEF TypeOK, FindsOwner, Moves, Phases
  <2> QED BY <2>1, <2>2
<1>6. ASSUME NEW p \in Pids, WritePid(p) PROVE TypeOK'
  BY <1>6, BoundsAssumption DEF TypeOK, WritePid, Moves, Phases
<1>7. ASSUME NEW p \in Pids, Publish(p) PROVE TypeOK'
  BY <1>7, BoundsAssumption DEF TypeOK, Publish, SweptDead, Moves, Phases
<1>8. ASSUME NEW p \in Pids, LookAtSocket(p) PROVE TypeOK'
  BY <1>8, BoundsAssumption DEF TypeOK, LookAtSocket, Moves, Phases
<1>9. ASSUME NEW p \in Pids, BindSocket(p) PROVE TypeOK'
  BY <1>9, BoundsAssumption DEF TypeOK, BindSocket, Moves, Phases
<1>10. ASSUME NEW p \in Pids, Stop(p) PROVE TypeOK'
  BY <1>10, BoundsAssumption DEF TypeOK, Stop, StopsServing, Moves, Phases
<1>11. ASSUME NEW p \in Pids, Retire(p) PROVE TypeOK'
  BY <1>11, BoundsAssumption DEF TypeOK, Retire, Moves, Phases
<1>12. ASSUME NEW p \in Pids, ClearAndExit(p) PROVE TypeOK'
  BY <1>12, BoundsAssumption DEF TypeOK, ClearAndExit, Exits, Phases
<1>13. ASSUME NEW p \in Pids, Crash(p) PROVE TypeOK'
  BY <1>13, BoundsAssumption DEF TypeOK, Crash, Exits, Phases
<1>14. CASE UNCHANGED vars
  BY <1>14 DEF TypeOK, vars
<1>15. ASSUME NEW p \in Pids, Reuse(p) \/ ForeignEnds(p) PROVE TypeOK'
  BY <1>15, BoundsAssumption DEF TypeOK, Reuse, ForeignEnds
<1> QED
  BY <1>1, <1>2, <1>3, <1>4, <1>5, <1>6, <1>7, <1>8, <1>9, <1>10, <1>11, <1>12, <1>13, <1>14, <1>15
     DEF Next, Proceeds

(* Every variable has its type, and pids stay within those there are. *)
THEOREM TypeCorrect == Spec => []TypeOK
<1> QED BY InitTypeOK, StepTypeOK, PTL DEF Spec

----------------------------------------------------------------------------
(* The list of processes *)

LEMMA StepListed == TypeOK /\ LivingAreListed /\ [Next]_vars => LivingAreListed'
<1> SUFFICES ASSUME TypeOK, LivingAreListed, [Next]_vars PROVE LivingAreListed'
  OBVIOUS
<1>1. CASE LaunchdStarts \/ StrayStarts
  BY <1>1 DEF TypeOK, LivingAreListed, LaunchdStarts, StrayStarts, Begin, Moves
<1>2. ASSUME NEW p \in Pids, AskLaunchd(p) PROVE LivingAreListed'
  BY <1>2 DEF TypeOK, LivingAreListed, AskLaunchd, Moves
<1>3. ASSUME NEW p \in Pids, FindsFree(p) \/ TakesOver(p) PROVE LivingAreListed'
  BY <1>3 DEF TypeOK, LivingAreListed, FindsFree, TakesOver, Claims, Moves
<1>4. ASSUME NEW p \in Pids, FindsOwner(p) PROVE LivingAreListed'
  BY <1>4 DEF TypeOK, LivingAreListed, FindsOwner, Exits, Moves
<1>5. ASSUME NEW p \in Pids, WritePid(p) \/ BindSocket(p) PROVE LivingAreListed'
  BY <1>5 DEF TypeOK, LivingAreListed, WritePid, BindSocket, Moves
<1>6. ASSUME NEW p \in Pids, Publish(p) PROVE LivingAreListed'
  BY <1>6 DEF TypeOK, LivingAreListed, Publish, SweptDead, IsAlive, Runs, Moves
<1>7. ASSUME NEW p \in Pids, LookAtSocket(p) PROVE LivingAreListed'
  BY <1>7 DEF TypeOK, LivingAreListed, LookAtSocket, Moves
<1>8. ASSUME NEW p \in Pids, Stop(p) PROVE LivingAreListed'
  BY <1>8 DEF TypeOK, LivingAreListed, Stop, Moves
<1>9. ASSUME NEW p \in Pids, Retire(p) PROVE LivingAreListed'
  BY <1>9 DEF TypeOK, LivingAreListed, Retire, Moves
<1>10. ASSUME NEW p \in Pids, ClearAndExit(p) \/ Crash(p) PROVE LivingAreListed'
  BY <1>10 DEF TypeOK, LivingAreListed, ClearAndExit, Crash, Exits
<1>11. CASE UNCHANGED vars
  BY <1>11 DEF LivingAreListed, vars
<1>12. ASSUME NEW p \in Pids, Reuse(p) \/ ForeignEnds(p) PROVE LivingAreListed'
  BY <1>12 DEF LivingAreListed, Reuse, ForeignEnds
<1> QED
  BY <1>1, <1>2, <1>3, <1>4, <1>5, <1>6, <1>7, <1>8, <1>9, <1>10, <1>11, <1>12 DEF Next, Proceeds

(* A daemon that published itself and still runs is in the list of processes, whatever raced:  *)
(* the sweep of another start removes only rows whose process is gone.                         *)
THEOREM LiveDaemonsAreListed == Spec => []LivingAreListed
<1>1. Init => LivingAreListed
  BY DEF Init, LivingAreListed
<1> QED BY <1>1, InitTypeOK, StepTypeOK, StepListed, PTL DEF Spec

----------------------------------------------------------------------------
(* Strays make way *)

LEMMA StepYield == YieldInv /\ [Next]_vars => YieldInv'
<1> SUFFICES ASSUME YieldInv, [Next]_vars PROVE YieldInv'
  OBVIOUS
<1>0. TypeOK' /\ TypeOK
  BY StepTypeOK DEF YieldInv
<1>1. CASE LaunchdStarts
  <2>1. started + 1 \in Pids /\ phase[started + 1] = "unborn" /\ started' = started + 1
    BY <1>1 DEF LaunchdStarts, Begin, Moves
  <2>2. phase' = [phase EXCEPT ![started + 1] = "asking"] /\ managed' = started + 1
    BY <1>1 DEF LaunchdStarts, Begin, Moves
  <2>3. UNCHANGED <<answer, yields>> /\ ~Runs(managed)
    BY <1>1 DEF LaunchdStarts
  <2>4. UnbornIsBlank'
    BY <1>0, <2>1, <2>2, <2>3, PidsAreNat DEF YieldInv, UnbornIsBlank, TypeOK
  <2>5. ToldIsManaged'
    BY <1>0, <2>1, <2>2, <2>3, PidsAreNat DEF YieldInv, UnbornIsBlank, ToldIsManaged, Runs, TypeOK
  <2>6. YieldsToAnother'
    BY <1>0, <2>1, <2>2, <2>3, PidsAreNat DEF YieldInv, YieldsToAnother, TypeOK
  <2>7. StraysYield'
    BY <1>0, <2>1, <2>2, <2>3, PidsAreNat
       DEF YieldInv, UnbornIsBlank, ToldIsManaged, YieldsToAnother, StraysYield, Runs, TypeOK
  <2> QED BY <1>0, <2>4, <2>5, <2>6, <2>7 DEF YieldInv
<1>2. CASE StrayStarts
  <2>1. started + 1 \in Pids /\ phase[started + 1] = "unborn" /\ started' = started + 1
    BY <1>2 DEF StrayStarts, Begin, Moves
  <2>2. phase' = [phase EXCEPT ![started + 1] = "asking"]
    BY <1>2 DEF StrayStarts, Begin, Moves
  <2>3. UNCHANGED <<managed, answer, yields>>
    BY <1>2 DEF StrayStarts
  <2>4. UnbornIsBlank'
    BY <1>0, <2>1, <2>2, <2>3, PidsAreNat DEF YieldInv, UnbornIsBlank, TypeOK
  <2>5. ToldIsManaged'
    BY <1>0, <2>1, <2>2, <2>3, PidsAreNat DEF YieldInv, UnbornIsBlank, ToldIsManaged, Runs, TypeOK
  <2>6. YieldsToAnother'
    BY <1>0, <2>1, <2>2, <2>3, PidsAreNat DEF YieldInv, YieldsToAnother, TypeOK
  <2>7. StraysYield'
    BY <1>0, <2>1, <2>2, <2>3, PidsAreNat
       DEF YieldInv, UnbornIsBlank, ToldIsManaged, YieldsToAnother, StraysYield, Runs, TypeOK
  <2> QED BY <1>0, <2>4, <2>5, <2>6, <2>7 DEF YieldInv
<1>3. ASSUME NEW p \in Pids, AskLaunchd(p) PROVE YieldInv'
  <2>1. phase[p] = "asking" /\ phase' = [phase EXCEPT ![p] = "looking"] /\ UNCHANGED <<started, managed>>
    BY <1>3 DEF AskLaunchd, Moves
  <2>2. \/ /\ answer' = [answer EXCEPT ![p] = IF Runs(managed) THEN managed ELSE None]
           /\ yields' = IF managed # p /\ Runs(managed) THEN yields \cup {p} ELSE yields
        \/ UNCHANGED <<answer, yields>>
    BY <1>3 DEF AskLaunchd
  <2>3. UnbornIsBlank'
    BY <1>0, <2>1, <2>2, PidsAreNat DEF YieldInv, UnbornIsBlank, TypeOK
  <2>4. ToldIsManaged'
    BY <1>0, <2>1, <2>2, PidsAreNat DEF YieldInv, ToldIsManaged, Runs, TypeOK
  <2>5. YieldsToAnother'
    BY <1>0, <2>1, <2>2, PidsAreNat DEF YieldInv, UnbornIsBlank, YieldsToAnother, Runs, TypeOK
  <2>6. StraysYield'
    BY <1>0, <2>1, <2>2, PidsAreNat
       DEF YieldInv, StraysYield, YieldsToAnother, Runs, TypeOK
  <2> QED BY <1>0, <2>3, <2>4, <2>5, <2>6 DEF YieldInv
<1>4. ASSUME NEW p \in Pids, FindsFree(p) \/ TakesOver(p) PROVE YieldInv'
  <2>1. \/ /\ phase[p] = "looking"
           /\ answer[p] = None \/ answer[p] = p \/ ~Runs(answer[p])
        \/ phase[p] = "waiting"
    BY <1>4 DEF FindsFree, TakesOver, OwnedByAnother, IsAlive
  <2>2. phase' = [phase EXCEPT ![p] = "starting"] /\ UNCHANGED <<started, managed, answer, yields>>
    BY <1>4 DEF FindsFree, TakesOver, Claims, Moves
  <2>3. UnbornIsBlank'
    BY <1>0, <2>1, <2>2 DEF YieldInv, UnbornIsBlank, TypeOK
  <2>4. ToldIsManaged'
    BY <1>0, <2>1, <2>2 DEF YieldInv, ToldIsManaged, Runs, TypeOK
  <2>5. YieldsToAnother'
    BY <1>0, <2>1, <2>2 DEF YieldInv, YieldsToAnother, TypeOK
  <2>6. StraysYield'
    BY <1>0, <2>1, <2>2, PidsAreNat
       DEF YieldInv, StraysYield, ToldIsManaged, YieldsToAnother, Runs, TypeOK
  <2> QED BY <1>0, <2>3, <2>4, <2>5, <2>6 DEF YieldInv
<1>5. ASSUME NEW p \in Pids, FindsOwner(p), ~StepsAside(p) PROVE YieldInv'
  <2>1. phase[p] = "looking" /\ answer[p] = p /\ phase' = [phase EXCEPT ![p] = "waiting"]
    BY <1>5 DEF FindsOwner, StepsAside, Moves
  <2>2. UNCHANGED <<started, managed, answer, yields>>
    BY <1>5 DEF FindsOwner
  <2>3. UnbornIsBlank'
    BY <1>0, <2>1, <2>2 DEF YieldInv, UnbornIsBlank, TypeOK
  <2>4. ToldIsManaged'
    BY <1>0, <2>1, <2>2 DEF YieldInv, ToldIsManaged, Runs, TypeOK
  <2>5. YieldsToAnother'
    BY <1>0, <2>1, <2>2 DEF YieldInv, YieldsToAnother, TypeOK
  <2>6. StraysYield'
    BY <1>0, <2>1, <2>2 DEF YieldInv, StraysYield, ToldIsManaged, Runs, TypeOK
  <2> QED BY <1>0, <2>3, <2>4, <2>5, <2>6 DEF YieldInv
<1>6. ASSUME NEW p \in Pids, Exits(p), phase[p] # "unborn", UNCHANGED <<started, managed>>
      PROVE  YieldInv'
  <2>1. phase' = [phase EXCEPT ![p] = "gone"] /\ answer' = [answer EXCEPT ![p] = None]
        /\ yields' = yields \ {p}
    BY <1>6 DEF Exits
  <2>2. UnbornIsBlank'
    BY <1>0, <1>6, <2>1 DEF YieldInv, UnbornIsBlank, TypeOK
  <2>3. ToldIsManaged'
    BY <1>0, <1>6, <2>1 DEF YieldInv, ToldIsManaged, Runs, TypeOK
  <2>4. YieldsToAnother'
    BY <1>0, <1>6, <2>1 DEF YieldInv, YieldsToAnother, TypeOK
  <2>5. StraysYield'
    BY <1>0, <1>6, <2>1 DEF YieldInv, StraysYield, Runs, TypeOK
  <2> QED BY <1>0, <2>2, <2>3, <2>4, <2>5 DEF YieldInv
<1>7. ASSUME NEW p \in Pids, NEW to \in Owning, phase[p] \in Owning \cup {"starting"},
             phase' = [phase EXCEPT ![p] = to], UNCHANGED <<started, managed, answer, yields>>
      PROVE  YieldInv'
  <2>1. UnbornIsBlank'
    BY <1>0, <1>7 DEF YieldInv, UnbornIsBlank, TypeOK, Owning
  <2>2. ToldIsManaged'
    BY <1>0, <1>7 DEF YieldInv, ToldIsManaged, Runs, TypeOK, Owning
  <2>3. YieldsToAnother'
    BY <1>0, <1>7 DEF YieldInv, YieldsToAnother, TypeOK, Owning
  <2>4. StraysYield'
    BY <1>0, <1>7 DEF YieldInv, StraysYield, Runs, TypeOK, Owning
  <2> QED BY <1>0, <2>1, <2>2, <2>3, <2>4 DEF YieldInv
<1>8. ASSUME NEW p \in Pids, FindsOwner(p), StepsAside(p) PROVE YieldInv'
  BY <1>6, <1>8 DEF FindsOwner
<1>9. ASSUME NEW p \in Pids, ClearAndExit(p) \/ Crash(p) PROVE YieldInv'
  BY <1>6, <1>9 DEF ClearAndExit, Crash, Runs
<1>10. ASSUME NEW p \in Pids,
              WritePid(p) \/ Publish(p) \/ LookAtSocket(p) \/ BindSocket(p) \/ Stop(p) \/ Retire(p)
       PROVE  YieldInv'
  <2>1. PICK to \in Owning : phase' = [phase EXCEPT ![p] = to]
    BY <1>10 DEF WritePid, Publish, LookAtSocket, BindSocket, Stop, Retire, Moves, Owning
  <2>2. phase[p] \in Owning \cup {"starting"} /\ UNCHANGED <<started, managed, answer, yields>>
    BY <1>10 DEF WritePid, Publish, LookAtSocket, BindSocket, Stop, Retire, Moves, Owning
  <2> QED BY <1>7, <2>1, <2>2
<1>12. ASSUME NEW p \in Pids, Reuse(p) \/ ForeignEnds(p) PROVE YieldInv'
  BY <1>0, <1>12 DEF Reuse, ForeignEnds, YieldInv, UnbornIsBlank, ToldIsManaged, YieldsToAnother,
                     StraysYield, Runs
<1>11. CASE UNCHANGED vars
  BY <1>11 DEF YieldInv, TypeOK, UnbornIsBlank, ToldIsManaged, YieldsToAnother, StraysYield, Runs,
               vars
<1> QED
  BY <1>1, <1>2, <1>3, <1>4, <1>5, <1>8, <1>9, <1>10, <1>11, <1>12 DEF Next, Proceeds

LEMMA InitYield == Init => YieldInv
<1> SUFFICES ASSUME Init PROVE YieldInv
  OBVIOUS
<1>1. UnbornIsBlank
  BY PidsAreNat DEF Init, UnbornIsBlank, Pids
<1>2. ToldIsManaged /\ YieldsToAnother /\ StraysYield
  BY DEF Init, ToldIsManaged, YieldsToAnother, StraysYield, Runs
<1> QED BY <1>1, <1>2, InitTypeOK DEF YieldInv

(* Only the process launchd supervises waits for another, and one that was told of launchd's   *)
(* live daemon does not claim before that one is gone.                                         *)
THEOREM StraysMakeWay == Spec => []StraysYield
<1>1. YieldInv => StraysYield
  BY DEF YieldInv
<1> QED BY <1>1, InitYield, StepYield, PTL DEF Spec

----------------------------------------------------------------------------
(* One owner *)

LEMMA StepOwner == OwnerInv /\ [Next]_vars => OwnerInv'
<1> SUFFICES ASSUME OwnerInv, [Next]_vars, ~raced' PROVE OneOwner'
  BY StepTypeOK DEF OwnerInv
<1>0. TypeOK /\ TypeOK'
  BY StepTypeOK DEF OwnerInv
<1>1. raced' = raced \/ \E p \in Pids : FindsFree(p) \/ TakesOver(p)
  BY DEF Next, Proceeds, LaunchdStarts, StrayStarts, AskLaunchd, FindsOwner, WritePid, Publish,
         LookAtSocket, BindSocket, Stop, Retire, ClearAndExit, Crash, Reuse, ForeignEnds, vars
<1>2. ~raced /\ OneOwner
  <2>1. ASSUME NEW p \in Pids, FindsFree(p) \/ TakesOver(p) PROVE ~raced
    BY <2>1 DEF FindsFree, TakesOver, Claims
  <2> QED BY <1>0, <1>1, <2>1 DEF OwnerInv
<1>3. ASSUME NEW p \in Pids, phase[p] \notin Owning \cup {"starting"},
             NEW to \in Phases \ (Owning \cup {"starting"}), phase' = [phase EXCEPT ![p] = to],
             \A q \in Pids \ {p} : seen'[q] = seen[q], UNCHANGED <<pidfile, bound>>
      PROVE  OneOwner'
  BY <1>0, <1>2, <1>3 DEF OneOwner, TypeOK, Owning
<1>4. CASE LaunchdStarts \/ StrayStarts
  <2>1. PICK p \in Pids : Begin(p)
    BY <1>4 DEF LaunchdStarts, StrayStarts, Begin
  <2>2. UNCHANGED <<pidfile, bound, seen>>
    BY <1>4 DEF LaunchdStarts, StrayStarts
  <2> QED BY <1>3, <2>1, <2>2 DEF Begin, Moves, Owning, Phases
<1>5. ASSUME NEW p \in Pids, AskLaunchd(p) PROVE OneOwner'
  BY <1>3, <1>5 DEF AskLaunchd, Moves, Owning, Phases
<1>6. ASSUME NEW p \in Pids, FindsOwner(p) PROVE OneOwner'
  <2>1. CASE StepsAside(p)
    BY <1>0, <1>3, <1>6, <2>1 DEF FindsOwner, Exits, Owning, Phases, TypeOK
  <2>2. CASE ~StepsAside(p)
    BY <1>3, <1>6, <2>2 DEF FindsOwner, Moves, Owning, Phases
  <2> QED BY <2>1, <2>2
<1>7. ASSUME NEW p \in Pids, FindsFree(p) \/ TakesOver(p) PROVE OneOwner'
  <2>1. /\ phase' = [phase EXCEPT ![p] = "starting"] /\ phase[p] \in {"looking", "waiting"}
        /\ UNCHANGED <<pidfile, bound, seen>>
    BY <1>7 DEF FindsFree, TakesOver, Claims, Moves
  <2>2. \A q \in Pids \ {p} : phase[q] # "starting"
    BY <1>7 DEF FindsFree, TakesOver, Claims
  <2>3. ~IsDaemonAlive(p)
    BY <1>7 DEF FindsFree, TakesOver, OwnedByAnother
  <2>4. \A q \in Pids \ {p} : phase[q] \notin Owning
    BY <1>2, <2>3, PidsAreNat DEF OneOwner, IsDaemonAlive, IsAlive, Runs, Owning
  <2> QED BY <1>0, <1>2, <2>1, <2>2, <2>4 DEF OneOwner, TypeOK, Owning
<1>8. ASSUME NEW p \in Pids, WritePid(p) PROVE OneOwner'
  BY <1>0, <1>2, <1>8 DEF WritePid, Moves, OneOwner, TypeOK, Owning
<1>9. ASSUME NEW p \in Pids, Publish(p) PROVE OneOwner'
  BY <1>0, <1>2, <1>9 DEF Publish, Moves, OneOwner, TypeOK, Owning
<1>10. ASSUME NEW p \in Pids, LookAtSocket(p) PROVE OneOwner'
  <2>1. ~IsDaemonAlive(p)
    BY <1>2, <1>10 DEF LookAtSocket, Moves, OneOwner, IsDaemonAlive, Owning
  <2>2. phase[p] = "published" /\ phase' = [phase EXCEPT ![p] = "binding"]
    BY <1>10, <2>1 DEF LookAtSocket, Moves
  <2>3. seen' = [seen EXCEPT ![p] = bound # None] /\ UNCHANGED <<pidfile, bound>>
    BY <1>10 DEF LookAtSocket
  <2> QED BY <1>0, <1>2, <2>2, <2>3 DEF OneOwner, TypeOK, Owning
<1>11. ASSUME NEW p \in Pids, BindSocket(p) PROVE OneOwner'
  <2>1. phase[p] = "binding" /\ phase' = [phase EXCEPT ![p] = "working"] /\ UNCHANGED <<pidfile, seen>>
    BY <1>11 DEF BindSocket, Moves
  <2>2. bound' = p
    BY <1>2, <1>11, <2>1 DEF BindSocket, OneOwner
  <2> QED BY <1>0, <1>2, <2>1, <2>2 DEF OneOwner, TypeOK, Owning
<1>12. ASSUME NEW p \in Pids, Stop(p) PROVE OneOwner'
  <2>1. phase[p] \in Owning /\ phase' = [phase EXCEPT ![p] = "stopped"] /\ UNCHANGED <<pidfile, seen>>
    BY <1>12 DEF Stop, StopsServing, Moves, Owning
  <2> QED BY <1>0, <1>2, <2>1 DEF OneOwner, TypeOK, Owning
<1>13. ASSUME NEW p \in Pids, Retire(p) PROVE OneOwner'
  BY <1>0, <1>2, <1>13 DEF Retire, Moves, OneOwner, TypeOK, Owning
<1>14. ASSUME NEW p \in Pids, ClearAndExit(p) PROVE OneOwner'
  <2>1. \A q \in Pids \ {p} : phase[q] \notin Owning \cup {"starting"}
    BY <1>2, <1>14 DEF ClearAndExit, OneOwner, Owning
  <2> QED BY <1>0, <1>14, <2>1 DEF ClearAndExit, Exits, OneOwner, TypeOK, Owning
<1>15. ASSUME NEW p \in Pids, Crash(p) PROVE OneOwner'
  <2>1. phase' = [phase EXCEPT ![p] = "gone"] /\ seen' = [seen EXCEPT ![p] = FALSE]
        /\ UNCHANGED <<pidfile, bound>>
    BY <1>15 DEF Crash, Exits
  <2> QED BY <1>0, <1>2, <2>1 DEF OneOwner, TypeOK, Owning
<1>16. CASE UNCHANGED vars
  BY <1>2, <1>16 DEF OneOwner, vars
<1>17. ASSUME NEW p \in Pids, Reuse(p) \/ ForeignEnds(p) PROVE OneOwner'
  BY <1>2, <1>17 DEF OneOwner, Reuse, ForeignEnds
<1> QED
  BY <1>4, <1>5, <1>6, <1>7, <1>8, <1>9, <1>10, <1>11, <1>12, <1>13, <1>14, <1>15, <1>16, <1>17
     DEF Next, Proceeds

LEMMA InitOwner == Init => OwnerInv
BY InitTypeOK DEF Init, OwnerInv, OneOwner, Owning

(* Unless two starts overlapped, no two processes are past the decision to claim and not yet   *)
(* stopped: what a start repairs belongs to nobody at work.                                    *)
THEOREM OneDaemonAtATime == Spec => []AloneUnlessRaced
<1>1. OwnerInv => AloneUnlessRaced
  BY DEF OwnerInv, OneOwner, AloneUnlessRaced, Active, Owning
<1> QED BY <1>1, InitOwner, StepOwner, PTL DEF Spec

(* Unless two starts overlapped, the pid file names the daemon that has claimed, until it      *)
(* exits, and the socket path leads to the daemon at work.                                     *)
THEOREM DaemonIsFound == Spec => []OwnerIsFound
<1>1. OwnerInv => OwnerIsFound
  BY DEF OwnerInv, OneOwner, OwnerIsFound, Owning
<1> QED BY <1>1, InitOwner, StepOwner, PTL DEF Spec

----------------------------------------------------------------------------
(* The threads of the daemon *)

\* Calls are finitely many, and a parse has a thread of its own to spawn.
LEMMA FiniteCalls ==
    /\ IsFiniteSet(Calls) /\ IsFiniteSet(Parses) /\ Parses \subseteq Calls
    /\ Cardinality(Parses) \in Nat /\ Parsers = 1 .. Cardinality(Parses)
<1>1. IsFiniteSet(Calls)
  BY PoolsAssumption
<1>2. Parses \in SUBSET Calls
  BY DEF Calls
<1>3. IsFiniteSet(Parses) /\ Cardinality(Parses) \in Nat
  BY <1>1, <1>2, FS_Subset, FS_CardinalityType
<1>4. Parsers = 1 .. Cardinality(Parses)
  BY DEF Parsers
<1> QED
  BY <1>1, <1>2, <1>3, <1>4

\* Some of the first numbers have a least.
LEMMA LeastNumber ==
    ASSUME NEW n \in Nat, NEW S \in SUBSET (0 .. n), S # {}
    PROVE  \E x \in S : \A y \in S : x <= y
<1> DEFINE Below(x) == {m \in S : m < x}
           T == {Below(x) : x \in S}
           R == StrictSubsetOrdering(S)
<1>0. IsFiniteSet(S)
  <2>1. IsFiniteSet(0 .. n)
    BY FS_Interval
  <2> QED
    BY <2>1, FS_Subset
<1>1. T \subseteq FiniteSubsetsOf(S) /\ T # {}
  <2>1. ASSUME NEW U \in T PROVE U \in FiniteSubsetsOf(S)
    <3>1. U \in SUBSET S
      OBVIOUS
    <3>2. IsFiniteSet(U)
      BY <1>0, <3>1, FS_Subset
    <3> QED
      BY <3>1, <3>2 DEF FiniteSubsetsOf
  <2>2. PICK x : x \in S
    OBVIOUS
  <2>3. Below(x) \in T
    BY <2>2
  <2> QED
    BY <2>1, <2>3
<1>2. PICK U \in T : \A V \in T : ~(<<V, U>> \in R)
  <2> HIDE DEF T
  <2> QED
    BY <1>0, <1>1, WFMin, FS_StrictSubsetOrderingWellFounded
<1>3. PICK x \in S : U = Below(x)
  BY <1>2
<1>4. ASSUME NEW y \in S, y < x PROVE FALSE
  <2>1. Below(y) \in T
    OBVIOUS
  <2>2. x \in Int /\ y \in Int /\ \A m \in S : m \in Int
    OBVIOUS
  <2>3. \A m \in S : m < y => m < x
    BY <1>4, <2>2
  <2>4. y \in Below(x) /\ y \notin Below(y) /\ Below(x) \subseteq S
    BY <1>4, <2>2
  <2>5. Below(y) \subseteq U /\ y \in U /\ y \notin Below(y) /\ U \subseteq S
    BY <1>3, <2>3, <2>4
  <2>6. <<Below(y), U>> \in R
    BY <2>5 DEF StrictSubsetOrdering
  <2> QED
    BY <1>2, <2>1, <2>6
<1> QED
  BY <1>4

\* The least of some of the first numbers is one of them.
LEMMA MinIsOne ==
    ASSUME NEW n \in Nat, NEW S \in SUBSET (0 .. n), S # {}
    PROVE  Min(S) \in S
BY LeastNumber DEF Min

Slotted == [Slots -> [thread : Thread, busy : BOOLEAN]]

Open(c, slots) == {s \in Slots : ~slots[s].busy /\ MayUse(c, s)}

\* The slot a call finds is one it may use that is not busy; it finds none only if there is none.
LEMMA FreeIsOpen ==
    ASSUME NEW c, NEW slots
    PROVE  /\ Free(c, slots) # 0 => Free(c, slots) \in Open(c, slots)
           /\ Free(c, slots) = 0 <=> Open(c, slots) = {}
<1>1. Size \in Nat /\ Open(c, slots) \in SUBSET (0 .. Size) /\ 0 \notin Open(c, slots)
  BY PoolsAssumption DEF Open, Slots
<1>2. Free(c, slots) = IF Open(c, slots) = {} THEN 0 ELSE Min(Open(c, slots))
  BY DEF Free, Open
<1>3. CASE Open(c, slots) = {}
  BY <1>2, <1>3
<1>4. CASE Open(c, slots) # {}
  BY <1>1, <1>2, <1>4, MinIsOne
<1> QED
  BY <1>3, <1>4

(* What a pass over the queue has come to: the calls that stay, the slots, the posts. *)
Passes == [queue : Seq(Reads), slots : Slotted, posted : SUBSET (Reads \X Slots)]

Elements(q) == {q[i] : i \in 1 .. Len(q)}
NoTwice(q) == \A i, j \in 1 .. Len(q) : q[i] = q[j] => i = j
PostedBy(b) == {c \in Reads : \E s \in Slots : <<c, s>> \in b.posted}

\* Nobody stays beside a slot it may use.
NobodyLeftOut(b) == \A i \in 1 .. Len(b.queue) : Open(b.queue[i], b.slots) = {}

\* The slots are those there were, busy where a call was or is.
SlotsKept(b, slots) ==
    \A s \in Slots :
        /\ b.slots[s].thread = slots[s].thread
        /\ b.slots[s].busy <=> slots[s].busy \/ \E c \in Reads : <<c, s>> \in b.posted

\* A call is posted once, to a slot that was free, and no two to one.
PostedOnce(b, slots) ==
    /\ \A c \in Reads, s \in Slots : <<c, s>> \in b.posted => ~slots[s].busy
    /\ \A c, d \in Reads, s, t \in Slots :
           <<c, s>> \in b.posted /\ <<d, t>> \in b.posted /\ (c = d \/ s = t) => c = d /\ s = t

\* Of the first i calls each stays or is posted.
AllSeen(b, queue, i) ==
    /\ Elements(b.queue) \cup PostedBy(b) = {queue[k] : k \in 1 .. i}
    /\ Elements(b.queue) \cap PostedBy(b) = {}
    /\ NoTwice(b.queue)

Passed(b, queue, i, slots) ==
    /\ b \in Passes
    /\ NobodyLeftOut(b) /\ SlotsKept(b, slots) /\ PostedOnce(b, slots) /\ AllSeen(b, queue, i)

\* One more at the end of a queue.
LEMMA AppendOne ==
    ASSUME NEW T, NEW q \in Seq(T), NEW c \in T
    PROVE  /\ Append(q, c) \in Seq(T) /\ Len(q) \in Nat /\ Len(Append(q, c)) = Len(q) + 1
           /\ Append(q, c)[Len(q) + 1] = c
           /\ \A i \in 1 .. Len(q) : Append(q, c)[i] = q[i]
           /\ Elements(Append(q, c)) = Elements(q) \cup {c}
           /\ NoTwice(q) /\ c \notin Elements(q) => NoTwice(Append(q, c))
<1>1. /\ Append(q, c) \in Seq(T) /\ Len(q) \in Nat /\ Len(Append(q, c)) = Len(q) + 1
      /\ Append(q, c)[Len(q) + 1] = c
      /\ \A i \in 1 .. Len(q) : Append(q, c)[i] = q[i]
  OBVIOUS
<1>2. ASSUME NEW i \in 1 .. Len(q) + 1 PROVE i = Len(q) + 1 \/ i \in 1 .. Len(q)
  BY <1>1
<1>3. Len(q) + 1 \in 1 .. Len(q) + 1 /\ \A i \in 1 .. Len(q) : i \in 1 .. Len(q) + 1
  BY <1>1
<1>4. Elements(Append(q, c)) = Elements(q) \cup {c}
  <2> DEFINE a == Append(q, c)
  <2>1. \A e \in Elements(a) : e \in Elements(q) \cup {c}
    BY <1>1, <1>2 DEF Elements
  <2>2. c \in Elements(a)
    BY <1>1, <1>3 DEF Elements
  <2>3. ASSUME NEW e \in Elements(q) PROVE e \in Elements(a)
    <3>1. PICK i \in 1 .. Len(q) : e = q[i]
      BY DEF Elements
    <3>2. i \in 1 .. Len(a) /\ a[i] = e
      BY <1>1, <1>3, <3>1
    <3> QED
      BY <3>2 DEF Elements
  <2> HIDE DEF a
  <2>4. Elements(a) = Elements(q) \cup {c}
    BY <2>1, <2>2, <2>3
  <2> QED
    BY <2>4 DEF a
<1>5. ASSUME NoTwice(q), c \notin Elements(q) PROVE NoTwice(Append(q, c))
  <2> DEFINE a == Append(q, c)
  <2>1. \A i \in 1 .. Len(q) : a[i] = q[i] /\ a[i] # c
    BY <1>1, <1>5 DEF Elements
  <2>2. /\ Len(a) = Len(q) + 1 /\ a[Len(q) + 1] = c
    BY <1>1
  <2> HIDE DEF a
  <2>3. ASSUME NEW i \in 1 .. Len(a), NEW j \in 1 .. Len(a), a[i] = a[j] PROVE i = j
    <3>1. (i = Len(q) + 1 \/ i \in 1 .. Len(q)) /\ (j = Len(q) + 1 \/ j \in 1 .. Len(q))
      BY <1>2, <2>2
    <3> QED
      BY <1>5, <2>1, <2>2, <2>3, <3>1 DEF NoTwice
  <2>4. NoTwice(a)
    BY <2>3 DEF NoTwice
  <2> QED
    BY <2>4 DEF a
<1> QED
  BY <1>1, <1>4, <1>5

\* What a call that is offered changes of a pass.
LEMMA OfferedIs ==
    ASSUME NEW b \in Passes, NEW c \in Reads
    PROVE  LET s == Free(c, b.slots)
               a == Offered(b, c)
           IN  /\ a \in Passes
               /\ s = 0 => /\ Open(c, b.slots) = {}
                           /\ a.queue = Append(b.queue, c) /\ a.slots = b.slots /\ a.posted = b.posted
               /\ s # 0 => /\ s \in Open(c, b.slots)
                           /\ a.queue = b.queue /\ a.posted = b.posted \cup {<<c, s>>}
                           /\ a.slots[s].busy /\ a.slots[s].thread = b.slots[s].thread
                           /\ \A t \in Slots \ {s} : a.slots[t] = b.slots[t]
<1> DEFINE s == Free(c, b.slots)
           a == Offered(b, c)
<1>1. b.queue \in Seq(Reads) /\ b.slots \in Slotted /\ b.posted \in SUBSET (Reads \X Slots)
      /\ b = [queue |-> b.queue, slots |-> b.slots, posted |-> b.posted]
  BY DEF Passes
<1>2. (s # 0 => s \in Open(c, b.slots)) /\ (s = 0 => Open(c, b.slots) = {})
  BY FreeIsOpen
<1>3. ASSUME s = 0
      PROVE  a \in Passes /\ a.queue = Append(b.queue, c) /\ a.slots = b.slots
             /\ a.posted = b.posted
  <2>1. a = [b EXCEPT !.queue = Append(b.queue, c)]
    BY <1>3 DEF Offered
  <2>2. Append(b.queue, c) \in Seq(Reads)
    BY <1>1, AppendOne
  <2> HIDE DEF a
  <2> QED
    BY <1>1, <2>1, <2>2 DEF Passes
<1>4. ASSUME s # 0
      PROVE  /\ a \in Passes /\ a.queue = b.queue /\ a.posted = b.posted \cup {<<c, s>>}
             /\ a.slots[s].busy /\ a.slots[s].thread = b.slots[s].thread
             /\ \A t \in Slots \ {s} : a.slots[t] = b.slots[t]
  <2>1. s \in Slots
    BY <1>2, <1>4 DEF Open
  <2>2. PICK T : T = Taken(b.slots, s)
    OBVIOUS
  <2>3. /\ T \in Slotted /\ T[s].busy /\ T[s].thread = b.slots[s].thread
        /\ \A t \in Slots \ {s} : T[t] = b.slots[t]
    BY <1>1, <2>1, <2>2 DEF Taken, Slotted
  <2>4. PICK P : P = b.posted \cup {<<c, s>>}
    OBVIOUS
  <2>5. P \in SUBSET (Reads \X Slots)
    BY <1>1, <2>1, <2>4
  <2>6. a = [b EXCEPT !.slots = T, !.posted = P]
    BY <1>4, <2>2, <2>4 DEF Offered
  <2> HIDE DEF a, s
  <2>7. a = [queue |-> b.queue, slots |-> T, posted |-> P]
    BY <1>1, <2>6
  <2> QED
    BY <1>1, <2>3, <2>4, <2>5, <2>7 DEF Passes
<1> QED
  BY <1>2, <1>3, <1>4

\* One more call of the queue is passed.
LEMMA PassOne ==
    ASSUME NEW queue \in Seq(Reads), NoTwice(queue), NEW slots \in Slotted,
           NEW i \in 1 .. Len(queue), NEW b, Passed(b, queue, i - 1, slots)
    PROVE  Passed(Offered(b, queue[i]), queue, i, slots)
<1> DEFINE c == queue[i]
           s == Free(c, b.slots)
           a == Offered(b, c)
<1>1. c \in Reads /\ i \in Nat /\ Len(queue) \in Nat
  OBVIOUS
<1>2. b \in Passes
  BY DEF Passed
<1>3. /\ a \in Passes
      /\ s = 0 => /\ Open(c, b.slots) = {}
                  /\ a.queue = Append(b.queue, c) /\ a.slots = b.slots /\ a.posted = b.posted
      /\ s # 0 => /\ s \in Open(c, b.slots)
                  /\ a.queue = b.queue /\ a.posted = b.posted \cup {<<c, s>>}
                  /\ a.slots[s].busy /\ a.slots[s].thread = b.slots[s].thread
                  /\ \A t \in Slots \ {s} : a.slots[t] = b.slots[t]
  BY <1>1, <1>2, OfferedIs
<1>4. c \notin {queue[k] : k \in 1 .. i - 1}
      /\ {queue[k] : k \in 1 .. i} = {queue[k] : k \in 1 .. i - 1} \cup {c}
  <2>1. \A k \in 1 .. i : k = i \/ k \in 1 .. i - 1
    BY <1>1
  <2>2. \A k \in 1 .. i - 1 : k \in 1 .. i /\ k \in 1 .. Len(queue) /\ k # i
    BY <1>1
  <2>3. i \in 1 .. i
    BY <1>1
  <2> QED
    BY <2>1, <2>2, <2>3 DEF NoTwice
<1>5. c \notin Elements(b.queue) /\ c \notin PostedBy(b)
  BY <1>4 DEF Passed, AllSeen
<1>6. b.queue \in Seq(Reads) /\ b.posted \in SUBSET (Reads \X Slots)
  BY <1>2 DEF Passes
<1> HIDE DEF c, s, a
<1>7. /\ NobodyLeftOut(b) /\ SlotsKept(b, slots) /\ PostedOnce(b, slots)
      /\ Elements(b.queue) \cup PostedBy(b) = {queue[k] : k \in 1 .. i - 1}
      /\ Elements(b.queue) \cap PostedBy(b) = {} /\ NoTwice(b.queue)
  BY DEF Passed, AllSeen
<1>8. SlotsKept(b, slots)
  BY <1>7
<1>9. CASE s = 0
  <2>0. Open(c, b.slots) = {} /\ a.queue = Append(b.queue, c) /\ a.slots = b.slots /\ a.posted = b.posted
    BY <1>3, <1>9
  <2>1. NobodyLeftOut(a)
    <3>1. ASSUME NEW k \in 1 .. Len(a.queue) PROVE Open(a.queue[k], a.slots) = {}
      <4>1. /\ Len(b.queue) \in Nat /\ Len(a.queue) = Len(b.queue) + 1
            /\ a.queue[Len(b.queue) + 1] = c
            /\ \A j \in 1 .. Len(b.queue) : a.queue[j] = b.queue[j]
        BY <1>1, <1>6, <2>0, AppendOne
      <4>2. k = Len(b.queue) + 1 \/ k \in 1 .. Len(b.queue)
        BY <4>1
      <4> QED
        BY <1>7, <2>0, <4>1, <4>2 DEF NobodyLeftOut
    <3> QED
      BY <3>1 DEF NobodyLeftOut
  <2>2. SlotsKept(a, slots) /\ PostedOnce(a, slots) /\ PostedBy(a) = PostedBy(b)
    <3>1. SlotsKept(a, slots)
      BY <1>7, <2>0 DEF SlotsKept
    <3>2. PostedOnce(a, slots)
      BY <1>7, <2>0 DEF PostedOnce
    <3>3. PostedBy(a) = PostedBy(b)
      BY <2>0 DEF PostedBy
    <3> QED
      BY <3>1, <3>2, <3>3
  <2>3. Elements(a.queue) = Elements(b.queue) \cup {c} /\ NoTwice(a.queue)
    BY <1>1, <1>5, <1>6, <1>7, <2>0, AppendOne
  <2>4. AllSeen(a, queue, i)
    BY <1>4, <1>5, <1>7, <2>2, <2>3 DEF AllSeen
  <2> QED
    BY <1>3, <2>1, <2>2, <2>4 DEF Passed, a, c
<1>10. CASE s # 0
  <2>1. s \in Slots /\ ~b.slots[s].busy
    BY <1>3, <1>10 DEF Open
  <2>2. ASSUME NEW k \in 1 .. Len(a.queue) PROVE Open(a.queue[k], a.slots) = {}
    <3>1. Open(a.queue[k], b.slots) = {}
      BY <1>3, <1>7, <1>10 DEF NobodyLeftOut
    <3> QED
      BY <1>3, <1>10, <3>1 DEF Open
  <2>3. NobodyLeftOut(a)
    BY <2>2 DEF NobodyLeftOut
  <2>4. ~slots[s].busy /\ \A d \in Reads : <<d, s>> \notin b.posted
    BY <1>7, <2>1 DEF SlotsKept
  <2>5. \A d \in Reads, t \in Slots :
            <<d, t>> \in a.posted <=> <<d, t>> \in b.posted \/ (d = c /\ t = s)
    BY <1>3, <1>10
  <2>6. SlotsKept(a, slots)
    <3>1. ASSUME NEW t \in Slots
          PROVE  /\ a.slots[t].thread = slots[t].thread
                 /\ a.slots[t].busy <=> slots[t].busy \/ \E d \in Reads : <<d, t>> \in a.posted
      <4>1. /\ b.slots[t].thread = slots[t].thread
            /\ b.slots[t].busy <=> slots[t].busy \/ \E d \in Reads : <<d, t>> \in b.posted
        BY <1>8 DEF SlotsKept
      <4>2. CASE t = s
        BY <1>1, <1>3, <1>10, <2>1, <2>5, <4>1, <4>2
      <4>3. CASE t # s
        BY <1>3, <1>10, <2>5, <4>1, <4>3
      <4> QED
        BY <4>2, <4>3
    <3> QED
      BY <3>1 DEF SlotsKept
  <2>7. \A t \in Slots : <<c, t>> \notin b.posted
    BY <1>1, <1>5 DEF PostedBy, c
  <2>8. PostedOnce(a, slots)
    BY <1>7, <2>1, <2>4, <2>5, <2>7 DEF PostedOnce
  <2>9. PostedBy(a) = PostedBy(b) \cup {c}
    BY <1>1, <2>1, <2>5 DEF PostedBy, c
  <2>10. AllSeen(a, queue, i)
    BY <1>3, <1>4, <1>5, <1>7, <1>10, <2>9 DEF AllSeen
  <2> QED
    BY <1>3, <2>3, <2>6, <2>8, <2>10 DEF Passed, a, c
<1> QED
  BY <1>9, <1>10

Nothing(slots) == [queue |-> <<>>, slots |-> slots, posted |-> {}]

\* The function f is a pass over the first n calls.
IsPass(f, queue, slots, n) ==
    f = [i \in 0 .. n |-> IF i = 0 THEN Nothing(slots) ELSE Offered(f[i - 1], queue[i])]

\* What an induction over a queue needs: a set that has 0 and with a number the next has them all.
LEMMA AllNumbers ==
    ASSUME NEW n \in Nat, NEW S, 0 \in S, \A i \in 1 .. n : i - 1 \in S => i \in S
    PROVE  0 .. n \subseteq S
<1> DEFINE T == (0 .. n) \ S
<1>1. CASE T # {}
  <2>1. PICK x \in T : \A y \in T : x <= y
    BY <1>1, LeastNumber
  <2>2. x \in 1 .. n /\ x - 1 \in 0 .. n /\ ~(x <= x - 1)
    BY <2>1
  <2>3. x - 1 \in S
    BY <2>1, <2>2
  <2> QED
    BY <2>1, <2>2, <2>3
<1> QED
  BY <1>1

\* There is a pass over any number of them.
LEMMA PassExists ==
    ASSUME NEW n \in Nat, NEW queue, NEW slots
    PROVE  \E f : IsPass(f, queue, slots, n)
<1> DEFINE S == {k \in 0 .. n : \E f : IsPass(f, queue, slots, k)}
<1>1. 0 \in S
  <2> DEFINE f == [i \in 0 .. 0 |-> Nothing(slots)]
  <2>1. \A i \in 0 .. 0 : i = 0
    OBVIOUS
  <2>2. f = [i \in 0 .. 0 |-> IF i = 0 THEN Nothing(slots) ELSE Offered(f[i - 1], queue[i])]
    BY <2>1
  <2> HIDE DEF f
  <2>3. IsPass(f, queue, slots, 0)
    BY <2>2 DEF IsPass
  <2> QED
    BY <2>3
<1>2. ASSUME NEW k \in 1 .. n, k - 1 \in S PROVE k \in S
  <2>1. PICK f : IsPass(f, queue, slots, k - 1)
    BY <1>2
  <2> DEFINE g == [i \in 0 .. k |-> IF i = k THEN Offered(f[k - 1], queue[k]) ELSE f[i]]
  <2>2. /\ k \in Nat /\ k \in 0 .. n
        /\ \A i \in 0 .. k : i = k \/ i \in 0 .. k - 1
        /\ \A i \in 0 .. k : i # 0 => i - 1 \in 0 .. k /\ i - 1 # k
        /\ \A i \in 0 .. k - 1 : i \in 0 .. k /\ i # k
    OBVIOUS
  <2>3. \A i \in 0 .. k - 1 : f[i] = IF i = 0 THEN Nothing(slots) ELSE Offered(f[i - 1], queue[i])
    BY <2>1 DEF IsPass
  <2>4. ASSUME NEW i \in 0 .. k
        PROVE  g[i] = IF i = 0 THEN Nothing(slots) ELSE Offered(g[i - 1], queue[i])
    <3>1. i # 0 => g[i - 1] = f[i - 1]
      BY <2>2
    <3>2. CASE i = k
      BY <2>2, <3>1, <3>2
    <3>3. CASE i # k
      BY <2>2, <2>3, <3>1, <3>3
    <3> QED
      BY <3>2, <3>3
  <2>5. g = [i \in 0 .. k |-> g[i]]
    OBVIOUS
  <2> HIDE DEF g
  <2>6. IsPass(g, queue, slots, k)
    BY <2>4, <2>5 DEF IsPass
  <2> QED
    BY <2>2, <2>6
<1> HIDE DEF S
<1>3. n \in S
  <2>1. 0 .. n \subseteq S
    BY <1>1, <1>2, AllNumbers
  <2> QED
    BY <2>1
<1> QED
  BY <1>3 DEF S

\* Drain ends where a pass over the whole queue does.
LEMMA DrainIsPass ==
    ASSUME NEW queue \in Seq(Reads), NEW slots
    PROVE  \E f : IsPass(f, queue, slots, Len(queue)) /\ Drain(queue, slots) = f[Len(queue)]
<1> DEFINE after == CHOOSE f : f = [i \in 0 .. Len(queue) |->
                        IF i = 0 THEN [queue |-> <<>>, slots |-> slots, posted |-> {}]
                        ELSE Offered(f[i - 1], queue[i])]
<1>1. Drain(queue, slots) = after[Len(queue)]
  BY DEF Drain
<1>2. \E f : f = [i \in 0 .. Len(queue) |->
                    IF i = 0 THEN [queue |-> <<>>, slots |-> slots, posted |-> {}]
                    ELSE Offered(f[i - 1], queue[i])]
  <2>1. PICK f : IsPass(f, queue, slots, Len(queue))
    BY PassExists
  <2> QED
    BY <2>1 DEF IsPass, Nothing
<1>3. IsPass(after, queue, slots, Len(queue))
  BY <1>2 DEF IsPass, Nothing
<1> QED
  BY <1>1, <1>3

\* What Drain comes to.
LEMMA DrainPasses ==
    ASSUME NEW queue \in Seq(Reads), NoTwice(queue), NEW slots \in Slotted
    PROVE  Passed(Drain(queue, slots), queue, Len(queue), slots)
<1>1. PICK f : IsPass(f, queue, slots, Len(queue)) /\ Drain(queue, slots) = f[Len(queue)]
  BY DrainIsPass
<1>2. Len(queue) \in Nat
  OBVIOUS
<1> DEFINE S == {i \in 0 .. Len(queue) : Passed(f[i], queue, i, slots)}
<1>3. 0 \in S
  <2>1. f[0] = Nothing(slots) /\ 0 \in 0 .. Len(queue)
    BY <1>1, <1>2 DEF IsPass
  <2>2. /\ Nothing(slots) \in Passes /\ Nothing(slots).posted = {} /\ Nothing(slots).slots = slots
        /\ Nothing(slots).queue = <<>>
    BY DEF Nothing, Passes
  <2>3. \A i \in 1 .. Len(<<>>) : FALSE
    OBVIOUS
  <2>4. \A i \in 1 .. 0 : FALSE
    OBVIOUS
  <2>5. Elements(<<>>) = {} /\ {queue[k] : k \in 1 .. 0} = {} /\ NoTwice(<<>>)
    BY <2>3, <2>4 DEF Elements, NoTwice
  <2>6. PostedBy(Nothing(slots)) = {} /\ PostedOnce(Nothing(slots), slots)
    BY <2>2 DEF PostedBy, PostedOnce
  <2>7. NobodyLeftOut(Nothing(slots))
    BY <2>2, <2>3 DEF NobodyLeftOut
  <2>8. SlotsKept(Nothing(slots), slots)
    BY <2>2 DEF SlotsKept
  <2>9. AllSeen(Nothing(slots), queue, 0)
    BY <2>2, <2>5, <2>6 DEF AllSeen
  <2> QED
    BY <2>1, <2>2, <2>6, <2>7, <2>8, <2>9 DEF Passed
<1>4. ASSUME NEW i \in 1 .. Len(queue), i - 1 \in S PROVE i \in S
  <2>1. f[i] = Offered(f[i - 1], queue[i]) /\ i \in 0 .. Len(queue)
    <3>1. i \in 0 .. Len(queue) /\ i # 0
      BY <1>2
    <3>2. f = [k \in 0 .. Len(queue) |-> IF k = 0 THEN Nothing(slots) ELSE Offered(f[k - 1], queue[k])]
      BY <1>1 DEF IsPass
    <3>3. f[i] = IF i = 0 THEN Nothing(slots) ELSE Offered(f[i - 1], queue[i])
      BY <3>1, <3>2
    <3> QED
      BY <3>1, <3>3
  <2>2. Passed(f[i - 1], queue, i - 1, slots)
    BY <1>4
  <2> QED
    BY <2>1, <2>2, PassOne
<1> HIDE DEF S
<1>5. Len(queue) \in S
  <2>1. 0 .. Len(queue) \subseteq S
    BY <1>2, <1>3, <1>4, AllNumbers
  <2> QED
    BY <1>2, <2>1
<1> QED
  BY <1>1, <1>5 DEF S

----------------------------------------------------------------------------
(* The invariant of the threads *)

PoolTypes ==
    /\ call \in [Calls -> Entry] /\ slot \in Slotted /\ waiting \in Seq(Reads)
    /\ parser \in Parsers \cup {0} /\ parsers \in [Parsers -> Thread \cup {"none"}]
    /\ model \in Thread /\ dead \in BOOLEAN /\ closed \in BOOLEAN /\ deaths \in 0 .. MaxDeaths

\* A read that was posted holds its slot alone, and a busy slot is held.
Posts ==
    /\ \A c \in Calls :
           call[c].pc = "posted" => c \in Reads /\ call[c].at \in Slots /\ slot[call[c].at].busy
    /\ \A c, d \in Reads :
           call[c].pc = "posted" /\ call[d].pc = "posted" /\ call[c].at = call[d].at => c = d
    /\ \A s \in Slots : slot[s].busy => \E c \in Reads : call[c].pc = "posted" /\ call[c].at = s

\* Who waits is in the queue once.
Waits == NoTwice(waiting) /\ Elements(waiting) = {c \in Calls : call[c].pc = "waiting"}

\* The current thread lives, and all parses under way are on it.
OnCurrent ==
    /\ parser # 0 => parsers[parser] = "live"
    /\ \A c \in Calls : call[c].pc = "parsing" => c \in Parses /\ parser # 0 /\ call[c].at = parser

Spawned == {p \in Parsers : parsers[p] # "none"}
Begun == {c \in Parses : call[c].pc # "idle"}

Lanes == Posts /\ Waits /\ NobodyWaitsInVain
ThreadsInv == PoolTypes /\ Lanes /\ OnCurrent /\ Cardinality(Spawned) <= Cardinality(Begun)

\* A call that waits finds no slot.
LEMMA VainMeansNone ==
    NobodyWaitsInVain <=> \A i \in 1 .. Len(waiting) : Open(waiting[i], slot) = {}
<1>1. \A c : Free(c, slot) = 0 <=> Open(c, slot) = {}
  BY FreeIsOpen
<1>2. Queued = {waiting[i] : i \in 1 .. Len(waiting)}
  BY DEF Queued
<1> QED
  BY <1>1, <1>2 DEF NobodyWaitsInVain

\* What becomes of the calls when a slot is freed.
LEMMA FreedCalls ==
    ASSUME ThreadsInv, NEW s \in Slots, NEW slots \in Slotted,
           NEW outcome \in Settled,
           \A t \in Slots : slots[t].busy <=> slot[t].busy,
           SlotFreed(s, slots, outcome)
    PROVE  LET freed == [slots EXCEPT ![s].busy = FALSE]
               d == Drain(waiting, freed)
           IN  /\ freed \in Slotted /\ ~freed[s].busy
               /\ \A t \in Slots \ {s} : freed[t] = slots[t]
               /\ freed[s].thread = slots[s].thread
               /\ waiting' = d.queue /\ slot' = d.slots /\ Passed(d, waiting, Len(waiting), freed)
               /\ PostedBy(d) \subseteq Elements(waiting)
               /\ call' \in [Calls -> Entry]
               /\ \A c \in PostedBy(d) :
                      call'[c].pc = "posted" /\ call'[c].at \in Slots /\ <<c, call'[c].at>> \in d.posted
               /\ \A c \in InFlight(s) : call'[c].pc = outcome
               /\ \A c \in Calls \ (PostedBy(d) \cup InFlight(s)) : call'[c] = call[c]
<1> DEFINE freed == [slots EXCEPT ![s].busy = FALSE]
           d == Drain(waiting, freed)
<1>1. /\ freed \in Slotted /\ ~freed[s].busy /\ freed[s].thread = slots[s].thread
      /\ \A t \in Slots \ {s} : freed[t] = slots[t]
  BY DEF Slotted
<1>2. /\ waiting' = d.queue /\ slot' = d.slots
      /\ call' = [c \in Calls |->
                    IF c \in InFlight(s) THEN [pc |-> outcome, at |-> 0]
                    ELSE IF \E t \in Slots : <<c, t>> \in d.posted
                    THEN [pc |-> "posted", at |-> CHOOSE t \in Slots : <<c, t>> \in d.posted]
                    ELSE call[c]]
  BY DEF SlotFreed
<1> HIDE DEF freed, d
<1>3. Passed(d, waiting, Len(waiting), freed)
  BY <1>1, DrainPasses DEF ThreadsInv, PoolTypes, Lanes, Waits, d
<1>4. PostedBy(d) \subseteq Elements(waiting)
  BY <1>3 DEF Passed, AllSeen, Elements
<1>5. \A c \in Elements(waiting) : c \in Calls /\ call[c].pc = "waiting" /\ c \notin InFlight(s)
  BY DEF ThreadsInv, Lanes, Waits, InFlight
<1>6. /\ Slots \subseteq Nat /\ Reads \subseteq Calls
      /\ d.posted \in SUBSET (Reads \X Slots)
  BY <1>3 DEF Slots, Calls, Passed, Passes
<1>7. ASSUME NEW c \in PostedBy(d)
      PROVE  /\ call'[c].pc = "posted" /\ call'[c].at \in Slots /\ <<c, call'[c].at>> \in d.posted
             /\ call'[c] \in Entry
  <2>1. c \in Calls /\ c \notin InFlight(s) /\ \E t \in Slots : <<c, t>> \in d.posted
    BY <1>4, <1>5, <1>7 DEF PostedBy
  <2>2. PICK u : u = CHOOSE t \in Slots : <<c, t>> \in d.posted
    OBVIOUS
  <2>3. u \in Slots /\ <<c, u>> \in d.posted
    BY <2>1, <2>2
  <2>4. call'[c] = [pc |-> "posted", at |-> u]
    BY <1>2, <2>1, <2>2
  <2>5. u \in Nat
    BY <1>6, <2>3
  <2>6. call'[c] \in Entry
    BY <2>4, <2>5 DEF Entry
  <2> QED
    BY <2>3, <2>4, <2>6
<1>8. ASSUME NEW c \in InFlight(s) PROVE call'[c].pc = outcome /\ call'[c] \in Entry
  <2>1. call'[c] = [pc |-> outcome, at |-> 0]
    BY <1>2, <1>6 DEF InFlight
  <2> QED
    BY <2>1 DEF Entry, Settled
<1>9. ASSUME NEW c \in Calls \ (PostedBy(d) \cup InFlight(s)) PROVE call'[c] = call[c]
  <2>1. ~\E t \in Slots : <<c, t>> \in d.posted
    BY <1>6, <1>9 DEF PostedBy
  <2> QED
    BY <1>2, <1>9, <2>1
<1>10. call' \in [Calls -> Entry]
  <2>1. \A c \in Calls : call'[c] \in Entry
    BY <1>7, <1>8, <1>9 DEF ThreadsInv, PoolTypes
  <2>2. call' = [c \in Calls |-> call'[c]]
    BY <1>2
  <2> QED
    BY <2>1, <2>2
<1> QED
  BY <1>1, <1>2, <1>3, <1>4, <1>7, <1>8, <1>9, <1>10 DEF freed, d

\* The lanes are in order when a slot has been freed.
LEMMA SlotFreedStep ==
    ASSUME ThreadsInv, NEW s \in Slots, NEW slots \in Slotted,
           NEW outcome \in Settled,
           \A t \in Slots : slots[t].busy <=> slot[t].busy,
           SlotFreed(s, slots, outcome)
    PROVE  /\ call' \in [Calls -> Entry] /\ slot' \in Slotted /\ waiting' \in Seq(Reads)
           /\ Lanes'
           /\ \A t \in Slots : slot'[t].thread = slots[t].thread
           /\ \A c \in Calls :
                  \/ call'[c] = call[c]
                  \/ call[c].pc = "posted" /\ call[c].at = s /\ call'[c].pc = outcome
                  \/ call[c].pc = "waiting" /\ call'[c].pc = "posted"
<1> DEFINE freed == [slots EXCEPT ![s].busy = FALSE]
           d == Drain(waiting, freed)
<1>1. /\ freed \in Slotted /\ ~freed[s].busy
      /\ \A t \in Slots \ {s} : freed[t] = slots[t]
      /\ freed[s].thread = slots[s].thread
      /\ waiting' = d.queue /\ slot' = d.slots /\ Passed(d, waiting, Len(waiting), freed)
      /\ PostedBy(d) \subseteq Elements(waiting)
      /\ call' \in [Calls -> Entry]
      /\ \A c \in PostedBy(d) :
             call'[c].pc = "posted" /\ call'[c].at \in Slots /\ <<c, call'[c].at>> \in d.posted
      /\ \A c \in InFlight(s) : call'[c].pc = outcome
      /\ \A c \in Calls \ (PostedBy(d) \cup InFlight(s)) : call'[c] = call[c]
  BY FreedCalls
<1> HIDE DEF freed, d
<1>2. /\ d \in Passes /\ NobodyLeftOut(d) /\ SlotsKept(d, freed) /\ PostedOnce(d, freed)
      /\ Elements(d.queue) \cup PostedBy(d) = Elements(waiting)
      /\ Elements(d.queue) \cap PostedBy(d) = {} /\ NoTwice(d.queue)
  BY <1>1 DEF Passed, AllSeen, Elements
<1>3. slot' \in Slotted /\ waiting' \in Seq(Reads) /\ d.posted \in SUBSET (Reads \X Slots)
  BY <1>1, <1>2 DEF Passes
<1>4. ASSUME NEW t \in Slots
      PROVE  /\ slot'[t].thread = slots[t].thread
             /\ slot'[t].busy <=> freed[t].busy \/ \E c \in Reads : <<c, t>> \in d.posted
  <2>1. d.slots[t].thread = freed[t].thread
        /\ (d.slots[t].busy <=> freed[t].busy \/ \E c \in Reads : <<c, t>> \in d.posted)
    BY <1>2 DEF SlotsKept
  <2>2. freed[t].thread = slots[t].thread
    BY <1>1
  <2> QED
    BY <1>1, <2>1, <2>2
<1>5. \A c \in Elements(waiting) : c \in Calls /\ call[c].pc = "waiting"
  BY DEF ThreadsInv, Lanes, Waits
<1>6. \A c \in InFlight(s) :
          c \in Calls /\ c \in Reads /\ call[c].pc = "posted" /\ call[c].at = s
  BY DEF InFlight, Calls
<1>7. ASSUME NEW c \in Calls
      PROVE  \/ call'[c] = call[c] /\ c \notin PostedBy(d) /\ c \notin InFlight(s)
             \/ c \in InFlight(s) /\ call'[c].pc = outcome
             \/ c \in PostedBy(d) /\ call[c].pc = "waiting" /\ call'[c].pc = "posted"
  BY <1>1, <1>5
<1>8. outcome # "posted" /\ outcome # "waiting"
  BY DEF Settled
<1>9. Waits'
  <2>1. \A c \in Elements(d.queue) : c \in Calls /\ call'[c].pc = "waiting"
    <3>1. ASSUME NEW c \in Elements(d.queue) PROVE c \in Calls /\ call'[c].pc = "waiting"
      <4>1. c \in Elements(waiting) /\ c \notin PostedBy(d)
        BY <1>2
      <4>2. c \in Calls /\ call[c].pc = "waiting" /\ c \notin InFlight(s)
        BY <1>5, <1>6, <4>1
      <4> QED
        BY <1>1, <4>1, <4>2
    <3> QED
      BY <3>1
  <2>2. ASSUME NEW c \in Calls, call'[c].pc = "waiting" PROVE c \in Elements(d.queue)
    <3>1. call'[c] = call[c] /\ c \notin PostedBy(d)
      BY <1>7, <1>8, <2>2
    <3>2. c \in Elements(waiting)
      BY <2>2, <3>1 DEF ThreadsInv, Lanes, Waits
    <3> QED
      BY <1>2, <3>1, <3>2
  <2>3. Elements(d.queue) = {c \in Calls : call'[c].pc = "waiting"}
    BY <2>1, <2>2
  <2> QED
    BY <1>1, <1>2, <2>3 DEF Waits
<1>10. NobodyWaitsInVain'
  <2>1. \A i \in 1 .. Len(d.queue) : Free(d.queue[i], d.slots) = 0
    BY <1>2, FreeIsOpen DEF NobodyLeftOut
  <2> QED
    BY <1>1, <2>1 DEF NobodyWaitsInVain, Queued
<1>11. ASSUME NEW c \in Calls, call'[c].pc = "posted"
       PROVE  /\ c \in Reads /\ call'[c].at \in Slots
              /\ \/ /\ call[c].pc = "posted" /\ call'[c] = call[c] /\ call[c].at # s
                    /\ freed[call'[c].at].busy
                 \/ <<c, call'[c].at>> \in d.posted
  <2>1. CASE call'[c] = call[c] /\ c \notin InFlight(s)
    <3>1. c \in Reads /\ call[c].at \in Slots /\ slot[call[c].at].busy /\ call[c].pc = "posted"
      BY <1>11, <2>1 DEF ThreadsInv, Lanes, Posts
    <3>2. call[c].at # s
      BY <2>1, <3>1 DEF InFlight
    <3>3. freed[call[c].at] = slots[call[c].at] /\ slots[call[c].at].busy
      BY <1>1, <3>1, <3>2
    <3> QED
      BY <2>1, <3>1, <3>2, <3>3
  <2>2. CASE c \in PostedBy(d)
    BY <1>1, <2>2 DEF PostedBy
  <2> QED
    BY <1>7, <1>8, <1>11, <2>1, <2>2
<1>12. ASSUME NEW c \in Reads, NEW e \in Reads,
              call'[c].pc = "posted", call'[e].pc = "posted", call'[c].at = call'[e].at
       PROVE  c = e
  <2>1. c \in Calls /\ e \in Calls
    BY DEF Calls
  <2>2. PICK t \in Slots : call'[c].at = t /\ call'[e].at = t
    BY <1>11, <1>12, <2>1
  <2>3. \A x \in Reads : <<x, t>> \in d.posted => ~freed[t].busy
    BY <1>2 DEF PostedOnce
  <2>4. <<c, t>> \in d.posted /\ <<e, t>> \in d.posted => c = e
    BY <1>2 DEF PostedOnce
  <2>5. call[c].pc = "posted" /\ call[e].pc = "posted" /\ call[c].at = call[e].at => c = e
    BY DEF ThreadsInv, Lanes, Posts
  <2> QED
    BY <1>11, <1>12, <2>1, <2>2, <2>3, <2>4, <2>5
<1>13. ASSUME NEW t \in Slots, slot'[t].busy
       PROVE  \E c \in Reads : call'[c].pc = "posted" /\ call'[c].at = t
  <2>1. CASE freed[t].busy
    <3>1. t # s /\ slot[t].busy
      BY <1>1, <2>1
    <3>2. PICK c \in Reads : call[c].pc = "posted" /\ call[c].at = t
      BY <3>1 DEF ThreadsInv, Lanes, Posts
    <3>3. c \in Calls /\ c \notin PostedBy(d) /\ c \notin InFlight(s)
      BY <1>1, <1>5, <1>6, <3>1, <3>2 DEF Calls
    <3> QED
      BY <1>1, <3>2, <3>3
  <2>2. CASE ~freed[t].busy
    <3>1. PICK c \in Reads : <<c, t>> \in d.posted
      BY <1>4, <1>13, <2>2
    <3>2. c \in PostedBy(d)
      BY <3>1 DEF PostedBy
    <3>3. call'[c].pc = "posted" /\ call'[c].at \in Slots /\ <<c, call'[c].at>> \in d.posted
      BY <1>1, <3>2
    <3>4. call'[c].at = t
      BY <1>2, <3>1, <3>3 DEF PostedOnce
    <3> QED
      BY <3>3, <3>4
  <2> QED
    BY <2>1, <2>2
<1>14. ASSUME NEW c \in Calls, call'[c].pc = "posted" PROVE slot'[call'[c].at].busy
  BY <1>4, <1>11, <1>14
<1>15. Posts'
  BY <1>11, <1>12, <1>13, <1>14 DEF Posts
<1>16. \A c \in Calls :
           \/ call'[c] = call[c]
           \/ call[c].pc = "posted" /\ call[c].at = s /\ call'[c].pc = outcome
           \/ call[c].pc = "waiting" /\ call'[c].pc = "posted"
  BY <1>6, <1>7
<1> QED
  BY <1>1, <1>3, <1>4, <1>9, <1>10, <1>15, <1>16 DEF Lanes

\* What a call that asks the pool for a slot comes to.
LEMMA InvokeStep ==
    ASSUME ThreadsInv, NEW c \in Reads,
           call[c].pc \in {"idle", "embedding"}, Invoke(c)
    PROVE  /\ call' \in [Calls -> Entry] /\ slot' \in Slotted /\ waiting' \in Seq(Reads)
           /\ Lanes'
           /\ \A t \in Slots : slot'[t].thread = slot[t].thread
           /\ \A e \in Calls \ {c} : call'[e] = call[e]
           /\ call'[c].pc \in {"failed", "posted", "waiting"}
<1> DEFINE s == Free(c, slot)
<1>1. /\ c \in Calls /\ Reads \subseteq Calls /\ Slots \subseteq Nat
      /\ call \in [Calls -> Entry] /\ slot \in Slotted /\ waiting \in Seq(Reads)
  BY DEF Calls, Slots, ThreadsInv, PoolTypes
<1>2. /\ NoTwice(waiting) /\ Elements(waiting) = {e \in Calls : call[e].pc = "waiting"}
      /\ \A i \in 1 .. Len(waiting) : Open(waiting[i], slot) = {}
  BY VainMeansNone DEF ThreadsInv, Lanes, Waits
<1>3. (s # 0 => s \in Open(c, slot)) /\ (s = 0 => Open(c, slot) = {})
  BY FreeIsOpen
<1>4. /\ \A e \in Calls :
             call[e].pc = "posted" => e \in Reads /\ call[e].at \in Slots /\ slot[call[e].at].busy
      /\ \A e, f \in Reads :
             call[e].pc = "posted" /\ call[f].pc = "posted" /\ call[e].at = call[f].at => e = f
      /\ \A t \in Slots : slot[t].busy => \E e \in Reads : call[e].pc = "posted" /\ call[e].at = t
  BY DEF ThreadsInv, Lanes, Posts
<1>5. \/ closed /\ call' = [call EXCEPT ![c] = [pc |-> "failed", at |-> 0]] /\ UNCHANGED <<slot, waiting>>
      \/ /\ s # 0 /\ call' = [call EXCEPT ![c] = [pc |-> "posted", at |-> s]]
         /\ slot' = Taken(slot, s) /\ UNCHANGED waiting
      \/ /\ s = 0 /\ call' = [call EXCEPT ![c] = [pc |-> "waiting", at |-> 0]]
         /\ waiting' = Append(waiting, c) /\ UNCHANGED slot
  BY DEF Invoke, pool
<1> HIDE DEF s
<1>6. CASE closed /\ call' = [call EXCEPT ![c] = [pc |-> "failed", at |-> 0]] /\ UNCHANGED <<slot, waiting>>
  <2>1. /\ call'[c].pc = "failed" /\ \A e \in Calls \ {c} : call'[e] = call[e]
        /\ call' \in [Calls -> Entry]
    BY <1>1, <1>6 DEF Entry
  <2>2. Posts'
    <3>1. \A e \in Calls : call'[e].pc = "posted" <=> call[e].pc = "posted"
      BY <1>1, <2>1
    <3>2. \A e \in Calls : call[e].pc = "posted" => call'[e] = call[e]
      BY <1>1, <2>1
    <3> QED
      BY <1>1, <1>4, <1>6, <3>1, <3>2 DEF Posts
  <2>3. Waits'
    <3>1. \A e \in Calls : call'[e].pc = "waiting" <=> call[e].pc = "waiting"
      BY <1>1, <2>1
    <3> QED
      BY <1>2, <1>6, <3>1 DEF Waits
  <2>4. NobodyWaitsInVain'
    BY <1>6 DEF ThreadsInv, Lanes, NobodyWaitsInVain, Queued
  <2> QED
    BY <1>1, <1>6, <2>1, <2>2, <2>3, <2>4 DEF Lanes
<1>7. CASE /\ s # 0 /\ call' = [call EXCEPT ![c] = [pc |-> "posted", at |-> s]]
           /\ slot' = Taken(slot, s) /\ UNCHANGED waiting
  <2>1. s \in Slots /\ s \in Nat /\ ~slot[s].busy
    BY <1>1, <1>3, <1>7 DEF Open
  <2>2. /\ call'[c].pc = "posted" /\ call'[c].at = s
        /\ \A e \in Calls \ {c} : call'[e] = call[e]
        /\ call' \in [Calls -> Entry]
    BY <1>1, <1>7, <2>1 DEF Entry
  <2>3. /\ slot' \in Slotted /\ slot'[s].busy /\ slot'[s].thread = slot[s].thread
        /\ \A t \in Slots \ {s} : slot'[t] = slot[t]
    BY <1>1, <1>7, <2>1 DEF Taken, Slotted
  <2>4. Posts'
    <3>1. ASSUME NEW e \in Calls, call'[e].pc = "posted"
          PROVE  e \in Reads /\ call'[e].at \in Slots /\ slot'[call'[e].at].busy
      <4>1. CASE e = c
        BY <2>1, <2>2, <2>3, <4>1
      <4>2. CASE e # c
        <5>1. e \in Reads /\ call[e].at \in Slots /\ slot[call[e].at].busy /\ call'[e] = call[e]
          BY <1>4, <2>2, <3>1, <4>2
        <5>2. call[e].at # s
          BY <2>1, <5>1
        <5> QED
          BY <2>3, <5>1, <5>2
      <4> QED
        BY <4>1, <4>2
    <3>2. ASSUME NEW e \in Reads, NEW f \in Reads,
                 call'[e].pc = "posted", call'[f].pc = "posted", call'[e].at = call'[f].at
          PROVE  e = f
      <4>1. \A g \in Calls : call[g].pc = "posted" => call[g].at # s
        BY <1>4, <2>1
      <4> QED
        BY <1>1, <1>4, <2>2, <3>2, <4>1
    <3>3. ASSUME NEW t \in Slots, slot'[t].busy
          PROVE  \E e \in Reads : call'[e].pc = "posted" /\ call'[e].at = t
      <4>1. CASE t = s
        BY <2>2, <4>1
      <4>2. CASE t # s
        <5>1. PICK e \in Reads : call[e].pc = "posted" /\ call[e].at = t
          BY <1>4, <2>3, <3>3, <4>2
        <5>2. e # c /\ e \in Calls
          BY <1>1, <5>1
        <5> QED
          BY <2>2, <5>1, <5>2
      <4> QED
        BY <4>1, <4>2
    <3> QED
      BY <3>1, <3>2, <3>3 DEF Posts
  <2>5. Waits'
    <3>1. \A e \in Calls : call'[e].pc = "waiting" <=> call[e].pc = "waiting"
      BY <1>1, <2>2
    <3> QED
      BY <1>2, <1>7, <3>1 DEF Waits
  <2>6. NobodyWaitsInVain'
    <3>1. ASSUME NEW i \in 1 .. Len(waiting) PROVE Open(waiting[i], slot') = {}
      BY <1>2, <2>1, <2>3 DEF Open
    <3>2. \A i \in 1 .. Len(waiting) : Free(waiting[i], slot') = 0
      BY <3>1, FreeIsOpen
    <3> QED
      BY <1>7, <3>2 DEF NobodyWaitsInVain, Queued
  <2>7. \A t \in Slots : slot'[t].thread = slot[t].thread
    BY <2>3
  <2> QED
    BY <1>1, <1>7, <2>2, <2>3, <2>4, <2>5, <2>6, <2>7 DEF Lanes
<1>8. CASE /\ s = 0 /\ call' = [call EXCEPT ![c] = [pc |-> "waiting", at |-> 0]]
           /\ waiting' = Append(waiting, c) /\ UNCHANGED slot
  <2>1. /\ call'[c].pc = "waiting" /\ \A e \in Calls \ {c} : call'[e] = call[e]
        /\ call' \in [Calls -> Entry]
    BY <1>1, <1>8 DEF Entry
  <2>2. Posts'
    <3>1. \A e \in Calls : call'[e].pc = "posted" <=> call[e].pc = "posted"
      BY <1>1, <2>1
    <3>2. \A e \in Calls : call[e].pc = "posted" => call'[e] = call[e]
      BY <1>1, <2>1
    <3> QED
      BY <1>1, <1>4, <1>8, <3>1, <3>2 DEF Posts
  <2>3. c \notin Elements(waiting)
    BY <1>2
  <2>4. /\ waiting' \in Seq(Reads) /\ Len(waiting) \in Nat /\ Len(waiting') = Len(waiting) + 1
        /\ waiting'[Len(waiting) + 1] = c
        /\ \A i \in 1 .. Len(waiting) : waiting'[i] = waiting[i]
        /\ Elements(waiting') = Elements(waiting) \cup {c} /\ NoTwice(waiting')
    BY <1>1, <1>2, <1>8, <2>3, AppendOne
  <2>5. Waits'
    <3>1. \A e \in Calls : call'[e].pc = "waiting" <=> call[e].pc = "waiting" \/ e = c
      BY <1>1, <2>1
    <3>2. Elements(waiting') = {e \in Calls : call'[e].pc = "waiting"}
      BY <1>1, <1>2, <2>4, <3>1
    <3> QED
      BY <2>4, <3>2 DEF Waits
  <2>6. NobodyWaitsInVain'
    <3>1. ASSUME NEW i \in 1 .. Len(waiting') PROVE Free(waiting'[i], slot') = 0
      <4>1. i = Len(waiting) + 1 \/ i \in 1 .. Len(waiting)
        BY <2>4
      <4>2. Open(waiting'[i], slot) = {}
        BY <1>2, <1>3, <1>8, <2>4, <4>1
      <4> QED
        BY <1>8, <4>2, FreeIsOpen
    <3> QED
      BY <3>1 DEF NobodyWaitsInVain, Queued
  <2> QED
    BY <1>1, <1>8, <2>1, <2>2, <2>4, <2>5, <2>6 DEF Lanes
<1> QED
  BY <1>5, <1>6, <1>7, <1>8

\* Lanes that nobody touches stay in order.
LEMMA LanesUntouched ==
    ASSUME Lanes, UNCHANGED <<slot, waiting>>,
           \A c \in Calls :
               \/ call'[c] = call[c]
               \/ call[c].pc \notin {"posted", "waiting"} /\ call'[c].pc \notin {"posted", "waiting"}
    PROVE  Lanes'
<1>1. /\ \A c \in Calls : call'[c].pc = "posted" <=> call[c].pc = "posted"
      /\ \A c \in Calls : call'[c].pc = "waiting" <=> call[c].pc = "waiting"
      /\ \A c \in Calls : call[c].pc = "posted" => call'[c] = call[c]
      /\ Reads \subseteq Calls
  BY DEF Calls
<1>2. Posts'
  BY <1>1 DEF Lanes, Posts
<1>3. Waits'
  BY <1>1 DEF Lanes, Waits
<1>4. NobodyWaitsInVain'
  BY DEF Lanes, NobodyWaitsInVain, Queued
<1> QED
  BY <1>2, <1>3, <1>4 DEF Lanes

\* Threads are spawned by parses.
LEMMA SpawnedByParses ==
    ASSUME ThreadsInv, Spawned' \subseteq Spawned,
           \A c \in Calls : call[c].pc # "idle" => call'[c].pc # "idle"
    PROVE  Cardinality(Spawned') <= Cardinality(Begun')
<1>1. Begun' \in SUBSET Parses /\ Begun \in SUBSET Begun' /\ Spawned \in SUBSET Parsers
  BY FiniteCalls DEF Begun, Spawned
<1>2. IsFiniteSet(Begun') /\ IsFiniteSet(Parsers)
  <2>1. IsFiniteSet(Parses) /\ Cardinality(Parses) \in Nat /\ Parsers = 1 .. Cardinality(Parses)
    BY FiniteCalls
  <2>2. IsFiniteSet(1 .. Cardinality(Parses))
    BY <2>1, FS_Interval
  <2> QED
    BY <1>1, <2>1, <2>2, FS_Subset
<1>3. /\ IsFiniteSet(Spawned) /\ IsFiniteSet(Spawned') /\ IsFiniteSet(Begun)
      /\ Cardinality(Spawned') <= Cardinality(Spawned)
      /\ Cardinality(Begun) <= Cardinality(Begun')
  BY <1>1, <1>2, FS_Subset
<1>4. /\ Cardinality(Spawned) \in Nat /\ Cardinality(Spawned') \in Nat
      /\ Cardinality(Begun) \in Nat /\ Cardinality(Begun') \in Nat
  BY <1>2, <1>3, FS_CardinalityType
<1>5. Cardinality(Spawned) <= Cardinality(Begun)
  BY DEF ThreadsInv
<1> QED
  BY <1>3, <1>4, <1>5

\* The parses under way stay on the current thread.
LEMMA ParsersUntouched ==
    ASSUME ThreadsInv, UNCHANGED <<parser, parsers>>,
           \A c \in Calls : call'[c].pc = "parsing" => call'[c] = call[c],
           \A c \in Calls : call[c].pc # "idle" => call'[c].pc # "idle"
    PROVE  OnCurrent' /\ Cardinality(Spawned') <= Cardinality(Begun')
<1>1. OnCurrent'
  BY DEF ThreadsInv, OnCurrent
<1>2. Spawned' = Spawned
  BY DEF Spawned
<1> QED
  BY <1>1, <1>2, SpawnedByParses

\* What FailsWithItsThread says of a step.
Fails ==
    \A c \in Calls : call'[c].pc = "failed" =>
        /\ call[c].pc = "posted" => closed' \/ slot'[call[c].at].thread # "live"
        /\ call[c].pc = "parsing" => parsers'[call[c].at] # "live"

\* The steps of a slot.
LEMMA SlotSteps ==
    ASSUME ThreadsInv, NEW s \in Slots,
           Answer(s) \/ ReaderErrors(s) \/ ReaderExits(s)
    PROVE  ThreadsInv' /\ Fails
<1>1. PICK slots, outcome :
          /\ slots \in Slotted /\ outcome \in Settled
          /\ \A t \in Slots : slots[t].busy <=> slot[t].busy
          /\ SlotFreed(s, slots, outcome)
          /\ outcome = "failed" => slots[s].thread # "live"
  <2>1. /\ slot \in Slotted /\ {"answered", "failed"} \subseteq Settled
        /\ {"erred", "gone"} \subseteq Thread
    BY DEF ThreadsInv, PoolTypes, Settled, Thread
  <2>2. CASE Answer(s)
    <3>1. SlotFreed(s, slot, "answered")
      BY <2>2 DEF Answer
    <3> QED
      BY <2>1, <3>1
  <2>3. ASSUME NEW thread \in {"erred", "gone"},
               SlotFreed(s, [slot EXCEPT ![s].thread = thread], "failed")
        PROVE  \E slots, outcome :
                   /\ slots \in Slotted /\ outcome \in Settled
                   /\ \A t \in Slots : slots[t].busy <=> slot[t].busy
                   /\ SlotFreed(s, slots, outcome)
                   /\ outcome = "failed" => slots[s].thread # "live"
    <3>1. PICK S : S = [slot EXCEPT ![s].thread = thread]
      OBVIOUS
    <3>2. S \in Slotted /\ S[s].thread = thread /\ S[s].busy = slot[s].busy
          /\ \A t \in Slots \ {s} : S[t] = slot[t]
      BY <2>1, <2>3, <3>1 DEF Slotted
    <3>3. SlotFreed(s, S, "failed")
      BY <2>3, <3>1
    <3>4. \A t \in Slots : S[t].busy <=> slot[t].busy
      BY <3>2
    <3> QED
      BY <2>1, <2>3, <3>2, <3>3, <3>4
  <2>4. CASE ReaderErrors(s)
    <3>1. SlotFreed(s, [slot EXCEPT ![s].thread = "erred"], "failed")
      BY <2>4 DEF ReaderErrors
    <3> QED
      BY <2>3, <3>1
  <2>5. CASE ReaderExits(s)
    <3>1. SlotFreed(s, [slot EXCEPT ![s].thread = "gone"], "failed")
      BY <2>5 DEF ReaderExits
    <3> QED
      BY <2>3, <3>1
  <2> QED
    BY <2>2, <2>4, <2>5
<1>2. /\ call' \in [Calls -> Entry] /\ slot' \in Slotted /\ waiting' \in Seq(Reads)
      /\ Lanes'
      /\ \A t \in Slots : slot'[t].thread = slots[t].thread
      /\ \A c \in Calls :
             \/ call'[c] = call[c]
             \/ call[c].pc = "posted" /\ call[c].at = s /\ call'[c].pc = outcome
             \/ call[c].pc = "waiting" /\ call'[c].pc = "posted"
  BY <1>1, SlotFreedStep
<1>3. UNCHANGED <<parser, parsers, model, dead, closed>> /\ deaths' \in 0 .. MaxDeaths
  <2>1. deaths \in 0 .. MaxDeaths /\ MaxDeaths \in Nat
    BY PoolsAssumption DEF ThreadsInv, PoolTypes
  <2>2. deaths < MaxDeaths => deaths + 1 \in 0 .. MaxDeaths
    BY <2>1
  <2> QED
    BY <2>1, <2>2 DEF Answer, ReaderErrors, ReaderExits, threads
<1>4. PoolTypes'
  BY <1>2, <1>3 DEF ThreadsInv, PoolTypes
<1>5. OnCurrent' /\ Cardinality(Spawned') <= Cardinality(Begun')
  <2>1. outcome \notin {"parsing", "idle"}
    BY <1>1 DEF Settled
  <2>2. \A c \in Calls : call'[c].pc = "parsing" => call'[c] = call[c]
    BY <1>2, <2>1
  <2>3. \A c \in Calls : call[c].pc # "idle" => call'[c].pc # "idle"
    BY <1>2, <2>1
  <2> QED
    BY <1>3, <2>2, <2>3, ParsersUntouched
<1>6. Fails
  <2>1. ASSUME NEW c \in Calls, call'[c].pc = "failed", call[c].pc \in {"posted", "parsing"}
        PROVE  call[c].pc = "posted" /\ slot'[call[c].at].thread # "live"
    <3>1. call[c].pc = "posted" /\ call[c].at = s /\ outcome = "failed"
      BY <1>2, <2>1
    <3> QED
      BY <1>1, <1>2, <3>1
  <2> QED
    BY <2>1 DEF Fails
<1> QED
  BY <1>2, <1>4, <1>5, <1>6 DEF ThreadsInv

\* The steps of a read that asks for a slot.
LEMMA AskingSteps ==
    ASSUME ThreadsInv, NEW c \in Reads, call[c].pc \in {"idle", "embedding"},
           Invoke(c), UNCHANGED <<threads, closed, deaths>>
    PROVE  ThreadsInv' /\ Fails
<1>1. /\ call' \in [Calls -> Entry] /\ slot' \in Slotted /\ waiting' \in Seq(Reads)
      /\ Lanes'
      /\ \A e \in Calls \ {c} : call'[e] = call[e]
      /\ call'[c].pc \in {"failed", "posted", "waiting"}
  BY InvokeStep
<1>2. UNCHANGED <<parser, parsers, model, dead, closed, deaths>>
  BY DEF threads
<1>3. PoolTypes'
  BY <1>1, <1>2 DEF ThreadsInv, PoolTypes
<1>4. OnCurrent' /\ Cardinality(Spawned') <= Cardinality(Begun')
  <2>1. \A e \in Calls : call'[e].pc = "parsing" => call'[e] = call[e]
    BY <1>1
  <2>2. \A e \in Calls : call[e].pc # "idle" => call'[e].pc # "idle"
    BY <1>1
  <2> QED
    BY <1>2, <2>1, <2>2, ParsersUntouched
<1>5. Fails
  BY <1>1 DEF Fails
<1> QED
  BY <1>1, <1>3, <1>4, <1>5 DEF ThreadsInv

\* The steps that change calls outside the lanes, and fail none that was handed to a thread.
LEMMA OtherCalls ==
    ASSUME ThreadsInv, UNCHANGED <<slot, waiting, parser, parsers, closed>>,
           model' \in Thread, dead' \in BOOLEAN, deaths' \in 0 .. MaxDeaths,
           call' \in [Calls -> Entry],
           \A c \in Calls :
               \/ call'[c] = call[c]
               \/ /\ call[c].pc \notin {"posted", "waiting"}
                  /\ call'[c].pc \notin {"posted", "waiting", "parsing", "idle", "failed"}
    PROVE  ThreadsInv' /\ Fails
<1>1. PoolTypes'
  BY DEF ThreadsInv, PoolTypes
<1>2. Lanes'
  BY LanesUntouched DEF ThreadsInv
<1>3. OnCurrent' /\ Cardinality(Spawned') <= Cardinality(Begun')
  BY ParsersUntouched
<1>4. Fails
  BY DEF Fails
<1> QED
  BY <1>1, <1>2, <1>3, <1>4 DEF ThreadsInv

\* A search begins.
LEMMA SearchStep ==
    ASSUME ThreadsInv, NEW c \in Searches, Search(c)
    PROVE  ThreadsInv' /\ Fails
<1>1. /\ c \in Reads /\ c \in Calls /\ call[c].pc = "idle"
      /\ UNCHANGED <<threads, closed, deaths>>
  BY DEF Search, Reads, Calls
<1>2. CASE dead /\ Invoke(c)
  BY <1>1, <1>2, AskingSteps
<1>3. CASE call' = [call EXCEPT ![c] = [pc |-> "embedding", at |-> 0]] /\ UNCHANGED pool
  <2>1. call' \in [Calls -> Entry] /\ call'[c].pc = "embedding"
        /\ \A e \in Calls \ {c} : call'[e] = call[e]
    BY <1>1, <1>3 DEF ThreadsInv, PoolTypes, Entry
  <2>2. /\ UNCHANGED <<slot, waiting, parser, parsers, closed>>
        /\ model' \in Thread /\ dead' \in BOOLEAN /\ deaths' \in 0 .. MaxDeaths
    BY <1>1, <1>3 DEF pool, threads, ThreadsInv, PoolTypes
  <2>3. \A e \in Calls :
            \/ call'[e] = call[e]
            \/ /\ call[e].pc \notin {"posted", "waiting"}
               /\ call'[e].pc \notin {"posted", "waiting", "parsing", "idle", "failed"}
    BY <1>1, <2>1
  <2> QED
    BY <2>1, <2>2, <2>3, OtherCalls
<1> QED
  BY <1>2, <1>3 DEF Search

\* The model dies.
LEMMA ModelSteps ==
    ASSUME ThreadsInv, ModelErrors \/ ModelExits
    PROVE  ThreadsInv' /\ Fails
<1>1. PICK thread \in {"erred", "gone"} : ModelFails(thread)
  BY DEF ModelErrors, ModelExits
<1>2. deaths' \in 0 .. MaxDeaths
  <2>1. deaths \in 0 .. MaxDeaths /\ MaxDeaths \in Nat
    BY PoolsAssumption DEF ThreadsInv, PoolTypes
  <2>2. deaths < MaxDeaths => deaths + 1 \in 0 .. MaxDeaths
    BY <2>1
  <2> QED
    BY <2>1, <2>2 DEF ModelErrors, ModelExits
<1>3. /\ UNCHANGED <<slot, waiting, parser, parsers, closed>>
      /\ model' \in Thread /\ dead' \in BOOLEAN
  BY <1>1 DEF ModelFails, pool, DeadAfter, Thread
<1>4. ASSUME NEW c \in Calls
      PROVE  /\ call'[c] \in Entry
             /\ \/ call'[c] = call[c]
                \/ call[c].pc = "embedding" /\ call'[c].pc = "embedding"
  <2>1. call[c] \in Entry
    BY DEF ThreadsInv, PoolTypes
  <2>2. PICK e : e = [call[c] EXCEPT !.at = 1]
    OBVIOUS
  <2>3. e \in Entry /\ e.pc = call[c].pc
    BY <2>1, <2>2 DEF Entry
  <2>4. call'[c] = IF call[c].pc = "embedding" THEN e ELSE call[c]
    BY <1>1, <2>2 DEF ModelFails
  <2> QED
    BY <2>1, <2>3, <2>4
<1>5. call' \in [Calls -> Entry]
  <2>1. call' = [c \in Calls |-> call'[c]]
    BY <1>1 DEF ModelFails
  <2> QED
    BY <1>4, <2>1
<1> QED
  BY <1>2, <1>3, <1>4, <1>5, OtherCalls

\* A parse that begins has a thread: there are no more of them than parses that have begun.
LEMMA ParseStep ==
    ASSUME ThreadsInv, NEW c \in Parses, Parse(c)
    PROVE  ThreadsInv' /\ Fails
<1>1. /\ IsFiniteSet(Parses) /\ c \in Calls /\ Cardinality(Parses) \in Nat
      /\ Parsers = 1 .. Cardinality(Parses)
  BY FiniteCalls
<1>2. /\ call[c].pc = "idle"
      /\ call \in [Calls -> Entry] /\ parsers \in [Parsers -> Thread \cup {"none"}]
      /\ parser \in Parsers \cup {0} /\ Cardinality(Spawned) <= Cardinality(Begun)
  BY DEF Parse, ThreadsInv, PoolTypes
<1> DEFINE free == {q \in Parsers : parsers[q] = "none"}
           p == IF parser # 0 THEN parser ELSE Min(free)
<1>3. Begun \in SUBSET Parses /\ c \notin Begun /\ IsFiniteSet(Begun) /\ Cardinality(Begun) \in Nat
      /\ Cardinality(Begun) + 1 <= Cardinality(Parses)
  <2>1. Begun \in SUBSET Parses /\ c \notin Begun /\ Begun \cup {c} \in SUBSET Parses
    BY <1>2 DEF Begun
  <2>2. IsFiniteSet(Begun)
    BY <1>1, <2>1, FS_Subset
  <2>3. Cardinality(Begun \cup {c}) = Cardinality(Begun) + 1
    BY <2>1, <2>2, FS_AddElement
  <2>4. Cardinality(Begun \cup {c}) <= Cardinality(Parses)
    BY <1>1, <2>1, FS_Subset
  <2> QED
    BY <2>1, <2>2, <2>3, <2>4, FS_CardinalityType
<1>4. Spawned \in SUBSET Parsers /\ IsFiniteSet(Parsers) /\ IsFiniteSet(Spawned)
      /\ Cardinality(Spawned) \in Nat /\ Cardinality(Parsers) = Cardinality(Parses)
  <2>1. Spawned \in SUBSET Parsers
    BY DEF Spawned
  <2>2. PICK n \in Nat : n = Cardinality(Parses)
    BY <1>1
  <2>3. IsFiniteSet(1 .. n) /\ Cardinality(1 .. n) = n
    BY FS_Interval
  <2>4. IsFiniteSet(Parsers) /\ Cardinality(Parsers) = Cardinality(Parses)
    BY <1>1, <2>2, <2>3
  <2> QED
    BY <2>1, <2>4, FS_Subset, FS_CardinalityType
<1>5. free # {}
  <2>1. CASE free = {}
    <3>1. Spawned = Parsers
      BY <2>1 DEF Spawned
    <3> QED
      BY <1>2, <1>3, <1>4, <3>1
  <2> QED
    BY <2>1
<1>6. p \in Parsers /\ (parser = 0 => p \in free)
  <2>1. free \in SUBSET (0 .. Cardinality(Parses))
    BY <1>1
  <2> HIDE DEF free
  <2>2. Min(free) \in free
    BY <1>1, <1>5, <2>1, MinIsOne
  <2>3. free \subseteq Parsers
    BY DEF free
  <2> QED
    BY <1>2, <2>2, <2>3
<1>7. /\ parser' = p
      /\ parsers' = [parsers EXCEPT ![p] = IF parser = 0 THEN "live" ELSE parsers[p]]
      /\ call' = [call EXCEPT ![c] = [pc |-> "parsing", at |-> p]]
      /\ UNCHANGED <<slot, waiting, model, dead, closed, deaths>>
  BY DEF Parse, pool
<1>8. p \in Nat /\ 0 \notin Parsers
  BY <1>1, <1>6
<1> HIDE DEF free, p
<1>9. /\ call' \in [Calls -> Entry] /\ call'[c].pc = "parsing" /\ call'[c].at = p
      /\ \A e \in Calls \ {c} : call'[e] = call[e]
  BY <1>1, <1>2, <1>7, <1>8 DEF Entry
<1>10. /\ parsers' \in [Parsers -> Thread \cup {"none"}]
       /\ parser = 0 => parsers'[p] = "live"
       /\ parser # 0 => parsers' = parsers
       /\ \A q \in Parsers \ {p} : parsers'[q] = parsers[q]
  BY <1>2, <1>6, <1>7 DEF Thread
<1>11. PoolTypes'
  BY <1>6, <1>7, <1>9, <1>10 DEF ThreadsInv, PoolTypes
<1>12. Lanes'
  <2>1. \A e \in Calls :
            \/ call'[e] = call[e]
            \/ call[e].pc \notin {"posted", "waiting"} /\ call'[e].pc \notin {"posted", "waiting"}
    BY <1>2, <1>9
  <2> QED
    BY <1>7, <2>1, LanesUntouched DEF ThreadsInv
<1>13. OnCurrent'
  <2>1. ASSUME NEW e \in Calls, call'[e].pc = "parsing"
        PROVE  e \in Parses /\ parser' # 0 /\ call'[e].at = parser'
    <3>1. CASE e = c
      BY <1>6, <1>7, <1>8, <1>9, <3>1
    <3>2. CASE e # c
      <4>1. e \in Parses /\ parser # 0 /\ call[e].at = parser
        BY <1>9, <2>1, <3>2 DEF ThreadsInv, OnCurrent
      <4>2. p = parser
        BY <4>1 DEF p
      <4> QED
        BY <1>7, <1>9, <3>2, <4>1, <4>2
    <3> QED
      BY <3>1, <3>2
  <2>2. parsers'[p] = "live"
    <3>1. parser # 0 => p = parser /\ parsers[parser] = "live"
      BY DEF p, ThreadsInv, OnCurrent
    <3> QED
      BY <1>10, <3>1
  <2> QED
    BY <1>7, <2>1, <2>2 DEF OnCurrent
<1>14. Cardinality(Spawned') <= Cardinality(Begun')
  <2>1. Begun' = Begun \cup {c}
    <3>1. Parses \subseteq Calls
      BY FiniteCalls
    <3> QED
      BY <1>9, <3>1 DEF Begun
  <2>2. Cardinality(Begun') = Cardinality(Begun) + 1
    BY <1>3, <2>1, FS_AddElement
  <2>3. Spawned' \in SUBSET (Spawned \cup {p})
    BY <1>10 DEF Spawned
  <2>4. IsFiniteSet(Spawned \cup {p}) /\ Cardinality(Spawned \cup {p}) <= Cardinality(Spawned) + 1
    <3>1. IsFiniteSet(Spawned \cup {p})
          /\ Cardinality(Spawned \cup {p}) =
               IF p \in Spawned THEN Cardinality(Spawned) ELSE Cardinality(Spawned) + 1
      BY <1>4, FS_AddElement
    <3> QED
      BY <1>4, <3>1
  <2>5. IsFiniteSet(Spawned') /\ Cardinality(Spawned') <= Cardinality(Spawned \cup {p})
    BY <2>3, <2>4, FS_Subset
  <2>6. Cardinality(Spawned') \in Nat /\ Cardinality(Spawned \cup {p}) \in Nat
    BY <2>4, <2>5, FS_CardinalityType
  <2> QED
    BY <1>2, <1>3, <1>4, <2>2, <2>4, <2>5, <2>6
<1>15. Fails
  BY <1>9 DEF Fails
<1> QED
  BY <1>11, <1>12, <1>13, <1>14, <1>15 DEF ThreadsInv

\* A parse is answered.
LEMMA ParsedStep ==
    ASSUME ThreadsInv, NEW c \in Parses, Parsed(c)
    PROVE  ThreadsInv' /\ Fails
<1>1. /\ c \in Calls /\ call \in [Calls -> Entry] /\ call[c].pc = "parsing"
      /\ call' = [call EXCEPT ![c] = [pc |-> "answered", at |-> 0]]
      /\ UNCHANGED <<slot, waiting, parser, parsers, model, dead, closed, deaths>>
  BY FiniteCalls DEF Parsed, pool, threads, ThreadsInv, PoolTypes
<1>2. /\ call' \in [Calls -> Entry] /\ call'[c].pc = "answered"
      /\ \A e \in Calls \ {c} : call'[e] = call[e]
  BY <1>1 DEF Entry
<1>3. \A e \in Calls :
          \/ call'[e] = call[e]
          \/ /\ call[e].pc \notin {"posted", "waiting"}
             /\ call'[e].pc \notin {"posted", "waiting", "parsing", "idle", "failed"}
  BY <1>1, <1>2
<1>4. model' \in Thread /\ dead' \in BOOLEAN /\ deaths' \in 0 .. MaxDeaths
  BY <1>1 DEF ThreadsInv, PoolTypes
<1> QED
  BY <1>1, <1>2, <1>3, <1>4, OtherCalls

\* A parser's thread dies.
LEMMA ParserSteps ==
    ASSUME ThreadsInv, NEW p \in Parsers,
           ParserErrors(p) \/ ParserExits(p)
    PROVE  ThreadsInv' /\ Fails
<1>1. PICK thread \in {"erred", "gone"} :
          parsers' = [parsers EXCEPT ![p] = thread] /\ parsers[p] \in {"live", "erred"}
  BY DEF ParserErrors, ParserExits
<1>2. RetireParser(p) /\ UNCHANGED <<slot, waiting, model, dead, closed>>
  BY DEF ParserErrors, ParserExits, pool
<1>3. deaths' \in 0 .. MaxDeaths
  <2>1. deaths \in 0 .. MaxDeaths /\ MaxDeaths \in Nat
    BY PoolsAssumption DEF ThreadsInv, PoolTypes
  <2>2. deaths < MaxDeaths => deaths + 1 \in 0 .. MaxDeaths
    BY <2>1
  <2> QED
    BY <2>1, <2>2 DEF ParserErrors, ParserExits
<1>4. /\ call \in [Calls -> Entry] /\ parsers \in [Parsers -> Thread \cup {"none"}]
      /\ parser \in Parsers \cup {0} /\ OnCurrent
  BY DEF ThreadsInv, PoolTypes
<1>5. /\ parsers' \in [Parsers -> Thread \cup {"none"}] /\ parsers'[p] = thread
      /\ \A q \in Parsers \ {p} : parsers'[q] = parsers[q]
  BY <1>1, <1>4 DEF Thread
<1>6. Spawned' \subseteq Spawned
  BY <1>1, <1>5 DEF Spawned
<1>7. CASE parser = p
  <2>1. /\ parser' = 0
        /\ call' = [c \in Calls |-> IF call[c].pc = "parsing"
                                    THEN [pc |-> "failed", at |-> 0] ELSE call[c]]
    BY <1>2, <1>7 DEF RetireParser, IsCurrent
  <2>2. /\ \A c \in Calls : call[c].pc = "parsing" => call'[c] = [pc |-> "failed", at |-> 0]
        /\ \A c \in Calls : call[c].pc # "parsing" => call'[c] = call[c]
        /\ call' \in [Calls -> Entry]
    BY <1>4, <2>1 DEF Entry
  <2>3. PoolTypes'
    BY <1>2, <1>3, <1>5, <2>1, <2>2 DEF ThreadsInv, PoolTypes
  <2>4. Lanes'
    BY <1>2, <2>2, LanesUntouched DEF ThreadsInv
  <2>5. OnCurrent'
    BY <2>1, <2>2 DEF OnCurrent
  <2>6. Cardinality(Spawned') <= Cardinality(Begun')
    BY <1>6, <2>2, SpawnedByParses
  <2>7. Fails
    BY <1>1, <1>4, <1>5, <1>7, <2>2 DEF Fails, OnCurrent
  <2> QED
    BY <2>3, <2>4, <2>5, <2>6, <2>7 DEF ThreadsInv
<1>8. CASE parser # p
  <2>1. UNCHANGED <<parser, call>>
    BY <1>2, <1>8 DEF RetireParser, IsCurrent
  <2>2. PoolTypes'
    BY <1>2, <1>3, <1>5, <2>1 DEF ThreadsInv, PoolTypes
  <2>3. Lanes'
    BY <1>2, <2>1, LanesUntouched DEF ThreadsInv
  <2>4. OnCurrent'
    BY <1>4, <1>5, <1>8, <2>1 DEF OnCurrent
  <2>5. Cardinality(Spawned') <= Cardinality(Begun')
    BY <1>6, <2>1, SpawnedByParses
  <2>6. Fails
    BY <2>1 DEF Fails
  <2> QED
    BY <2>2, <2>3, <2>4, <2>5, <2>6 DEF ThreadsInv
<1> QED
  BY <1>7, <1>8

\* The daemon shuts down.
LEMMA ShutDownStep ==
    ASSUME ThreadsInv, ShutDown
    PROVE  ThreadsInv' /\ Fails
<1>1. /\ closed' = TRUE
      /\ call' = [c \in Calls |-> IF call[c].pc \in {"waiting", "posted", "parsing"}
                                  THEN [pc |-> "failed", at |-> 0] ELSE call[c]]
      /\ waiting' = <<>> /\ parser' = 0
      /\ slot' = [s \in Slots |-> [thread |-> "gone", busy |-> FALSE]]
      /\ parsers' = [p \in Parsers |-> IF p = parser THEN "erred" ELSE parsers[p]]
      /\ UNCHANGED <<model, dead, deaths>>
  BY DEF ShutDown
<1>2. /\ call \in [Calls -> Entry] /\ parsers \in [Parsers -> Thread \cup {"none"}]
      /\ parser \in Parsers \cup {0} /\ OnCurrent
  BY DEF ThreadsInv, PoolTypes
<1>3. /\ \A c \in Calls :
             \/ call'[c].pc = "failed"
             \/ call'[c] = call[c] /\ call[c].pc \notin {"waiting", "posted", "parsing"}
      /\ call' \in [Calls -> Entry]
  BY <1>1, <1>2 DEF Entry
<1>4. slot' \in Slotted /\ \A s \in Slots : ~slot'[s].busy
  BY <1>1 DEF Slotted, Thread
<1>5. waiting' \in Seq(Reads) /\ \A i \in 1 .. Len(waiting') : FALSE
  BY <1>1
<1>6. PoolTypes'
  BY <1>1, <1>2, <1>3, <1>4, <1>5 DEF ThreadsInv, PoolTypes, Thread
<1>7. Lanes'
  <2>1. Posts'
    BY <1>3, <1>4 DEF Posts, Calls
  <2>2. Waits'
    BY <1>3, <1>5 DEF Waits, NoTwice, Elements
  <2>3. NobodyWaitsInVain'
    BY <1>5 DEF NobodyWaitsInVain, Queued
  <2> QED
    BY <2>1, <2>2, <2>3 DEF Lanes
<1>8. OnCurrent'
  BY <1>1, <1>3 DEF OnCurrent
<1>9. Cardinality(Spawned') <= Cardinality(Begun')
  <2>1. Spawned' \subseteq Spawned
    <3>1. ASSUME NEW q \in Parsers, parsers'[q] # "none" PROVE parsers[q] # "none"
      <4>1. CASE q = parser
        <5>1. q # 0
          BY FiniteCalls
        <5> QED
          BY <1>2, <4>1, <5>1 DEF OnCurrent
      <4>2. CASE q # parser
        BY <1>1, <3>1, <4>2
      <4> QED
        BY <4>1, <4>2
    <3> QED
      BY <3>1 DEF Spawned
  <2>2. \A c \in Calls : call[c].pc # "idle" => call'[c].pc # "idle"
    BY <1>3
  <2> QED
    BY <2>1, <2>2, SpawnedByParses
<1>10. Fails
  BY <1>1, <1>2, <1>3 DEF Fails, OnCurrent
<1> QED
  BY <1>6, <1>7, <1>8, <1>9, <1>10 DEF ThreadsInv

\* Nothing has been asked at the start.
LEMMA InitThreads == PoolsInit => ThreadsInv
<1> SUFFICES ASSUME PoolsInit PROVE ThreadsInv
  OBVIOUS
<1>1. /\ \A c \in Calls : call[c].pc = "idle"
      /\ \A s \in Slots : ~slot[s].busy
      /\ \A p \in Parsers : parsers[p] = "none"
      /\ parser = 0 /\ waiting = <<>> /\ \A i \in 1 .. Len(waiting) : FALSE
  BY DEF PoolsInit
<1>2. PoolTypes
  <2>1. call \in [Calls -> Entry] /\ slot \in Slotted /\ waiting \in Seq(Reads)
    BY DEF PoolsInit, Entry, Slotted, Thread
  <2>2. parser \in Parsers \cup {0} /\ parsers \in [Parsers -> Thread \cup {"none"}]
    BY DEF PoolsInit
  <2>3. model \in Thread /\ dead \in BOOLEAN /\ closed \in BOOLEAN
    BY DEF PoolsInit, Thread
  <2>4. 0 \in 0 .. MaxDeaths
    BY PoolsAssumption
  <2>5. deaths \in 0 .. MaxDeaths
    BY <2>4 DEF PoolsInit
  <2> QED
    BY <2>1, <2>2, <2>3, <2>5 DEF PoolTypes
<1>3. Posts /\ OnCurrent
  BY <1>1 DEF Posts, OnCurrent, Calls
<1>4. Waits
  BY <1>1 DEF Waits, NoTwice, Elements
<1>5. NobodyWaitsInVain
  BY <1>1 DEF NobodyWaitsInVain, Queued
<1>6. Cardinality(Spawned) <= Cardinality(Begun)
  <2>1. Spawned = {} /\ Begun = {}
    BY <1>1, FiniteCalls DEF Spawned, Begun
  <2> QED
    BY <2>1, FS_EmptySet
<1> QED
  BY <1>2, <1>3, <1>4, <1>5, <1>6 DEF ThreadsInv, Lanes

\* Every step keeps the invariant, and fails calls with their threads only.
LEMMA ThreadsStep ==
    ThreadsInv /\ [PoolsNext]_poolVars
    => ThreadsInv' /\ [Fails]_poolVars
<1> SUFFICES ASSUME ThreadsInv, [PoolsNext]_poolVars
             PROVE  ThreadsInv' /\ [Fails]_poolVars
  OBVIOUS
<1>1. CASE UNCHANGED poolVars
  <2>1. UNCHANGED <<call, slot, waiting, parser, parsers, model, dead, closed, deaths>>
    BY <1>1 DEF poolVars
  <2>2. PoolTypes' /\ OnCurrent'
    BY <2>1 DEF ThreadsInv, PoolTypes, OnCurrent
  <2>3. Lanes'
    BY <2>1, LanesUntouched DEF ThreadsInv
  <2>4. Spawned' = Spawned /\ Begun' = Begun
    BY <2>1 DEF Spawned, Begun
  <2> QED
    BY <1>1, <2>2, <2>3, <2>4 DEF ThreadsInv
<1>2. ASSUME NEW c \in Searches, Embedded(c) \/ Unembedded(c) PROVE ThreadsInv' /\ Fails
  <2>1. /\ c \in Reads /\ call[c].pc = "embedding" /\ Invoke(c)
        /\ UNCHANGED <<threads, closed, deaths>>
    BY <1>2 DEF Embedded, Unembedded, Reads
  <2> QED
    BY <2>1, AskingSteps
<1>3. ASSUME NEW c \in ControlReads, ControlRead(c) PROVE ThreadsInv' /\ Fails
  <2>1. /\ c \in Reads /\ call[c].pc = "idle" /\ Invoke(c)
        /\ UNCHANGED <<threads, closed, deaths>>
    BY <1>3 DEF ControlRead, Reads
  <2> QED
    BY <2>1, AskingSteps
<1>4. CASE PoolsNext
  BY <1>2, <1>3, <1>4, SearchStep, ParseStep, ParsedStep, SlotSteps, ParserSteps, ModelSteps, ShutDownStep
     DEF PoolsNext
<1> QED
  BY <1>1, <1>4

\* A slot is busy exactly while one read is posted to it.
LEMMA ThreadsTyped == ThreadsInv => PoolsTypeOK
<1> SUFFICES ASSUME ThreadsInv PROVE PoolsTypeOK
  OBVIOUS
<1>1. ASSUME NEW s \in Slots PROVE Cardinality(InFlight(s)) = IF slot[s].busy THEN 1 ELSE 0
  <2>1. \A c \in InFlight(s) :
            c \in Reads /\ c \in Calls /\ call[c].pc = "posted" /\ call[c].at = s
    BY DEF InFlight, Calls
  <2>2. CASE slot[s].busy
    <3>1. PICK c \in Reads : call[c].pc = "posted" /\ call[c].at = s
      BY <2>2 DEF ThreadsInv, Lanes, Posts
    <3>2. InFlight(s) = {c}
      BY <2>1, <3>1 DEF ThreadsInv, Lanes, Posts, InFlight
    <3>3. Cardinality({c}) = 1
      BY FS_Singleton
    <3> QED
      BY <2>2, <3>2, <3>3
  <2>3. CASE ~slot[s].busy
    <3>1. InFlight(s) = {}
      BY <2>1, <2>3 DEF ThreadsInv, Lanes, Posts
    <3>2. Cardinality({}) = 0
      BY FS_EmptySet
    <3> QED
      BY <2>3, <3>1, <3>2
  <2> QED
    BY <2>2, <2>3
<1>2. Queued = {c \in Calls : call[c].pc = "waiting"}
  BY DEF ThreadsInv, Lanes, Waits, Queued, Elements
<1>3. /\ call \in [Calls -> Entry]
      /\ slot \in [Slots -> [thread : Thread, busy : BOOLEAN]]
      /\ waiting \in Seq(Reads)
      /\ parser \in Parsers \cup {0} /\ parsers \in [Parsers -> Thread \cup {"none"}]
      /\ model \in Thread /\ dead \in BOOLEAN /\ closed \in BOOLEAN
      /\ deaths \in 0 .. MaxDeaths
  BY DEF ThreadsInv, PoolTypes, Slotted
<1> QED
  BY <1>1, <1>2, <1>3 DEF PoolsTypeOK

(* Every variable keeps its type, a slot is busy exactly while one read is posted to it, and the *)
(* queue holds exactly the reads that wait, for any number of calls, slots and deaths.           *)
THEOREM ThreadsTypeCorrect == PoolsSpec => []PoolsTypeOK
<1>1. PoolsInit => ThreadsInv
  BY InitThreads
<1>2. ThreadsInv /\ [PoolsNext]_poolVars => ThreadsInv'
  BY ThreadsStep
<1>3. ThreadsInv => PoolsTypeOK
  BY ThreadsTyped
<1> QED
  BY <1>1, <1>2, <1>3, PTL DEF PoolsSpec

(* Nobody waits beside a free slot it may use, whatever waits before it (ReadPool.drain and free), *)
(* for any number of reads and of slots.                                                           *)
THEOREM NobodyWaitsForNothing == PoolsSpec => []NobodyWaitsInVain
<1>1. PoolsInit => ThreadsInv
  BY InitThreads
<1>2. ThreadsInv /\ [PoolsNext]_poolVars => ThreadsInv'
  BY ThreadsStep
<1>3. ThreadsInv => NobodyWaitsInVain
  BY DEF ThreadsInv, Lanes
<1> QED
  BY <1>1, <1>2, <1>3, PTL DEF PoolsSpec

(* A call fails only with the thread it was handed to (WorkerCodeParser.retire, ReadPool.attach). *)
THEOREM CallsFailWithTheirThread == PoolsSpec => FailsWithItsThread
<1>1. PoolsInit => ThreadsInv
  BY InitThreads
<1>2. ThreadsInv /\ [PoolsNext]_poolVars => ThreadsInv' /\ [Fails]_poolVars
  BY ThreadsStep
<1>3. [Fails]_poolVars => [\A c \in Calls : call'[c].pc = "failed" =>
          /\ call[c].pc = "posted" => closed' \/ slot'[call[c].at].thread # "live"
          /\ call[c].pc = "parsing" => parsers'[call[c].at] # "live"]_poolVars
  BY DEF Fails
<1> QED
  BY <1>1, <1>2, <1>3, PTL DEF PoolsSpec, FailsWithItsThread

=============================================================================
