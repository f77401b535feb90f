--------------------------- MODULE DaemonLifecycle ---------------------------
(* Which daemon owns a database: processes that start (launchd's own, or strays of a session or *)
(* of the desktop app), look at the pid file and at launchd, step aside, wait or claim, publish *)
(* themselves, bind the socket, work, and leave by a signal, by idling or by dying.             *)
(*                                                                                              *)
(* A process is its pid. The number of a daemon that is gone may be given to another program,   *)
(* which signal 0 cannot tell from it; no two daemons share one. Nothing but the step itself is *)
(* atomic between processes: the look and the claim are apart, as in the code.                  *)
EXTENDS Integers, FiniteSets

CONSTANTS
    None,
    MaxStrays,    \* bound: processes started by a session or by the desktop app
    MaxEnds,      \* bound: deaths, signals and idle exits
    MaxSilences,  \* bound: times launchctl gives no answer
    MaxReuses     \* bound: numbers of daemons that are given to other programs

ASSUME BoundsAssumption ==
    /\ MaxStrays \in Nat /\ MaxEnds \in Nat /\ MaxSilences \in Nat
    /\ MaxReuses \in Nat
    /\ None \notin Nat

\* Enough for launchd to start its daemon again after whatever ends it.
Pids == 1 .. (MaxStrays + MaxEnds + MaxSilences + 1)

VARIABLES
    started,   \* the last pid handed out
    strays,    \* how many of them launchd did not start
    managed,   \* the pid launchd supervises
    phase,     \* where the process is in daemon.ts main
    answer,    \* what launchctl told the process
    seen,      \* whether the socket path existed when the process looked
    listens,   \* the processes that bound the path
    pidfile,   \* daemon.pid
    bound,     \* the process the socket path leads to, alive or not
    registry,  \* the pids with a row in processes
    foreign,   \* the numbers of daemons that are gone which another program has
    ended, silent, reused,
    raced,     \* history: two starts overlapped, the later looked before the earlier had written
    yields     \* history: the pids that were told of a live daemon of launchd's

vars == <<started, strays, managed, phase, answer, seen, listens, pidfile, bound, registry, foreign,
          ended, silent, reused, raced, yields>>

Phases == {"unborn", "asking", "looking", "waiting", "starting", "claimed", "published",
           "binding", "working", "stopped", "retired", "gone"}

Init ==
    /\ started = 0 /\ strays = 0 /\ managed = None
    /\ phase = [p \in Pids |-> "unborn"]
    /\ answer = [p \in Pids |-> None]
    /\ seen = [p \in Pids |-> FALSE] /\ listens = {}
    /\ pidfile = None /\ bound = None /\ registry = {}
    /\ foreign = {} /\ reused = 0
    /\ ended = 0 /\ silent = 0 /\ raced = FALSE /\ yields = {}

Runs(p) == p \in Pids /\ phase[p] \notin {"unborn", "gone"}

\* isProcessAlive: signal 0 reaches some process of that number, or may not (EPERM).
IsAlive(p) == Runs(p) \/ p \in foreign

(* slip: a pid file is a daemon, dead or not *)
AliveAnyway(p) == pidfile # None /\ pidfile # p
IsDaemonAlive(p) == pidfile # None /\ pidfile # p /\ IsAlive(pidfile)

(* slip: launchd alone decides *)
OwnedByManaged(p) == answer[p] # None /\ answer[p] # p /\ IsAlive(answer[p])
OwnedByAnother(p) ==
    \/ IsDaemonAlive(p)
    \/ answer[p] # None /\ answer[p] # p /\ IsAlive(answer[p])

\* Only launchd's own daemon is resident and supervised: it alone waits.
StepsAside(p) == answer[p] # p

Moves(p, from, to) == phase[p] = from /\ phase' = [phase EXCEPT ![p] = to]

\* What a process knew goes with it.
Exits(p) ==
    /\ phase' = [phase EXCEPT ![p] = "gone"]
    /\ answer' = [answer EXCEPT ![p] = None] /\ seen' = [seen EXCEPT ![p] = FALSE]
    /\ listens' = listens \ {p} /\ yields' = yields \ {p}

\* A process past its decision and not yet past its work.
Active(p) == phase[p] \in {"starting", "claimed", "published", "binding", "working"}

----------------------------------------------------------------------------
(* Starting *)

Begin(p) == started' = p /\ p \in Pids /\ Moves(p, "unborn", "asking")

\* launchd starts its agent at login and again after any exit (KeepAlive).
LaunchdStarts ==
    /\ ~Runs(managed)
    /\ Begin(started + 1)
    /\ managed' = started + 1
    /\ UNCHANGED <<strays, answer, seen, listens, pidfile, bound, registry, foreign, ended,
                   silent, reused, raced, yields>>

StrayStarts ==
    /\ strays < MaxStrays /\ strays' = strays + 1
    /\ Begin(started + 1)
    /\ UNCHANGED <<managed, answer, seen, listens, pidfile, bound, registry, foreign, ended,
                   silent, reused, raced, yields>>

\* launchctl print, which names what runs, or no answer from it.
AskLaunchd(p) ==
    /\ Moves(p, "asking", "looking")
    /\ \/ /\ answer' = [answer EXCEPT ![p] = IF Runs(managed) THEN managed ELSE None]
          /\ yields' = IF managed # p /\ Runs(managed) THEN yields \cup {p} ELSE yields
          /\ UNCHANGED silent
       \/ silent < MaxSilences /\ silent' = silent + 1 /\ UNCHANGED <<answer, yields>>
    /\ UNCHANGED <<started, strays, managed, seen, listens, pidfile, bound, registry, foreign,
                   ended, reused, raced>>

\* The decision to claim; the claim itself is written later.
Claims(p, from) ==
    /\ Moves(p, from, "starting")
    /\ raced' = (raced \/ \E q \in Pids \ {p} : phase[q] = "starting")
    /\ UNCHANGED <<started, strays, managed, answer, seen, listens, pidfile, bound, registry,
                   foreign, ended, silent, reused, yields>>

FindsFree(p) == phase[p] = "looking" /\ ~OwnedByAnother(p) /\ Claims(p, "looking")

FindsOwner(p) ==
    /\ phase[p] = "looking" /\ OwnedByAnother(p)
    /\ IF StepsAside(p)
       THEN Exits(p)
       ELSE Moves(p, "looking", "waiting") /\ UNCHANGED <<answer, seen, listens, yields>>
    /\ UNCHANGED <<started, strays, managed, pidfile, bound, registry, foreign, ended, silent,
                   reused, raced>>

\* waitForOwnership asks the pid file alone.
TakesOver(p) == phase[p] = "waiting" /\ ~IsDaemonAlive(p) /\ Claims(p, "waiting")

\* The repairs of a start (closeAbandonedRuns, reconcileAbandoned) come before this, unclaimed.
WritePid(p) ==
    /\ Moves(p, "starting", "claimed")
    /\ pidfile' = p
    /\ UNCHANGED <<started, strays, managed, answer, seen, listens, bound, registry, foreign,
                   ended, silent, reused, raced, yields>>

SweptDead(p) == {q \in registry \cup {p} : IsAlive(q)}

Publish(p) ==
    /\ Moves(p, "claimed", "published")
    /\ registry' = SweptDead(p)
    /\ UNCHANGED <<started, strays, managed, answer, seen, listens, pidfile, bound, foreign,
                   ended, silent, reused, raced, yields>>

\* RpcServer.listen: a path a live daemon is named for is left alone, and the daemon goes on deaf.
LookAtSocket(p) ==
    /\ Moves(p, "published", IF bound # None /\ IsDaemonAlive(p) THEN "working" ELSE "binding")
    /\ seen' = [seen EXCEPT ![p] = bound # None]
    /\ UNCHANGED <<started, strays, managed, answer, listens, pidfile, bound, registry, foreign,
                   ended, silent, reused, raced, yields>>

\* A path that was there is removed, whoever listens on it; one that was not may be there by now.
BindSocket(p) ==
    /\ Moves(p, "binding", "working")
    /\ IF seen[p] \/ bound = None
       THEN bound' = p /\ listens' = listens \cup {p}
       ELSE UNCHANGED <<bound, listens>>
    /\ UNCHANGED <<started, strays, managed, answer, seen, pidfile, registry, foreign, ended,
                   silent, reused, raced, yields>>

----------------------------------------------------------------------------
(* Leaving *)

(* slip: the pid file goes with the workers, and the socket path is left *)
ClearedEarly(p) == pidfile' = None /\ UNCHANGED bound
\* Workers, pools and socket are stopped together; closing a listener unlinks its path by name.
StopsServing(p) == bound' = (IF p \in listens THEN None ELSE bound) /\ UNCHANGED pidfile

\* SIGTERM, or an idle daemon that is not resident. One that is stopped before it has bound may
\* still bind until it exits, which leaves a path like that of a crash.
Stop(p) ==
    /\ \E from \in {"published", "binding", "working"} : Moves(p, from, "stopped")
    /\ ended < MaxEnds /\ ended' = ended + 1
    /\ StopsServing(p)
    /\ UNCHANGED <<started, strays, managed, answer, seen, listens, registry, foreign, silent,
                   reused, raced, yields>>

Retire(p) ==
    /\ Moves(p, "stopped", "retired")
    /\ registry' = registry \ {p}
    /\ UNCHANGED <<started, strays, managed, answer, seen, listens, pidfile, bound, foreign,
                   ended, silent, reused, raced, yields>>

\* clearDaemonPid removes the file, whoever it names.
ClearAndExit(p) ==
    /\ phase[p] = "retired" /\ Exits(p)
    /\ pidfile' = None
    /\ UNCHANGED <<started, strays, managed, bound, registry, foreign, ended, silent, reused,
                   raced>>

Crash(p) ==
    /\ Runs(p) /\ ended < MaxEnds
    /\ ended' = ended + 1
    /\ Exits(p)
    /\ UNCHANGED <<started, strays, managed, pidfile, bound, registry, foreign, silent, reused,
                   raced>>

(* Another program gets the number of a daemon that is gone, or ends. *)

Reuse(p) ==
    /\ phase[p] = "gone" /\ p \notin foreign
    /\ reused < MaxReuses /\ reused' = reused + 1
    /\ foreign' = foreign \cup {p}
    /\ UNCHANGED <<started, strays, managed, phase, answer, seen, listens, pidfile, bound, registry,
                   ended, silent, raced, yields>>

ForeignEnds(p) ==
    /\ p \in foreign
    /\ foreign' = foreign \ {p}
    /\ UNCHANGED <<started, strays, managed, phase, answer, seen, listens, pidfile, bound, registry,
                   ended, silent, reused, raced, yields>>

Proceeds(p) ==
    \/ AskLaunchd(p) \/ FindsFree(p) \/ FindsOwner(p) \/ TakesOver(p) \/ WritePid(p)
    \/ Publish(p) \/ LookAtSocket(p) \/ BindSocket(p) \/ Retire(p) \/ ClearAndExit(p)

Next ==
    \/ LaunchdStarts \/ StrayStarts
    \/ \E p \in Pids : Proceeds(p) \/ Stop(p) \/ Crash(p) \/ Reuse(p) \/ ForeignEnds(p)

Spec == Init /\ [][Next]_vars

\* Each process runs on, and launchd keeps its agent alive.
FairSpec == Spec /\ WF_vars(LaunchdStarts) /\ WF_vars(\E p \in Pids : Proceeds(p))

----------------------------------------------------------------------------
(* Properties *)

(* Every variable has its type, and only what was started has done anything. *)
TypeOK ==
    /\ started \in 0 .. MaxStrays + MaxEnds + MaxSilences + 1 /\ strays \in 0 .. MaxStrays
    /\ managed \in Pids \cup {None} /\ pidfile \in Pids \cup {None} /\ bound \in Pids \cup {None}
    /\ phase \in [Pids -> Phases] /\ answer \in [Pids -> Pids \cup {None}]
    /\ seen \in [Pids -> BOOLEAN]
    /\ listens \subseteq Pids /\ registry \subseteq Pids /\ yields \subseteq Pids
    /\ foreign \subseteq Pids
    /\ ended \in 0 .. MaxEnds /\ silent \in 0 .. MaxSilences /\ reused \in 0 .. MaxReuses
    /\ raced \in BOOLEAN

(* Strays make way: of all that were started only the one launchd supervises ever waits, so      *)
(* they do not pile up behind an owner (daemon.ts:125-143: "Waiting here is what left idle       *)
(* second writers accumulating"); and one that was told of launchd's live daemon does not claim  *)
(* before that one is gone, even when the pid file names somebody dead or nobody (145-164).      *)
StraysYield ==
    /\ \A p \in Pids : phase[p] = "waiting" => p = managed
    /\ \A p \in yields : phase[p] = "starting" => ~Runs(answer[p])

(* One daemon at a time: unless two looked before either had written the pid file, no two     *)
(* processes are past the decision to claim and not yet stopped, so no start repairs the runs *)
(* and jobs of a daemon at work (daemon.ts:387-441).                                          *)
AloneUnlessRaced ==
    raced \/ \A p, q \in Pids : Active(p) /\ Active(q) => p = q

(* The daemon at work is found: the pid file names it and the socket path leads to it, though *)
(* paths and pid files are removed and replaced by name (daemon-pid.ts:43, server.ts:75-96).  *)
OwnerIsFound ==
    raced \/ \A p \in Pids :
        /\ phase[p] \in {"claimed", "published", "binding", "working", "stopped", "retired"} =>
               pidfile = p
        /\ phase[p] = "working" => bound = p

(* Whatever raced, a daemon that published itself and still runs is in the list of processes:  *)
(* the sweeps of the others never take it for dead (process-registry.service.ts:44-80).        *)
LivingAreListed ==
    \A p \in Pids : phase[p] \in {"published", "binding", "working", "stopped"} => p \in registry

\* A client that connects is answered.
Reachable == \E p \in Pids : phase[p] = "working" /\ bound = p

\* The pid file of a daemon that is gone names a program that has its number.
Misled == pidfile \in foreign

(* Whatever is left by the daemons before it - a pid file, a socket path, a stray that goes - *)
(* launchd's daemon ends up answering, or one it waits for does: nobody waits for a dead one, *)
(* except where the number in the pid file has gone to another program, for as long as that   *)
(* one runs (daemon.ts:166-183, daemon-pid.ts:24-36).                                         *)
ReachableInTheEnd == []<>(raced \/ Reachable \/ Misled)

----------------------------------------------------------------------------
(* What a comment of the code says, and the code does not do *)

(* "A stale pidfile (dead pid) reads as dead" (daemon-pid.ts:23). *)
ReachableWhateverIsLeft == []<>(raced \/ Reachable)
=============================================================================
