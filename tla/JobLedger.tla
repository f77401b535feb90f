------------------------------ MODULE JobLedger ------------------------------
(* What the job queue promises whoever submits to it, with no runner, lease  *)
(* or daemon in sight: a job is submitted once, is attempted at most         *)
(* MaxAttempts times, and once attempted may settle, which is final.         *)
EXTENDS Naturals

CONSTANTS Jobs, MaxAttempts

VARIABLES phase, attempts

lvars == <<phase, attempts>>

LInit == /\ phase = [j \in Jobs |-> "absent"]
         /\ attempts = [j \in Jobs |-> 0]

LSubmit(j) == /\ phase[j] = "absent"
              /\ phase' = [phase EXCEPT ![j] = "open"]
              /\ UNCHANGED attempts

LAttempt(j) == /\ phase[j] = "open" /\ attempts[j] < MaxAttempts
               /\ attempts' = [attempts EXCEPT ![j] = @ + 1]
               /\ UNCHANGED phase

(* Several jobs may settle at once: a daemon that starts retires them all. *)
LSettle(S) == /\ \A j \in S : phase[j] = "open" /\ attempts[j] > 0
              /\ phase' = [j \in Jobs |-> IF j \in S THEN "settled" ELSE phase[j]]
              /\ UNCHANGED attempts

LNext == \/ \E j \in Jobs : LSubmit(j) \/ LAttempt(j)
         \/ \E S \in SUBSET Jobs : LSettle(S)

LSpec == LInit /\ [][LNext]_lvars
=============================================================================
