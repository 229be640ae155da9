---------------------------- MODULE Continuation ----------------------------
(***************************************************************************)
(* What a driver of the drift-diffusion solvers promises: it leads the     *)
(* stored solution along a parameter (a bias, the time) from the job's     *)
(* beginning to its goal, never backwards and never past the goal, and     *)
(* when it ends without a failure the goal is solved.  How far it goes at  *)
(* a time, and how often it fails to, is left open.  DCSweep, Transient    *)
(* and MixTransient implement it.                                          *)
(***************************************************************************)
EXTENDS Integers

CONSTANT Jobs  \* records [from, to : Int, up : BOOLEAN]: the values, and the direction

VARIABLES
  job,    \* the job in hand
  at,     \* the parameter of the stored solution
  state   \* "solve" while the driver runs, then "done" or "failed"

vars == <<job, at, state>>

Before(a, b) == IF job.up THEN a <= b ELSE b <= a

(* A job whose goal lies behind its beginning is done at once. *)
Init ==
  /\ job \in Jobs
  /\ at = job.from
  /\ state = IF Before(job.from, job.to) THEN "solve" ELSE "done"

Advance ==
  /\ state = "solve"
  /\ at' \in Int /\ Before(at, at') /\ Before(at', job.to)
  /\ state' \in {"solve", "done"}
  /\ state' = "done" => at' = job.to
  /\ UNCHANGED job

Fail ==
  /\ state = "solve"
  /\ state' = "failed"
  /\ UNCHANGED <<job, at>>

Next == Advance \/ Fail

Spec == Init /\ [][Next]_vars
=============================================================================
