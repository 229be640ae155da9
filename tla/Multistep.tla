----------------------------- MODULE Multistep ------------------------------
(***************************************************************************)
(* What the transient drivers of the device solvers (ddm_solver.cc) and of *)
(* the mixed device/circuit solvers (mix_solver.cc, mixA_solver.cc) have   *)
(* in common: the multistep prediction and the bounds on a time step.  A   *)
(* solution vector is represented by the time whose solution it holds or   *)
(* approximates: that is all the multistep formulas depend on.             *)
(***************************************************************************)
EXTENDS Rounding

(* A vector never written, or computed from inconsistent data. *)
Garbage == -1

(* Extrapolating linearly by hn from the solutions at a and b, taken to be   *)
(* hn1 apart, and quadratically with a third one hn2 before b.               *)
Linear(hn, hn1, a, b) ==
  IF b # Garbage /\ hn1 > 0 /\ a - b = hn1 THEN a + hn ELSE Garbage

Quadratic(hn, hn1, hn2, a, b, c) ==
  IF c # Garbage /\ hn2 > 0 /\ b - c = hn2 THEN Linear(hn, hn1, a, b) ELSE Garbage

(* The step h kept within the bounds TStepMin and TStepMax (0: none). *)
StepWithin(h, TStepMin, TStepMax) ==
  LET g == Greater(h, TStepMin)
  IN IF TStepMax > 0 THEN Lesser(g, TStepMax) ELSE g
=============================================================================
