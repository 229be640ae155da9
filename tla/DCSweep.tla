------------------------------ MODULE DCSweep -------------------------------
(***************************************************************************)
(* The DC sweep drivers solve_dcsweep of DDMSolverBase, and of             *)
(* MixSolverBase and MixASolverBase, which sweep a source of the circuit   *)
(* around the device (src/src/solver/ddm_common: ddm_solver.cc,            *)
(* mix_solver.cc, mixA_solver.cc).  They ramp a bias from VStart to VStop, *)
(* solving the equations at each bias.  When Newton's method diverges at a *)
(* bias, the bias is pushed on the stack V_retry and the midpoint between  *)
(* it and the last solved bias is tried instead; each success pops the     *)
(* stack.                                                                  *)
(*                                                                         *)
(* The voltage and the current scan are the same loop over other names     *)
(* (one SOLVE card asks for exactly one of them), and the three drivers    *)
(* differ in the loop test, in what they save and in what they report, so  *)
(* one module models all of them.  The nonlinear solve is the environment: *)
(* it may converge or diverge, except that it diverges from a guess that   *)
(* is not a number and converges when the bias moved by no more than the   *)
(* sweep's radius.                                                         *)
(***************************************************************************)
EXTENDS Rounding, Sequences

CONSTANTS
  Sweeps,    \* the sweeps a SOLVE card may ask for
  MaxRetry,  \* entries the retry stack may hold: 8 in the code
  TolInv,    \* reciprocal of the loop test's relative tolerance: 1e7 in the code
  Junk       \* what an uninitialised variable may hold

(* snap is the code's 1e-10 in the units of the sweep: a bias nearer to      *)
(* VStop is VStop.  Newton's method converges for bias moves up to radius    *)
(* (-1: never surely).                                                       *)
SweepType == [solver : {"DDM", "Mix", "MixA"}, start : Int, stop : Int,
              step : Int \ {0}, stepMax : Int, predict : BOOLEAN,
              snap : Nat \ {0}, radius : Int]

ASSUME SweepAssumption ==
  /\ Sweeps \subseteq SweepType
  /\ MaxRetry \in Nat \ {0}
  /\ Junk \subseteq Int /\ Junk # {}

(* The loop test's tolerance is finer than the resolution. *)
ASSUME TolAssumption ==
  /\ TolInv \in Nat
  /\ \A s \in Sweeps : -TolInv < s.stop /\ s.stop < TolInv

VARIABLES
  par,           \* the driver, and VStart, VStop, VStep, VStepMax and Predict
  Vscan,         \* the bias to be solved next
  VStep,         \* the current step
  Vs,            \* Vs1, Vs2, Vs3: the last three solved biases, if they are saved
  V_retry,       \* biases that diverged and wait for another try; the head is the top
  DC_Cycles,     \* solved biases; counts to 3, the code tells no more apart
  x,             \* what the solution vector holds when the next solve starts
  pc,            \* "solve" in the loop; "done" when the loop test ended it,
                 \* "failed" when a divergence did
  ierr,          \* the driver's return value
  tran_histroy,  \* SolverSpecify::tran_histroy: the state stems from a transient run
  sol,           \* the bias whose solution the nodes hold, VStart before the first
  solved         \* history: the biases of the user's grid, and VStop, solved so far

vars == <<par, Vscan, VStep, Vs, V_retry, DC_Cycles, x, pc, ierr, tran_histroy,
          sol, solved>>

CycleCap == 3

-----------------------------------------------------------------------------
(* The sweep's direction. *)
Leq(a, b) == IF par.step > 0 THEN a <= b ELSE b <= a

(* The loop test Vscan*VStep <= VStop*VStep*(1 + 1e-7); the mixed-mode       *)
(* drivers have < in its place.                                              *)
InRange(p, v) ==
  LET at == v * p.step * TolInv
      limit == p.stop * p.step * (TolInv + 1)
  IN at < limit \/ (p.solver = "DDM" /\ at = limit)

(* The driver saves the solved biases: the mixed-mode drivers only for the   *)
(* projection.                                                               *)
BiasSaved == par.solver = "DDM" \/ par.predict

(* fabs(Vscan - VStop) < 1e-10: take VStop itself. *)
Snap(v) == IF Abs(v - par.stop) < par.snap THEN par.stop ELSE v

(* Ten percent more, in either direction. *)
TenPercentMore(s) ==
  IF s > 0 THEN Rounded(11 * s, 10) ELSE {-q : q \in Rounded(-11 * s, 10)}

(* A step below VStepMax grows by 10%. *)
MutGrownPastMax(s) == TenPercentMore(s)
Grown(s) ==
  IF Abs(s) < Abs(par.stepMax) THEN TenPercentMore(s) ELSE {s}

(* "for last step, we force V equal to VStop": v is past VStop by less than  *)
(* one step s.  The code's margin 1e-10*s is finer than the resolution.      *)
MutNoForceStop(v, s) == v
ForceStop(v, s) ==
  IF /\ v * par.step > par.stop * par.step
     /\ v * par.step < (par.stop + s) * par.step
  THEN par.stop
  ELSE v

(* The order of the projection of saved solutions to the next bias: it takes *)
(* one more solved bias than its order.                                      *)
MutOrderTooHigh(cycles) == IF par.predict THEN Lesser(cycles, 2) ELSE 0
ProjectionOrder(cycles) ==
  IF ~par.predict \/ cycles < 2 THEN 0 ELSE cycles - 1

(* What the projection leaves in the solution vector: the quadratic formula  *)
(* divides by hn1, hn2 and hn1+hn2, the linear one by hn1.                   *)
Project(cycles, s) ==
  LET order == ProjectionOrder(cycles)
      hn1 == s[1] - s[2]
      hn2 == s[2] - s[3]
  IN IF order = 0 THEN "solution"
     ELSE IF hn1 = 0 \/ (order = 2 /\ (hn2 = 0 \/ hn1 + hn2 = 0)) THEN "nan"
     ELSE "projected"

(* VStop and the biases VStart + k*VStep: what the SOLVE card asks for. *)
OnGrid(v) == v = par.stop \/ (v - par.start) % Abs(par.step) = 0

-----------------------------------------------------------------------------
(* The mixed-mode drivers do not initialise Vs1, Vs2 and Vs3. *)
InitialVs == IF par.solver = "DDM" THEN {par.start} ELSE Junk

(* The end of the drivers; MixSolverBase's leaves tran_histroy alone. *)
HistoryAtEnd == IF par.solver = "Mix" THEN tran_histroy ELSE FALSE

Init ==
  /\ par \in Sweeps
  /\ Vscan = par.start
  /\ VStep = par.step
  /\ \E v \in InitialVs : Vs = <<v, v, v>>
  /\ V_retry = <<>>
  /\ DC_Cycles = 0
  /\ x = "solution"
  /\ pc = IF InRange(par, par.start) THEN "solve" ELSE "done"
  /\ ierr = 0
  /\ tran_histroy \in IF pc = "solve" \/ par.solver = "Mix" THEN BOOLEAN ELSE {FALSE}
  /\ sol = par.start
  /\ solved = {}

(* The nonlinear solve is bound to converge. *)
MustConverge == x # "nan" /\ Abs(Vscan - sol) <= par.radius

(* The loop ends when the next bias is out of range; the driver then returns. *)
LoopTest(v) ==
  /\ pc' = IF InRange(par, v) THEN "solve" ELSE "done"
  /\ tran_histroy' = IF InRange(par, v) THEN tran_histroy ELSE HistoryAtEnd

(* The bias after a solved one: the next on the stack, or one step further. *)
MutNextIgnoresStack == Vscan + VStep
NextBias == IF V_retry = <<>> THEN Vscan + VStep ELSE Head(V_retry)

(* The solve converged: save the solution and go on to the next bias. *)
Converged ==
  /\ pc = "solve" /\ x # "nan"
  /\ sol' = Vscan
  /\ solved' = solved \union {v \in {Vscan} : OnGrid(v)}
  /\ DC_Cycles' = Lesser(DC_Cycles + 1, CycleCap)
  /\ Vs' = IF BiasSaved THEN <<Vscan, Vs[1], Vs[2]>> ELSE Vs
  /\ V_retry' = IF V_retry = <<>> THEN <<>> ELSE Tail(V_retry)
  /\ VStep' \in Grown(VStep)
  /\ Vscan' = ForceStop(Snap(NextBias), VStep')
  /\ x' = Project(DC_Cycles', Vs')
  /\ LoopTest(Vscan')
  /\ UNCHANGED <<par, ierr>>

(* The retry stack takes another bias. *)
MutOneTooMany == Len(V_retry) <= MaxRetry
RoomToRetry == Len(V_retry) < MaxRetry

(* The stack with the diverged bias on top. *)
MutPushedAtBottom == V_retry \o <<Vscan>>
Pushed == <<Vscan>> \o V_retry

(* Half way back to Vs1, the last solved bias if it is saved. *)
MutHalfwayToOlder == Rounded(Vscan + Vs[2], 2)
MutNotReduced == {Vscan}
Halfway == Rounded(Vscan + Vs[1], 2)

(* The solve diverged and can be retried: restore the last solution and try  *)
(* the bias half way.                                                        *)
Retry ==
  /\ pc = "solve" /\ ~MustConverge
  /\ DC_Cycles # 0 /\ RoomToRetry
  /\ V_retry' = Pushed
  /\ Vscan' \in Halfway
  /\ x' = Project(DC_Cycles, Vs)
  /\ LoopTest(Vscan')
  /\ UNCHANGED <<par, VStep, Vs, DC_Cycles, ierr, sol, solved>>

(* The first bias diverged, or too many are waiting: leave the loop.  Only   *)
(* DDMSolverBase's driver returns an error.                                  *)
GiveUp ==
  /\ pc = "solve" /\ ~MustConverge
  /\ DC_Cycles = 0 \/ ~RoomToRetry
  /\ ierr' = IF par.solver = "DDM" THEN 1 ELSE ierr
  /\ pc' = "failed"
  /\ tran_histroy' = HistoryAtEnd
  /\ UNCHANGED <<par, Vscan, VStep, Vs, V_retry, DC_Cycles, x, sol, solved>>

(* The driver has returned. *)
Finished == pc # "solve" /\ UNCHANGED vars

Next == Converged \/ Retry \/ GiveUp \/ Finished

Spec == Init /\ [][Next]_vars

(* The driver is one sequential loop, and every nonlinear solve returns: the *)
(* SNES iteration count is bounded.                                          *)
FairSpec == Spec /\ WF_vars(Next)

-----------------------------------------------------------------------------
(* The state's types, with the bounds the code keeps on the retry stack. *)
TypeOK ==
  /\ par \in Sweeps
  /\ Vscan \in Int /\ VStep \in Int \ {0}
  /\ Vs \in Int \X Int \X Int
  /\ V_retry \in Seq(Int) /\ Len(V_retry) <= MaxRetry
  /\ DC_Cycles \in 0..CycleCap
  /\ x \in {"solution", "projected", "nan"}
  /\ pc \in {"solve", "done", "failed"} /\ ierr \in {0, 1}
  /\ tran_histroy \in BOOLEAN
  /\ sol \in Int /\ solved \subseteq Int

(* Whatever the order of failures and successes, the biases waiting on the   *)
(* retry stack lie ahead of the last solved bias and no further than VStop,  *)
(* the nearest on top, and the bias being tried is not past any of them: a   *)
(* pop never leads the sweep backwards or outside its range.  Biases that    *)
(* the driver would round to VStop count as VStop.                           *)
RetryOrdered ==
  pc = "solve" /\ BiasSaved =>
    /\ Leq(sol, Vscan)
    /\ Leq(Vscan, par.stop)
    /\ \A i \in 1..Len(V_retry) :
         /\ Leq(Snap(Vscan), Snap(V_retry[i]))
         /\ Leq(V_retry[i], par.stop)
    /\ \A i, j \in 1..Len(V_retry) :
         i < j => Leq(Snap(V_retry[i]), Snap(V_retry[j]))

(* A step as long as VStepMax does not grow. *)
ConstantStep == Abs(par.step) >= Abs(par.stepMax)

(* Retries never lose a bias the user asked for: with a constant step, every *)
(* multiple of the step from VStart up to the last solved bias was solved,   *)
(* however many intermediate biases were inserted.  A multiple that the      *)
(* driver rounds to VStop counts as VStop.                                   *)
GridCovered ==
  ConstantStep /\ BiasSaved /\ solved # {} =>
    \A k \in 0..Abs(sol - par.start) :
      Leq(Snap(par.start + k * par.step), sol) =>
        \E v \in solved : Snap(v) = Snap(par.start + k * par.step)

(* A sweep that is asked to move towards VStop and either reports success or *)
(* is ended by its loop test has solved VStop, as the comment "for last      *)
(* step, we force V equal to VStop" says.                                    *)
StopReached ==
  BiasSaved /\ Leq(par.start, par.stop) =>
    /\ pc = "done" => sol = par.stop /\ par.stop \in solved
    /\ pc = "failed" /\ par.solver = "DDM" => ierr = 1

(* The sweep implements the abstract driver: the stored solution goes from   *)
(* VStart towards VStop, never backwards whatever the retry stack does, never*)
(* past VStop, and success means that VStop is solved.                       *)
JobOf(p) == [from |-> p.start, to |-> p.stop, up |-> p.step > 0]

Drive == INSTANCE Continuation
           WITH Jobs <- {JobOf(p) : p \in Sweeps}, job <- JobOf(par), at <- sol,
                state <- pc

Continues == Drive!Spec

(* The step is constant, Newton's method converges for every small move, and *)
(* no move gets as small as the tolerance 1e-10 of VStop.                    *)
Regular ==
  /\ BiasSaved /\ ConstantStep
  /\ par.radius >= 2 /\ par.snap = 1

(* The projection of saved solutions never divides by zero: no bias is       *)
(* solved twice within the last three solves.                                *)
ProjectionDefined == Regular => x # "nan"

(* VStop is the last bias: once it is solved the loop ends. *)
StopIsLast ==
  [][Regular /\ Converged /\ Vscan = par.stop => pc' = "done"]_vars

(* When Newton's method converges for every move of at most the radius, the  *)
(* bisection always gets through: the sweep ends, and it ends at VStop       *)
(* without an error.                                                         *)
Completes ==
  Regular =>
    <>(pc = "done" /\ ierr = 0 /\ (Leq(par.start, par.stop) => sol = par.stop))

(* "reduce step by a factor of 2": after a divergence the bias moves towards *)
(* the last solved one.                                                      *)
StepReduced == [][Retry => Abs(Vscan' - sol) <= Abs(Vscan - sol)]_vars
=============================================================================
