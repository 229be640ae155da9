---------------------------- MODULE MixTransient ----------------------------
(***************************************************************************)
(* The transient drivers of the mixed device/circuit solvers,              *)
(* MixSolverBase::solve_transient (src/src/solver/ddm_common/mix_solver.cc)*)
(* and MixASolverBase::solve_transient (mixA_solver.cc): the loop of       *)
(* Transient for a device inside a circuit that an external simulator      *)
(* (ngspice) holds.  Every solve involves both: the circuit's node values  *)
(* (rhs_old) follow the Newton iteration, are put into the solution vector *)
(* before the next solve, are saved when a step is accepted and restored   *)
(* when it diverges.                                                       *)
(*                                                                         *)
(* Times are counted in units of the arithmetic's resolution; a device or  *)
(* circuit solution is represented by the time it belongs to.  The solves, *)
(* the truncation error, the field source's limit_dt and the positivity    *)
(* test of BDF2 are the environment.                                       *)
(***************************************************************************)
EXTENDS Multistep

CONSTANTS
  Runs,          \* the transient runs a SOLVE card may ask for
  MaxRetry,      \* diverged solves in a row that end the run: 8 in the code
  Ratios,        \* values, in tenths, of r = LTE^(-1/k)
  StaleSteps,    \* what an earlier transient run may have left in dt_last
  GrowthFactors  \* values, in tenths, of 1 + log10(r) for r > 1

RunType == [solver : {"Mix", "MixA"}, TStart : Nat, TStop : Nat, TStep : Nat \ {0},
            TStepMin : Nat \ {0}, TStepMax : Nat, AutoStep : BOOLEAN,
            RejectStep : BOOLEAN, Predict : BOOLEAN, TS_type : {"BDF1", "BDF2"},
            limited : BOOLEAN]

ASSUME RunAssumption ==
  /\ Runs \subseteq RunType
  /\ \A p \in Runs : p.TStart < p.TStop
  /\ MaxRetry \in Nat \ {0}
  /\ Ratios \subseteq Nat \ {0}
  /\ StaleSteps \subseteq Nat
  /\ GrowthFactors \subseteq {f \in Nat : f >= 10}

VARIABLES
  par,               \* SolverSpecify's settings of this run, and the solver
  clock, dt,         \* the time to be solved, and its distance from the last one
  dt_last, dt_last_last,
  dt_dynamic_factor, \* growth of an accepted step, in tenths
  diverged_retry,    \* diverged solves in a row
  autostep_retry,    \* rejections since the last controlled step, counted to 1
  T_Cycles,          \* accepted steps, counted to CycleCap
  BDF2_LowerOrder,   \* the next step falls back to BDF1
  x,                 \* the device part of the solution vector
  x_n, x_n1, x_n2,   \* saved solution vectors
  sol, sol_last,     \* the solutions the mesh nodes hold: n and n_last
  rhs_old,           \* the circuit's node values, the circuit part of every guess
  solution,          \* SPICE_CKT::_solution, the node values saved
  pc, tran_histroy

steps   == <<clock, dt, dt_last, dt_last_last, dt_dynamic_factor>>
retries == <<diverged_retry, autostep_retry>>
vectors == <<x_n, x_n1, x_n2>>
nodes   == <<sol, sol_last>>
circuit == <<rhs_old, solution>>
vars == <<par, steps, retries, T_Cycles, BDF2_LowerOrder, x, vectors, nodes,
          circuit, pc, tran_histroy>>

(* The code tells no more than four accepted steps apart. *)
CycleCap == 4

MixA == par.solver = "MixA"

-----------------------------------------------------------------------------
(* What the label Predict: makes of the new solution. *)
Predicted(v, cycles, h, h1, h2, a, b, c) ==
  IF par.Predict /\ par.TS_type = "BDF1" /\ cycles >= 3 THEN Linear(h, h1, a, b)
  ELSE IF par.Predict /\ par.TS_type = "BDF2" /\ cycles >= 4
       THEN Quadratic(h, h1, h2, a, b, c)
       ELSE v

(* Only MixASolverBase records that a transient run has been made. *)
Return(state) ==
  /\ pc' = state
  /\ tran_histroy' = (MixA \/ tran_histroy)

(* do ... while (clock < TStop + 0.5*dt), and the code after the loop. *)
LoopTest(t, h) ==
  IF 2 * t < 2 * par.TStop + h THEN pc' = "solve" /\ UNCHANGED tran_histroy
                               ELSE Return("done")

(* The circuit's values when the run begins: the operating point computed    *)
(* before it, or, where that failed, whatever its last iteration left.       *)
Init ==
  /\ par \in Runs
  /\ clock = par.TStart + par.TStep /\ dt = par.TStep
  /\ dt_last \in StaleSteps /\ dt_last_last \in StaleSteps
  /\ dt_dynamic_factor = 10
  /\ diverged_retry = 0 /\ autostep_retry = 0
  /\ T_Cycles = 0
  /\ BDF2_LowerOrder = TRUE
  /\ x = par.TStart
  /\ x_n = Garbage /\ x_n1 = Garbage /\ x_n2 = Garbage
  /\ sol = par.TStart /\ sol_last = Garbage
  /\ rhs_old \in {par.TStart, Garbage} /\ solution = par.TStart
  /\ pc = "solve"
  /\ tran_histroy \in BOOLEAN

(* This divergence is one too many. *)
MutLastTryLate == diverged_retry > MaxRetry
LastTry == diverged_retry + 1 >= MaxRetry

(* clock -= dt after halving, never before TStart. *)
MutClockBackWholeStep(h) == Greater(clock - dt, par.TStart)
ClockAfterHalving(h) == Greater(clock - (dt - h), par.TStart)

(* diverged_recovery(): the last solution of the nodes and of the circuit.   *)
MutCircuitNotRestored == x' = sol /\ rhs_old' = Garbage /\ UNCHANGED solution
Recovered == x' = sol /\ rhs_old' = solution /\ UNCHANGED solution

(* The nonlinear solve diverged: halve the step and restore both parties.    *)
(* continue skips the prediction.                                            *)
Diverged ==
  /\ pc = "solve" /\ ~LastTry
  /\ diverged_retry' = diverged_retry + 1
  /\ dt' \in RoundedPositive(dt, 2)
  /\ clock' = ClockAfterHalving(dt')
  /\ Recovered
  /\ LoopTest(clock', dt')
  /\ UNCHANGED <<par, dt_last, dt_last_last, dt_dynamic_factor, autostep_retry,
                 T_Cycles, BDF2_LowerOrder, vectors, nodes>>

(* It diverged too often: break, with the circuit's values of the diverged   *)
(* iteration.  The driver returns 0 all the same.                            *)
GiveUp ==
  /\ pc = "solve" /\ LastTry
  /\ diverged_retry' = diverged_retry + 1
  /\ rhs_old' = Garbage
  /\ Return("failed")
  /\ UNCHANGED <<par, steps, autostep_retry, T_Cycles, BDF2_LowerOrder, x, vectors,
                 nodes, solution>>

(* The error is estimated once three (BDF1) or four (BDF2) steps are accepted. *)
StepControlled ==
  par.AutoStep /\ T_Cycles >= IF par.TS_type = "BDF1" THEN 3 ELSE 4

(* A converged step is rejected when the error asks for less than 90% of it. *)
Rejectable(r) ==
  StepControlled /\ par.RejectStep /\ r < 9 /\ dt > par.TStepMin

(* The guess for the shortened step h: between x_n and the rejected solution *)
(* at clock, which the code takes to be dt apart.                            *)
Interpolated(h) == IF clock - x_n = dt THEN x_n + h ELSE Garbage

(* The rejected step shortened to 0.9*r of it, less however it is rounded.   *)
MutDividedByRatio(r) == RoundedPositive(9 * dt, r)
Shortened(r) == {h \in RoundedPositive(9 * r * dt, 100) : h < dt}

(* The error is too large: shorten the step.  The nodes keep the last        *)
(* accepted solution, the circuit the rejected one.                          *)
Reject ==
  \E r \in Ratios :
    /\ pc = "solve" /\ Rejectable(r)
    /\ diverged_retry' = 0 /\ autostep_retry' = 1
    /\ dt' \in Shortened(r)
    /\ clock' = clock - dt + dt'
    /\ x' = Interpolated(dt')
    /\ rhs_old' = clock
    /\ LoopTest(clock', dt')
    /\ dt_dynamic_factor' = IF MixA THEN 10 ELSE dt_dynamic_factor
    /\ UNCHANGED <<par, dt_last, dt_last_last, T_Cycles, BDF2_LowerOrder, vectors,
                   nodes, solution>>

(* The factor a step without error estimate starts from: MixASolverBase      *)
(* resets it after every convergence, MixSolverBase never does.              *)
MutFactorKept == dt_dynamic_factor
FormerFactor == IF MixA THEN 10 ELSE dt_dynamic_factor

(* dt_dynamic_factor after an accepted step.  MixSolverBase has cleared      *)
(* diverged_retry by then, MixASolverBase has not.                           *)
Factors(r) ==
  IF ~StepControlled THEN {IF dt < par.TStep THEN 11 ELSE FormerFactor}
  ELSE IF r <= 10 THEN {Lesser(r, 9)}
  ELSE IF autostep_retry # 0 \/ (MixA /\ diverged_retry # 0) THEN {10}
  ELSE GrowthFactors

(* FieldSource::limit_dt shortens a step by tenths until the sources change  *)
(* little enough or it falls below TStepMin.                                 *)
LimitedSteps(h) ==
  IF par.limited THEN {g \in 1..h : g = h \/ 10 * g >= 9 * par.TStepMin} ELSE {h}

NextSteps(f) ==
  UNION { LimitedSteps(StepWithin(h, par.TStepMin, par.TStepMax)) :
            h \in RoundedPositive(f * dt, 10) }

(* Do not step over TStop: end the step there. *)
MutNoEndStep(h) == h
EndStep(h) ==
  IF clock + h > par.TStop /\ clock < par.TStop THEN par.TStop - clock ELSE h

(* Shift the saved vectors, the new solution (at clock) first. *)
ShiftSaved == x_n2' = x_n1 /\ x_n1' = x_n /\ x_n' = clock

(* post_solve_process: the nodes and then the circuit keep the new solution. *)
SolutionKept ==
  sol' = clock /\ sol_last' = sol /\ rhs_old' = clock /\ solution' = clock

(* The step is accepted: store the solution and choose the next step. *)
Accept ==
  \E r \in Ratios : \E f \in Factors(r) : \E h \in NextSteps(f) :
    /\ pc = "solve" /\ ~Rejectable(r)
    /\ SolutionKept
    /\ diverged_retry' = 0
    /\ autostep_retry' = IF StepControlled THEN 0 ELSE autostep_retry
    /\ T_Cycles' = Lesser(T_Cycles + 1, CycleCap)
    /\ dt_last_last' = dt_last /\ dt_last' = dt
    /\ dt_dynamic_factor' = f
    /\ dt' = EndStep(h)
    /\ clock' = clock + dt'
    /\ BDF2_LowerOrder' \in IF par.TS_type = "BDF2" THEN BOOLEAN
                                                     ELSE {BDF2_LowerOrder}
    /\ IF par.AutoStep \/ par.Predict THEN ShiftSaved ELSE UNCHANGED vectors
    /\ x' = Predicted(clock, T_Cycles', dt', dt_last', dt_last_last', x_n', x_n1', x_n2')
    /\ LoopTest(clock', dt')
    /\ UNCHANGED par

(* The driver has returned. *)
Finished == pc # "solve" /\ UNCHANGED vars

Next == Diverged \/ GiveUp \/ Reject \/ Accept \/ Finished

Spec == Init /\ [][Next]_vars

(* The driver is one sequential loop and every solve returns. *)
FairSpec == Spec /\ WF_vars(Next)

-----------------------------------------------------------------------------
(* The state's types and the bounds on its counters. *)
TypeOK ==
  /\ par \in Runs
  /\ clock \in Nat /\ dt \in Nat \ {0}
  /\ {dt_last, dt_last_last, dt_dynamic_factor} \subseteq Nat
  /\ diverged_retry \in 0..MaxRetry /\ autostep_retry \in {0, 1}
  /\ T_Cycles \in 0..CycleCap
  /\ {BDF2_LowerOrder, tran_histroy} \subseteq BOOLEAN
  /\ {x, x_n, x_n1, x_n2, sol_last, rhs_old} \subseteq Nat \union {Garbage}
  /\ {sol, solution} \subseteq Nat
  /\ pc \in {"solve", "done", "failed"}

(* However divergence, rejection and acceptance alternate, the step being    *)
(* tried starts at the solution the nodes hold, and the solve starts from    *)
(* that solution or from a prediction of the time solved.                    *)
StepAnchored ==
  pc = "solve" => clock = sol + dt /\ sol >= par.TStart /\ x \in {sol, clock}

(* The two parties agree: what the circuit would be restored to is the       *)
(* solution the nodes hold, and each solve starts with the circuit at that   *)
(* solution, or at a rejected one not before the shortened step.             *)
CircuitAgrees ==
  /\ solution = sol
  /\ pc = "solve" /\ (T_Cycles > 0 \/ diverged_retry > 0) =>
       rhs_old = sol \/ (autostep_retry > 0 /\ rhs_old >= clock)

(* A MixA run without step control keeps its step TStep but for what halving *)
(* took, regained by a tenth at a time.  In MixSolverBase the factor of 1.1  *)
(* stays after the first halving, and the step grows past TStep.             *)
FixedStepKept ==
  MixA /\ ~par.AutoStep /\ par.TStepMin <= par.TStep => 10 * dt < 11 * par.TStep + 10

(* The run implements the abstract driver, like Transient: the solution of   *)
(* device and circuit goes from TStart forwards to TStop, and unless the run *)
(* gave up TStop is solved.                                                  *)
JobOf(p) == [from |-> p.TStart, to |-> p.TStop, up |-> TRUE]

Drive == INSTANCE Continuation
           WITH Jobs <- {JobOf(p) : p \in Runs}, job <- JobOf(par), at <- solution,
                state <- pc

Continues == Drive!Spec

(* Every run ends: divergence is counted, a rejection shortens the step down *)
(* to TStepMin, and an accepted step moves the clock.                        *)
Terminates == <>(pc # "solve")
=============================================================================
