----------------------------- MODULE Transient ------------------------------
(***************************************************************************)
(* The transient driver DDMSolverBase::solve_transient                     *)
(* (src/src/solver/ddm_common/ddm_solver.cc): implicit time steps (BDF1 or *)
(* BDF2) from TStart to TStop.  A step whose nonlinear solve diverges is   *)
(* halved; with automatic step control a converged step whose local        *)
(* truncation error is too large is rejected and shortened; an accepted    *)
(* step chooses the next one within several limits.                        *)
(*                                                                         *)
(* Time is counted in units of the arithmetic's resolution.  A solution    *)
(* vector is represented by the time whose solution it holds or            *)
(* approximates: that is all the multistep formulas depend on.  The        *)
(* nonlinear solve, the truncation error, the positivity test of BDF2 and  *)
(* the waveforms behind limit_dt are the environment.                      *)
(***************************************************************************)
EXTENDS Multistep, Sequences

CONSTANTS
  Runs,          \* the transient runs a SOLVE card may ask for
  MaxRetry,      \* diverged solves in a row that end the run: 8 in the code
  Window,        \* accepted steps the step average is taken over: 5 in the code
  Ratios,        \* values, in tenths, of r = LTE^(-1/k): the step the error allows over dt
  StaleSteps,    \* what an earlier transient run may have left in dt_last
  GrowthFactors  \* values, in tenths, of 1 + log10(r) for r > 1

RunType == [TStart : Nat, TStop : Nat, TStep : Nat \ {0}, TStepMin : Nat \ {0},
            TStepMax : Nat, AutoStep : BOOLEAN, RejectStep : BOOLEAN,
            Predict : BOOLEAN, TS_type : {"BDF1", "BDF2"}, limited : BOOLEAN]

ASSUME RunAssumption ==
  /\ Runs \subseteq RunType
  /\ \A p \in Runs : p.TStart < p.TStop
  /\ MaxRetry \in Nat \ {0}
  /\ Window = 5
  /\ Ratios \subseteq Nat \ {0}
  /\ StaleSteps \subseteq Nat
  /\ GrowthFactors \subseteq {f \in Nat : f >= 10}

VARIABLES
  par,             \* SolverSpecify's settings of this run
  clock, dt,       \* the time to be solved, and its distance from the last one
  dt_last, dt_last_last,  \* the last two accepted steps
  diverged_retry,  \* diverged solves since the last accepted or rejected step
  autostep_retry,  \* rejections since the last controlled step; counts to 1, it is
                   \* only compared with 0
  T_Cycles,        \* accepted steps; counts to 3, the code tells no more apart
  BDF2_LowerOrder, \* the next step falls back to BDF1
  window,          \* time_step_success: the last accepted steps, newest last
  x,               \* the solution vector
  x_n, x_n1, x_n2, \* saved solution vectors
  sol, sol_last,   \* the solutions the mesh nodes hold: n and n_last of every node
  pc, ierr, tran_histroy

steps   == <<clock, dt, dt_last, dt_last_last, window>>
retries == <<diverged_retry, autostep_retry>>
saved   == <<x_n, x_n1, x_n2>>
nodes   == <<sol, sol_last>>
vars == <<par, steps, retries, T_Cycles, BDF2_LowerOrder, x, saved, nodes, pc,
          ierr, tran_histroy>>

CycleCap == 3

-----------------------------------------------------------------------------
(* What the label Predict: makes of the vector v, given the next step h, the *)
(* steps h1 and h2 before it, the saved vectors and the next order.          *)
Predicted(v, cycles, lower, h, h1, h2, a, b, c) ==
  IF par.Predict /\ par.TS_type = "BDF1" /\ cycles >= 2 THEN Linear(h, h1, a, b)
  ELSE IF par.Predict /\ par.TS_type = "BDF2" /\ cycles >= 3
       THEN IF lower THEN Linear(h, h1, a, b) ELSE Quadratic(h, h1, h2, a, b, c)
       ELSE v

(* do ... while (clock < TStop + 0.5*dt), and the code after the loop. *)
LoopTest(t, h) ==
  LET go == 2 * t < 2 * par.TStop + h
  IN /\ pc' = IF go THEN "solve" ELSE "done"
     /\ tran_histroy' = IF go THEN tran_histroy ELSE TRUE

-----------------------------------------------------------------------------
Init ==
  /\ par \in Runs
  /\ clock = par.TStart + par.TStep
  /\ dt = par.TStep
  /\ dt_last \in StaleSteps /\ dt_last_last \in StaleSteps
  /\ diverged_retry = 0 /\ autostep_retry = 0
  /\ T_Cycles = 0
  /\ BDF2_LowerOrder = TRUE
  /\ window = <<>>
  /\ x = par.TStart
  /\ x_n = Garbage /\ x_n1 = Garbage /\ x_n2 = Garbage
  /\ sol = par.TStart /\ sol_last = Garbage
  /\ pc = "solve" /\ ierr = 0
  /\ tran_histroy \in BOOLEAN

(* This divergence is one too many. *)
MutLastTryLate == diverged_retry > MaxRetry
LastTry == diverged_retry + 1 >= MaxRetry

(* The time to be solved when only h of the step is kept, never before       *)
(* TStart.                                                                   *)
MutClockBackWholeStep(h) == Greater(clock - dt, par.TStart)
ClockAfterHalving(h) == Greater(clock - (dt - h), par.TStart)

(* The nonlinear solve diverged: halve the step, restore the last solution   *)
(* and predict again.  Halving a double is exact, so what is kept and what   *)
(* is taken back add up to the old step.                                     *)
Diverged ==
  /\ pc = "solve"
  /\ ~LastTry
  /\ diverged_retry' = diverged_retry + 1
  /\ dt' \in RoundedPositive(dt, 2)
  /\ clock' = ClockAfterHalving(dt')
  /\ x' = Predicted(sol, T_Cycles, BDF2_LowerOrder, dt', dt_last, dt_last_last,
                    x_n, x_n1, x_n2)
  /\ LoopTest(clock', dt')
  /\ UNCHANGED <<par, dt_last, dt_last_last, autostep_retry, T_Cycles,
                 BDF2_LowerOrder, window, saved, nodes, ierr>>

(* It diverged too often: leave the loop with an error. *)
GiveUp ==
  /\ pc = "solve"
  /\ LastTry
  /\ diverged_retry' = diverged_retry + 1
  /\ ierr' = 1
  /\ pc' = "done"
  /\ tran_histroy' = TRUE
  /\ UNCHANGED <<par, steps, autostep_retry, T_Cycles, BDF2_LowerOrder, x, saved,
                 nodes>>

(* The error estimate needs two (BDF1) or three (BDF2) accepted steps. *)
StepControlled ==
  par.AutoStep /\ T_Cycles >= IF par.TS_type = "BDF1" THEN 2 ELSE 3

(* A converged step is rejected when the error asks for less than 90% of it. *)
Rejectable(r) ==
  StepControlled /\ par.RejectStep /\ r < 9 /\ dt > par.TStepMin

(* A rejected step is shortened to 0.9*r of it, which is less than the step  *)
(* however the product is rounded.                                           *)
MutDividedByRatio(r) == RoundedPositive(9 * dt, r)
Shortened(r) == {h \in RoundedPositive(9 * r * dt, 100) : h < dt}

(* The guess for the shortened step h: between x_n and the rejected solution *)
(* at clock, which the code takes to be dt apart.                            *)
MutNotInterpolated(h) == clock
Interpolated(h) == IF clock - x_n = dt THEN x_n + h ELSE Garbage

(* The error is too large: shorten the step and interpolate a guess. *)
Reject ==
  \E r \in Ratios :
    /\ pc = "solve" /\ Rejectable(r)
    /\ diverged_retry' = 0
    /\ autostep_retry' = 1
    /\ dt' \in Shortened(r)
    /\ clock' = clock - dt + dt'
    /\ x' = Interpolated(dt')
    /\ LoopTest(clock', dt')
    /\ UNCHANGED <<par, dt_last, dt_last_last, T_Cycles, BDF2_LowerOrder, window,
                   saved, nodes, ierr>>

(* dt_dynamic_factor of an accepted step, in tenths. *)
Factors(r) ==
  IF StepControlled
  THEN IF r > 10
       THEN IF autostep_retry # 0 \/ diverged_retry # 0 THEN {10} ELSE GrowthFactors
       ELSE {Lesser(r, 9)}
  ELSE IF dt < par.TStep THEN {11} ELSE {10}

(* The last five accepted steps, and twice their average. *)
Recent(h) == LET w == Append(window, h)
             IN IF Len(w) > Window THEN Tail(w) ELSE w

TwiceAverage(w) ==
  LET at(i) == IF i <= Len(w) THEN w[i] ELSE 0
  IN RoundedPositive(2 * (at(1) + at(2) + at(3) + at(4) + at(5)), Len(w))

(* The bounds TStepMin and TStepMax (0: none). *)
Clamped(h) == StepWithin(h, par.TStepMin, par.TStepMax)

(* ElectricalSource::limit_dt and FieldSource::limit_dt shorten a step by    *)
(* tenths until the sources change little enough or it falls below TStepMin, *)
(* or end it at a corner of a waveform at least TStepMin away.               *)
LimitedSteps(h) ==
  IF par.limited THEN {g \in 1..h : g = h \/ 10 * g >= 9 * par.TStepMin} ELSE {h}

(* The step after an accepted one. *)
NextSteps(r) ==
  UNION { LimitedSteps(Clamped(Lesser(a, h))) :
            a \in TwiceAverage(Recent(dt)),
            h \in UNION {RoundedPositive(f * dt, 10) : f \in Factors(r)} }

(* Do not step over TStop: end the step there. *)
MutNoEndStep(h) == h
EndStep(h) ==
  IF clock + h > par.TStop /\ clock < par.TStop THEN par.TStop - clock ELSE h

(* Shift the saved vectors, the new solution (at clock) first. *)
MutShiftNewestFirst == x_n' = clock /\ x_n1' = clock /\ x_n2' = x_n1
ShiftSaved == x_n2' = x_n1 /\ x_n1' = x_n /\ x_n' = clock

(* The step is accepted: store the solution and choose the next step. *)
Accept ==
  \E r \in Ratios : \E h \in NextSteps(r) :
    /\ pc = "solve" /\ ~Rejectable(r)
    /\ sol' = clock /\ sol_last' = sol
    /\ window' = Recent(dt)
    /\ diverged_retry' = 0
    /\ autostep_retry' = IF StepControlled THEN 0 ELSE autostep_retry
    /\ T_Cycles' = Lesser(T_Cycles + 1, CycleCap)
    /\ dt_last_last' = dt_last /\ dt_last' = dt
    /\ dt' = EndStep(h)
    /\ clock' = clock + dt'
    /\ BDF2_LowerOrder' \in IF par.TS_type = "BDF2" THEN BOOLEAN
                                                     ELSE {BDF2_LowerOrder}
    /\ IF par.AutoStep \/ par.Predict THEN ShiftSaved ELSE UNCHANGED saved
    /\ x' = Predicted(clock, T_Cycles', BDF2_LowerOrder', dt', dt_last',
                      dt_last_last', x_n', x_n1', x_n2')
    /\ LoopTest(clock', dt')
    /\ UNCHANGED <<par, ierr>>

(* The driver has returned. *)
Finished == pc = "done" /\ UNCHANGED vars

Next == Diverged \/ GiveUp \/ Reject \/ Accept \/ Finished

Spec == Init /\ [][Next]_vars

(* The driver is one sequential loop and every nonlinear solve returns. *)
FairSpec == Spec /\ WF_vars(Next)

-----------------------------------------------------------------------------
(* The state's types and the bounds on its counters. *)
TypeOK ==
  /\ par \in Runs
  /\ clock \in Nat /\ dt \in Nat \ {0}
  /\ dt_last \in Nat /\ dt_last_last \in Nat
  /\ diverged_retry \in 0..MaxRetry /\ autostep_retry \in {0, 1}
  /\ T_Cycles \in 0..CycleCap
  /\ BDF2_LowerOrder \in BOOLEAN
  /\ window \in Seq(Nat \ {0}) /\ Len(window) <= Window
  /\ {x, x_n, x_n1, x_n2, sol_last} \subseteq Nat \union {Garbage} /\ sol \in Nat
  /\ pc \in {"solve", "done"} /\ ierr \in {0, 1}
  /\ tran_histroy \in BOOLEAN

(* However divergence, rejection and acceptance alternate, the step being    *)
(* tried starts exactly at the solution the nodes hold: the time derivative  *)
(* is taken over dt = clock - (time of the node data).  In particular the    *)
(* clock never falls back to TStart.                                         *)
StepAnchored ==
  pc = "solve" => clock = sol + dt /\ sol >= par.TStart

(* The multistep formulas use node data and saved vectors with the steps     *)
(* that separate them: BDF2 is used only with n_last one dt_last before n,   *)
(* and from the second (third) accepted step on x_n, x_n1 (and x_n2) lie     *)
(* dt_last (and dt_last_last) apart.                                         *)
HistoryConsistent ==
  /\ par.TS_type = "BDF2" /\ ~BDF2_LowerOrder => sol_last = sol - dt_last
  /\ par.AutoStep \/ par.Predict =>
       /\ T_Cycles >= 1 => x_n = sol
       /\ T_Cycles >= 2 => x_n1 = x_n - dt_last
       /\ T_Cycles >= 3 => x_n2 = x_n1 - dt_last_last

(* Each nonlinear solve starts from the last solution or from a prediction   *)
(* of the very time that is solved, also after a retry or a rejection.       *)
GuessAimed == pc = "solve" => x \in {sol, clock}

(* A run whose first step fits before TStop never solves a time past TStop,  *)
(* and when it reports success it has solved TStop.                          *)
EndsAtStop ==
  par.TStart + par.TStep <= par.TStop =>
    /\ sol <= par.TStop
    /\ pc = "done" /\ ierr = 0 => sol = par.TStop

(* The run implements the abstract driver: the stored solution goes from     *)
(* TStart forwards to TStop, whatever is retried or rejected, and success    *)
(* means that TStop is solved.                                               *)
JobOf(p) == [from |-> p.TStart, to |-> p.TStop, up |-> TRUE]

Drive == INSTANCE Continuation
           WITH Jobs <- {JobOf(p) : p \in Runs}, job <- JobOf(par), at <- sol,
                state <- IF ierr = 1 THEN "failed" ELSE pc

Continues == Drive!Spec

(* A retried step (diverged or rejected) goes back towards the last solution *)
(* without reaching it; an accepted step moves forward.                      *)
RetryShortens ==
  [][ /\ pc' = "solve" /\ sol' = sol => sol < clock' /\ clock' <= clock
      /\ sol' # sol => sol < sol' ]_vars

(* Every run ends: divergence is counted, a rejection shortens the step down *)
(* to TStepMin, and an accepted step moves the clock.                        *)
Terminates == <>(pc = "done")
=============================================================================
