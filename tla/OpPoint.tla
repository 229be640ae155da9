------------------------------ MODULE OpPoint -------------------------------
(***************************************************************************)
(* The static drivers of DDMSolverBase                                     *)
(* (src/src/solver/ddm_common/ddm_solver.cc): solve_equ, solve_steadystate *)
(* and solve_op with the pseudo time iteration snes_solve_pseudo_time_step *)
(* the last two share, as a session of SOLVE cards runs them one after the *)
(* other.  Every card gets a solver, and a solution vector, of its own;    *)
(* the mesh nodes, the electrodes and SolverSpecify's variables are kept   *)
(* from card to card.                                                      *)
(*                                                                         *)
(* solve_op ramps the electrodes from the bias they have to the bias the   *)
(* card asks for in ramp_steps steps, halving a step that diverges.  A     *)
(* bias is counted in parts of a ramp step: 0 is the bias the electrodes   *)
(* had when the card began, Target(card) the one it asks for.              *)
(***************************************************************************)
EXTENDS Rounding

CONSTANTS
  Cards,      \* the SOLVE cards of a session
  Part,       \* parts of a ramp step the model tells apart
  MaxRetry,   \* diverged solves that end a loop: 8 in the code
  TauMax,     \* PseudoTimeStepMax, as a power of two
  Transients  \* TRUE when the session has TRANSIENT cards too

Fields == {"Potential", "Carrier", "Metal"}

CardType == [type : {"EQUILIBRIUM", "STEADYSTATE", "OP"}, ramp_steps : Nat \ {0},
             PseudoTimeMethod : BOOLEAN, PseudoTimeCMOS : BOOLEAN,
             OpToSteady : BOOLEAN, PseudoTimeSteps : Nat \ {0},
             tau : [Fields -> Int]]

ASSUME CardAssumption ==
  /\ Cards \subseteq CardType
  /\ Part \in Nat \ {0}
  /\ MaxRetry \in Nat \ {0}
  /\ TauMax \in Int
  /\ Transients \in BOOLEAN

VARIABLES
  card,            \* the SOLVE card being solved, or the last one
  pc,              \* where its driver is; "ready" between cards
  step, dstep,     \* solve_op: the bias of the next solve, and its distance from the last
  t_cycles,        \* solve_op: solved steps; counts to 1, it is only compared with 0
  k,               \* the pseudo time iteration
  diverged_retry,  \* diverged solves in this loop (solve_op: in a row)
  tau,             \* the exponents of the three pseudo time steps
  PseudoTimeTolRelax, \* the exponent (of ten) of the relaxed tolerance
  T_Cycles,        \* 1 when the last transient run accepted a step
  metal,           \* conductance of the metal regions
  tran_histroy,    \* the state stems from a transient run
  bias,            \* what the electrodes have
  sol,             \* the bias whose solution the mesh nodes hold
  x,               \* the solution vector: the nodes' solution or something else
  ierr             \* what the driver returns

ramp    == <<step, dstep, t_cycles>>
pseudo  == <<k, tau, PseudoTimeTolRelax, metal>>
session == <<T_Cycles, tran_histroy>>
vars == <<card, pc, ramp, pseudo, diverged_retry, session, bias, sol, x, ierr>>

Ground    == -1   \* all electrodes at zero
Elsewhere == -2   \* a bias other than the one the electrodes had at the card's start

Target(c) == c.ramp_steps * Part

-----------------------------------------------------------------------------
(* The pseudo time steps after a divergence, and after a success. *)
Halved(t) == [f \in Fields |-> t[f] - 1]
Doubled(t) == [f \in Fields |-> IF t[f] < TauMax THEN t[f] + 1 ELSE t[f]]

(* The phases of solve_op that follow the ramp and the drive to steady state. *)
AfterRamp  == IF card.PseudoTimeMethod /\ card.OpToSteady THEN "drive" ELSE "ready"
AfterDrive == IF card.PseudoTimeCMOS THEN "metal" ELSE "ready"

(* The pseudo parameters at the end of solve_op. *)
MutNotRestored(t) == t
Restored(t) == card.tau

(* The driver goes on to phase p, leaving the pseudo time steps t: each call *)
(* of the pseudo time iteration sets its own tolerance, the conductance is   *)
(* the material's again after the drive, and the end restores the steps.     *)
EnterPhase(p, t) ==
  /\ pc' = p
  /\ k' = 1
  /\ tau' = IF p = "ready" /\ card.type = "OP" THEN Restored(t) ELSE t
  /\ PseudoTimeTolRelax' = CASE p = "drive" -> 7
                             [] p = "metal" -> 8
                             [] OTHER -> PseudoTimeTolRelax
  /\ metal' = IF p = "drive" THEN metal ELSE "material"
  /\ tran_histroy' = IF p = "ready" THEN FALSE ELSE tran_histroy

(* What diverged_recovery leaves in the solution vector. *)
MutNotRecovered == "diverged"
Recovered == "solution"

(* snes_solve_pseudo_time_step is running: called by solve_steadystate       *)
(* ("steady") and twice by solve_op ("drive", "metal").                      *)
InPseudoTime == pc \in {"steady", "drive", "metal"}

(* pre_solve_process loads the nodes' solution into x; in solve_op's ramp    *)
(* until a step is solved, in the pseudo time iteration while T_Cycles is 0. *)
LoadsSolution ==
  \/ pc = "solve"
  \/ pc = "ramp" /\ t_cycles = 0
  \/ InPseudoTime /\ T_Cycles = 0

(* What the next nonlinear solve starts from. *)
Guess == IF LoadsSolution THEN "solution" ELSE x

-----------------------------------------------------------------------------
Init ==
  /\ card \in Cards
  /\ pc = "ready"
  /\ step = 0 /\ dstep = Part /\ t_cycles = 0
  /\ k = 1 /\ diverged_retry = 0
  /\ tau = card.tau
  /\ PseudoTimeTolRelax = 8
  /\ T_Cycles = 0
  /\ metal = "material"
  /\ tran_histroy = FALSE
  /\ bias = 0 /\ sol = 0
  /\ x = "fresh"
  /\ ierr = 0

(* do_solve reads the next card and starts its driver on a new solver.       *)
(* Biases are counted anew, from the bias the electrodes have now.           *)
Start(c) ==
  /\ pc = "ready"
  /\ card' = c
  /\ pc' = CASE c.type = "OP" -> "ramp"
             [] c.type = "STEADYSTATE" /\ c.PseudoTimeMethod -> "steady"
             [] OTHER -> "solve"
  /\ step' = Part /\ dstep' = Part /\ t_cycles' = 0
  /\ k' = 1 /\ diverged_retry' = 0
  /\ tau' = IF c.type = "EQUILIBRIUM" THEN tau ELSE c.tau
  /\ metal' = IF c.type = "OP" /\ c.PseudoTimeMethod /\ c.PseudoTimeCMOS
              THEN "pseudo" ELSE metal
  /\ sol' = IF sol = bias THEN 0 ELSE Elsewhere
  /\ bias' = CASE c.type = "EQUILIBRIUM" -> Ground
               [] c.type = "STEADYSTATE" -> Target(c)
               [] OTHER -> 0
  /\ x' = "fresh"
  /\ ierr' = 0
  /\ tran_histroy' = (c.type = "OP" /\ tran_histroy)
  /\ UNCHANGED <<PseudoTimeTolRelax, T_Cycles>>

(* A TRANSIENT card (module Transient): what it leaves to the cards after    *)
(* it.  Its nodes hold the solution of its last accepted step, which need    *)
(* not be the last one it set the electrodes to.                             *)
TransientCard ==
  /\ Transients
  /\ pc = "ready"
  /\ T_Cycles' \in {0, 1}
  /\ tran_histroy' = TRUE
  /\ bias' = 0
  /\ sol' \in {0, Elsewhere}
  /\ UNCHANGED <<card, pc, ramp, pseudo, diverged_retry, x, ierr>>

-----------------------------------------------------------------------------
(* solve_equ, and solve_steadystate without pseudo time: one solve from the  *)
(* nodes' solution.                                                          *)
SolveOnce ==
  /\ pc = "solve"
  /\ pc' = "ready"
  /\ \/ sol' = bias /\ x' = "solution" /\ ierr' = 0
     \/ sol' = sol /\ x' = "diverged" /\ ierr' = 1
  /\ UNCHANGED <<card, ramp, pseudo, diverged_retry, session, bias>>

-----------------------------------------------------------------------------
(* A larger ramp step after a success, at most a whole one. *)
GrownSteps(d) ==
  IF d < Part THEN {Lesser(h, Part) : h \in Rounded(3 * d, 2)} ELSE {d}

(* "make sure we can terminat at ramp_final_time": the next step s and its   *)
(* distance d, shortened to end at the card's bias.                          *)
Clipped(s, d) ==
  IF s > Target(card) /\ s < Target(card) + d
  THEN <<Target(card), d - (s - Target(card))>>
  ELSE <<s, d>>

(* while (step < ramp_steps + 0.5*dstep) *)
MutRampStopsEarly(s, d) == s < Target(card)
RampGoesOn(s, d) == 2 * s < 2 * Target(card) + d

(* The loop counts one more divergence and goes on. *)
MutOneTooMany == diverged_retry <= MaxRetry
RoomToRetry == diverged_retry + 1 < MaxRetry

(* The end of the loop's body, with the next step s at distance d and the    *)
(* pseudo time steps t: solve it, or go on to the next phase, which sets the *)
(* electrodes to the card's bias.                                            *)
RampLoopTest(s, d, t) ==
  IF RampGoesOn(s, d)
  THEN /\ bias' = step
       /\ tau' = t
       /\ UNCHANGED <<pc, k, PseudoTimeTolRelax, metal, tran_histroy>>
  ELSE /\ bias' = IF AfterRamp = "drive" THEN Target(card) ELSE step
       /\ EnterPhase(AfterRamp, t)

(* The solve at bias step converged: store it, take the next step. *)
RampConverged ==
  /\ pc = "ramp"
  /\ sol' = step
  /\ x' = "solution"
  /\ diverged_retry' = 0
  /\ t_cycles' = 1
  /\ \E d \in GrownSteps(dstep) :
       LET next == Clipped(step + d, d) IN step' = next[1] /\ dstep' = next[2]
  /\ RampLoopTest(step', dstep', tau)
  /\ UNCHANGED <<card, T_Cycles, ierr>>

(* What is left of a ramp step that is cut to d. *)
MutStepBackToStart(d) == step - dstep
StepBack(d) == step - (dstep - d)

(* It diverged: halve the step and the pseudo time steps, restore the nodes' *)
(* solution.  Halving a double is exact: what is kept of the step and what   *)
(* is taken back add up to it.                                               *)
RampRetry ==
  /\ pc = "ramp" /\ RoomToRetry
  /\ diverged_retry' = diverged_retry + 1
  /\ dstep' \in RoundedPositive(dstep, 2)
  /\ step' = StepBack(dstep')
  /\ x' = Recovered
  /\ RampLoopTest(step', dstep', Halved(tau))
  /\ UNCHANGED <<card, t_cycles, T_Cycles, sol, ierr>>

(* It diverged too often: leave the ramp with an error. *)
RampGiveUp ==
  /\ pc = "ramp" /\ ~RoomToRetry
  /\ ierr' = 1
  /\ bias' = IF AfterRamp = "drive" THEN Target(card) ELSE step
  /\ x' = "diverged"
  /\ diverged_retry' = 0
  /\ EnterPhase(AfterRamp, tau)
  /\ UNCHANGED <<card, ramp, T_Cycles, sol>>

-----------------------------------------------------------------------------
(* snes_solve_pseudo_time_step returns; only solve_steadystate uses the      *)
(* result.                                                                   *)
PseudoTimeReturns(err, t) ==
  /\ EnterPhase(IF pc = "drive" THEN AfterDrive ELSE "ready", t)
  /\ diverged_retry' = 0
  /\ ierr' = IF pc = "steady" THEN err ELSE ierr

(* The for loop: another iteration, or the end without an error. *)
MutStartsOver(retries, t) ==
  /\ k' = IF k < card.PseudoTimeSteps THEN k + 1 ELSE 1
  /\ tau' = t
  /\ diverged_retry' = retries
  /\ UNCHANGED <<pc, PseudoTimeTolRelax, metal, tran_histroy, ierr>>
NextIteration(retries, t) ==
  IF k < card.PseudoTimeSteps
  THEN /\ k' = k + 1
       /\ tau' = t
       /\ diverged_retry' = retries
       /\ UNCHANGED <<pc, PseudoTimeTolRelax, metal, tran_histroy, ierr>>
  ELSE PseudoTimeReturns(0, t)

(* The solve diverged: halve the pseudo time steps, restore the solution. *)
PseudoRetry ==
  /\ InPseudoTime /\ RoomToRetry
  /\ x' = Recovered
  /\ NextIteration(diverged_retry + 1, Halved(tau))
  /\ UNCHANGED <<card, ramp, T_Cycles, bias, sol>>

PseudoGiveUp ==
  /\ InPseudoTime /\ ~RoomToRetry
  /\ x' = "diverged"
  /\ PseudoTimeReturns(1, tau)
  /\ UNCHANGED <<card, ramp, T_Cycles, bias, sol>>

(* It converged, and the pseudo time convergence test decides whether to go  *)
(* on; the steps are doubled unless a solve of this call diverged.           *)
PseudoConverged ==
  /\ InPseudoTime
  /\ sol' = bias
  /\ x' = "solution"
  /\ \/ PseudoTimeReturns(0, tau)
     \/ NextIteration(diverged_retry,
                      IF diverged_retry = 0 THEN Doubled(tau) ELSE tau)
  /\ UNCHANGED <<card, ramp, T_Cycles, bias>>

-----------------------------------------------------------------------------
Next ==
  \/ \E c \in Cards : Start(c)
  \/ TransientCard
  \/ SolveOnce
  \/ RampConverged \/ RampRetry \/ RampGiveUp
  \/ PseudoRetry \/ PseudoGiveUp \/ PseudoConverged

Spec == Init /\ [][Next]_vars

(* The drivers are sequential loops whose nonlinear solves return; the user  *)
(* need not send another card.                                               *)
FairSpec == Spec /\ WF_vars(pc # "ready" /\ Next)

-----------------------------------------------------------------------------
(* The state's types and the bounds on its counters. *)
TypeOK ==
  /\ card \in Cards
  /\ pc \in {"ready", "solve", "ramp", "steady", "drive", "metal"}
  /\ step \in Nat /\ dstep \in 1..Part /\ t_cycles \in {0, 1}
  /\ k \in Nat \ {0} /\ (InPseudoTime => k <= card.PseudoTimeSteps)
  /\ diverged_retry \in 0..(MaxRetry - 1)
  /\ tau \in [Fields -> Int]
  /\ PseudoTimeTolRelax \in {7, 8}
  /\ T_Cycles \in {0, 1} /\ tran_histroy \in BOOLEAN
  /\ metal \in {"material", "pseudo"}
  /\ bias \in Nat \union {Ground}
  /\ sol \in Nat \union {Ground, Elsewhere}
  /\ x \in {"fresh", "solution", "diverged"}
  /\ ierr \in {0, 1}

(* However divergence and success alternate in solve_op, each ramp step      *)
(* starts at the solution the nodes hold, is no longer than one of the       *)
(* card's ramp steps (vstepmax, istepmax) and does not pass the card's bias. *)
RampAnchored ==
  pc = "ramp" =>
    /\ sol # Elsewhere => step = sol + dstep
    /\ step <= Target(card)

(* A static driver that reports success leaves in the nodes a solution at    *)
(* the electrodes' bias, and this is the bias the card asks for: also when   *)
(* the pseudo time iteration runs out of its iterations, provided it has no  *)
(* fewer of them than divergences end it, and when its result is ignored.    *)
SolvedAsAsked ==
  [][ pc # "ready" /\ pc' = "ready" /\ ierr' = 0
        /\ card.PseudoTimeSteps >= MaxRetry =>
          /\ sol' = bias'
          /\ bias' = IF card.type = "EQUILIBRIUM" THEN Ground ELSE Target(card)
    ]_vars

(* Every nonlinear solve starts from the nodes' solution, also after a       *)
(* divergence: except for the first solve of a pseudo time iteration in a    *)
(* session that has made transient steps.                                    *)
GuessLoaded ==
  pc # "ready" /\ (InPseudoTime /\ k = 1 => T_Cycles = 0) => Guess = "solution"

(* "set initial value to solution vector and scaling vector": no exceptions. *)
EveryGuessLoaded == pc # "ready" => Guess = "solution"

(* "restore pseudo parameters": whatever way a driver ends, the metal        *)
(* regions have their own conductance, the nodes no longer count as a        *)
(* transient's, and an OP card leaves the pseudo time steps as it read them. *)
ParametersRestored ==
  [][ pc # "ready" /\ pc' = "ready" =>
        /\ metal' = "material"
        /\ ~tran_histroy'
        /\ card.type = "OP" => tau' = card.tau ]_vars

(* Every card ends. *)
CardEnds == pc # "ready" ~> pc = "ready"
=============================================================================
