------------------------------ MODULE IVTrace -------------------------------
(***************************************************************************)
(* The curve tracer DDMSolverBase::solve_iv_trace                          *)
(* (src/src/solver/ddm_common/ddm_solver.cc).  It follows the IV curve of  *)
(* one electrode by continuation: the electrode is driven through a load   *)
(* resistance, chosen after each solved point from the slope of the curve  *)
(* there, and the voltage behind the resistance takes the steps.           *)
(*                                                                         *)
(* A solved point is a potential P and a current I of the electrode with   *)
(* P + R*I = Vapp.  The device is the environment: at a load line it has   *)
(* any point with a potential of Potentials and a current of Currents, and *)
(* there any slope of Slopes, or the solve diverges; a step of at most     *)
(* Smooth converges to a point whose slope is close to the last.           *)
(***************************************************************************)
EXTENDS Rounding

CONSTANTS
  Traces,       \* the traces a SOLVE card may ask for
  Potentials,   \* potentials the device has a solution at
  Currents,     \* its currents
  Slopes,       \* the slopes, in degrees, of its IV curve
  Load,         \* the load resistance Rref^2/r, tan(slope), for every slope
  MaxV,         \* a bound on the voltages with a solution
  MaxRecovery,  \* diverged solves in a row that do not end the trace: 8 in the code
  Smooth        \* a step this short is never rejected and never diverges

(* The source that is attached to the traced electrode, if there is one. *)
SourceType == [kind : {"none", "voltage", "current"}, value : Int]

TraceType == [VStart : Int, VStop : Int, VStep : Int \ {0}, IStop : Nat, R : Nat,
              source : SourceType]

ASSUME TraceAssumption ==
  /\ Traces \subseteq TraceType
  /\ Potentials \subseteq Int /\ Currents \subseteq Int
  /\ Slopes \subseteq -89..89
  /\ Load \in [Slopes -> Int]
  /\ MaxV \in Nat /\ MaxRecovery \in Nat
  /\ Smooth \in Nat

VARIABLES
  par,          \* the card's parameters, the electrode's own resistance and source
  pc,           \* "initial", "solve" in the loop, "done", or "abort"
  V, VStep,     \* the voltage of the last load line, and the next step
  Vapp, R,      \* the electrode's applied voltage and serial resistance
  Rload, slope, \* of the last accepted point
  first_step,
  Potential, I, \* what the loop test looks at
  recovery,     \* diverged solves of this step
  sol,          \* the point of the solution the mesh nodes hold
  x,            \* the electrode's potential in the solution vector: the stored
                \* "solution" or that of a discarded "iterate"
  error

device == <<sol, x>>
line == <<V, Rload, slope>>
vars == <<par, pc, line, VStep, Vapp, R, first_step, Potential, I, recovery, device,
          error>>

-----------------------------------------------------------------------------
(* The load line's voltage when a step is taken back. *)
MutStepNotTakenBack == V + VStep
TakenBack == V

(* Half the step, never rounded to zero: halving a double is exact. *)
HalfStep(s) ==
  IF s > 0 THEN RoundedPositive(s, 2) ELSE {-h : h \in RoundedPositive(-s, 2)}

(* The step times f halves. *)
Scaled(s, f) ==
  IF s > 0 THEN RoundedPositive(f * s, 2) ELSE {-h : h \in RoundedPositive(-f * s, 2)}

(* The angle between two tangents of the curve. *)
Angle(a, b) == LET d == Abs(a - b) IN IF d > 90 THEN 180 - d ELSE d

(* A slope change of 15 degrees or more rejects the solution. *)
TooSteep(s) == ~first_step /\ Angle(slope, s) >= 15

(* VStepFactor, in halves. *)
StepFactor(s) ==
  CASE first_step          -> 2
    [] Angle(slope, s) < 1 -> 4
    [] Angle(slope, s) < 5 -> 3
    [] Angle(slope, s) < 10 -> 2
    [] OTHER               -> 1

(* The solutions with the voltage v applied: those on its load line.  An     *)
(* electrode with a current source stays driven by its current.              *)
Points(v) ==
  IF Abs(v) > MaxV THEN {}
  ELSE IF par.source.kind = "current"
       THEN {[P |-> p, I |-> par.source.value] : p \in Potentials}
       ELSE {pt \in {[P |-> v - R * i, I |-> i] : i \in Currents} : pt.P \in Potentials}

(* What follows the label trace_end. *)
MutResistanceKept(err) == pc' = "done" /\ error' = err /\ UNCHANGED R
Returns(err) == pc' = "done" /\ error' = err /\ R' = par.R

(* The loop test on a potential and a current, with resistance r set. *)
LoopTest(p, i, r) ==
  IF p * par.VStep < par.VStop * par.VStep /\ Abs(i) < par.IStop
  THEN pc' = "solve" /\ R' = r /\ UNCHANGED error
  ELSE Returns(0)

-----------------------------------------------------------------------------
(* Sets the electrode to VStart and then all electrodes to their sources:    *)
(* one that has a voltage source gets the source's value.                    *)
Init ==
  /\ par \in Traces
  /\ pc = "initial"
  /\ V = par.VStart /\ VStep = par.VStep
  /\ Vapp = IF par.source.kind = "voltage" THEN par.source.value ELSE par.VStart
  /\ R = 0 /\ Rload = 0
  /\ slope = 90
  /\ first_step = TRUE
  /\ sol = [P |-> 0, I |-> 0]
  /\ Potential = sol.P /\ I = 0
  /\ recovery = 0
  /\ x = "solution"
  /\ error = 0

(* The solve of the first point, without a load. *)
InitialPoint ==
  /\ pc = "initial"
  /\ \E pt \in Points(Vapp) :
       /\ sol' = pt /\ Potential' = pt.P /\ I' = pt.I
       /\ LoopTest(pt.P, pt.I, R)
  /\ UNCHANGED <<par, line, VStep, Vapp, first_step, recovery, x>>

InitialFails ==
  /\ pc = "initial"
  /\ Returns(1)
  /\ x' = "iterate"
  /\ UNCHANGED <<par, line, VStep, Vapp, first_step, Potential, I, recovery, sol>>

(* The step is short enough for the continuation to follow the curve. *)
Follows == Abs(VStep) <= Smooth /\ Points(V + VStep) # {}

(* One more divergence gives up. *)
MutCheckedBeforeCounting == recovery > MaxRecovery
TooManyRecoveries == recovery + 1 > MaxRecovery

(* A solve diverged: take the step back and halve it.  diverged_recovery     *)
(* fills the solution vector, the electrode's entry with the potential the   *)
(* last residual evaluation left in the external circuit.                    *)
StepDiverged ==
  /\ pc = "solve" /\ ~Follows
  /\ Vapp' = V + VStep
  /\ V' = TakenBack
  /\ VStep' \in HalfStep(VStep)
  /\ x' = "iterate"
  /\ IF TooManyRecoveries
     THEN Returns(1) /\ UNCHANGED recovery
     ELSE recovery' = recovery + 1 /\ UNCHANGED <<pc, R, error>>
  /\ UNCHANGED <<par, Rload, slope, first_step, Potential, I, sol>>

(* The step that is tried instead of a rejected one. *)
MutStepKept(s) == {s}
StepAfterRejection(s) == HalfStep(s)

(* The step converged to a point where the curve has another direction: take *)
(* it back and halve it.                                                     *)
StepRejected ==
  /\ pc = "solve"
  /\ \E pt \in Points(V + VStep) : \E s \in Slopes :
       /\ TooSteep(s) /\ ~Follows
       /\ Vapp' = V + VStep
       /\ V' = TakenBack
       /\ VStep' \in StepAfterRejection(VStep)
       /\ Potential' = 0 /\ I' = pt.I
       /\ LoopTest(0, pt.I, R)
  /\ recovery' = 0
  /\ x' = "iterate"
  /\ UNCHANGED <<par, Rload, slope, first_step, sol>>

(* The load line of resistance r through the point that was solved at v. *)
MutLineNotMoved(v, i, r) == v
MovedLine(v, i, r) == v + i * (r - Rload)

(* The load resistance changes its sign between two accepted points. *)
Turning(s) == Rload * Load[s] < 0

(* The step is accepted: store the point, choose the next load line. *)
StepAccepted ==
  /\ pc = "solve"
  /\ \E pt \in Points(V + VStep) : \E s \in Slopes :
       /\ ~TooSteep(s) /\ ~Turning(s)
       /\ sol' = pt /\ Potential' = pt.P /\ I' = pt.I
       /\ V' = MovedLine(V + VStep, pt.I, Load[s])
       /\ VStep' \in Scaled(VStep, StepFactor(s))
       /\ Rload' = Load[s] /\ slope' = s
       /\ LoopTest(pt.P, pt.I, Load[s])
  /\ Vapp' = V'
  /\ first_step' = FALSE
  /\ recovery' = 0
  /\ x' = "solution"
  /\ UNCHANGED par

(* A turning point of the curve: the point is stored, which makes it the     *)
(* external circuit's old point as well, and the chord from the old point to *)
(* the new one is 0/0.  No comparison with it holds, so the point is neither *)
(* a vertical nor a horizontal turning point: the program aborts.            *)
TurningPoint ==
  /\ pc = "solve"
  /\ \E pt \in Points(V + VStep) : \E s \in Slopes :
       /\ ~TooSteep(s) /\ Turning(s)
       /\ sol' = pt /\ Potential' = pt.P /\ I' = pt.I
  /\ Vapp' = V + VStep
  /\ V' = V + VStep
  /\ pc' = "abort"
  /\ x' = "solution"
  /\ UNCHANGED <<par, VStep, R, Rload, slope, first_step, recovery, error>>

Finished == pc \in {"done", "abort"} /\ UNCHANGED vars

Next ==
  \/ InitialPoint \/ InitialFails
  \/ StepDiverged \/ StepRejected \/ StepAccepted \/ TurningPoint
  \/ Finished

Spec == Init /\ [][Next]_vars

(* The tracer is one sequential loop and every nonlinear solve returns. *)
FairSpec == Spec /\ WF_vars(Next)

-----------------------------------------------------------------------------
(* The state's types and the bound on the recoveries. *)
TypeOK ==
  /\ par \in Traces
  /\ pc \in {"initial", "solve", "done", "abort"}
  /\ {V, Vapp, R, Rload, Potential, I} \subseteq Int /\ VStep \in Int \ {0}
  /\ slope \in Slopes \union {90} /\ first_step \in BOOLEAN
  /\ recovery \in 0..MaxRecovery
  /\ sol \in [P : Int, I : Int]
  /\ x \in {"solution", "iterate"} /\ error \in {0, 1}

(* "since Rload will be changed, we should change bias voltage to meet the   *)
(* truncation point": however accepted, rejected and diverged steps          *)
(* alternate, the next step starts from a load line through the point the    *)
(* nodes hold, with the resistance the electrode has.  An electrode with a   *)
(* voltage source gets there with its first step, one with a current source  *)
(* never does.                                                               *)
OnLoadLine ==
  pc = "solve" =>
    /\ R = Rload
    /\ \/ par.source.kind = "none"
       \/ par.source.kind = "voltage" /\ ~first_step
       => V = sol.P + R * sol.I

(* However the trace returns, the electrode has its own resistance again;    *)
(* and unless a rejected step ended the trace, a return value of 0 means     *)
(* that the point in the nodes has reached VStop or IStop.                   *)
LimitReached ==
  pc = "done" =>
    /\ R = par.R
    /\ error = 0 /\ x = "solution" =>
         \/ sol.P * par.VStep >= par.VStop * par.VStep
         \/ Abs(sol.I) >= par.IStop

(* Rejections are not counted, but they shorten the step: as long as short   *)
(* enough steps are accepted, the trace does not try the same point for ever.*)
RejectionsEnd == []<>(pc # "solve") \/ []<><<StepAccepted>>_vars

(* "IV curve tracing (including regions of negative resistance)",            *)
(* developer_guide.md: the tracer passes the turning points of the curve.    *)
TurningPointsPassed == pc # "abort"
=============================================================================
