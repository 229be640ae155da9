------------------------------- MODULE MixOp --------------------------------
(***************************************************************************)
(* Operating points of the mixed device/circuit solvers,                   *)
(* MixSolverBase::solve_dcop (src/src/solver/ddm_common/mix_solver.cc) and *)
(* MixASolverBase::solve_dcop (mixA_solver.cc), over a session of SOLVE    *)
(* cards that share the mesh and the circuit simulator.  A card ramps the  *)
(* circuit's sources up to their values with a large gmin, doubling the    *)
(* number of steps after each divergence, and then lowers gmin.  It        *)
(* returns no error.                                                       *)
(*                                                                         *)
(* A solution is the operating point it belongs to: the card, the fraction *)
(* of the source values in units of 1/Full and gmin, counted in decades.   *)
(* The solves are the environment.                                         *)
(***************************************************************************)
EXTENDS Rounding

CONSTANTS
  Cards,     \* what a SOLVE card may ask for
  MaxCards,  \* bound on the cards of a session
  Full,      \* the whole source values, in units too small to diverge
  MaxRetry,  \* retries in a row: 3 in the code
  Decades    \* gmin falls by a factor of 100, two decades, at a time

CardType == [rampup_steps : Nat \ {0}, GminInit : Int, Gmin : Int]

ASSUME CardAssumption ==
  /\ Cards \subseteq CardType
  /\ {MaxCards, MaxRetry, Decades, Full} \subseteq Nat \ {0}
  /\ \A c \in Cards : \E q \in 1..Full : c.rampup_steps * q = Full

VARIABLES
  par, card,              \* this card's settings, and its number
  step, rampup_steps,     \* the ramp: step of rampup_steps
  retry,                  \* divergences in a row
  solves,                 \* DC_Cycles # 0: something was solved on this card's ramp
  sources,                \* the circuit's sources, in 1/Full of what the card found
  gmin,                   \* the circuit's gmin
  device,                 \* the solution the mesh nodes hold
  rhs_old, solution,      \* the circuit's node values, and those it saved
  gave_up,                \* the ramp of this card was left by its break
  pc

ramp    == <<step, rampup_steps, retry, solves>>
circuit == <<rhs_old, solution>>
vars == <<par, card, ramp, sources, gmin, device, circuit, gave_up, pc>>

Point(n, s, g) == [card |-> n, sources |-> s, gmin |-> g]

(* The state before the session, and what a diverged iteration leaves. *)
Start == Point(0, 0, 0)
Diverged == Point(-1, 0, 0)

-----------------------------------------------------------------------------
Init ==
  /\ par \in Cards /\ card = 0
  /\ step = 1 /\ rampup_steps = 1 /\ retry = 0 /\ solves = FALSE
  /\ sources = Full /\ gmin = par.Gmin
  /\ device = Start /\ rhs_old = Start /\ solution = Start
  /\ gave_up = FALSE
  /\ pc = "idle"

(* A card: take the sources' values as their dc values and set the large gmin. *)
StartCard ==
  /\ pc = "idle" /\ card < MaxCards
  /\ par' \in Cards
  /\ card' = card + 1
  /\ step' = 1 /\ rampup_steps' = par'.rampup_steps /\ retry' = 0 /\ solves' = FALSE
  /\ sources' = Full
  /\ gmin' = par'.GminInit
  /\ gave_up' = FALSE
  /\ pc' = "ramp"
  /\ UNCHANGED <<device, circuit>>

(* it->second*step/rampup_steps *)
Level == (Full * step) \div rampup_steps

(* post_solve_process: the nodes and the circuit keep the solution p. *)
Kept(p) == device' = p /\ rhs_old' = p /\ solution' = p

(* while(gmin > gmin_user) *)
GminTest(g) == IF g > par.Gmin THEN "gmin" ELSE "idle"

(* step<=rampup_steps *)
MutStopsShort(s) == s < rampup_steps
MoreSteps(s) == s <= rampup_steps

(* A step of the ramp converged. *)
RampSolved ==
  /\ pc = "ramp"
  /\ sources' = Level
  /\ Kept(Point(card, Level, gmin))
  /\ retry' = 0 /\ solves' = TRUE
  /\ step' = step + 1
  /\ pc' = IF MoreSteps(step') THEN "ramp" ELSE GminTest(gmin)
  /\ UNCHANGED <<par, card, rampup_steps, gmin, gave_up>>

(* diverged_recovery() for the circuit. *)
MutCircuitNotRestored == rhs_old' = Diverged /\ UNCHANGED <<device, solution>>
Recovered == rhs_old' = solution /\ UNCHANGED <<device, solution>>

(* Twice as many steps, from the same fraction: step *= 2, rampup_steps *= 2, *)
(* step -= 2, and ++step of the loop.                                        *)
MutStepNotTakenBack == step' = 2 * step /\ rampup_steps' = 2 * rampup_steps
Halved == step' = 2 * step - 1 /\ rampup_steps' = 2 * rampup_steps

(* A solve may diverge while its step can be halved in whole units. *)
MayDiverge == \E q \in 1..Full : 2 * rampup_steps * q = Full

(* One divergence more may be tried again. *)
MutOneTooMany == retry <= MaxRetry
RetryLeft == retry < MaxRetry

(* A step of the ramp diverged: restore the last solution and halve the step. *)
RampDiverged ==
  /\ pc = "ramp" /\ MayDiverge /\ RetryLeft
  /\ sources' = Level
  /\ Recovered
  /\ Halved
  /\ retry' = retry + 1
  /\ UNCHANGED <<par, card, solves, gmin, gave_up, pc>>

(* It diverged too often: break, with sources and circuit as they are, and   *)
(* go on to lower gmin.                                                      *)
RampGiveUp ==
  /\ pc = "ramp" /\ MayDiverge /\ ~RetryLeft
  /\ sources' = Level
  /\ rhs_old' = Diverged
  /\ retry' = retry + 1
  /\ gave_up' = TRUE
  /\ pc' = GminTest(gmin)
  /\ UNCHANGED <<par, card, step, rampup_steps, solves, gmin, device,
                 solution>>

(* gmin = std::max(gmin*1e-2, gmin_user) *)
MutNoMaximum == gmin - Decades
LowerGmin == Greater(gmin - Decades, par.Gmin)

GminSolved ==
  /\ pc = "gmin"
  /\ gmin' = LowerGmin
  /\ Kept(Point(card, sources, gmin'))
  /\ pc' = GminTest(gmin')
  /\ UNCHANGED <<par, card, ramp, sources, gave_up>>

(* The solve with a lower gmin diverged: break without any recovery. *)
GminDiverged ==
  /\ pc = "gmin"
  /\ gmin' = LowerGmin
  /\ rhs_old' = Diverged
  /\ pc' = "idle"
  /\ UNCHANGED <<par, card, ramp, sources, device, solution, gave_up>>

(* The end of the session. *)
Finished == pc = "idle" /\ card = MaxCards /\ UNCHANGED vars

Next ==
  \/ StartCard \/ RampSolved \/ RampDiverged \/ RampGiveUp
  \/ GminSolved \/ GminDiverged \/ Finished

Spec == Init /\ [][Next]_vars

-----------------------------------------------------------------------------
PointType == [card : -1..MaxCards, sources : 0..Full, gmin : Int]

(* The state's types and the bounds on its counters. *)
TypeOK ==
  /\ par \in Cards /\ card \in 0..MaxCards
  /\ rampup_steps \in 1..Full /\ step \in 1..(rampup_steps + 1)
  /\ retry \in 0..(MaxRetry + 1)
  /\ {solves, gave_up} \subseteq BOOLEAN
  /\ sources \in 0..Full /\ gmin \in Int
  /\ {device, rhs_old, solution} \subseteq PointType
  /\ pc \in {"idle", "ramp", "gmin"}

(* However often the step was halved, the ramp goes on exactly one step from *)
(* the fraction last solved on this card.                                    *)
RampAnchored ==
  pc = "ramp" =>
    /\ rampup_steps * (IF solves THEN device.sources ELSE 0) = Full * (step - 1)
    /\ solves => device.card = card /\ device.gmin = gmin

(* The device and the circuit hold the same operating point, what the        *)
(* circuit would be restored to included: always what was saved, and, until  *)
(* the card gives up, where the next solve starts from as well.  A card      *)
(* whose predecessor ended with a diverged solve starts elsewhere.           *)
PartiesAgree ==
  /\ solution = device
  /\ pc # "idle" /\ ~gave_up /\ (solves \/ retry > 0) => rhs_old = device

(* A card leaves the sources as it found them, and a solution at these       *)
(* values: the next card takes what it finds for the values of the netlist.  *)
(* Only giving up the ramp leaves less.                                      *)
SourcesReached ==
  pc = "idle" /\ card > 0 /\ ~gave_up =>
    sources = Full /\ device.sources = Full /\ device.card = card

(* "scale gmin back to user given value": a card that sets a gmin at least   *)
(* the user's and ends with a solution ends with the user's gmin, in the     *)
(* circuit and in the solution.  A gmin below the user's is never raised to  *)
(* it, against that comment; one whose solve diverged stays set.             *)
GminScaledBack ==
  pc = "idle" /\ card > 0 /\ par.GminInit >= par.Gmin /\ rhs_old = device =>
    gmin = par.Gmin /\ device.gmin = par.Gmin
=============================================================================
