----------------------------- MODULE MCDCSweep ------------------------------
(***************************************************************************)
(* Small sweeps for the model checker.  Steps of 6 to 10 units can be      *)
(* halved down to the resolution, and a growth of 10% shows.               *)
(***************************************************************************)
EXTENDS DCSweep

Sweep(solver, a, b, s, m, p, snap, radius) ==
  [solver |-> solver, start |-> a, stop |-> b, step |-> s, stepMax |-> m,
   predict |-> p, snap |-> snap, radius |-> radius]

(* A sweep whose solves may always diverge, near VStop within the tolerance, *)
(* and one whose solves converge for moves of at most 2 units.               *)
Wild(solver, a, b, s, m, p) == Sweep(solver, a, b, s, m, p, 2, -1)
Tame(solver, a, b, s, p) == Sweep(solver, a, b, s, s, p, 1, 2)

(* VStop lies on the same side of zero as the step points to, or is zero. *)
Aligned ==
  { Wild("DDM", 0, 12, 6, 6, TRUE),      \* VStop is a multiple of the step
    Wild("DDM", 0, 9, 6, 6, FALSE),      \* it is not, and no projection
    Wild("DDM", -7, 6, 6, 6, TRUE),      \* across zero, near VStop after two steps
    Wild("DDM", 0, -12, -6, -6, TRUE),   \* downwards
    Sweep("DDM", -9, 6, 6, 6, TRUE, 4, -1),  \* retries within a wide tolerance of VStop
    Wild("DDM", -13, 0, 6, 6, TRUE),     \* ends at zero
    Wild("DDM", 5, 5, 6, 6, TRUE),       \* a single bias
    Wild("DDM", 7, 3, 6, 6, TRUE),       \* the step points away from VStop
    Wild("Mix", 0, 12, 6, 6, TRUE),      \* a source of a circuit
    Wild("MixA", -7, 6, 6, 6, TRUE) }

(* The same with moves that are bound to converge. *)
Converging ==
  { Tame("DDM", 0, 12, 6, TRUE), Tame("DDM", 0, 9, 6, FALSE),
    Tame("DDM", -7, 6, 6, TRUE), Tame("DDM", 0, -12, -6, TRUE),
    Tame("DDM", -13, 0, 6, TRUE), Tame("DDM", 5, 5, 6, TRUE),
    Tame("DDM", 7, 3, 6, TRUE), Tame("Mix", 0, 12, 6, TRUE),
    Tame("MixA", -7, 6, 6, TRUE) }

(* vstepmax larger than vstep lets the step grow. *)
Growing ==
  { Wild("DDM", 0, 20, 10, 15, TRUE), Wild("DDM", 0, -20, -10, -15, FALSE) }

(* VStop and the step have opposite signs. *)
Opposed ==
  { Sweep("DDM", -20, -10, 5, 5, TRUE, 1, 2), Sweep("DDM", 20, 10, -5, -5, TRUE, 1, 2) }

(* A mixed-mode sweep without projection. *)
Unsaved == { Tame("Mix", 0, 12, 6, FALSE) }

AllSweeps == Aligned \union Converging \union Growing

(* Values on both sides of the sweeps. *)
SomeJunk == {-30, 30}
=============================================================================
