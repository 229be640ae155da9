----------------------------- MODULE MCIVTrace ------------------------------
(***************************************************************************)
(* Small traces for the model checker: a few points, and slopes that are   *)
(* close, further apart and on both sides of a turning point.              *)
(***************************************************************************)
EXTENDS IVTrace

Source(k, v) == [kind |-> k, value |-> v]
None == Source("none", 0)

Trace(a, b, s, i, r, src) ==
  [VStart |-> a, VStop |-> b, VStep |-> s, IStop |-> i, R |-> r, source |-> src]

SmallTraces ==
  { Trace(0, 3, 1, 2, 0, None),                   \* a forward trace
    Trace(0, -3, -2, 2, 1, None),                 \* a reverse one, with a resistance
    Trace(-3, 0, 2, 3, 0, None),                  \* up to zero
    Trace(3, 3, 1, 2, 1, None),                   \* nothing to trace
    Trace(0, 3, 1, 2, 0, Source("voltage", 2)),   \* starts away from VStart
    Trace(0, 3, 1, 2, 1, Source("current", 1)) }  \* the voltage has no effect

SmallPotentials == -4..4
SmallCurrents == -2..2

(* Two steep slopes on the near and one on the far side of the vertical, and *)
(* flat ones.                                                                *)
SmallSlopes == {87, 80, 70, 66, -85, 20}
SmallLoad == [s \in SmallSlopes |->
                CASE s = 87 -> 4 [] s = 80 -> 3 [] s \in {70, 66} -> 2
                  [] s = 20 -> 1 [] s = -85 -> -4]
=============================================================================
