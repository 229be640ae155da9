----------------------------- MODULE MCOpPoint ------------------------------
(***************************************************************************)
(* Sessions of a few SOLVE cards for the model checker.                    *)
(***************************************************************************)
EXTENDS OpPoint

(* The default pseudo time steps, against a maximum of 0: the potential's is *)
(* at the maximum already, the others are below it.                          *)
Tau == [f \in Fields |-> IF f = "Potential" THEN 0 ELSE IF f = "Carrier" THEN -1 ELSE -2]

Card(t, n, pseudoTime, cmos, toSteady, iterations) ==
  [type |-> t, ramp_steps |-> n, PseudoTimeMethod |-> pseudoTime,
   PseudoTimeCMOS |-> cmos, OpToSteady |-> toSteady,
   PseudoTimeSteps |-> iterations, tau |-> Tau]

StaticCards ==
  { Card("EQUILIBRIUM", 1, FALSE, TRUE, TRUE, 4),
    Card("STEADYSTATE", 1, FALSE, TRUE, TRUE, 4),
    Card("STEADYSTATE", 1, TRUE, TRUE, TRUE, 4),
    Card("STEADYSTATE", 1, TRUE, TRUE, TRUE, 2),    \* too few iterations
    Card("OP", 3, FALSE, TRUE, TRUE, 4),
    Card("OP", 2, TRUE, TRUE, FALSE, 4),
    Card("OP", 2, TRUE, TRUE, TRUE, 5) }
=============================================================================
