------------------------------ MODULE MCMixOp -------------------------------
(***************************************************************************)
(* Sessions of cards for the model checker: ramps of one and of two steps, *)
(* gmin lowered in several solves and in one, already the user's, and less *)
(* than that.                                                              *)
(***************************************************************************)
EXTENDS MixOp

Card(steps, init, user) == [rampup_steps |-> steps, GminInit |-> init, Gmin |-> user]

SmallCards == { Card(1, 5, 0), Card(2, 2, 1), Card(1, 1, 1), Card(2, 0, 1) }
=============================================================================
