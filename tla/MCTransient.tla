---------------------------- MODULE MCTransient -----------------------------
(***************************************************************************)
(* Small transient runs for the model checker.                             *)
(***************************************************************************)
EXTENDS Transient

Run(stop, step, tmin, tmax, auto, predict, ts, limited) ==
  [TStart |-> 2, TStop |-> stop, TStep |-> step, TStepMin |-> tmin,
   TStepMax |-> tmax, AutoStep |-> auto, RejectStep |-> auto,
   Predict |-> predict, TS_type |-> ts, limited |-> limited]

SmallRuns ==
  { Run(16, 4, 1, 0, TRUE, TRUE, "BDF1", FALSE),
    Run(16, 4, 2, 5, TRUE, TRUE, "BDF2", FALSE),
    Run(14, 3, 2, 0, FALSE, TRUE, "BDF2", TRUE),
    Run(12, 3, 1, 4, TRUE, FALSE, "BDF1", TRUE),
    [Run(14, 4, 1, 0, TRUE, TRUE, "BDF1", FALSE) EXCEPT !.RejectStep = FALSE],
    Run(12, 2, 3, 0, FALSE, FALSE, "BDF1", FALSE) }
=============================================================================
