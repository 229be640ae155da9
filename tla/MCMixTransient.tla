--------------------------- MODULE MCMixTransient ---------------------------
(***************************************************************************)
(* Small mixed-mode transient runs for the model checker: both solvers,    *)
(* both integration methods, with and without step control.                *)
(***************************************************************************)
EXTENDS MixTransient

Run(solver, stop, step, tmin, tmax, auto, predict, ts, limited) ==
  [solver |-> solver, TStart |-> 2, TStop |-> stop, TStep |-> step,
   TStepMin |-> tmin, TStepMax |-> tmax, AutoStep |-> auto, RejectStep |-> auto,
   Predict |-> predict, TS_type |-> ts, limited |-> limited]

SmallRuns ==
  UNION { { Run(s, 16, 3, 1, 0, TRUE, TRUE, "BDF1", FALSE),
            Run(s, 18, 3, 2, 5, TRUE, TRUE, "BDF2", FALSE),
            Run(s, 16, 4, 2, 0, FALSE, TRUE, "BDF2", TRUE),
            Run(s, 22, 4, 1, 0, FALSE, FALSE, "BDF1", FALSE),
            [Run(s, 14, 3, 1, 4, TRUE, FALSE, "BDF1", TRUE) EXCEPT !.RejectStep = FALSE]
          } : s \in {"Mix", "MixA"} }
=============================================================================
