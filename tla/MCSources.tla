----------------------------- MODULE MCSources ------------------------------
(***************************************************************************)
(* Sources on one and two electrodes for the model checker.  Periods are   *)
(* shorter than the largest step, so a step may contain a whole pulse.     *)
(***************************************************************************)
EXTENDS Sources

Pulse(td, tr, pw, tf, pr, v1, v2) ==
  [form |-> "pulse", td |-> td, tr |-> tr, tf |-> tf, pw |-> pw, pr |-> pr,
   V1 |-> v1, V2 |-> v2]
Constant(td, v) == [Pulse(td, 1, 0, 1, 3, 0, v) EXCEPT !.form = "dc"]

Setup(electrodes, tmin, change) ==
  [electrodes |-> electrodes, dt_min |-> tmin, change |-> change]

Single ==
  { Setup(<< <<Pulse(3, 2, 3, 2, 11, 0, 4)>> >>, 2, 1),
    Setup(<< <<Pulse(0, 1, 2, 4, 12, 3, -1)>> >>, 1, 2),
    Setup(<< <<Pulse(5, 1, 1, 1, 6, 0, 2)>>, <<Constant(4, 3)>> >>, 3, 2),
    Setup(<< <<Pulse(9, 1, 0, 1, 3, 0, 2)>> >>, 8, 1),  \* first pulse periods away
    Setup(<< <<Pulse(1, 3, 2, 1, 9, 1, 4)>>, <<Pulse(4, 1, 3, 1, 14, 0, 6)>> >>, 2, 2) }

(* Two sources of one electrode, one falling while the other rises. *)
Opposite ==
  { Setup(<< <<Pulse(3, 1, 3, 1, 12, 0, 4), Pulse(5, 1, 3, 1, 12, 0, -4)>> >>, 1, 2) }

Together == { Setup(<< <<Constant(2, 3), Pulse(3, 2, 3, 2, 11, 0, 4)>> >>, 2, 1) }

AllSetups == Single \union Together
=============================================================================
