# TLA+ verification of the Genius solution drivers

Genius is a semiconductor device simulator. An input deck is a list of cards;
each SOLVE card runs a *driver* that leads the device from one bias or time to
another by a sequence of nonlinear solves. Single solves are floating point
numerics. What decides whether a simulation is right beyond them is the control
around the solves: which bias or time comes next, what happens when a solve
diverges, which stored solutions the next guess and the time derivative use,
when the loop ends, and what a driver leaves behind for the next card. This
project models that control, checks it with TLC and proves it with TLAPS.

Paths below are relative to the repository; `ddm_solver.cc`,
`mix_solver.cc` and `mixA_solver.cc` are in `src/src/solver/ddm_common/`.

## Inventory

| Component | State | Operations | Correct when |
|---|---|---|---|
| DC sweep, `solve_dcsweep` | bias, step, retry stack, last three solved biases and vectors | solve, step on, push and halve, pop, project, give up | every bias asked for is solved, in order; success means VStop is solved; the guess is defined |
| Transient, `solve_transient` | clock, dt, two previous steps, three saved vectors, window of steps, retry counters, BDF order | solve, halve, reject, accept, limit, predict | the step starts at the stored solution; formulas use vectors as far apart as the recorded steps; ends at TStop |
| Static drivers, `solve_equ`, `solve_steadystate`, `solve_op`, `snes_solve_pseudo_time_step` | ramp position and step, pseudo time steps, tolerance, metal conductance, iteration and retry counters | ramp, halve, clip, drive to steady state, recover metal | success means a solution at the card's bias; global parameters come back |
| Curve tracer, `solve_iv_trace` | voltage, step, load resistance, slope, the electrode's resistance and source | solve, halve, reject by slope, move the load line, turn | the next step starts on a load line through the stored point; success means a limit is reached; the electrode gets its resistance back |
| Newton solve, `snes_solve` and convergence tests | solution vector, line search type | solve, retry without line search | converged means small residuals |
| Mixed-mode drivers, `mix_solver.cc`, `mixA_solver.cc` | as above, plus the circuit simulator's node values, sources and gmin | operating point, DC sweep, transient | device and circuit hold, and restore, the same solution; the sources come back, and gmin falls to the user's |
| Electrical and field sources | sources per electrode, saved bias | update, ramp, limit the step | no electrode changes by more than allowed within a step |
| `SolverControl`, `SolverSpecify` | the card list, global settings and counters | read a card, create, run and destroy a solver | a card's result depends on the card and the device only |
| Hooks | list per solver | before and after each solve | called once per solve |
| Regions, boundary conditions, physics, mesh, parser, file I/O | - | - | numerics or pure I/O: not modelled |

Interaction: `SolverControl::do_solve` reads a card into the global variables of
`SolverSpecify`, creates a solver with a new solution vector, calls one driver
and destroys the solver. A driver sets the sources, calls `pre_solve_process`
(which may load the solution from the mesh nodes into the vector), `snes_solve`,
and `post_solve_process` (which stores it) or `diverged_recovery` (which loads
the stored one again). The nodes, the electrodes and `SolverSpecify` live on
from card to card. In the mixed-mode solvers a second party, ngspice, holds the
circuit: each residual evaluation exchanges potentials and currents with it, and
the drivers tell it to save, restore and time-step its own solution.

The program is one sequential process, so there are no races. What is hard is
the *outcome of each solve*, which nobody controls: long alternations of
divergence, rejection and success drive the loops through states no test
writes down; rounding decides boundary tests; global variables keep values of
earlier cards; failures of a phase are followed by the next phase.
`PROJECT.json` lists these hazards with their lines.

## Modules

| Module | Models |
|---|---|
| `Rounding` | results of double arithmetic in whole units of its resolution |
| `Continuation` | the abstract driver: what a sweep or a run promises |
| `DCSweep`, `MCDCSweep`, `DCSweepProofs` | `solve_dcsweep` of the device and of both mixed-mode solvers |
| `Multistep` | what the transient drivers have in common: prediction, bounds of a step |
| `Transient`, `MCTransient`, `TransientProofs` | `solve_transient` of the device solvers |
| `MixTransient`, `MCMixTransient`, `MixTransientProofs` | `solve_transient` of the mixed-mode solvers |
| `OpPoint`, `MCOpPoint`, `OpPointProofs` | `solve_equ`, `solve_steadystate`, `solve_op`, `snes_solve_pseudo_time_step`, in a session of cards |
| `MixOp`, `MCMixOp`, `MixOpProofs` | `solve_dcop` of the mixed-mode solvers, in a session of cards |
| `IVTrace`, `MCIVTrace`, `IVTraceProofs` | `solve_iv_trace` |
| `Sources`, `MCSources`, `SourcesProofs` | `ElectricalSource::limit_dt` and the waveforms it looks at |
| `Numbers` | no code: facts about whole numbers, and the order of the loops' measures, that the proofs share |

`MC...` modules hold the instances for TLC, `...Proofs` modules the theorems.
`Mut...` operators are variants of the definition they precede with a plausible
mistake; they are used only to see that a property notices it.

**Numbers.** A bias or a time is a whole number of units, a unit standing for
the resolution of the arithmetic. Where a quotient or product falls between two
units the result may be either (`Rounded`); positive results stay positive
(`RoundedPositive`). Halving a double is exact, so what is kept and what is
taken back add up to the old step. A rejected step is a factor below 0.81 of the
old one and stays less than it however the product is rounded (`Shortened`).

**Environment.** A nonlinear solve may converge or diverge. In `DCSweep` it
diverges from a guess that is not a number, and the `radius` of a sweep can
demand that it converges for small bias moves. The second try of `snes_solve`
without line search is part of one outcome. The error estimate, the positivity
test of BDF2, the slope of the IV curve and the effect of the sources on the
step are free choices. Solution vectors are represented by what they hold: a
time, an operating point, or one of "the nodes' solution", "a failed iterate",
"never filled".

**`Continuation`.** A job leads the stored solution from a beginning to a goal:
`Advance` never goes back and never past the goal, `Fail` may come at any time,
and a job that is done is at its goal. `DCSweep`, `Transient` and `MixTransient`
instantiate it as `Drive`, with the bias or time of the stored solution for
`at` and the driver's outcome for `state`; the property `Continues` says that
they implement it. The retry stack, the halvings and the rejections are
stutters there or part of an `Advance`.

**`DCSweep`.** One module for the voltage and the current scan and for the three
solver families, which are the same loop over other names. They differ in the loop
test (`InRange`), in whether the solved biases are saved (`BiasSaved`: the
mixed-mode drivers only do it for the projection, and otherwise read variables
that were never initialised, `Junk`) and in what they report. Actions:
`Converged` (store, shift, pop or step, snap, grow, clamp, project, loop test),
`Retry` (push, restore, halve, project) and `GiveUp`. `DC_Cycles` counts to 3
and `solved` keeps only biases of the user's grid.

**`Transient`.** Actions: `Diverged`, `GiveUp`, `Reject`, `Accept`. `Accept` is
the whole tail of the loop: the counters, the step's factor, the average, the
bounds, the sources' limits, the end at TStop, the choice of the order, the
shift of the saved vectors and the prediction.

**`MixTransient`.** The same loop around two parties. The circuit appears as the
values that are the circuit part of every guess (`rhs_old`) and those it has
saved (`solution`); a divergence restores the device from the nodes and the
circuit from what it saved, an acceptance stores both, a rejection restores
neither. The two solver classes differ in when they reset the step's growth
factor and the divergence counter, and in whether they record the run in
`tran_histroy`. Unlike the device's driver they return 0 after giving up.

**`OpPoint`.** `pc` is the phase: `solve` (the one solve of `solve_equ` and of
`solve_steadystate` without pseudo time), `ramp` (the loop of `solve_op`), and the
three call sites of the pseudo time iteration, `steady`, `drive` and `metal`;
`ready` between cards. Biases are counted in parts of a ramp step from the bias
the electrodes had at the card's start; a stored solution at another bias is
`Elsewhere`. Pseudo time steps are powers of two, the tolerance a power of ten.
`TransientCard` is what a run of `Transient` leaves to this module.

**`MixOp`.** `ramp` raises the circuit's sources with a large gmin, each
divergence doubling the number of steps (`step = 2*step - 1` of twice as many),
`gmin` then lowers gmin by decades. Leaving the ramp by its `break` goes on to
the gmin phase, leaving that one by its `break` restores nothing; both are
actions of their own. The next card finds what this one left.

**`IVTrace`.** A solved point is a potential and a current on the load line
`P + R*I = Vapp`. `StepDiverged` and `StepRejected` take the step back and halve
it; `StepAccepted` stores the point and moves the line, `V += I*(Rload' - Rload)`;
`TurningPoint` is the branch in which the load resistance changes sign. The
device may have any of the points on a load line and any slope there, the
load resistance is a table of the slopes, and an electrode with a source of its
own is driven by it.

**`Sources`.** Constant and pulsed sources; `limit_dt` is its loop (`Shrunk`: ten
percent less while an electrode's summed `dv_max` is too large) and then the
corners (`CornerLimited`). The driver asks for any step (`Accept`) and may
shorten it later (`Shorten`). `KeepsMinimum` is what `Transient` and
`MixTransient` take the limiter to do; their `LimitedSteps` allow every such
step.

## Runs

| Run | Shows | Bounds |
|---|---|---|
| `SweepRetry` | types, ordered stack, no bias of the grid lost, VStop solved on success, the abstract driver implemented, when any solve may diverge; no division by zero, VStop is the last bias and the sweep completes, where moves of 2 units converge | twenty-one sweeps of the three solvers: up, down, across zero, to zero, single point, empty, growing, and one whose tolerance around VStop is wider than the biases near it; stack of 3, just enough to bisect a step of 6 down to the resolution |
| `TransientSteps` | anchored steps, consistent history, aimed guesses, the abstract driver implemented, shrinking retries, termination | six runs: BDF1/BDF2, with and without step control, rejection, prediction, step limits, limiting sources; 3 divergences end a run; ratios well below, just below, at and above the rejection threshold, just below being where a short step is rounded back; stale previous steps 0 and 3 |
| `MixSteps` | anchored steps, device and circuit agree, fixed steps kept, the abstract driver implemented, termination | five runs for each of the two solvers, otherwise as above |
| `OpSession` | anchored ramp, every solve starts from the nodes' solution unless a transient run's counter is in the way, success means solved as asked, parameters restored, every card ends | seven cards in any order and number, with transient cards between; ramps of 2 and 3 steps of 6 parts; 4 divergences end a loop; iteration counts below and above that |
| `MixOpSession` | the ramp goes on from the fraction last solved, device and circuit agree, the sources come back unless the ramp gave up, and gmin falls to the user's if the card starts with at least that and its last solve converges | sessions of three cards, ramps of one and two steps, gmin above, at and below the user's; 3 retries, so a ramp of 2 can be halved to 1/32 across retries that succeed in between |
| `TraceSteps` | next step on a load line through the stored point, resistance restored, success means a limit reached, rejections do not go on for ever | six traces: forward, reverse, to zero, empty, with a voltage and with a current source; potentials -4..4, currents -2..2; slopes less than 5, 10, 15 and more degrees apart, on both sides of the vertical; 2 divergences |
| `SourceSteps` | `dv_max` is the largest change within a step, an electrode with one source changes by no more than allowed, a step keeps nine tenths of TStepMin | six setups of one or two electrodes, one of them with two sources on one electrode and one whose first pulse is several periods away; steps up to 14, longer than several of the periods |
| `SweepOpposed`, `SweepUnsaved`, `OpGuessStale`, `TraceTurning`, `SourceCancel` | the disagreements below | one to six instances each |

The code's limits (8 divergences, relative tolerance 1e-7, window of 5) are
constants; the runs use smaller ones except for the window and for the 3 retries
of `solve_dcop`, which are the code's. Each loop treats all counts below the
limit alike, and the theorems hold for every value.

**Fairness.** The drivers are plain loops and every SNES solve returns, because
its iterations are bounded. So weak fairness of the whole next-state relation
is assumed (in `OpPoint` only while a card is being solved: nobody has to send
another one). No outcome of a solve is assumed to be fair: termination follows
from the counters, the shrinking steps and the finite distance. `Completes`
needs the stated radius, and `RejectionsEnd` that the curve is smooth: steps of
at most `Smooth` are neither rejected nor diverge. Without that
`solve_iv_trace`, which does not count rejections, need not end. `MixOp` and
`Sources` have no liveness property. In `MixOp` a ramp step that cannot be halved
in whole units of 1/`Full` converges (`MayDiverge`): a bound on how far the
doubling goes, without which `solve_dcop` could halve for ever, because each
success clears `retry`.

**Disagreements with the code's own comments** (runs expected to fail, detailed
under `findings`):

- `SweepOpposed`: with VStop and VStep of opposite signs the tolerance of the
  loop test moves the limit inwards and VStop is never solved; the driver
  returns 0.
- `SweepUnsaved`: without `Predict` a mixed-mode sweep that diverges goes half
  way towards a variable that was never assigned.
- `OpGuessStale`: the pseudo time iteration consults the step counter of an
  earlier transient run and then does not load its initial guess.
- `TraceTurning`: at a turning point the chord is computed from a point that has
  just been overwritten by the new one; it is 0/0 and the program aborts.
- `SourceCancel`: `limit_dt` adds up signed changes of an electrode's sources
  taken at different instants, so opposite ones cancel.

One more disagreement has no run of its own, being proved instead. The comment
"scale gmin back to user given value" (`mix_solver.cc:635`, and "the final value
of gmin" in `solver_specify.cc:526`) stands above `while(gmin > gmin_user)`: a
card whose `gmin.init` lies below its `gmin` never enters the loop, and its
circuit is solved with `gmin.init` for good. `GminScaledBack` therefore speaks of
cards with `GminInit >= Gmin`; `MixOpSession` also contains the card
`Card(2, 0, 1)`, with which the property fails as soon as that premise is
dropped, and the theorem `LowGminStays` says that every such card keeps its
`gmin.init`.

Limits of the properties, where the code does otherwise and no comment
contradicts it: a ramp of `solve_dcop` that gives up leaves the sources at a
fraction of their values, and a gmin whose solve diverged stays set, with the
circuit at the diverged iterate (`SourcesReached`, `PartiesAgree` and
`GminScaledBack` exclude these two ways out); with `vstepmax` above `vstep` the clamp uses the grown step, so
VStop can be solved twice (`Regular` excludes it); a first time step longer than
the run is not clipped to TStop (the transient instances and `FirstStepFits`
exclude it, `MixTransient`'s too); `solve_op` without the CMOS mode leaves its
tolerance in `SolverSpecify` until a METHOD card (`ParametersRestored` does not
speak of that case); `MixSolverBase` never resets `dt_dynamic_factor`, so a
fixed step grows after a divergence (`FixedStepKept` is about `MixASolverBase`);
a mixed-mode sweep to 0 stops before it; a trace can end with a rejected step
(`LimitReached` excludes it). `GridCovered` counts a multiple of the step that the
driver rounds to VStop as VStop.

`dv_max` looks at the corners of two periods, counted from the delay and cut off
towards zero. More than a period before the first pulse these are periods that
do not exist, and a step long enough to reach past the first pulse can then miss
it, although the comment at `vsource.h:342` promises the largest change. `InSight`
excludes such times from `DvMaxIsMax` and `ChangeBounded`; without it both fail
in the setup of `SourceSteps` whose first pulse is periods away.

## Proofs

All theorems hold for every value of the constants under the named assumptions
(`SweepAssumption`, `TolAssumption`: the loop test's tolerance is finer than the
resolution; `RunAssumption`: TStart before TStop, positive steps and minimum
step; `CardAssumption`; `TraceAssumption`; `SetupAssumption`: the
flanks and the top of a pulse fit into its period, and its slopes are whole
numbers). Each proof module states an inductive invariant `IInv`,
one lemma per action, and derives the theorems from it.

- **`DCSweepProofs`.** `RetryOrdered` is not inductive alone: it needs that the
  current step points in the sweep's direction (`StepForward`) and that the bias
  being tried is in range (`SolvesInRange`). All of it is for drivers that save
  their biases; `SweepUnsaved` shows why. `StopReached` is carried along for
  sweeps with `StopInside`: VStop is not on the other side of zero from where
  the step points, exactly the ones `SweepOpposed` does not refute, and not zero
  for the mixed-mode drivers. The arithmetic core is that a rounded midpoint
  lies between its ends, that snapping to VStop keeps the order, and what the
  loop test lets pass.
- **`SweepContinues`** is the refinement, under `BiasSaved` and `StopInside`: an
  initial state maps to one of `Continuation`, `Converged` to `Advance` (forwards
  because the bias tried is never behind the stored one, not past VStop because
  the loop test lets no such bias pass), `GiveUp` to `Fail`, `Retry` to a stutter,
  or to the end when the halved bias left the range, which the invariant
  excludes.
- **`TransientProofs`.** `StepAnchored` makes every other part work: because
  clock minus dt is the time of the node data, accepting a step shifts a
  consistent history into a consistent one. The strengthening says that saved
  vectors in use have been written and lie a positive step apart, that a run
  whose first step fits aims at no time past TStop, and that a run goes on only
  with retries left. `RunsContinue` is the refinement under `FirstStepFits`, and
  `RunsEndAtStop` states its last part for itself.
- **Constant steps**, the second half of `DCSweepProofs`. `ProjectionIsDefined`
  and `StopComesLast` are about sweeps whose short moves are bound to converge:
  there `StrictInv` holds, the stored biases, the bias tried and the waiting
  ones all lie strictly one behind the other, because a diverged bias is more
  than the resolution away from the stored one and so is its midpoint.
  Differences of such biases are no zero divisors, and after VStop nothing can
  follow. `GridIsCovered` needs no such assumption. Its invariant (`GridInv`)
  names the next bias the user asked for (`Target`: the bottom of the stack, or
  the bias tried if the stack is empty), says which multiple of the step it
  stands for and that all multiples before it have been solved (`CoveredBelow`).
  Bisection only changes what lies above the target; solving the target adds its
  multiple, and the next target is the next multiple or, rounded or forced,
  VStop.
- **`OpPointProofs`.** The strengthening says which driver is in which phase with
  which bias and conductance (`PhaseInv`), and what has been solved by then
  (`ProgressInv`): after a ramp without error the card's bias, and in
  `solve_steadystate` either the card's bias or nothing, every iteration so far
  being a divergence. The latter shows why a pseudo time iteration that runs out
  of iterations has still solved something, provided there are at least as many
  as divergences end the loop.
- **`MixTransientProofs`.** As for `Transient`, with vectors that are predicted
  only after an acceptance, and with the circuit: `CircuitAgrees` needs nothing
  but that every action which stores or restores one party does so with the
  other. `FixedStepKept` is inductive for MixASolverBase only, whose growth
  factor is 1.1 just while the step is below TStep. `RunsContinue` is the
  refinement under `FirstStepFits`, with `solution`, what the circuit has saved, as
  the abstract position.
- **`MixOpProofs`.** `RampAnchored` is an equation of products; halving keeps it,
  because both sides double, and a solved step re-establishes it because the
  level is exact. That needs `WholeUnits`: the number of steps divides `Full`. What
  a finished ramp hands to the gmin phase (`RampDone`) and where gmin comes from
  (`GminInv`) carry the last two properties to the end of the card. A part of
  `GminInv` is a theorem of its own: `LowGminStays`, the disagreement about gmin.
- **`IVTraceProofs`.** `OnLoadLine` rests on one identity: a point on the old line
  has `P = V - Rload*I`, and `V + I*(Rload' - Rload)` is the voltage of the line
  through it with the new resistance. Taking a step back leaves line and stored
  point alone. The first point needs `FirstPointInv`: no load, and the voltage
  that was applied.
- **`SourcesProofs`.** The cuts of a step, the sums over an electrode's sources and
  the pass over all sources are recursive functions. What they compute follows
  from the least element of a set of natural numbers (`LeastNatural` of `Numbers`, from
  the library's well-founded order of the naturals), which gives induction
  over sets of numbers (`InductionUpTo`) without an operator as a parameter:
  that the functions exist (`IterationExists`), and what the loop and the pass
  keep (`ShrunkFacts`, `LimitFacts`). The invariant adds to the types that the
  step being tried is no longer than what the loop left. `DvMaxIsLargest` is the
  geometry of a pulse: every time lies in a period (`PeriodOf`), a period has four
  pieces (`ShapePieces`), on each the waveform is monotonic or level, so a change
  inside is matched at a corner within the step or at its end (`NearReached`),
  unless a whole period lies in between, whose corners attain both levels
  (`FarReached`). `ChangeIsBounded` applies it to the step the loop ends with.

- **Termination.** The prover does not do fairness, so that the loops end is proved
  in its safety part: every step after which a loop goes on descends in the
  lexicographic order of three natural numbers (`Descends`), in which every set
  has a least element (`DescentEnds` of `Numbers`, for every set at once). Each
  proof module names the three as its `Measure`. For the transient drivers
  (`RunsDescend`) they are the time left to TStop, the step and the divergences
  tolerated: an acceptance leaves less time, a rejection the same time and a
  shorter step, a divergence no longer a step and one divergence less. The first
  is a natural number because the loop test lets no solve start at TStop
  (`SolvesBeforeStop`). For the static drivers (`CardsDescend`) they are the phases
  left, the ramp or the pseudo time iterations left, and the divergences; for
  `solve_dcop` the sources still to be raised or the decades of gmin stand in the
  second place, and the solved fraction grows because a step is a whole
  number of units. For regular sweeps (`RegularSweepsDescend`) they are
  the first bias, the way from the stored bias to VStop, and the distance of the
  bias tried from the stored one, which a bisection shortens because Newton
  converges within the radius. `RetriesDescend` of the tracer speaks of one
  point of the curve: with the divergences in the second place the step only
  gets shorter until one is accepted. That acceptances come to an end is
  not true of every device.

Only model-checked: that the fair drivers therefore reach their ends, the
liveness properties `Completes`, `Terminates`, `CardEnds` and `RejectionsEnd` (the
prover does not do fairness or `ENABLED`). Every invariant and action property
that a passing run checks is also a theorem.

## Not modelled

- Residuals, Jacobians, convergence tests, line search and material models:
  floating point numerics behind the free outcome of a solve.
- ngspice itself: its integration history, circuit modes and models. The models
  see the node values it holds and saves, its sources and its gmin.
- Sine, exponential and user-defined waveforms (their changes are transcendental
  functions), and the generation profiles of field sources.
- METHOD, MODEL, IMPORT, EXPORT and REFINE cards, hooks, mesh generation and
  refinement, the parser and file formats: they set values, read or write files
  or do geometry, with no loop of their own that the drivers depend on.
- Vendored libraries (PETSc and libMesh parts, triangle, tetgen, mxml, klu and
  others), which are most of the repository's lines. The share of lines the
  models cover is small for this reason and because the rest is mostly
  assembly of equations: the control they model is all in
  `src/src/solver/ddm_common` and `src/src/source`.
- `tstepmin = 0`, which the card reader accepts, is excluded by `RunAssumption`.

## Plan

1. Done: `DCSweep`, `Transient`, `OpPoint` with runs and proofs.
2. Done: `Continuation`, implemented by the sweep and both transient drivers; the
   refinements of `DCSweep` and `Transient` proved.
3. Done: `IVTrace`, `MixTransient`, `MixOp`, `Sources`; the mixed-mode sweeps in
   `DCSweep`; the safety properties of the first three proved.
4. Done: `ProjectionDefined`, `StopIsLast`, `GridCovered` and the properties of
   `Sources` proved.
5. Done: the termination arguments as decreasing measures, proved step by step.
6. Next: `Session`: `SolverControl` with all SOLVE and METHOD cards and the biases of
   several cards on one scale, composing the drivers' effects; an abstract
   specification in which a card's result depends only on the card and the
   device, and where the code refines it.
