------------------------- MODULE MixTransientProofs --------------------------
(***************************************************************************)
(* Proofs about the mixed-mode transient drivers, for every set of runs,   *)
(* retry limit and behaviour of the solves, the error estimate and the     *)
(* sources.                                                                *)
(***************************************************************************)
EXTENDS MixTransient, Numbers, TLAPS

(* The saved vectors in use were written, and lie as far apart as the        *)
(* recorded steps, which are positive.                                       *)
SavedConsistent ==
  /\ T_Cycles >= 1 => dt_last > 0
  /\ T_Cycles >= 2 => dt_last_last > 0
  /\ par.AutoStep \/ par.Predict =>
       /\ T_Cycles >= 1 => x_n = sol
       /\ T_Cycles >= 2 => x_n1 \in Nat /\ x_n - x_n1 = dt_last
       /\ T_Cycles >= 3 => x_n2 \in Nat /\ x_n1 - x_n2 = dt_last_last

(* The first step fits before TStop. *)
FirstStepFits == par.TStart + par.TStep <= par.TStop

(* A run whose first step fits never aims past TStop and ends there.         *)
WithinStop ==
  FirstStepFits => /\ pc = "solve" => clock <= par.TStop
                   /\ pc = "done" => sol = par.TStop

(* The driver tries again only while a further divergence is tolerated. *)
RetriesLeft == pc = "solve" => diverged_retry < MaxRetry

(* The inductive invariant. *)
IInv ==
  /\ TypeOK /\ StepAnchored /\ CircuitAgrees /\ FixedStepKept
  /\ SavedConsistent /\ WithinStop /\ RetriesLeft

(* Positive roundings are positive. *)
LEMMA RoundedPositiveType ==
  ASSUME NEW n \in Int, NEW q \in RoundedPositive(n, 10)
  PROVE  q \in Nat \ {0}
BY DEF RoundedPositive, Rounded, Greater

(* Halving keeps at most the whole step. *)
LEMMA HalfStep ==
  ASSUME NEW h \in Nat \ {0}, NEW q \in RoundedPositive(h, 2)
  PROVE  q \in Nat \ {0} /\ q <= h
BY DEF RoundedPositive, Rounded, Greater

(* A rejected step becomes shorter. *)
LEMMA ShortenedStep ==
  ASSUME NEW r \in Nat \ {0}, dt \in Nat, NEW q \in Shortened(r)
  PROVE  q \in Nat \ {0} /\ q < dt
<1>1. q \in RoundedPositive(9 * r * dt, 100) /\ q < dt
  BY DEF Shortened
<1>2. 9 * r * dt \in Int
  OBVIOUS
<1> QED
  BY <1>1, <1>2 DEF RoundedPositive, Rounded, Greater

(* A fixed step regains a tenth while it is shorter than s, and no more. *)
LEMMA RegainedStep ==
  ASSUME NEW h \in Nat \ {0}, NEW s \in Nat \ {0}, 10 * h < 11 * s + 10,
         NEW q \in RoundedPositive((IF h < s THEN 11 ELSE 10) * h, 10)
  PROVE  10 * q < 11 * s + 10
<1>1. CASE h < s
  BY <1>1 DEF RoundedPositive, Rounded, Greater
<1>2. CASE ~(h < s)
  BY <1>2 DEF RoundedPositive, Rounded, Greater
<1> QED
  BY <1>1, <1>2

(* What the limits leave of a step. *)
LEMMA LimitedType ==
  ASSUME par \in RunType, NEW h \in Nat \ {0},
         NEW g \in LimitedSteps(StepWithin(h, par.TStepMin, par.TStepMax))
  PROVE  g \in Nat \ {0} /\ (g <= h \/ g <= par.TStepMin)
<1>1. par.TStepMin \in Nat \ {0} /\ par.TStepMax \in Nat
  BY DEF RunType
<1>2. /\ StepWithin(h, par.TStepMin, par.TStepMax) \in Nat \ {0}
      /\ \/ StepWithin(h, par.TStepMin, par.TStepMax) <= h
         \/ StepWithin(h, par.TStepMin, par.TStepMax) <= par.TStepMin
  BY <1>1 DEF StepWithin, Greater, Lesser
<1> QED
  BY <1>1, <1>2 DEF LimitedSteps

(* The facts about the current state that every step starts from. *)
LEMMA Types ==
  ASSUME IInv
  PROVE  /\ par \in Runs /\ par \in RunType
         /\ par.TStart \in Nat /\ par.TStop \in Nat /\ par.TStep \in Nat \ {0}
         /\ par.TStepMin \in Nat \ {0}
         /\ clock \in Nat /\ dt \in Nat \ {0} /\ dt_last \in Nat /\ dt_last_last \in Nat
         /\ dt_dynamic_factor \in Nat
         /\ T_Cycles \in 0..4 /\ BDF2_LowerOrder \in BOOLEAN
         /\ sol \in Nat /\ x_n \in Int /\ x_n1 \in Int /\ x_n2 \in Int
         /\ solution = sol
         /\ MaxRetry \in Nat \ {0} /\ diverged_retry \in 0..MaxRetry
         /\ tran_histroy \in BOOLEAN
BY RunAssumption DEF IInv, TypeOK, RunType, CycleCap, Garbage, CircuitAgrees

(* Where the driver stands when it takes a step. *)
LEMMA Standing ==
  ASSUME IInv, pc = "solve"
  PROVE  /\ clock = sol + dt /\ sol >= par.TStart
         /\ FirstStepFits => clock <= par.TStop /\ sol <= par.TStop
<1>1. clock = sol + dt /\ sol >= par.TStart /\ (FirstStepFits => clock <= par.TStop)
  BY DEF IInv, StepAnchored, WithinStop
<1> QED
  BY <1>1, Types

(* What the loop test decides. *)
LEMMA AfterLoopTest ==
  ASSUME IInv, NEW t, NEW h, LoopTest(t, h)
  PROVE  /\ pc' = IF 2 * t < 2 * par.TStop + h THEN "solve" ELSE "done"
         /\ tran_histroy' \in BOOLEAN
BY Types DEF LoopTest, Return, MixA

(* The run starts in the inductive invariant. *)
LEMMA InitInv == Init => IInv
<1> SUFFICES ASSUME Init PROVE IInv
  OBVIOUS
<1>1. /\ par \in Runs /\ par \in RunType /\ par.TStart \in Nat /\ par.TStop \in Nat
      /\ par.TStep \in Nat \ {0} /\ par.TStart < par.TStop
  BY RunAssumption DEF Init, RunType
<1>2. TypeOK
  <2>1. diverged_retry \in 0..MaxRetry /\ T_Cycles \in 0..CycleCap
    BY RunAssumption DEF Init, CycleCap
  <2>2. /\ clock \in Nat /\ dt \in Nat \ {0}
        /\ {dt_last, dt_last_last, dt_dynamic_factor} \subseteq Nat
    BY <1>1, RunAssumption DEF Init
  <2>3. /\ {x, x_n, x_n1, x_n2, sol_last, rhs_old} \subseteq Nat \union {Garbage}
        /\ {sol, solution} \subseteq Nat
    BY <1>1 DEF Init
  <2> QED
    BY <1>1, <2>1, <2>2, <2>3 DEF Init, TypeOK
<1>3. StepAnchored /\ WithinStop /\ FixedStepKept
  BY <1>1 DEF Init, StepAnchored, WithinStop, FirstStepFits, FixedStepKept
<1>4. CircuitAgrees /\ SavedConsistent
  BY DEF Init, CircuitAgrees, SavedConsistent
<1>5. RetriesLeft
  BY RunAssumption DEF Init, RetriesLeft
<1> QED
  BY <1>2, <1>3, <1>4, <1>5 DEF IInv

(* A shortened step starts where the old one did, and ends no later. *)
LEMMA ShorterStep ==
  ASSUME IInv, pc = "solve", NEW h \in Nat \ {0}, h <= dt, NEW t, t = sol + h
  PROVE  /\ t \in Nat /\ t <= clock
         /\ FirstStepFits => 2 * t < 2 * par.TStop + h
<1>1. clock = sol + dt /\ (FirstStepFits => clock <= par.TStop)
  BY Standing
<1> QED
  BY <1>1, Types

(* A retried step is a shorter one from the same solution, and the run goes  *)
(* on when its first step fitted.                                            *)
LEMMA RetryFromNodes ==
  ASSUME IInv, Diverged \/ Reject
  PROVE  /\ pc = "solve" /\ dt' \in Nat \ {0} /\ dt' <= dt
         /\ clock' = sol + dt' /\ clock' \in Nat /\ clock' <= clock
         /\ x' \in {sol, clock'} /\ tran_histroy' \in BOOLEAN
         /\ pc' \in {"solve", "done"} /\ (FirstStepFits => pc' = "solve")
         /\ UNCHANGED <<par, dt_last, dt_last_last, T_Cycles, BDF2_LowerOrder,
                        x_n, x_n1, x_n2, sol, sol_last, solution>>
<1>0. pc = "solve"
  BY DEF Diverged, Reject
<1>1. clock = sol + dt /\ sol >= par.TStart
  BY <1>0, Standing
<1>2. /\ dt' \in Nat \ {0} /\ dt' <= dt /\ clock' = sol + dt' /\ x' \in {sol, clock'}
      /\ LoopTest(clock', dt')
      /\ UNCHANGED <<par, dt_last, dt_last_last, T_Cycles, BDF2_LowerOrder,
                     x_n, x_n1, x_n2, sol, sol_last, solution>>
  <2>1. CASE Diverged
    <3>1. dt' \in Nat \ {0} /\ dt' <= dt
      BY <2>1, Types, HalfStep DEF Diverged
    <3>2. clock' = sol + dt'
      BY <1>1, <2>1, <3>1, Types DEF Diverged, ClockAfterHalving, Greater
    <3> QED
      BY <2>1, <3>1, <3>2 DEF Diverged, Recovered, vectors, nodes
  <2>2. CASE Reject
    <3>1. PICK r \in Ratios :
            /\ Rejectable(r) /\ dt' \in Shortened(r)
            /\ clock' = clock - dt + dt' /\ x' = Interpolated(dt')
            /\ LoopTest(clock', dt')
      BY <2>2 DEF Reject
    <3>2. r \in Nat \ {0} /\ r < 9 /\ dt > 1 /\ T_Cycles >= 1 /\ par.AutoStep
      BY <3>1, Types, RunAssumption DEF Rejectable, StepControlled
    <3>3. dt' \in Nat \ {0} /\ dt' <= dt
      BY <3>1, <3>2, Types, ShortenedStep
    <3>4. clock' = sol + dt'
      BY <1>1, <3>1, <3>3, Types
    <3>5. x' = clock'
      <4>1. x_n = sol
        BY <3>2 DEF IInv, SavedConsistent
      <4> QED
        BY <1>1, <3>1, <3>3, <3>4, <4>1, Types DEF Interpolated
    <3> QED
      BY <2>2, <3>1, <3>3, <3>4, <3>5 DEF Reject, vectors, nodes
  <2> QED
    BY <2>1, <2>2
<1>3. /\ clock' \in Nat /\ clock' <= clock
      /\ FirstStepFits => 2 * clock' < 2 * par.TStop + dt'
  BY <1>0, <1>2, ShorterStep
<1>4. /\ pc' = IF 2 * clock' < 2 * par.TStop + dt' THEN "solve" ELSE "done"
      /\ tran_histroy' \in BOOLEAN
  BY <1>2, AfterLoopTest
<1> QED
  BY <1>0, <1>2, <1>3, <1>4

(* A retried step keeps all of the invariant but what concerns the circuit   *)
(* and the counters.                                                         *)
LEMMA RetryInv ==
  ASSUME IInv, Diverged \/ Reject,
         diverged_retry' \in 0..MaxRetry, autostep_retry' \in {0, 1},
         dt_dynamic_factor' \in Nat, rhs_old' \in Nat \union {Garbage}
  PROVE  TypeOK' /\ StepAnchored' /\ FixedStepKept' /\ SavedConsistent' /\ WithinStop'
<1>1. /\ pc = "solve" /\ dt' \in Nat \ {0} /\ dt' <= dt
      /\ clock' = sol + dt' /\ clock' \in Nat /\ clock' <= clock
      /\ x' \in {sol, clock'} /\ tran_histroy' \in BOOLEAN
      /\ pc' \in {"solve", "done"} /\ (FirstStepFits => pc' = "solve")
      /\ UNCHANGED <<par, dt_last, dt_last_last, T_Cycles, BDF2_LowerOrder,
                     x_n, x_n1, x_n2, sol, sol_last, solution>>
  BY RetryFromNodes
<1>2. TypeOK'
  <2>1. x' \in Nat \union {Garbage}
    BY <1>1, Types
  <2> QED
    BY <1>1, <2>1 DEF IInv, TypeOK
<1>3. StepAnchored'
  BY <1>1, Standing DEF StepAnchored
<1>4. FixedStepKept'
  <2>1. 10 * dt < 11 * par.TStep + 10 => 10 * dt' < 11 * par.TStep + 10
    BY <1>1, Types
  <2> QED
    BY <1>1, <2>1 DEF IInv, FixedStepKept, MixA
<1>5. SavedConsistent'
  BY <1>1 DEF IInv, SavedConsistent
<1>6. WithinStop'
  <2>1. FirstStepFits => clock' <= par.TStop
    BY <1>1, Standing, Types
  <2> QED
    BY <1>1, <2>1 DEF WithinStop, FirstStepFits
<1> QED
  BY <1>2, <1>3, <1>4, <1>5, <1>6

(* A halved step. *)
LEMMA DivergedInv ==
  ASSUME IInv, Diverged
  PROVE  IInv'
<1>1. /\ diverged_retry' = diverged_retry + 1 /\ diverged_retry + 1 < MaxRetry
      /\ rhs_old' = sol /\ solution' = sol /\ sol' = sol
      /\ autostep_retry' = autostep_retry /\ dt_dynamic_factor' = dt_dynamic_factor
  BY Types DEF Diverged, LastTry, Recovered, nodes
<1>2. diverged_retry' \in 0..MaxRetry /\ diverged_retry' < MaxRetry
  BY <1>1, Types
<1>3. TypeOK' /\ StepAnchored' /\ FixedStepKept' /\ SavedConsistent' /\ WithinStop'
  BY <1>1, <1>2, RetryInv, Types DEF IInv, TypeOK
<1>4. CircuitAgrees' /\ RetriesLeft'
  BY <1>1, <1>2 DEF CircuitAgrees, RetriesLeft
<1> QED
  BY <1>3, <1>4 DEF IInv

(* A rejected step: the circuit keeps the rejected solution. *)
LEMMA RejectInv ==
  ASSUME IInv, Reject
  PROVE  IInv'
<1>1. /\ diverged_retry' = 0 /\ autostep_retry' = 1 /\ rhs_old' = clock
      /\ solution' = solution /\ sol' = sol
      /\ dt_dynamic_factor' \in {10, dt_dynamic_factor}
  BY DEF Reject, nodes
<1>2. TypeOK' /\ StepAnchored' /\ FixedStepKept' /\ SavedConsistent' /\ WithinStop'
  BY <1>1, RetryInv, Types
<1>3. CircuitAgrees'
  <2>1. clock' <= clock /\ clock' \in Nat
    BY RetryFromNodes
  <2>2. rhs_old' >= clock' /\ autostep_retry' > 0
    BY <1>1, <2>1, Types
  <2> QED
    BY <1>1, <2>2, Types DEF CircuitAgrees
<1>4. RetriesLeft'
  BY <1>1, Types DEF RetriesLeft
<1> QED
  BY <1>2, <1>3, <1>4 DEF IInv

(* Giving up: the driver stops with the last solution stored. *)
LEMMA GiveUpInv ==
  ASSUME IInv, GiveUp
  PROVE  IInv'
<1>1. /\ pc = "solve" /\ pc' = "failed" /\ rhs_old' = Garbage
      /\ diverged_retry' = diverged_retry + 1 /\ tran_histroy' \in BOOLEAN
      /\ UNCHANGED <<par, clock, dt, dt_last, dt_last_last, dt_dynamic_factor,
                     autostep_retry, T_Cycles, BDF2_LowerOrder, x, x_n, x_n1, x_n2,
                     sol, sol_last, solution>>
  BY Types DEF GiveUp, Return, MixA, steps, vectors, nodes
<1>2. diverged_retry' \in 0..MaxRetry
  <2>1. diverged_retry < MaxRetry
    BY <1>1 DEF IInv, RetriesLeft
  <2> QED
    BY <1>1, <2>1, Types
<1>3. TypeOK'
  BY <1>1, <1>2 DEF IInv, TypeOK
<1>4. CircuitAgrees' /\ StepAnchored' /\ WithinStop' /\ RetriesLeft'
  BY <1>1 DEF IInv, CircuitAgrees, StepAnchored, WithinStop, RetriesLeft
<1>5. FixedStepKept' /\ SavedConsistent'
  BY <1>1 DEF IInv, FixedStepKept, MixA, SavedConsistent
<1> QED
  BY <1>3, <1>4, <1>5 DEF IInv

(* The factors of an accepted step are natural numbers; without step control *)
(* MixASolverBase's is a tenth more for a step shorter than TStep.           *)
LEMMA FactorsType ==
  ASSUME IInv, NEW r \in Ratios, NEW f \in Factors(r)
  PROVE  /\ f \in Nat
         /\ MixA /\ ~par.AutoStep => f = IF dt < par.TStep THEN 11 ELSE 10
<1>1. r \in Nat
  BY RunAssumption
<1>2. CASE ~StepControlled
  BY <1>2, Types DEF Factors, FormerFactor
<1>3. CASE StepControlled
  <2>1. par.AutoStep
    BY <1>3 DEF StepControlled
  <2> QED
    BY <1>1, <1>3, <2>1, RunAssumption DEF Factors, Lesser
<1> QED
  BY <1>2, <1>3

(* The next step: positive, not past TStop when it starts before, and a      *)
(* fixed one within a tenth of TStep.                                        *)
LEMMA NextStep ==
  ASSUME IInv, NEW r \in Ratios, NEW f \in Factors(r), NEW g \in NextSteps(f),
         NEW h, h = EndStep(g)
  PROVE  /\ h \in Nat \ {0}
         /\ clock < par.TStop => clock + h <= par.TStop
         /\ MixA /\ ~par.AutoStep /\ par.TStepMin <= par.TStep =>
              10 * h < 11 * par.TStep + 10
<1>1. f \in Nat /\ (MixA /\ ~par.AutoStep => f = IF dt < par.TStep THEN 11 ELSE 10)
  BY FactorsType
<1>2. PICK q \in RoundedPositive(f * dt, 10) :
        g \in LimitedSteps(StepWithin(q, par.TStepMin, par.TStepMax))
  BY DEF NextSteps
<1>3. q \in Nat \ {0}
  <2>1. f * dt \in Int
    BY <1>1, Types
  <2> QED
    BY <1>2, <2>1, RoundedPositiveType
<1>4. g \in Nat \ {0} /\ (g <= q \/ g <= par.TStepMin)
  BY <1>2, <1>3, Types, LimitedType
<1>5. h \in Nat \ {0} /\ h <= g /\ (clock < par.TStop => clock + h <= par.TStop)
  BY <1>4, Types DEF EndStep
<1>6. ASSUME MixA, ~par.AutoStep, par.TStepMin <= par.TStep
      PROVE  10 * h < 11 * par.TStep + 10
  <2>1. 10 * dt < 11 * par.TStep + 10
    BY <1>6 DEF IInv, FixedStepKept
  <2>2. 10 * q < 11 * par.TStep + 10
    BY <1>1, <1>2, <1>6, <2>1, Types, RegainedStep
  <2> QED
    BY <1>3, <1>4, <1>5, <1>6, <2>2, Types
<1> QED
  BY <1>5, <1>6

(* The prediction from consistent saved vectors is of the time solved.       *)
LEMMA PredictedAims ==
  ASSUME par \in RunType, NEW v \in Nat, NEW c \in 0..4, NEW h \in Nat \ {0},
         NEW h1 \in Nat, NEW h2 \in Nat, NEW a \in Int, NEW b \in Int, NEW e \in Int,
         c >= 1 => h1 > 0, c >= 2 => h2 > 0,
         par.AutoStep \/ par.Predict =>
           /\ a = v
           /\ c >= 2 => b \in Nat /\ a - b = h1
           /\ c >= 3 => e \in Nat /\ b - e = h2
  PROVE  Predicted(v, c, h, h1, h2, a, b, e) \in {v, v + h}
<1>1. CASE ~par.Predict
  BY <1>1 DEF Predicted
<1>2. CASE par.Predict
  BY <1>2 DEF Predicted, Linear, Quadratic, Garbage
<1> QED
  BY <1>1, <1>2

(* What an accepted step does. *)
LEMMA AcceptStep ==
  ASSUME IInv, Accept
  PROVE  /\ pc = "solve" /\ par' = par
         /\ sol' = clock /\ sol_last' = sol /\ rhs_old' = clock /\ solution' = clock
         /\ dt' \in Nat \ {0} /\ clock' = clock + dt' /\ clock' \in Nat
         /\ clock < par.TStop => clock' <= par.TStop
         /\ MixA /\ ~par.AutoStep /\ par.TStepMin <= par.TStep =>
              10 * dt' < 11 * par.TStep + 10
         /\ dt_last' = dt /\ dt_last_last' = dt_last /\ dt_dynamic_factor' \in Nat
         /\ T_Cycles' = Lesser(T_Cycles + 1, CycleCap)
         /\ diverged_retry' = 0 /\ autostep_retry' \in {0, autostep_retry}
         /\ BDF2_LowerOrder' \in BOOLEAN /\ tran_histroy' \in BOOLEAN
         /\ pc' = IF 2 * clock' < 2 * par.TStop + dt' THEN "solve" ELSE "done"
         /\ IF par.AutoStep \/ par.Predict
            THEN x_n2' = x_n1 /\ x_n1' = x_n /\ x_n' = clock
            ELSE x_n2' = x_n2 /\ x_n1' = x_n1 /\ x_n' = x_n
         /\ x' = Predicted(clock, T_Cycles', dt', dt_last', dt_last_last',
                           x_n', x_n1', x_n2')
<1>0. PICK r \in Ratios : \E f \in Factors(r) : \E g \in NextSteps(f) :
        dt' = EndStep(g) /\ dt_dynamic_factor' = f
  BY DEF Accept
<1>1. PICK f \in Factors(r) : \E g \in NextSteps(f) :
        dt' = EndStep(g) /\ dt_dynamic_factor' = f
  BY <1>0
<1>2. /\ dt' \in Nat \ {0}
      /\ clock < par.TStop => clock + dt' <= par.TStop
      /\ MixA /\ ~par.AutoStep /\ par.TStepMin <= par.TStep =>
           10 * dt' < 11 * par.TStep + 10
  BY <1>1, NextStep
<1>3. dt_dynamic_factor' \in Nat
  BY <1>1, FactorsType
<1>4. clock' = clock + dt' /\ LoopTest(clock', dt')
  BY DEF Accept
<1>5. /\ pc' = IF 2 * clock' < 2 * par.TStop + dt' THEN "solve" ELSE "done"
      /\ tran_histroy' \in BOOLEAN
  BY <1>4, AfterLoopTest
<1>6. clock' \in Nat
  BY <1>2, <1>4, Types
<1>7. BDF2_LowerOrder' \in BOOLEAN
  BY Types DEF Accept
<1> QED
  BY <1>2, <1>3, <1>4, <1>5, <1>6, <1>7 DEF Accept, SolutionKept, ShiftSaved, vectors

(* An accepted step keeps the inductive invariant. *)
LEMMA AcceptInv ==
  ASSUME IInv, Accept
  PROVE  IInv'
<1>1. clock = sol + dt /\ sol >= par.TStart /\ (FirstStepFits => clock <= par.TStop)
  BY AcceptStep, Standing
<1>2. T_Cycles' \in 0..4 /\ T_Cycles' = IF T_Cycles = 4 THEN 4 ELSE T_Cycles + 1
  BY AcceptStep, Types DEF Lesser, CycleCap
<1>3. {x_n, x_n1, x_n2} \subseteq Nat \union {Garbage} /\ clock \in Nat
  BY DEF IInv, TypeOK
<1>4. /\ {x_n', x_n1', x_n2'} \subseteq Nat \union {Garbage}
      /\ x_n' \in Int /\ x_n1' \in Int /\ x_n2' \in Int
  BY <1>3, AcceptStep DEF Garbage
<1>5. /\ T_Cycles' >= 1 => dt_last' > 0
      /\ T_Cycles' >= 2 => dt_last_last' > 0
  BY <1>2, AcceptStep, Types DEF IInv, SavedConsistent
<1>6. par.AutoStep \/ par.Predict =>
        /\ x_n' = clock
        /\ T_Cycles' >= 2 => x_n1' \in Nat /\ x_n' - x_n1' = dt_last'
        /\ T_Cycles' >= 3 => x_n2' \in Nat /\ x_n1' - x_n2' = dt_last_last'
  <2> SUFFICES ASSUME par.AutoStep \/ par.Predict
               PROVE  /\ x_n' = clock
                      /\ T_Cycles' >= 2 => x_n1' \in Nat /\ x_n' - x_n1' = dt_last'
                      /\ T_Cycles' >= 3 => x_n2' \in Nat /\ x_n1' - x_n2' = dt_last_last'
    OBVIOUS
  <2>1. /\ x_n2' = x_n1 /\ x_n1' = x_n /\ x_n' = clock
        /\ dt_last' = dt /\ dt_last_last' = dt_last
    BY AcceptStep
  <2>2. /\ T_Cycles' >= 2 => T_Cycles >= 1
        /\ T_Cycles' >= 3 => T_Cycles >= 2
    BY <1>2, Types
  <2>3. /\ T_Cycles >= 1 => x_n = sol
        /\ T_Cycles >= 2 => x_n1 \in Nat /\ x_n - x_n1 = dt_last
    BY DEF IInv, SavedConsistent
  <2>4. T_Cycles >= 1 => x_n \in Nat /\ clock - x_n = dt
    BY <1>1, <2>3, Types
  <2> QED
    BY <2>1, <2>2, <2>3, <2>4
<1>7. SavedConsistent'
  BY <1>5, <1>6, AcceptStep DEF SavedConsistent
<1>8. x' \in {clock, clock'}
  <2>1. dt' \in Nat \ {0} /\ dt_last' \in Nat /\ dt_last_last' \in Nat
    BY AcceptStep, Types
  <2>2. Predicted(clock, T_Cycles', dt', dt_last', dt_last_last', x_n', x_n1', x_n2')
          \in {clock, clock + dt'}
    BY <1>2, <1>4, <1>5, <1>6, <2>1, Types, PredictedAims
  <2> QED
    BY <2>2, AcceptStep
<1>9. TypeOK'
  <2>1. diverged_retry' \in 0..MaxRetry /\ autostep_retry' \in {0, 1}
    BY AcceptStep, Types DEF IInv, TypeOK
  <2>2. /\ par' \in Runs /\ pc' \in {"solve", "done", "failed"}
        /\ {BDF2_LowerOrder', tran_histroy'} \subseteq BOOLEAN
    BY AcceptStep, Types
  <2>3. {dt_last', dt_last_last', dt_dynamic_factor'} \subseteq Nat
    BY AcceptStep, Types
  <2>4. /\ {x', sol_last', rhs_old'} \subseteq Nat \union {Garbage}
        /\ {sol', solution'} \subseteq Nat
    BY <1>8, AcceptStep, Types
  <2> QED
    BY <1>2, <1>4, <2>1, <2>2, <2>3, <2>4, AcceptStep DEF TypeOK, CycleCap
<1>10. StepAnchored'
  BY <1>1, <1>8, AcceptStep, Types DEF StepAnchored
<1>11. CircuitAgrees'
  BY AcceptStep DEF CircuitAgrees
<1>12. FixedStepKept'
  BY AcceptStep DEF FixedStepKept, MixA
<1>13. WithinStop'
  <2> SUFFICES ASSUME FirstStepFits
               PROVE  /\ pc' = "solve" => clock' <= par.TStop
                      /\ pc' = "done" => sol' = par.TStop
    BY AcceptStep DEF WithinStop, FirstStepFits
  <2>1. /\ dt' \in Nat \ {0} /\ clock' = clock + dt' /\ clock' \in Nat /\ sol' = clock
        /\ pc' = IF 2 * clock' < 2 * par.TStop + dt' THEN "solve" ELSE "done"
        /\ clock < par.TStop => clock' <= par.TStop
    BY AcceptStep
  <2>2. CASE clock < par.TStop
    <3>1. pc' = "solve"
      BY <2>1, <2>2, Types
    <3> QED
      BY <2>1, <2>2, <3>1
  <2>3. CASE clock = par.TStop
    <3>1. pc' = "done"
      BY <2>1, <2>3, Types
    <3> QED
      BY <2>1, <2>3, <3>1
  <2> QED
    BY <1>1, <2>2, <2>3, Types
<1>14. RetriesLeft'
  BY AcceptStep, Types DEF RetriesLeft
<1> QED
  BY <1>7, <1>9, <1>10, <1>11, <1>12, <1>13, <1>14 DEF IInv

(* Every step keeps the inductive invariant. *)
LEMMA StepInv == IInv /\ [Next]_vars => IInv'
<1> SUFFICES ASSUME IInv, [Next]_vars PROVE IInv'
  OBVIOUS
<1>1. CASE UNCHANGED vars
  <2>1. UNCHANGED <<par, clock, dt, dt_last, dt_last_last, dt_dynamic_factor,
                    diverged_retry, autostep_retry, T_Cycles, BDF2_LowerOrder, x,
                    x_n, x_n1, x_n2, sol, sol_last, rhs_old, solution, pc,
                    tran_histroy>>
    BY <1>1 DEF vars, steps, retries, vectors, nodes, circuit
  <2> QED
    BY <2>1 DEF IInv, TypeOK, StepAnchored, CircuitAgrees, FixedStepKept, MixA,
       SavedConsistent, WithinStop, FirstStepFits, RetriesLeft
<1>2. CASE Finished
  BY <1>1, <1>2 DEF Finished
<1> QED
  BY <1>1, <1>2, DivergedInv, GiveUpInv, RejectInv, AcceptInv DEF Next

(* The inductive invariant of the mixed-mode transient drivers. *)
THEOREM Invariance == Spec => []IInv
BY InitInv, StepInv, PTL DEF Spec

(* Steps stay positive and the counters within their limits. *)
THEOREM TypeCorrect == Spec => []TypeOK
<1>1. IInv => TypeOK
  BY DEF IInv
<1> QED
  BY <1>1, Invariance, PTL

(* The step being tried starts at the solution of the nodes, and the device's*)
(* guess is that solution or a prediction of the time solved.                *)
THEOREM StepsAnchored == Spec => []StepAnchored
<1>1. IInv => StepAnchored
  BY DEF IInv
<1> QED
  BY <1>1, Invariance, PTL

(* Device and circuit would be restored to the same solution. *)
THEOREM CircuitFollows == Spec => []CircuitAgrees
<1>1. IInv => CircuitAgrees
  BY DEF IInv
<1> QED
  BY <1>1, Invariance, PTL

(* MixASolverBase keeps a fixed step. *)
THEOREM FixedStepsKept == Spec => []FixedStepKept
<1>1. IInv => FixedStepKept
  BY DEF IInv
<1> QED
  BY <1>1, Invariance, PTL

(* What a solve still has to do: the time left to TStop, then the step, then *)
(* the divergences tolerated.                                                *)
Measure == <<par.TStop - sol, dt, MaxRetry - diverged_retry>>

(* The driver solves only before TStop: what the loop test asks of the       *)
(* middle of the next step holds of its start.                               *)
SolvesBeforeStop == pc = "solve" => sol < par.TStop

LEMMA BeforeStopInv ==
  ASSUME IInv, SolvesBeforeStop, [Next]_vars
  PROVE  SolvesBeforeStop'
<1> SUFFICES ASSUME pc' = "solve" PROVE sol' < par.TStop /\ par' = par
  BY DEF SolvesBeforeStop
<1>1. IInv'
  BY StepInv
<1>2. CASE Diverged \/ Reject \/ Accept
  <2>1. LoopTest(clock', dt') /\ par' = par
    BY <1>2 DEF Diverged, Reject, Accept
  <2>2. 2 * clock' < 2 * par.TStop + dt'
    BY <2>1, AfterLoopTest
  <2>3. clock' = sol' + dt'
    BY <1>1 DEF IInv, StepAnchored
  <2>4. sol' \in Nat /\ dt' \in Nat \ {0} /\ clock' \in Nat /\ par.TStop \in Nat
    BY <1>1, Types DEF IInv, TypeOK
  <2> DEFINE s == sol'  h == dt'  c == clock'
  <2>5. s \in Nat /\ h \in Nat /\ h > 0 /\ c = s + h /\ 2 * c < 2 * par.TStop + h
    BY <2>2, <2>3, <2>4
  <2> HIDE DEF s, h, c
  <2>6. s < par.TStop
    BY <2>4, <2>5
  <2> QED
    BY <2>1, <2>6 DEF s
<1>3. CASE GiveUp
  BY <1>3 DEF GiveUp, Return
<1>4. CASE UNCHANGED vars
  BY <1>4 DEF vars, nodes, SolvesBeforeStop
<1> QED
  BY <1>2, <1>3, <1>4 DEF Next, Finished

(* A retried step is shorter or, at the resolution of the time, uses up one  *)
(* of the divergences tolerated; an accepted step leaves less time to solve. *)
LEMMA MeasureDescends ==
  ASSUME IInv, SolvesBeforeStop, Next, pc' = "solve", ~UNCHANGED vars
  PROVE  Descends(Measure', Measure)
<1>1. IInv' /\ SolvesBeforeStop'
  BY StepInv, BeforeStopInv
<1>2. pc = "solve" /\ par' = par
  BY DEF Next, Diverged, GiveUp, Reject, Accept, Finished
<1> DEFINE left == par.TStop - sol    left1 == par.TStop - sol'
           room == MaxRetry - diverged_retry  room1 == MaxRetry - diverged_retry'
           h == dt  h1 == dt'
<1>3. Measure = <<left, h, room>> /\ Measure' = <<left1, h1, room1>>
  BY <1>2 DEF Measure
<1>4. left \in Nat /\ h \in Nat /\ room \in Nat
  BY <1>2, Types DEF SolvesBeforeStop
<1>5. left1 \in Nat /\ h1 \in Nat /\ room1 \in Nat
  <2>1. sol' \in Nat /\ sol' < par.TStop /\ dt' \in Nat /\ diverged_retry' \in 0..MaxRetry
    BY <1>1, <1>2 DEF IInv, TypeOK, SolvesBeforeStop
  <2>2. \A s, c \in Nat : s < par.TStop /\ c <= MaxRetry =>
                              par.TStop - s \in Nat /\ MaxRetry - c \in Nat
    BY Types
  <2> QED
    BY <2>1, <2>2, Types
<1>6. \/ left1 < left
      \/ left1 = left /\ h1 < h
      \/ left1 = left /\ h1 = h /\ room1 < room
  <2>1. CASE Diverged
    <3>1. h1 <= h /\ left1 = left /\ h1 \in Nat
      BY <2>1, RetryFromNodes
    <3>2. room1 < room
      BY <2>1, Types DEF Diverged
    <3> QED
      BY <1>4, <3>1, <3>2
  <2>2. CASE Reject
    <3>1. PICK r \in Ratios : dt' \in Shortened(r) /\ sol' = sol
      BY <2>2 DEF Reject, nodes
    <3>2. h1 < h
      BY <3>1, Types, ShortenedStep, RunAssumption
    <3> QED
      BY <3>1, <3>2
  <2>3. CASE Accept
    <3>1. sol' = clock
      BY <2>3 DEF Accept, SolutionKept
    <3>2. clock = sol + dt
      BY <1>2 DEF IInv, StepAnchored
    <3> QED
      BY <3>1, <3>2, Types
  <2>4. ~GiveUp
    BY DEF GiveUp, Return
  <2>5. ~Finished
    BY DEF Finished
  <2> QED
    BY <2>1, <2>2, <2>3, <2>4, <2>5 DEF Next
<1> HIDE DEF left, left1, room, room1, h, h1
<1> QED
  BY <1>3, <1>4, <1>5, <1>6 DEF Descends, Triples

(* Both transient drivers end: every iteration after which they go on        *)
(* descends, in an order in which nothing descends for ever (DescentEnds),   *)
(* whatever the solves, the error estimate and the sources do.               *)
THEOREM RunsDescend ==
  Spec => [][pc' = "solve" => Descends(Measure', Measure)]_vars
<1>1. Init => SolvesBeforeStop
  BY RunAssumption DEF Init, SolvesBeforeStop
<1>2. IInv /\ SolvesBeforeStop /\ [Next]_vars => SolvesBeforeStop'
  BY BeforeStopInv
<1>3. IInv /\ SolvesBeforeStop /\ [Next]_vars =>
        [pc' = "solve" => Descends(Measure', Measure)]_vars
  BY MeasureDescends
<1> QED
  BY <1>1, <1>2, <1>3, InitInv, StepInv, PTL DEF Spec

(* The invariant of the refinement. *)
DriveInv == IInv /\ FirstStepFits

LEMMA DriveStepInv == DriveInv /\ [Next]_vars => DriveInv'
<1> SUFFICES ASSUME DriveInv, [Next]_vars PROVE DriveInv'
  OBVIOUS
<1>1. IInv'
  BY StepInv DEF DriveInv
<1>2. par' = par
  BY DEF Next, Diverged, GiveUp, Reject, Accept, Finished, vars
<1> QED
  BY <1>1, <1>2 DEF DriveInv, FirstStepFits

(* The run starts where the abstract driver does. *)
LEMMA DriveInit == Init => Drive!Init
<1> SUFFICES ASSUME Init PROVE Drive!Init
  OBVIOUS
<1>1. par \in Runs /\ par.TStart < par.TStop /\ par.TStart \in Nat /\ par.TStop \in Nat
  BY RunAssumption DEF Init, RunType
<1>2. Drive!Before(JobOf(par).from, JobOf(par).to)
  BY <1>1 DEF Drive!Before, JobOf
<1>3. JobOf(par).from = solution /\ JobOf(par) \in {JobOf(p) : p \in Runs}
  BY <1>1 DEF Init, JobOf
<1> QED
  BY <1>2, <1>3 DEF Init, Drive!Init

(* Every step advances the abstract driver, makes it fail or leaves it alone.*)
LEMMA DriveStep == DriveInv /\ [Next]_vars => [Drive!Next]_(Drive!vars)
<1> SUFFICES ASSUME DriveInv, [Next]_vars PROVE [Drive!Next]_(Drive!vars)
  OBVIOUS
<1>0. IInv /\ FirstStepFits /\ DriveInv'
  BY DriveStepInv DEF DriveInv
<1>1. CASE Diverged \/ Reject
  <2>1. pc = "solve" /\ pc' = "solve" /\ solution' = solution /\ par' = par
    BY <1>0, <1>1, RetryFromNodes
  <2>2. JobOf(par') = JobOf(par)
    BY <2>1
  <2> QED
    BY <2>1, <2>2 DEF Drive!vars
<1>2. CASE Accept
  <2>1. /\ pc = "solve" /\ par' = par /\ solution' = clock /\ sol' = clock
        /\ pc' \in {"solve", "done"}
    BY <1>0, <1>2, AcceptStep
  <2>2. /\ solution \in Int /\ solution' \in Int
        /\ solution <= solution' /\ solution' <= par.TStop
    BY <1>0, <2>1, Standing, Types
  <2>3. pc' = "done" => solution' = par.TStop
    BY <1>0, <2>1 DEF DriveInv, IInv, WithinStop
  <2>4. Drive!Before(solution, solution') /\ Drive!Before(solution', JobOf(par).to)
    BY <2>2 DEF Drive!Before, JobOf
  <2>5. JobOf(par') = JobOf(par) /\ JobOf(par).to = par.TStop
    BY <2>1 DEF JobOf
  <2>6. Drive!Advance
    BY <2>1, <2>2, <2>3, <2>4, <2>5 DEF Drive!Advance
  <2> QED
    BY <2>6 DEF Drive!Next
<1>3. CASE GiveUp
  <2>1. /\ pc = "solve" /\ pc' = "failed" /\ solution' = solution
        /\ JobOf(par') = JobOf(par)
    BY <1>3 DEF GiveUp, Return
  <2> QED
    BY <2>1 DEF Drive!Next, Drive!Fail
<1>4. CASE UNCHANGED vars
  <2>1. UNCHANGED <<par, solution, pc>>
    BY <1>4 DEF vars, circuit
  <2>2. JobOf(par') = JobOf(par)
    BY <2>1
  <2> QED
    BY <2>1, <2>2 DEF Drive!vars
<1> QED
  BY <1>1, <1>2, <1>3, <1>4 DEF Next, Finished

(* The mixed-mode transient drivers implement the abstract driver: the       *)
(* solution of device and circuit goes forwards from TStart, never past      *)
(* TStop, and a run that did not give up ends at TStop.                      *)
THEOREM RunsContinue == Spec /\ FirstStepFits => Continues
<1>1. Init => Drive!Init
  BY DriveInit
<1>2. DriveInv /\ [Next]_vars => [Drive!Next]_(Drive!vars)
  BY DriveStep
<1>3. Init /\ FirstStepFits => DriveInv
  BY InitInv DEF DriveInv
<1> QED
  BY <1>1, <1>2, <1>3, DriveStepInv, PTL DEF Spec, Continues, Drive!Spec
=============================================================================
