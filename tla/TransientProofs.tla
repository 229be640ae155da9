-------------------------- MODULE TransientProofs ---------------------------
(***************************************************************************)
(* Proofs about the transient driver, for every set of runs, retry limit   *)
(* and behaviour of the nonlinear solver, the error estimate and the       *)
(* sources.  The inductive invariant adds to the checked properties that   *)
(* the saved vectors in use were written and lie a positive step apart,    *)
(* and that a run whose first step fits never aims past TStop.             *)
(***************************************************************************)
EXTENDS Transient, Numbers, TLAPS

(* Positive roundings are positive. *)
LEMMA RoundedPositiveType ==
  ASSUME NEW n \in Int, NEW d \in Nat \ {0}, NEW q \in RoundedPositive(n, d)
  PROVE  q \in Nat \ {0}
<1>1. PICK r \in Rounded(n, d) : q = Greater(1, r)
  BY DEF RoundedPositive
<1>2. n \div d \in Int /\ (-n) \div d \in Int
  OBVIOUS
<1>3. r \in Int
  BY <1>2 DEF Rounded
<1> QED
  BY <1>1, <1>3 DEF Greater

(* Halving keeps at least a half, rounded either way, and never more. *)
LEMMA HalfStep ==
  ASSUME NEW h \in Nat \ {0}, NEW q \in RoundedPositive(h, 2)
  PROVE  q \in Nat \ {0} /\ q <= h
BY DEF RoundedPositive, Rounded, Greater

(* A rejected step becomes shorter. *)
LEMMA ShortenedStep ==
  ASSUME NEW r \in Nat \ {0}, dt \in Nat, NEW q \in Shortened(r)
  PROVE  q \in Nat \ {0} /\ q < dt
<1>1. q \in RoundedPositive(9 * r * dt, 100) /\ q < dt
  BY DEF Shortened
<1>2. 9 * r * dt \in Int /\ 100 \in Nat \ {0}
  OBVIOUS
<1> QED
  BY <1>1, <1>2, RoundedPositiveType

(* Recording an accepted step keeps the window a short sequence of steps. *)
LEMMA RecentType ==
  ASSUME window \in Seq(Nat \ {0}), Len(window) <= Window, NEW h \in Nat \ {0}
  PROVE  /\ Recent(h) \in Seq(Nat \ {0})
         /\ Len(Recent(h)) \in 1..Window
<1> DEFINE w == Append(window, h)
<1>1. w \in Seq(Nat \ {0}) /\ Len(w) = Len(window) + 1 /\ Len(window) \in Nat
  OBVIOUS
<1>2. CASE Len(w) > Window
  <2>1. w # <<>>
    BY <1>1
  <2>2. Tail(w) \in Seq(Nat \ {0}) /\ Len(Tail(w)) = Len(w) - 1
    BY <1>1, <2>1
  <2>3. Recent(h) = Tail(w)
    BY <1>2 DEF Recent
  <2>4. Len(w) = Window + 1
    BY <1>1, <1>2, RunAssumption
  <2> HIDE DEF w
  <2> QED
    BY <2>2, <2>3, <2>4, RunAssumption
<1>3. CASE Len(w) <= Window
  <2>1. Recent(h) = w
    BY <1>1, <1>3, RunAssumption DEF Recent
  <2> QED
    BY <1>1, <1>3, <2>1, RunAssumption
<1> QED
  BY <1>1, <1>2, <1>3, RunAssumption

(* Every next step the limits allow is positive. *)
LEMMA NextStepsType ==
  ASSUME TypeOK, NEW r \in Ratios, NEW h \in NextSteps(r)
  PROVE  h \in Nat \ {0}
<1>1. /\ par \in RunType /\ dt \in Nat \ {0} /\ r \in Nat \ {0}
      /\ window \in Seq(Nat \ {0}) /\ Len(window) <= Window
  BY RunAssumption DEF TypeOK
<1>2. PICK a \in TwiceAverage(Recent(dt)),
           g \in UNION {RoundedPositive(f * dt, 10) : f \in Factors(r)} :
             h \in LimitedSteps(Clamped(Lesser(a, g)))
  BY DEF NextSteps
<1>3. PICK f \in Factors(r) : g \in RoundedPositive(f * dt, 10)
  BY <1>2
<1>4. f \in Nat
  BY <1>1, <1>3, RunAssumption DEF Factors, Lesser
<1>5. g \in Nat \ {0}
  <2>1. f * dt \in Int
    BY <1>1, <1>4
  <2> QED
    BY <1>3, <2>1, RoundedPositiveType
<1>6. a \in Nat \ {0}
  <2> DEFINE w == Recent(dt)
             at(i) == IF i <= Len(w) THEN w[i] ELSE 0
             total == 2 * (at(1) + at(2) + at(3) + at(4) + at(5))
  <2>1. w \in Seq(Nat \ {0}) /\ Len(w) \in Nat \ {0}
    <3>1. Recent(dt) \in Seq(Nat \ {0}) /\ Len(Recent(dt)) \in 1..Window
      BY <1>1, RecentType
    <3>2. \A n \in 1..5 : n \in Nat \ {0}
      OBVIOUS
    <3>3. Len(Recent(dt)) \in 1..5
      BY <3>1, RunAssumption
    <3> QED
      BY <3>1, <3>2, <3>3
  <2>2. a \in RoundedPositive(total, Len(w))
    BY <1>2 DEF TwiceAverage
  <2>3. \A i \in 1..5 : at(i) \in Nat
    <3> HIDE DEF w
    <3> QED
      BY <2>1
  <2>4. total \in Int
    <3> HIDE DEF at
    <3> QED
      BY <2>3
  <2> HIDE DEF total, w
  <2> QED
    BY <2>1, <2>2, <2>4, RoundedPositiveType
<1>7. Clamped(Lesser(a, g)) \in Nat \ {0}
  BY <1>1, <1>5, <1>6 DEF Clamped, StepWithin, Lesser, Greater, RunType
<1> QED
  BY <1>2, <1>7 DEF LimitedSteps

(* Predictions from the second (third) accepted step on have what they need: *)
(* the saved vectors were written, and the steps between them are positive.  *)
SavedWritten ==
  /\ T_Cycles >= 1 => dt_last > 0
  /\ T_Cycles >= 2 => dt_last_last > 0
  /\ par.AutoStep \/ par.Predict =>
       /\ T_Cycles >= 2 => x_n1 \in Nat
       /\ T_Cycles >= 3 => x_n2 \in Nat

(* A run whose first step fits never aims past TStop. *)
AimsWithinStop ==
  pc = "solve" /\ par.TStart + par.TStep <= par.TStop => clock <= par.TStop

(* The driver tries again only while a further divergence is tolerated. *)
RetriesLeft == pc = "solve" => diverged_retry < MaxRetry

(* The inductive invariant. *)
IInv == /\ TypeOK
        /\ StepAnchored
        /\ HistoryConsistent
        /\ SavedWritten
        /\ RetriesLeft
        /\ GuessAimed
        /\ AimsWithinStop
        /\ EndsAtStop

(* The run starts in the inductive invariant. *)
LEMMA InitInv == Init => IInv
<1> SUFFICES ASSUME Init PROVE IInv
  OBVIOUS
<1>1. /\ par \in Runs /\ par \in RunType /\ par.TStart \in Nat /\ par.TStop \in Nat
      /\ par.TStep \in Nat \ {0} /\ par.TStart < par.TStop
      /\ par.TS_type \in {"BDF1", "BDF2"}
  BY RunAssumption DEF Init, RunType
<1>2. TypeOK
  <2>1. window \in Seq(Nat \ {0}) /\ Len(window) <= Window
    BY RunAssumption DEF Init
  <2>2. diverged_retry \in 0..MaxRetry /\ T_Cycles \in 0..CycleCap
    BY RunAssumption DEF Init, CycleCap
  <2>3. clock \in Nat /\ dt \in Nat \ {0} /\ dt_last \in Nat /\ dt_last_last \in Nat
    BY <1>1, RunAssumption DEF Init
  <2>4. {x, x_n, x_n1, x_n2, sol_last} \subseteq Nat \union {Garbage} /\ sol \in Nat
    BY <1>1 DEF Init
  <2> QED
    BY <1>1, <2>1, <2>2, <2>3, <2>4 DEF Init, TypeOK
<1>3. StepAnchored /\ GuessAimed /\ AimsWithinStop /\ EndsAtStop
  BY <1>1 DEF Init, StepAnchored, GuessAimed, AimsWithinStop, EndsAtStop
<1>4. HistoryConsistent /\ SavedWritten
  BY <1>1 DEF Init, HistoryConsistent, SavedWritten
<1>5. RetriesLeft
  BY RunAssumption DEF Init, RetriesLeft
<1> QED
  BY <1>2, <1>3, <1>4, <1>5 DEF IInv

(* What both kinds of prediction yield from consistent saved vectors. *)
LEMMA PredictedAims ==
  ASSUME par \in RunType, NEW v \in Nat, NEW c \in 0..3, NEW lower \in BOOLEAN,
         NEW h \in Nat \ {0}, NEW h1 \in Nat, NEW h2 \in Nat,
         NEW a \in Int, NEW b \in Int, NEW e \in Int,
         par.Predict => /\ c >= 2 => a \in Nat /\ b \in Nat /\ h1 > 0 /\ a - b = h1
                        /\ c >= 3 => e \in Nat /\ h2 > 0 /\ b - e = h2
  PROVE  Predicted(v, c, lower, h, h1, h2, a, b, e) \in {v, a + h}
         /\ (c < 2 => Predicted(v, c, lower, h, h1, h2, a, b, e) = v)
BY DEF Predicted, Linear, Quadratic, Garbage, RunType

(* The facts about the current state that every step starts from. *)
LEMMA Types ==
  ASSUME IInv
  PROVE  /\ par \in Runs /\ par \in RunType
         /\ par.TStart \in Nat /\ par.TStop \in Nat /\ par.TStep \in Nat \ {0}
         /\ par.TStepMin \in Nat \ {0}
         /\ clock \in Nat /\ dt \in Nat \ {0} /\ dt_last \in Nat /\ dt_last_last \in Nat
         /\ T_Cycles \in 0..3 /\ BDF2_LowerOrder \in BOOLEAN
         /\ sol \in Nat /\ x_n \in Int /\ x_n1 \in Int /\ x_n2 \in Int
         /\ MaxRetry \in Nat \ {0} /\ diverged_retry \in 0..MaxRetry
BY RunAssumption DEF IInv, TypeOK, RunType, CycleCap, Garbage

(* A halved step keeps the inductive invariant. *)
LEMMA DivergedInv ==
  ASSUME IInv, Diverged
  PROVE  IInv'
<1>1. /\ pc = "solve" /\ clock = sol + dt /\ sol >= par.TStart
      /\ par.TStart + par.TStep <= par.TStop => clock <= par.TStop /\ sol <= par.TStop
  BY DEF IInv, StepAnchored, AimsWithinStop, EndsAtStop, Diverged
<1>2. dt' \in Nat \ {0} /\ dt' <= dt
  BY Types, HalfStep DEF Diverged
<1>3. clock' \in Nat /\ clock' = sol + dt' /\ clock' <= clock
  BY <1>1, <1>2, Types DEF Diverged, ClockAfterHalving, Greater
<1>4. x' \in {sol, clock'}
  <2>1. par.Predict => /\ T_Cycles >= 1 => x_n = sol
                       /\ T_Cycles >= 2 => x_n1 \in Nat /\ dt_last > 0 /\ x_n - x_n1 = dt_last
                       /\ T_Cycles >= 3 => x_n2 \in Nat /\ dt_last_last > 0
                                           /\ x_n1 - x_n2 = dt_last_last
    BY Types DEF IInv, HistoryConsistent, SavedWritten
  <2> DEFINE p == Predicted(sol, T_Cycles, BDF2_LowerOrder, dt', dt_last, dt_last_last,
                            x_n, x_n1, x_n2)
  <2>2. p \in {sol, x_n + dt'} /\ (T_Cycles < 2 => p = sol)
    <3>1. par.Predict => /\ T_Cycles >= 2 => /\ x_n \in Nat /\ x_n1 \in Nat
                                             /\ dt_last > 0 /\ x_n - x_n1 = dt_last
                         /\ T_Cycles >= 3 => /\ x_n2 \in Nat /\ dt_last_last > 0
                                             /\ x_n1 - x_n2 = dt_last_last
      BY <2>1, Types
    <3>2. /\ par \in RunType /\ sol \in Nat /\ T_Cycles \in 0..3 /\ BDF2_LowerOrder \in BOOLEAN
          /\ dt_last \in Nat /\ dt_last_last \in Nat
          /\ x_n \in Int /\ x_n1 \in Int /\ x_n2 \in Int
      BY Types
    <3> QED
      BY <1>2, <3>1, <3>2, PredictedAims
  <2>3. ~par.Predict => p = sol
    BY DEF Predicted
  <2>4. x' = p
    BY DEF Diverged
  <2> HIDE DEF p
  <2> QED
    BY <1>3, <2>1, <2>2, <2>3, <2>4, Types
<1>5. UNCHANGED <<par, dt_last, dt_last_last, autostep_retry, T_Cycles,
                  BDF2_LowerOrder, window, x_n, x_n1, x_n2, sol, sol_last, ierr>>
  BY DEF Diverged, saved, nodes
<1>6. TypeOK'
  <2>1. diverged_retry' \in 0..MaxRetry
    BY Types DEF Diverged, LastTry
  <2>2. pc' \in {"solve", "done"} /\ tran_histroy' \in BOOLEAN
    BY DEF Diverged, LoopTest, IInv, TypeOK
  <2>3. x' \in Nat \union {Garbage}
    BY <1>3, <1>4, Types
  <2> QED
    BY <1>2, <1>3, <1>5, <2>1, <2>2, <2>3 DEF IInv, TypeOK
<1>7. StepAnchored' /\ GuessAimed'
  BY <1>1, <1>3, <1>4, <1>5 DEF StepAnchored, GuessAimed
<1>8. HistoryConsistent' /\ SavedWritten'
  BY <1>5 DEF IInv, HistoryConsistent, SavedWritten
<1>9. AimsWithinStop'
  BY <1>1, <1>3, <1>5, Types DEF AimsWithinStop
<1>10. EndsAtStop'
  <2>1. par.TStart + par.TStep <= par.TStop => pc' = "solve"
    BY <1>1, <1>2, <1>3, Types DEF Diverged, LoopTest
  <2> QED
    BY <1>1, <1>5, <2>1 DEF EndsAtStop
<1>11. RetriesLeft'
  BY Types DEF Diverged, LastTry, RetriesLeft
<1> QED
  BY <1>6, <1>7, <1>8, <1>9, <1>10, <1>11 DEF IInv

(* A rejected step keeps the inductive invariant. *)
LEMMA RejectInv ==
  ASSUME IInv, Reject
  PROVE  IInv'
<1>1. /\ pc = "solve" /\ clock = sol + dt /\ sol >= par.TStart
      /\ par.TStart + par.TStep <= par.TStop => clock <= par.TStop /\ sol <= par.TStop
  BY DEF IInv, StepAnchored, AimsWithinStop, EndsAtStop, Reject
<1>2. PICK r \in Ratios :
        /\ Rejectable(r)
        /\ dt' \in Shortened(r)
        /\ clock' = clock - dt + dt'
        /\ x' = Interpolated(dt')
        /\ LoopTest(clock', dt')
        /\ diverged_retry' = 0 /\ autostep_retry' = 1
  BY DEF Reject
<1>3. r \in Nat \ {0} /\ r < 9 /\ dt > 1 /\ T_Cycles >= 1 /\ par.AutoStep
  BY <1>2, Types, RunAssumption DEF Rejectable, StepControlled
<1>4. dt' \in Nat \ {0} /\ dt' <= dt
  BY <1>2, <1>3, Types, ShortenedStep
<1>5. clock' \in Nat /\ clock' = sol + dt' /\ clock' <= clock
  BY <1>1, <1>2, <1>4, Types
<1>6. x' = clock'
  <2>1. x_n = sol
    BY <1>3 DEF IInv, HistoryConsistent
  <2> QED
    BY <1>1, <1>2, <1>4, <1>5, <2>1, Types DEF Interpolated
<1>7. UNCHANGED <<par, dt_last, dt_last_last, T_Cycles, BDF2_LowerOrder, window,
                  x_n, x_n1, x_n2, sol, sol_last, ierr>>
  BY DEF Reject, saved, nodes
<1>8. TypeOK'
  <2>1. diverged_retry' \in 0..MaxRetry /\ autostep_retry' \in {0, 1}
    BY <1>2, Types
  <2>2. pc' \in {"solve", "done"} /\ tran_histroy' \in BOOLEAN
    BY <1>2 DEF LoopTest, IInv, TypeOK
  <2> QED
    BY <1>4, <1>5, <1>6, <1>7, <2>1, <2>2 DEF IInv, TypeOK
<1>9. StepAnchored' /\ GuessAimed'
  BY <1>1, <1>5, <1>6, <1>7 DEF StepAnchored, GuessAimed
<1>10. HistoryConsistent' /\ SavedWritten'
  BY <1>7 DEF IInv, HistoryConsistent, SavedWritten
<1>11. AimsWithinStop'
  BY <1>1, <1>5, <1>7, Types DEF AimsWithinStop
<1>12. EndsAtStop'
  <2>1. par.TStart + par.TStep <= par.TStop => pc' = "solve"
    BY <1>1, <1>2, <1>4, <1>5, Types DEF LoopTest
  <2> QED
    BY <1>1, <1>7, <2>1 DEF EndsAtStop
<1>13. RetriesLeft'
  BY <1>2, Types DEF RetriesLeft
<1> QED
  BY <1>8, <1>9, <1>10, <1>11, <1>12, <1>13 DEF IInv

(* An accepted step keeps the inductive invariant. *)
LEMMA AcceptInv ==
  ASSUME IInv, Accept
  PROVE  IInv'
<1>1. /\ pc = "solve" /\ clock = sol + dt /\ sol >= par.TStart
      /\ par.TStart + par.TStep <= par.TStop => clock <= par.TStop /\ sol <= par.TStop
  BY DEF IInv, StepAnchored, AimsWithinStop, EndsAtStop, Accept
<1>2. PICK r \in Ratios : \E h \in NextSteps(r) : dt' = EndStep(h)
  BY DEF Accept
<1>3. PICK h \in NextSteps(r) : dt' = EndStep(h)
  BY <1>2
<1>4. h \in Nat \ {0}
  BY NextStepsType DEF IInv
<1>5. /\ dt' \in Nat \ {0}
      /\ clock < par.TStop => clock + dt' <= par.TStop
      /\ clock >= par.TStop => dt' = h
  BY <1>3, <1>4, Types DEF EndStep
<1>6. /\ sol' = clock /\ sol_last' = sol /\ window' = Recent(dt)
      /\ diverged_retry' = 0 /\ autostep_retry' \in {0, autostep_retry}
      /\ T_Cycles' = Lesser(T_Cycles + 1, CycleCap)
      /\ dt_last_last' = dt_last /\ dt_last' = dt
      /\ clock' = clock + dt'
      /\ LoopTest(clock', dt')
      /\ par' = par /\ ierr' = ierr
  BY DEF Accept
<1>7. IF par.AutoStep \/ par.Predict THEN x_n2' = x_n1 /\ x_n1' = x_n /\ x_n' = clock
                                     ELSE x_n2' = x_n2 /\ x_n1' = x_n1 /\ x_n' = x_n
  BY DEF Accept, ShiftSaved, saved
<1>8. BDF2_LowerOrder' \in BOOLEAN
  BY Types DEF Accept
<1>9. /\ clock' \in Nat /\ sol' \in Nat /\ dt_last' \in Nat /\ dt_last_last' \in Nat
      /\ T_Cycles' \in 0..3 /\ T_Cycles' = IF T_Cycles = 3 THEN 3 ELSE T_Cycles + 1
  BY <1>5, <1>6, Types DEF Lesser, CycleCap
<1>10. /\ {x_n', x_n1', x_n2'} \subseteq Nat \union {Garbage}
       /\ x_n' \in Int /\ x_n1' \in Int /\ x_n2' \in Int
  BY <1>7, Types DEF IInv, TypeOK, Garbage
<1>11. HistoryConsistent'
  <2>1. sol_last' = sol' - dt_last'
    BY <1>1, <1>6, Types
  <2>2. (par.AutoStep \/ par.Predict =>
          /\ T_Cycles >= 1 => x_n = sol
          /\ T_Cycles >= 2 => x_n1 = x_n - dt_last)
    BY DEF IInv, HistoryConsistent
  <2>3. par.AutoStep \/ par.Predict =>
          /\ x_n' = sol'
          /\ T_Cycles' >= 2 => x_n1' = x_n' - dt_last'
          /\ T_Cycles' >= 3 => x_n2' = x_n1' - dt_last_last'
    BY <1>1, <1>6, <1>7, <1>9, <2>2, Types
  <2> QED
    BY <1>6, <2>1, <2>3 DEF HistoryConsistent
<1>12. SavedWritten'
  <2>1. dt_last' > 0 /\ (T_Cycles' >= 2 => dt_last_last' > 0)
    BY <1>6, <1>9, Types DEF IInv, SavedWritten
  <2>2. par.AutoStep \/ par.Predict =>
          /\ T_Cycles' >= 2 => x_n1' \in Nat
          /\ T_Cycles' >= 3 => x_n2' \in Nat
    BY <1>7, <1>9, Types DEF IInv, SavedWritten, HistoryConsistent
  <2> QED
    BY <1>6, <2>1, <2>2 DEF SavedWritten
<1>13. x' \in {sol', clock'}
  <2> DEFINE p == Predicted(clock, T_Cycles', BDF2_LowerOrder', dt', dt_last',
                            dt_last_last', x_n', x_n1', x_n2')
  <2>1. par.Predict => x_n' = clock
    BY <1>7
  <2>2. par.Predict => /\ T_Cycles' >= 2 => /\ x_n' \in Nat /\ x_n1' \in Nat
                                            /\ dt_last' > 0 /\ x_n' - x_n1' = dt_last'
                       /\ T_Cycles' >= 3 => /\ x_n2' \in Nat /\ dt_last_last' > 0
                                            /\ x_n1' - x_n2' = dt_last_last'
    <3>1. par.Predict => /\ T_Cycles' >= 2 => x_n1' = x_n' - dt_last'
                         /\ T_Cycles' >= 3 => x_n2' = x_n1' - dt_last_last'
      BY <1>6, <1>9, <1>11 DEF HistoryConsistent
    <3>2. /\ T_Cycles' >= 2 => dt_last' > 0 /\ dt_last_last' > 0
          /\ par.Predict => /\ T_Cycles' >= 2 => x_n1' \in Nat
                            /\ T_Cycles' >= 3 => x_n2' \in Nat
      BY <1>6, <1>9, <1>12 DEF SavedWritten
    <3>3. par.Predict => x_n' \in Nat
      BY <2>1, Types
    <3>4. par.Predict => /\ T_Cycles' >= 2 => x_n' - x_n1' = dt_last'
                         /\ T_Cycles' >= 3 => x_n1' - x_n2' = dt_last_last'
      <4>1. /\ x_n' \in Int /\ x_n1' \in Int /\ x_n2' \in Int
            /\ dt_last' \in Int /\ dt_last_last' \in Int
        BY <1>9, <1>10
      <4>2. \A a, b, c \in Int : a = b - c => b - a = c
        OBVIOUS
      <4> QED
        BY <3>1, <4>1, <4>2
    <3>5. T_Cycles' >= 3 => T_Cycles' >= 2
      BY <1>9
    <3> QED
      BY <3>2, <3>3, <3>4, <3>5
  <2>3. par \in RunType /\ clock \in Nat
    BY Types
  <2>4. p \in {clock, x_n' + dt'}
    BY <1>5, <1>8, <1>9, <1>10, <2>2, <2>3, PredictedAims
  <2>5. ~par.Predict => p = clock
    BY DEF Predicted
  <2>6. x' = p
    BY DEF Accept
  <2> HIDE DEF p
  <2> QED
    BY <1>6, <2>1, <2>4, <2>5, <2>6
<1>14. TypeOK'
  <2>1. window' \in Seq(Nat \ {0}) /\ Len(window') <= Window
    <3>1. Recent(dt) \in Seq(Nat \ {0}) /\ Len(Recent(dt)) \in 1..Window
      BY Types, RecentType DEF IInv, TypeOK
    <3>2. \A n \in 1..Window : n <= Window
      BY RunAssumption
    <3> QED
      BY <1>6, <3>1, <3>2
  <2>2. pc' \in {"solve", "done"} /\ tran_histroy' \in BOOLEAN
    BY <1>6 DEF LoopTest, IInv, TypeOK
  <2>3. diverged_retry' \in 0..MaxRetry /\ autostep_retry' \in {0, 1}
    BY <1>6, Types DEF IInv, TypeOK
  <2>4. {x', x_n', x_n1', x_n2', sol_last'} \subseteq Nat \union {Garbage}
    BY <1>6, <1>9, <1>10, <1>13, Types
  <2> QED
    BY <1>5, <1>6, <1>8, <1>9, <2>1, <2>2, <2>3, <2>4 DEF IInv, TypeOK, CycleCap
<1>15. StepAnchored' /\ GuessAimed'
  BY <1>1, <1>6, <1>13, Types DEF StepAnchored, GuessAimed
<1>16. AimsWithinStop' /\ EndsAtStop'
  <2> SUFFICES ASSUME par.TStart + par.TStep <= par.TStop
               PROVE  /\ sol' <= par.TStop
                      /\ pc' = "solve" => clock' <= par.TStop
                      /\ pc' = "done" => sol' = par.TStop
    BY <1>6 DEF AimsWithinStop, EndsAtStop
  <2>1. CASE clock < par.TStop
    <3>1. clock' <= par.TStop
      BY <1>5, <1>6, <2>1
    <3>2. pc' = "solve"
      BY <1>5, <1>6, <1>9, <3>1, Types DEF LoopTest
    <3> QED
      BY <1>1, <1>6, <3>1, <3>2
  <2>2. CASE clock = par.TStop
    <3>1. pc' = "done"
      BY <1>5, <1>6, <2>2, Types DEF LoopTest
    <3> QED
      BY <1>6, <2>2, <3>1, Types
  <2> QED
    BY <1>1, <2>1, <2>2, Types
<1>17. RetriesLeft'
  BY <1>6, Types DEF RetriesLeft
<1> QED
  BY <1>11, <1>12, <1>14, <1>15, <1>16, <1>17 DEF IInv

(* Giving up keeps the inductive invariant. *)
LEMMA GiveUpInv ==
  ASSUME IInv, GiveUp
  PROVE  IInv'
<1>1. TypeOK'
  <2>1. diverged_retry' \in 0..MaxRetry
    <3>1. diverged_retry < MaxRetry
      BY DEF IInv, RetriesLeft, GiveUp
    <3> QED
      BY <3>1, Types DEF GiveUp
  <2> QED
    BY <2>1 DEF IInv, TypeOK, GiveUp, steps, saved, nodes
<1>2. StepAnchored' /\ GuessAimed' /\ AimsWithinStop' /\ RetriesLeft'
  BY DEF GiveUp, StepAnchored, GuessAimed, AimsWithinStop, RetriesLeft
<1>3. HistoryConsistent' /\ SavedWritten'
  BY DEF GiveUp, IInv, HistoryConsistent, SavedWritten, steps, saved, nodes
<1>4. EndsAtStop'
  BY DEF GiveUp, IInv, EndsAtStop, nodes
<1> QED
  BY <1>1, <1>2, <1>3, <1>4 DEF IInv

(* Every step of the run keeps the inductive invariant. *)
LEMMA StepInv == IInv /\ [Next]_vars => IInv'
<1> SUFFICES ASSUME IInv, [Next]_vars PROVE IInv'
  OBVIOUS
<1>1. CASE Diverged
  BY <1>1, DivergedInv
<1>2. CASE GiveUp
  BY <1>2, GiveUpInv
<1>3. CASE Reject
  BY <1>3, RejectInv
<1>4. CASE Accept
  BY <1>4, AcceptInv
<1>5. CASE UNCHANGED vars
  BY <1>5 DEF vars, steps, retries, saved, nodes, IInv, TypeOK, StepAnchored,
     HistoryConsistent, SavedWritten, RetriesLeft, GuessAimed, AimsWithinStop, EndsAtStop
<1> QED
  BY <1>1, <1>2, <1>3, <1>4, <1>5 DEF Next, Finished

(* The inductive invariant holds throughout every transient run. *)
THEOREM Invariance == Spec => []IInv
BY InitInv, StepInv, PTL DEF Spec

(* Type correctness of solve_transient; in particular its steps stay         *)
(* positive and the divergence counter within its limit.                     *)
THEOREM TypeCorrect == Spec => []TypeOK
<1>1. IInv => TypeOK
  BY DEF IInv
<1> QED
  BY <1>1, Invariance, PTL

(* The step being tried always starts at the solution stored in the nodes.   *)
THEOREM StepsAnchored == Spec => []StepAnchored
<1>1. IInv => StepAnchored
  BY DEF IInv
<1> QED
  BY <1>1, Invariance, PTL

(* The BDF2 formula, the error estimate and the prediction are only used on  *)
(* node data and saved vectors that lie as far apart as the recorded steps.  *)
THEOREM HistoryStaysConsistent == Spec => []HistoryConsistent
<1>1. IInv => HistoryConsistent
  BY DEF IInv
<1> QED
  BY <1>1, Invariance, PTL

(* Every nonlinear solve starts from the last solution or from a prediction  *)
(* for exactly the time being solved.                                        *)
THEOREM GuessesAimed == Spec => []GuessAimed
<1>1. IInv => GuessAimed
  BY DEF IInv
<1> QED
  BY <1>1, Invariance, PTL

(* A run whose first step fits before TStop ends exactly at TStop or with an *)
(* error.                                                                    *)
THEOREM RunsEndAtStop == Spec => []EndsAtStop
<1>1. IInv => EndsAtStop
  BY DEF IInv
<1> QED
  BY <1>1, Invariance, PTL

(* A diverged or rejected step is shortened and starts where it did. *)
LEMMA RetryFromNodes ==
  ASSUME IInv, Diverged \/ Reject
  PROVE  /\ dt' \in Nat \ {0} /\ dt' <= dt /\ clock' = sol + dt'
         /\ pc = "solve" /\ sol' = sol /\ par' = par /\ ierr' = ierr
         /\ pc' = IF 2 * clock' < 2 * par.TStop + dt' THEN "solve" ELSE "done"
<1>0. pc = "solve" /\ clock = sol + dt /\ sol >= par.TStart
  BY DEF Diverged, Reject, IInv, StepAnchored
<1>1. CASE Diverged
  <2>1. dt' \in Nat \ {0} /\ dt' <= dt
    BY <1>1, Types, HalfStep DEF Diverged
  <2>2. clock' = sol + dt'
    BY <1>0, <1>1, <2>1, Types DEF Diverged, ClockAfterHalving, Greater
  <2> QED
    BY <1>0, <1>1, <2>1, <2>2 DEF Diverged, LoopTest, nodes
<1>2. CASE Reject
  <2>1. PICK r \in Ratios : /\ Rejectable(r) /\ dt' \in Shortened(r)
                            /\ clock' = clock - dt + dt' /\ LoopTest(clock', dt')
                            /\ sol' = sol /\ par' = par /\ ierr' = ierr
    BY <1>2 DEF Reject, nodes
  <2>2. r \in Nat \ {0} /\ r < 9 /\ dt > 1
    BY <2>1, Types, RunAssumption DEF Rejectable
  <2>3. dt' \in Nat \ {0} /\ dt' <= dt
    BY <2>1, <2>2, Types, ShortenedStep
  <2>4. clock' = sol + dt'
    BY <1>0, <2>1, <2>3, Types
  <2> QED
    BY <1>0, <2>1, <2>3, <2>4 DEF LoopTest
<1> QED
  BY <1>1, <1>2

(* A retried step moves back towards the last solution and an accepted one   *)
(* forward.                                                                  *)
THEOREM RetriesShorten == Spec => RetryShortens
<1>1. IInv /\ [Next]_vars =>
        [ /\ pc' = "solve" /\ sol' = sol => sol < clock' /\ clock' <= clock
          /\ sol' # sol => sol < sol' ]_vars
  <2> SUFFICES ASSUME IInv, Next
               PROVE  /\ pc' = "solve" /\ sol' = sol => sol < clock' /\ clock' <= clock
                      /\ sol' # sol => sol < sol'
    OBVIOUS
  <2>1. pc = "solve" => clock = sol + dt
    BY DEF IInv, StepAnchored
  <2>2. CASE Diverged \/ Reject
    BY <2>1, <2>2, RetryFromNodes, Types
  <2>3. CASE GiveUp
    BY <2>3 DEF GiveUp, nodes
  <2>4. CASE Accept
    <3>1. pc = "solve" /\ sol' = clock
      BY <2>4 DEF Accept
    <3> QED
      BY <2>1, <3>1, Types
  <2>5. CASE Finished
    BY <2>5 DEF Finished, vars, nodes
  <2> QED
    BY <2>2, <2>3, <2>4, <2>5 DEF Next
<1> QED
  BY <1>1, Invariance, PTL DEF Spec, RetryShortens

(* What a solve still has to do: the time left to TStop, then the step, then *)
(* the divergences tolerated.                                                *)
Measure == <<par.TStop - sol, dt, MaxRetry - diverged_retry>>

(* The driver solves only before TStop: what the loop test asks of the       *)
(* middle of the next step holds of its start.                               *)
SolvesBeforeStop == pc = "solve" => sol < par.TStop

LEMMA BeforeStopInv ==
  ASSUME IInv, SolvesBeforeStop, [Next]_vars
  PROVE  SolvesBeforeStop'
<1> SUFFICES ASSUME pc' = "solve" PROVE sol' < par.TStop /\ par' = par
  BY DEF SolvesBeforeStop
<1>1. IInv'
  BY StepInv
<1>2. CASE Diverged \/ Reject \/ Accept
  <2>1. LoopTest(clock', dt') /\ par' = par
    BY <1>2 DEF Diverged, Reject, Accept
  <2>2. 2 * clock' < 2 * par.TStop + dt'
    BY <2>1 DEF LoopTest
  <2>3. clock' = sol' + dt'
    BY <1>1 DEF IInv, StepAnchored
  <2>4. sol' \in Nat /\ dt' \in Nat \ {0} /\ clock' \in Nat /\ par.TStop \in Nat
    BY <1>1, Types DEF IInv, TypeOK
  <2> DEFINE s == sol'  h == dt'  c == clock'
  <2>5. s \in Nat /\ h \in Nat /\ h > 0 /\ c = s + h /\ 2 * c < 2 * par.TStop + h
    BY <2>2, <2>3, <2>4
  <2> HIDE DEF s, h, c
  <2>6. s < par.TStop
    BY <2>4, <2>5
  <2> QED
    BY <2>1, <2>6 DEF s
<1>3. CASE GiveUp
  BY <1>3 DEF GiveUp
<1>4. CASE UNCHANGED vars
  BY <1>4 DEF vars, nodes, SolvesBeforeStop
<1> QED
  BY <1>2, <1>3, <1>4 DEF Next, Finished

(* A retried step is shorter or, at the resolution of the time, uses up one  *)
(* of the divergences tolerated; an accepted step leaves less time to solve. *)
LEMMA MeasureDescends ==
  ASSUME IInv, SolvesBeforeStop, Next, pc' = "solve", ~UNCHANGED vars
  PROVE  Descends(Measure', Measure)
<1>1. IInv' /\ SolvesBeforeStop'
  BY StepInv, BeforeStopInv
<1>2. pc = "solve" /\ par' = par
  BY DEF Next, Diverged, GiveUp, Reject, Accept, Finished
<1> DEFINE left == par.TStop - sol    left1 == par.TStop - sol'
           room == MaxRetry - diverged_retry  room1 == MaxRetry - diverged_retry'
           h == dt  h1 == dt'
<1>3. Measure = <<left, h, room>> /\ Measure' = <<left1, h1, room1>>
  BY <1>2 DEF Measure
<1>4. left \in Nat /\ h \in Nat /\ room \in Nat
  BY <1>2, Types DEF SolvesBeforeStop
<1>5. left1 \in Nat /\ h1 \in Nat /\ room1 \in Nat
  <2>1. sol' \in Nat /\ sol' < par.TStop /\ dt' \in Nat /\ diverged_retry' \in 0..MaxRetry
    BY <1>1, <1>2 DEF IInv, TypeOK, SolvesBeforeStop
  <2>2. \A s, c \in Nat : s < par.TStop /\ c <= MaxRetry =>
                              par.TStop - s \in Nat /\ MaxRetry - c \in Nat
    BY Types
  <2> QED
    BY <2>1, <2>2, Types
<1>6. \/ left1 < left
      \/ left1 = left /\ h1 < h
      \/ left1 = left /\ h1 = h /\ room1 < room
  <2>1. CASE Diverged
    <3>1. h1 <= h /\ left1 = left /\ h1 \in Nat
      BY <2>1, RetryFromNodes
    <3>2. room1 < room
      BY <2>1, Types DEF Diverged
    <3> QED
      BY <1>4, <3>1, <3>2
  <2>2. CASE Reject
    <3>1. PICK r \in Ratios : dt' \in Shortened(r) /\ sol' = sol
      BY <2>2 DEF Reject, nodes
    <3>2. h1 < h
      BY <3>1, Types, ShortenedStep, RunAssumption
    <3> QED
      BY <3>1, <3>2
  <2>3. CASE Accept
    <3>1. sol' = clock
      BY <2>3 DEF Accept
    <3>2. clock = sol + dt
      BY <1>2 DEF IInv, StepAnchored
    <3> QED
      BY <3>1, <3>2, Types
  <2>4. ~GiveUp
    BY DEF GiveUp
  <2>5. ~Finished
    BY DEF Finished
  <2> QED
    BY <2>1, <2>2, <2>3, <2>4, <2>5 DEF Next
<1> HIDE DEF left, left1, room, room1, h, h1
<1> QED
  BY <1>3, <1>4, <1>5, <1>6 DEF Descends, Triples

(* solve_transient ends: every iteration after which it goes on descends, in *)
(* an order in which nothing descends for ever (DescentEnds), whatever the   *)
(* nonlinear solver, the error estimate and the sources do.                  *)
THEOREM RunsDescend ==
  Spec => [][pc' = "solve" => Descends(Measure', Measure)]_vars
<1>1. Init => SolvesBeforeStop
  BY RunAssumption DEF Init, SolvesBeforeStop
<1>2. IInv /\ SolvesBeforeStop /\ [Next]_vars => SolvesBeforeStop'
  BY BeforeStopInv
<1>3. IInv /\ SolvesBeforeStop /\ [Next]_vars =>
        [pc' = "solve" => Descends(Measure', Measure)]_vars
  BY MeasureDescends
<1> QED
  BY <1>1, <1>2, <1>3, InitInv, StepInv, PTL DEF Spec

(* The first step fits before TStop. *)
FirstStepFits == par.TStart + par.TStep <= par.TStop

(* The invariant of the refinement: while the driver runs it has reported no *)
(* error.                                                                    *)
DriveInv == IInv /\ FirstStepFits /\ (pc = "solve" => ierr = 0)

LEMMA DriveInitInv == Init /\ FirstStepFits => DriveInv
BY InitInv DEF DriveInv, Init

LEMMA DriveStepInv == DriveInv /\ [Next]_vars => DriveInv'
<1> SUFFICES ASSUME DriveInv, [Next]_vars PROVE DriveInv'
  OBVIOUS
<1>1. IInv'
  BY StepInv DEF DriveInv
<1>2. par' = par
  BY DEF Next, Diverged, GiveUp, Reject, Accept, Finished, vars
<1>3. pc' = "solve" => pc = "solve" /\ ierr' = ierr
  BY DEF Next, Diverged, GiveUp, Reject, Accept, Finished, vars
<1> QED
  BY <1>1, <1>2, <1>3 DEF DriveInv, FirstStepFits

(* The run starts where the abstract driver does. *)
LEMMA DriveInit ==
  ASSUME Init
  PROVE  Drive!Init
<1>1. par \in Runs /\ par.TStart < par.TStop /\ par.TStart \in Nat /\ par.TStop \in Nat
  BY RunAssumption DEF Init, RunType
<1>2. Drive!Before(JobOf(par).from, JobOf(par).to)
  BY <1>1 DEF Drive!Before, JobOf
<1>3. JobOf(par).from = sol /\ JobOf(par) \in {JobOf(p) : p \in Runs}
  BY <1>1 DEF Init, JobOf
<1> QED
  BY <1>2, <1>3 DEF Init, Drive!Init

(* Every step of the run advances the abstract driver, makes it fail or      *)
(* leaves it alone: halved and rejected steps are invisible.                 *)
LEMMA DriveStep ==
  ASSUME DriveInv, [Next]_vars
  PROVE  [Drive!Next]_(Drive!vars)
<1>0. IInv /\ DriveInv' /\ IInv'
  BY DriveStepInv DEF DriveInv
<1>1. CASE Diverged \/ Reject
  <2>1. /\ dt' \in Nat \ {0} /\ dt' <= dt /\ clock' = sol + dt'
        /\ pc = "solve" /\ sol' = sol /\ par' = par /\ ierr' = ierr
        /\ pc' = IF 2 * clock' < 2 * par.TStop + dt' THEN "solve" ELSE "done"
    BY <1>0, <1>1, RetryFromNodes
  <2>2. clock <= par.TStop /\ clock = sol + dt
    BY <2>1 DEF DriveInv, IInv, FirstStepFits, AimsWithinStop, StepAnchored
  <2>3. pc' = "solve"
    BY <1>0, <2>1, <2>2, Types
  <2>4. JobOf(par') = JobOf(par)
    BY <2>1
  <2> QED
    BY <2>1, <2>3, <2>4 DEF Drive!vars
<1>2. CASE Accept
  <2>1. /\ pc = "solve" /\ par' = par /\ sol' = clock /\ ierr' = ierr
        /\ pc' \in {"solve", "done"}
    BY <1>2 DEF Accept, LoopTest
  <2>2. ierr = 0 /\ ierr' = 0
    BY <2>1 DEF DriveInv
  <2>3. sol \in Int /\ sol' \in Int /\ sol <= sol' /\ sol' <= par.TStop
    BY <1>0, <2>1, Types DEF DriveInv, IInv, FirstStepFits, AimsWithinStop, StepAnchored
  <2>4. pc' = "done" => sol' = par.TStop
    BY <1>0, <2>1, <2>2 DEF DriveInv, IInv, FirstStepFits, EndsAtStop
  <2>5. Drive!Before(sol, sol') /\ Drive!Before(sol', JobOf(par).to)
    BY <2>3 DEF Drive!Before, JobOf
  <2>6. JobOf(par').to = par.TStop /\ JobOf(par') = JobOf(par) /\ JobOf(par).to = par.TStop
    BY <2>1 DEF JobOf
  <2>7. Drive!Advance
    BY <2>1, <2>2, <2>3, <2>4, <2>5, <2>6 DEF Drive!Advance
  <2> QED
    BY <2>7 DEF Drive!Next
<1>3. CASE GiveUp
  <2>1. /\ pc = "solve" /\ ierr = 0 /\ ierr' = 1 /\ sol' = sol
        /\ JobOf(par') = JobOf(par)
    BY <1>3 DEF GiveUp, nodes, DriveInv
  <2> QED
    BY <2>1 DEF Drive!Next, Drive!Fail
<1>4. CASE UNCHANGED vars
  <2>1. UNCHANGED <<par, sol, pc, ierr>>
    BY <1>4 DEF vars, nodes
  <2> QED
    BY <2>1 DEF Drive!vars
<1> QED
  BY <1>1, <1>2, <1>3, <1>4 DEF Next, Finished

(* solve_transient implements the abstract driver: whatever is retried or    *)
(* rejected, the stored solution goes forwards from TStart, never past TStop,*)
(* and a run without an error ends at TStop.                                 *)
THEOREM RunsContinue == Spec /\ FirstStepFits => Continues
<1>1. Init => Drive!Init
  BY DriveInit
<1>2. DriveInv /\ [Next]_vars => [Drive!Next]_(Drive!vars)
  BY DriveStep
<1> QED
  BY <1>1, <1>2, DriveInitInv, DriveStepInv, PTL DEF Spec, Continues, Drive!Spec
=============================================================================
