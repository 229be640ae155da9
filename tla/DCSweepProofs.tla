--------------------------- MODULE DCSweepProofs ----------------------------
(***************************************************************************)
(* Proofs about the DC sweep driver, for every set of sweeps, every limit  *)
(* of the retry stack and every tolerance the assumptions allow: first for *)
(* all sweeps, then for those with a constant step.                        *)
(***************************************************************************)
EXTENDS DCSweep, Numbers, TLAPS

(* A half, rounded either way, is off by at most a half. *)
LEMMA RoundedHalf ==
  ASSUME NEW n \in Int, NEW q \in Rounded(n, 2)
  PROVE  q \in Int /\ n - 1 <= 2 * q /\ 2 * q <= n + 1
BY DEF Rounded

(* A rounded midpoint lies between the two numbers. *)
LEMMA HalfwayBetween ==
  ASSUME NEW a \in Int, NEW b \in Int, NEW m \in Int,
         a + b - 1 <= 2 * m, 2 * m <= a + b + 1
  PROVE  (a <= b => a <= m /\ m <= b) /\ (b <= a => b <= m /\ m <= a)
OBVIOUS

(* A step only grows, in its own direction. *)
LEMMA GrownStep ==
  ASSUME par \in SweepType, NEW s \in Int, s # 0, NEW t \in Grown(s)
  PROVE  t \in Int /\ (s > 0 => t >= s) /\ (s < 0 => t <= s)
BY DEF Grown, TenPercentMore, Rounded, SweepType, Abs

(* VStop is not on the other side of zero from where the step points to; a   *)
(* mixed-mode driver does not pass zero itself either.                       *)
StopInside ==
  par.stop * par.step > 0 \/ (par.solver = "DDM" /\ par.stop * par.step = 0)

(* What the loop test of solve_dcsweep lets pass: nothing past VStop, and    *)
(* VStop itself when it does not lie on the other side of zero.              *)
LEMMA InRangeSign ==
  ASSUME par \in Sweeps, NEW v \in Int
  PROVE  /\ InRange(par, v) => Leq(v, par.stop)
         /\ StopInside => (Leq(v, par.stop) => InRange(par, v))
         /\ \A w \in Int : Leq(w, v) /\ InRange(par, v) => InRange(par, w)
<1> DEFINE s == par.step  b == par.stop  d == par.solver = "DDM"
<1> USE SweepAssumption, TolAssumption
<1>0. /\ s \in Int /\ s # 0 /\ b \in Int
      /\ TolInv \in Int /\ -TolInv < b /\ b < TolInv /\ d \in BOOLEAN
  BY DEF SweepType
<1> HIDE DEF s, b, d
<1>1. ASSUME NEW w \in Int
      PROVE  InRange(par, w) <=> \/ (w * TolInv) * s < (b * TolInv + b) * s
                                 \/ d /\ (w * TolInv) * s = (b * TolInv + b) * s
  <2>1. w * s * TolInv = (w * TolInv) * s
    BY <1>0
  <2>2. b * s * (TolInv + 1) = (b * TolInv + b) * s
    BY <1>0
  <2> QED
    BY <2>1, <2>2 DEF InRange, s, b, d
<1>2. \A w \in Int : Leq(w, v) => IF s > 0 THEN w <= v ELSE v <= w
  BY DEF Leq, s
<1>3. \A w \in Int : Leq(w, b) <=> IF s > 0 THEN w <= b ELSE b <= w
  BY DEF Leq, s
<1>4. \A w \in Int : w * TolInv \in Int /\ b * TolInv + b \in Int
  BY <1>0
<1>5. \A w \in Int : InRange(par, w) <=>
        \/ IF s > 0 THEN w * TolInv < b * TolInv + b ELSE w * TolInv > b * TolInv + b
        \/ d /\ w * TolInv = b * TolInv + b
  <2>1. CASE s > 0
    <3>1. \A w \in Int :
            /\ w * TolInv <= b * TolInv + b
                 <=> (w * TolInv) * s <= (b * TolInv + b) * s
            /\ b * TolInv + b <= w * TolInv
                 <=> (b * TolInv + b) * s <= (w * TolInv) * s
      BY <1>0, <1>4, <2>1, MulMono
    <3>2. \A w \in Int : (w * TolInv) * s \in Int /\ (b * TolInv + b) * s \in Int
      BY <1>0
    <3> QED
      BY <1>0, <1>1, <1>4, <2>1, <3>1, <3>2
  <2>2. CASE s < 0
    <3>1. \A w \in Int :
            /\ b * TolInv + b <= w * TolInv
                 <=> (b * TolInv + b) * (-s) <= (w * TolInv) * (-s)
            /\ w * TolInv <= b * TolInv + b
                 <=> (w * TolInv) * (-s) <= (b * TolInv + b) * (-s)
      BY <1>0, <1>4, <2>2, MulMono
    <3>2. \A w \in Int : (b * TolInv + b) * (-s) = - ((b * TolInv + b) * s)
                          /\ (w * TolInv) * (-s) = - ((w * TolInv) * s)
                          /\ (w * TolInv) * s \in Int /\ (b * TolInv + b) * s \in Int
      BY <1>0
    <3> QED
      BY <1>0, <1>1, <1>4, <2>2, <3>1, <3>2
  <2> QED
    BY <1>0, <2>1, <2>2
<1>6. ASSUME NEW w \in Int
      PROVE  /\ (w <= b) <=> (w * TolInv <= b * TolInv)
             /\ (w <= v) <=> (w * TolInv <= v * TolInv)
             /\ (v <= w) <=> (v * TolInv <= w * TolInv)
             /\ (w <= b - 1) <=> (w * TolInv <= (b - 1) * TolInv)
             /\ (b + 1 <= w) <=> ((b + 1) * TolInv <= w * TolInv)
             /\ (b <= w) <=> (b * TolInv <= w * TolInv)
  BY <1>0, MulMono
<1>7. (b - 1) * TolInv = b * TolInv - TolInv /\ (b + 1) * TolInv = b * TolInv + TolInv
  BY <1>0
<1>8. InRange(par, v) => Leq(v, b)
  BY <1>0, <1>3, <1>4, <1>5, <1>6, <1>7
<1>9. b * s > 0 \/ (d /\ b * s = 0) =>
        IF s > 0 THEN b > 0 \/ (d /\ b = 0) ELSE b < 0 \/ (d /\ b = 0)
  BY <1>0
<1>10. b * s > 0 \/ (d /\ b * s = 0) => (Leq(v, b) => InRange(par, v))
  BY <1>0, <1>3, <1>4, <1>5, <1>6, <1>9
<1>11. \A w \in Int : Leq(w, v) /\ InRange(par, v) => InRange(par, w)
  BY <1>0, <1>2, <1>4, <1>5, <1>6
<1> QED
  BY <1>8, <1>10, <1>11 DEF s, b, d, StopInside

(* Rounding a bias near VStop to VStop keeps the order of the sweep. *)
LEMMA SnapFacts ==
  ASSUME par \in Sweeps, NEW a \in Int, NEW b \in Int, Leq(a, b), Leq(b, par.stop)
  PROVE  /\ Snap(a) \in Int /\ Leq(a, Snap(a)) /\ Leq(Snap(a), par.stop)
         /\ Leq(Snap(a), Snap(b))
         /\ Snap(Snap(a)) = Snap(a)
BY SweepAssumption DEF SweepType, Leq, Snap, Abs

(* A bias past VStop by less than a step becomes VStop; every other bias     *)
(* stays as it is.                                                           *)
LEMMA ForceStopFacts ==
  ASSUME par \in Sweeps, NEW v \in Int, NEW s \in Int
  PROVE  /\ ForceStop(v, s) \in Int
         /\ Leq(v, par.stop) => ForceStop(v, s) = v
         /\ ~Leq(v, par.stop) => \/ ForceStop(v, s) = par.stop
                                 \/ Leq(par.stop + s, v) /\ ForceStop(v, s) = v
<1> DEFINE d == par.step  b == par.stop
<1>0. d \in Int /\ d # 0 /\ b \in Int
  BY SweepAssumption DEF SweepType
<1> HIDE DEF d, b
<1>1. Leq(v, b) <=> IF d > 0 THEN v <= b ELSE b <= v
  BY DEF Leq, d
<1>2. Leq(b + s, v) <=> IF d > 0 THEN b + s <= v ELSE v <= b + s
  BY DEF Leq, d
<1>3. CASE d > 0
  <2>1. (v <= b) <=> (v * d <= b * d)
    BY <1>0, <1>3, MulMono
  <2>2. (b + s <= v) <=> ((b + s) * d <= v * d)
    BY <1>0, <1>3, MulMono
  <2> QED
    BY <1>0, <1>1, <1>2, <1>3, <2>1, <2>2 DEF ForceStop, d, b
<1>4. CASE d < 0
  <2>1. (b <= v) <=> (b * (-d) <= v * (-d))
    BY <1>0, <1>4, MulMono
  <2>2. (v <= b + s) <=> (v * (-d) <= (b + s) * (-d))
    BY <1>0, <1>4, MulMono
  <2>3. b * (-d) = -(b * d) /\ v * (-d) = -(v * d) /\ (b + s) * (-d) = -((b + s) * d)
    BY <1>0
  <2>4. b * d \in Int /\ v * d \in Int /\ (b + s) * d \in Int
    BY <1>0
  <2> QED
    BY <1>0, <1>1, <1>2, <1>4, <2>1, <2>2, <2>3, <2>4 DEF ForceStop, d, b
<1> QED
  BY <1>0, <1>3, <1>4

(* The step keeps the direction the user asked for. *)
StepForward == IF par.step > 0 THEN VStep > 0 ELSE VStep < 0

(* A bias is solved only when it passed the loop test. *)
SolvesInRange == pc = "solve" => InRange(par, Vscan)

(* A saved Vs1 is the bias of the solution the nodes hold. *)
SavedIsSolved == BiasSaved /\ DC_Cycles # 0 => Vs[1] = sol

(* The inductive invariant. *)
IInv == /\ TypeOK
        /\ SavedIsSolved
        /\ RetryOrdered
        /\ StepForward
        /\ SolvesInRange
        /\ StopInside => StopReached

(* The sweep starts in the inductive invariant. *)
LEMMA InitInv == Init => IInv
<1> SUFFICES ASSUME Init PROVE IInv
  OBVIOUS
<1>1. par \in Sweeps /\ par \in SweepType
  BY SweepAssumption DEF Init
<1>2. TypeOK
  <2>1. Vscan \in Int /\ VStep \in Int \ {0} /\ sol \in Int
    BY <1>1 DEF Init, SweepType
  <2>4. Vs \in Int \X Int \X Int
    BY <1>1, SweepAssumption DEF Init, InitialVs, SweepType
  <2>2. V_retry \in Seq(Int) /\ Len(V_retry) <= MaxRetry
    BY SweepAssumption DEF Init
  <2>3. tran_histroy \in BOOLEAN
    BY DEF Init
  <2> QED
    BY <1>1, <2>1, <2>2, <2>3, <2>4 DEF Init, TypeOK, CycleCap
<1>3. pc = "solve" => InRange(par, par.start) /\ Leq(par.start, par.stop)
  BY <1>1, InRangeSign DEF Init, SweepType
<1>4. RetryOrdered
  BY <1>1, <1>3 DEF Init, RetryOrdered, Leq, SweepType
<1>5. StepForward /\ SolvesInRange
  BY <1>1, <1>3 DEF Init, StepForward, SolvesInRange, SweepType
<1>6. StopInside => StopReached
  BY <1>1, InRangeSign DEF Init, StopReached, SweepType
<1>7. SavedIsSolved
  BY DEF Init, SavedIsSolved
<1> QED
  BY <1>2, <1>4, <1>5, <1>6, <1>7 DEF IInv

(* The projection leaves one of three things in the solution vector. *)
LEMMA ProjectType ==
  ASSUME NEW c, NEW s
  PROVE  Project(c, s) \in {"solution", "projected", "nan"}
BY DEF Project

(* A converged solve leaves a bias and a step of the right direction. *)
LEMMA ConvergedType ==
  ASSUME IInv, Converged
  PROVE  /\ Vscan' \in Int /\ VStep' \in Int \ {0}
         /\ (IF par.step > 0 THEN VStep' > 0 ELSE VStep' < 0)
<1>1. /\ par \in Sweeps /\ par \in SweepType /\ Vscan \in Int /\ VStep \in Int \ {0}
      /\ V_retry \in Seq(Int) /\ StepForward
  BY SweepAssumption DEF IInv, TypeOK
<1>2. VStep' \in Grown(VStep) /\ Vscan' = ForceStop(Snap(NextBias), VStep')
  BY DEF Converged
<1>3. /\ VStep' \in Int \ {0}
      /\ IF par.step > 0 THEN VStep' > 0 ELSE VStep' < 0
  BY <1>1, <1>2, GrownStep DEF StepForward
<1>4. NextBias \in Int
  BY <1>1 DEF NextBias
<1>5. Snap(NextBias) \in Int
  BY <1>1, <1>4 DEF Snap, SweepType
<1>6. Vscan' \in Int
  BY <1>1, <1>2, <1>3, <1>5, ForceStopFacts
<1> QED
  BY <1>3, <1>6

(* What a converged solve makes of the bias and the stack, when the solved   *)
(* biases are saved.                                                         *)
LEMMA ConvergedBias ==
  ASSUME IInv, Converged, BiasSaved
  PROVE  /\ Leq(Vscan, Vscan')
         /\ V_retry # <<>> => /\ Vscan' = Snap(Head(V_retry))
                              /\ Leq(Vscan', par.stop)
         /\ V_retry = <<>> => \/ Leq(Vscan', par.stop)
                              \/ Leq(par.stop + VStep', Vscan') /\ Vscan' = Vscan + VStep
<1>1. /\ par \in Sweeps /\ par \in SweepType /\ Vscan \in Int /\ VStep \in Int \ {0}
      /\ V_retry \in Seq(Int) /\ StepForward /\ pc = "solve"
      /\ Leq(Vscan, par.stop) /\ Leq(sol, Vscan)
  BY SweepAssumption DEF IInv, TypeOK, RetryOrdered, Converged
<1>2. VStep' \in Grown(VStep) /\ Vscan' = ForceStop(Snap(NextBias), VStep')
  BY DEF Converged
<1>3. /\ VStep' \in Int \ {0}
      /\ IF par.step > 0 THEN VStep' >= VStep /\ VStep > 0 ELSE VStep' <= VStep /\ VStep < 0
  BY <1>1, <1>2, GrownStep DEF StepForward
<1>4. CASE V_retry = <<>>
  <2>1. NextBias = Vscan + VStep
    BY <1>4 DEF NextBias
  <2>2. Snap(NextBias) \in Int /\ Leq(Vscan, Snap(NextBias))
        /\ (Leq(Snap(NextBias), par.stop) \/ Snap(NextBias) = Vscan + VStep)
    BY <1>1, <1>3, <2>1 DEF Snap, Leq, Abs, SweepType
  <2>3. \/ Vscan' = Snap(NextBias) /\ Leq(Vscan', par.stop)
        \/ Vscan' = par.stop
        \/ Leq(par.stop + VStep', Vscan') /\ Vscan' = Vscan + VStep
    BY <1>1, <1>2, <1>3, <2>2, ForceStopFacts
  <2>4. Leq(par.stop, par.stop)
    BY <1>1 DEF Leq, SweepType
  <2>5. Leq(Vscan, Vscan + VStep)
    BY <1>1, <1>3 DEF Leq
  <2>6. Vscan' \in Int
    BY <1>1, <2>2, <2>3 DEF SweepType
  <2> QED
    BY <1>1, <1>3, <1>4, <2>2, <2>3, <2>4, <2>5, <2>6
<1>5. CASE V_retry # <<>>
  <2>1. NextBias = V_retry[1] /\ V_retry[1] \in Int /\ 1 \in 1..Len(V_retry)
        /\ Head(V_retry) = V_retry[1]
    BY <1>1, <1>5 DEF NextBias
  <2>2. Leq(Snap(Vscan), Snap(V_retry[1])) /\ Leq(V_retry[1], par.stop)
    BY <1>1, <2>1 DEF IInv, RetryOrdered
  <2>3. Leq(V_retry[1], V_retry[1]) /\ Leq(Vscan, Vscan)
    BY <1>1, <2>1 DEF Leq
  <2>4. Snap(V_retry[1]) \in Int /\ Leq(Snap(V_retry[1]), par.stop)
    BY <1>1, <2>1, <2>2, <2>3, SnapFacts
  <2>5. Snap(Vscan) \in Int /\ Leq(Vscan, Snap(Vscan))
    BY <1>1, <2>3, SnapFacts
  <2>6. Vscan' = Snap(V_retry[1])
    BY <1>1, <1>2, <1>3, <2>1, <2>4, ForceStopFacts
  <2>7. Leq(Vscan, Snap(V_retry[1]))
    BY <1>1, <2>2, <2>4, <2>5 DEF Leq
  <2>8. IF par.step > 0 THEN VStep' > 0 ELSE VStep' < 0
    BY <1>1, <1>3
  <2> QED
    BY <1>3, <1>5, <2>1, <2>4, <2>6, <2>7, <2>8
<1> QED
  BY <1>4, <1>5

(* A solved bias keeps the inductive invariant. *)
LEMMA ConvergedInv ==
  ASSUME IInv, Converged
  PROVE  IInv'
<1>1. /\ par \in Sweeps /\ par \in SweepType /\ Vscan \in Int
      /\ V_retry \in Seq(Int) /\ Len(V_retry) <= MaxRetry
      /\ Vs \in Int \X Int \X Int /\ pc = "solve"
      /\ (BiasSaved => Leq(Vscan, par.stop)) /\ DC_Cycles \in 0..3
      /\ sol \in Int
  BY SweepAssumption DEF IInv, TypeOK, RetryOrdered, Converged, CycleCap
<1>2. /\ par' = par /\ ierr' = ierr /\ sol' = Vscan
      /\ Vs' = IF BiasSaved THEN <<Vscan, Vs[1], Vs[2]>> ELSE Vs
      /\ (BiasSaved' <=> BiasSaved)
      /\ V_retry' = IF V_retry = <<>> THEN <<>> ELSE Tail(V_retry)
      /\ pc' = IF InRange(par, Vscan') THEN "solve" ELSE "done"
  BY DEF Converged, LoopTest, BiasSaved
<1>3. /\ Vscan' \in Int /\ VStep' \in Int \ {0}
      /\ (IF par.step > 0 THEN VStep' > 0 ELSE VStep' < 0)
  BY ConvergedType
<1>9. BiasSaved =>
      /\ Leq(Vscan, Vscan')
      /\ V_retry # <<>> => Vscan' = Snap(V_retry[1]) /\ Leq(Vscan', par.stop)
      /\ V_retry = <<>> => \/ Leq(Vscan', par.stop)
                           \/ Leq(par.stop + VStep', Vscan') /\ Vscan' = Vscan + VStep
  BY <1>1, ConvergedBias
<1>4. /\ V_retry' \in Seq(Int) /\ Len(V_retry') <= MaxRetry
      /\ Len(V_retry') <= Len(V_retry)
      /\ \A i \in 1..Len(V_retry') : i + 1 \in 1..Len(V_retry) /\ V_retry'[i] = V_retry[i + 1]
      /\ V_retry = <<>> => V_retry' = <<>>
  <2>1. CASE V_retry = <<>>
    BY <1>1, <1>2, <2>1
  <2>2. CASE V_retry # <<>>
    <3>1. /\ V_retry' = Tail(V_retry) /\ V_retry' \in Seq(Int)
          /\ Len(V_retry) \in Nat /\ Len(V_retry') = Len(V_retry) - 1
      BY <1>1, <1>2, <2>2
    <3>2. \A i \in 1..Len(V_retry') : V_retry'[i] = V_retry[i + 1]
      BY <1>1, <2>2, <3>1
    <3> QED
      BY <1>1, <2>2, <3>1, <3>2, SweepAssumption
  <2> QED
    BY <2>1, <2>2
<1>5. TypeOK'
  <2>1. x' \in {"solution", "projected", "nan"}
    BY ProjectType DEF Converged
  <2>2. tran_histroy' \in BOOLEAN
    BY DEF Converged, LoopTest, HistoryAtEnd, IInv, TypeOK
  <2>3. solved' \subseteq Int
    BY <1>1 DEF Converged, IInv, TypeOK
  <2>4. DC_Cycles' \in 0..CycleCap
    BY <1>1 DEF Converged, Lesser, CycleCap
  <2>5. Vs' \in Int \X Int \X Int
    BY <1>1, <1>2
  <2> QED
    BY <1>1, <1>2, <1>3, <1>4, <2>1, <2>2, <2>3, <2>4, <2>5 DEF IInv, TypeOK
<1>6. RetryOrdered'
  <2> SUFFICES ASSUME pc' = "solve", BiasSaved PROVE RetryOrdered'
    BY <1>2 DEF RetryOrdered
  <2>1. InRange(par, Vscan') /\ Leq(Vscan', par.stop)
    BY <1>1, <1>2, <1>3, InRangeSign
  <2>2. sol' = Vscan
    BY <1>2
  <2>5. Leq(Vscan, Vscan')
    BY <1>9
  <2>3. ASSUME NEW i \in 1..Len(V_retry')
        PROVE  Leq(Snap(Vscan'), Snap(V_retry'[i])) /\ Leq(V_retry'[i], par.stop)
    <3>1. /\ i + 1 \in 1..Len(V_retry) /\ V_retry'[i] = V_retry[i + 1]
          /\ 1 \in 1..Len(V_retry) /\ V_retry # <<>> /\ 1 < i + 1
          /\ V_retry[1] \in Int
      <4>1. i \in Nat /\ i >= 1 /\ Len(V_retry) \in Nat
        BY <1>1, <1>4
      <4>2. i + 1 \in 1..Len(V_retry) /\ V_retry'[i] = V_retry[i + 1]
        BY <1>4
      <4>3. 1 \in 1..Len(V_retry) /\ 1 < i + 1
        BY <4>1, <4>2
      <4> QED
        BY <1>1, <4>2, <4>3
    <3>2. Leq(Snap(V_retry[1]), Snap(V_retry[i + 1])) /\ Leq(V_retry[i + 1], par.stop)
          /\ Leq(V_retry[1], par.stop)
      BY <1>1, <3>1 DEF IInv, RetryOrdered
    <3>3. Leq(V_retry[1], V_retry[1])
      <4>1. V_retry[1] \in Int
        BY <1>1, <3>1
      <4> QED
        BY <4>1 DEF Leq
    <3>4. Snap(Snap(V_retry[1])) = Snap(V_retry[1])
      BY <1>1, <3>1, <3>2, <3>3, SnapFacts
    <3> QED
      BY <1>9, <3>1, <3>2, <3>4
  <2>4. ASSUME NEW i \in 1..Len(V_retry'), NEW j \in 1..Len(V_retry'), i < j
        PROVE  Leq(Snap(V_retry'[i]), Snap(V_retry'[j]))
    <3>1. /\ i + 1 \in 1..Len(V_retry) /\ V_retry'[i] = V_retry[i + 1]
          /\ j + 1 \in 1..Len(V_retry) /\ V_retry'[j] = V_retry[j + 1]
          /\ i + 1 < j + 1
      BY <1>1, <1>4, <2>4
    <3> QED
      BY <1>1, <3>1 DEF IInv, RetryOrdered
  <2>0. par' = par
    BY <1>2
  <2>6. (Leq(sol, Vscan) /\ Leq(Vscan, par.stop))'
    BY <2>0, <2>1, <2>2, <2>5 DEF Leq
  <2>7. (\A i \in 1..Len(V_retry) :
           Leq(Snap(Vscan), Snap(V_retry[i])) /\ Leq(V_retry[i], par.stop))'
    BY <2>0, <2>3 DEF Leq, Snap
  <2>8. (\A i, j \in 1..Len(V_retry) :
           i < j => Leq(Snap(V_retry[i]), Snap(V_retry[j])))'
    BY <2>0, <2>4 DEF Leq, Snap
  <2> QED
    BY <2>6, <2>7, <2>8 DEF RetryOrdered
<1>7. StepForward' /\ SolvesInRange'
  BY <1>2, <1>3 DEF StepForward, SolvesInRange, InRange
<1>8. (StopInside => StopReached)'
  <2>0. (StopInside' <=> StopInside) /\ pc' # "failed"
    BY <1>2 DEF StopInside
  <2> SUFFICES ASSUME StopInside, BiasSaved, pc' = "done"
               PROVE  sol' = par.stop /\ par.stop \in solved'
    BY <1>2, <2>0 DEF StopReached
  <2>1. ~InRange(par, Vscan')
    BY <1>2
  <2>2. ~Leq(Vscan', par.stop)
    BY <1>1, <1>3, <2>1, InRangeSign
  <2>3. Leq(par.stop + VStep', Vscan') /\ Vscan' = Vscan + VStep
    BY <1>9, <2>2
  <2>4. IF par.step > 0 THEN VStep' >= VStep ELSE VStep' <= VStep
    BY <1>1, GrownStep DEF Converged, IInv, TypeOK, StepForward
  <2>5. VStep \in Int /\ par.stop \in Int /\ VStep' \in Int /\ Leq(Vscan, par.stop)
    BY <1>1, <1>3 DEF IInv, TypeOK, SweepType
  <2>6. Vscan = par.stop
    BY <1>1, <2>3, <2>4, <2>5 DEF Leq
  <2>7. par.stop \in solved' /\ sol' = par.stop
    BY <1>2, <2>6 DEF Converged, OnGrid
  <2> QED
    BY <2>7
<1>10. SavedIsSolved'
  BY <1>1, <1>2 DEF SavedIsSolved
<1> QED
  BY <1>5, <1>6, <1>7, <1>8, <1>10 DEF IInv

(* A retried bias lies between the last solved one and the one that          *)
(* diverged, so the loop goes on.                                            *)
LEMMA RetryGoesOn ==
  ASSUME IInv, Retry
  PROVE  /\ Vscan' \in Int
         /\ BiasSaved => /\ Leq(sol, Vscan') /\ Leq(Vscan', Vscan) /\ Leq(Vscan', par.stop)
                         /\ pc' = "solve" /\ InRange(par, Vscan')
<1>1. /\ par \in Sweeps /\ par \in SweepType /\ Vscan \in Int /\ Vs[1] \in Int
      /\ V_retry \in Seq(Int) /\ Len(V_retry) \in Nat /\ pc = "solve"
      /\ InRange(par, Vscan) /\ sol \in Int
      /\ BiasSaved => Leq(Vscan, par.stop) /\ Leq(sol, Vscan) /\ Vs[1] = sol
  BY SweepAssumption DEF IInv, TypeOK, RetryOrdered, SolvesInRange, SavedIsSolved, Retry
<1>2. pc' = IF InRange(par, Vscan') THEN "solve" ELSE "done"
  BY DEF Retry, LoopTest
<1>3. Vscan' \in Int /\ Vscan + Vs[1] - 1 <= 2 * Vscan' /\ 2 * Vscan' <= Vscan + Vs[1] + 1
  BY <1>1, RoundedHalf DEF Retry, Halfway
<1>4. BiasSaved => Leq(sol, Vscan') /\ Leq(Vscan', Vscan) /\ Leq(Vscan', par.stop)
  <2> SUFFICES ASSUME BiasSaved
               PROVE  Leq(sol, Vscan') /\ Leq(Vscan', Vscan) /\ Leq(Vscan', par.stop)
    OBVIOUS
  <2>1. IF par.step > 0 THEN sol <= Vscan' /\ Vscan' <= Vscan
                        ELSE Vscan <= Vscan' /\ Vscan' <= sol
    BY <1>1, <1>3, HalfwayBetween DEF Leq
  <2>2. /\ Vscan \in Int /\ Vscan' \in Int /\ par.stop \in Int
        /\ Leq(Vscan, par.stop)
    BY <1>1, <1>3 DEF SweepType
  <2>3. Leq(Vscan', par.stop)
    BY <2>1, <2>2 DEF Leq
  <2> QED
    BY <2>1, <2>3 DEF Leq
<1>5. BiasSaved => pc' = "solve" /\ InRange(par, Vscan')
  BY <1>1, <1>2, <1>3, <1>4, InRangeSign
<1> QED
  BY <1>3, <1>4, <1>5

(* A diverged bias, pushed on the stack, keeps the inductive invariant. *)
LEMMA RetryInv ==
  ASSUME IInv, Retry
  PROVE  IInv'
<1>1. /\ par \in Sweeps /\ par \in SweepType /\ Vscan \in Int /\ Vs[1] \in Int
      /\ V_retry \in Seq(Int) /\ Len(V_retry) \in Nat /\ pc = "solve"
      /\ InRange(par, Vscan) /\ sol \in Int
      /\ BiasSaved => Leq(Vscan, par.stop) /\ Leq(sol, Vscan) /\ Vs[1] = sol
  BY SweepAssumption DEF IInv, TypeOK, RetryOrdered, SolvesInRange, SavedIsSolved, Retry
<1>2. /\ par' = par /\ Vs' = Vs /\ VStep' = VStep /\ ierr' = ierr
      /\ V_retry' = <<Vscan>> \o V_retry
      /\ Len(V_retry) < MaxRetry
      /\ pc' = IF InRange(par, Vscan') THEN "solve" ELSE "done"
      /\ sol' = sol /\ DC_Cycles' = DC_Cycles /\ (BiasSaved' <=> BiasSaved)
  BY DEF Retry, LoopTest, Pushed, RoomToRetry, BiasSaved
<1>3. Vscan' \in Int
  BY RetryGoesOn
<1>4. BiasSaved => Leq(sol, Vscan') /\ Leq(Vscan', Vscan) /\ Leq(Vscan', par.stop)
  BY RetryGoesOn
<1>5. BiasSaved => pc' = "solve" /\ InRange(par, Vscan')
  BY RetryGoesOn
<1>6. /\ V_retry' \in Seq(Int) /\ Len(V_retry') = Len(V_retry) + 1
      /\ V_retry'[1] = Vscan
      /\ \A i \in 1..Len(V_retry') :
           i # 1 => i - 1 \in 1..Len(V_retry) /\ V_retry'[i] = V_retry[i - 1]
  BY <1>1, <1>2
<1>7. TypeOK'
  <2>1. x' \in {"solution", "projected", "nan"}
    BY ProjectType DEF Retry
  <2>2. tran_histroy' \in BOOLEAN
    BY DEF Retry, LoopTest, HistoryAtEnd, IInv, TypeOK
  <2>3. Len(V_retry') <= MaxRetry
    BY <1>1, <1>2, <1>6, SweepAssumption
  <2> QED
    BY <1>1, <1>2, <1>3, <1>6, <2>1, <2>2, <2>3 DEF IInv, TypeOK, Retry
<1>8. RetryOrdered'
  <2> SUFFICES ASSUME BiasSaved PROVE RetryOrdered'
    BY <1>2 DEF RetryOrdered
  <2>0. Leq(Vscan, par.stop) /\ Leq(Vscan', Vscan)
    BY <1>1, <1>4
  <2>1. Leq(Snap(Vscan'), Snap(Vscan)) /\ Snap(Vscan') \in Int
    BY <1>1, <1>3, <2>0, SnapFacts
  <2>2. Leq(Vscan, Vscan)
    BY <1>1 DEF Leq
  <2>3. Snap(Vscan) \in Int
    BY <1>1, <2>0, <2>2, SnapFacts
  <2>4. ASSUME NEW i \in 1..Len(V_retry)
        PROVE  /\ V_retry[i] \in Int /\ Leq(Snap(Vscan), Snap(V_retry[i]))
               /\ Leq(V_retry[i], par.stop)
               /\ Snap(V_retry[i]) \in Int
    <3>1. V_retry[i] \in Int /\ Leq(Snap(Vscan), Snap(V_retry[i])) /\ Leq(V_retry[i], par.stop)
      BY <1>1 DEF IInv, RetryOrdered
    <3>2. Leq(V_retry[i], V_retry[i])
      BY <3>1 DEF Leq
    <3> QED
      BY <1>1, <3>1, <3>2, SnapFacts
  <2>5. ASSUME NEW i \in 1..Len(V_retry')
        PROVE  Leq(Snap(Vscan'), Snap(V_retry'[i])) /\ Leq(V_retry'[i], par.stop)
    <3>1. CASE i = 1
      BY <1>1, <1>6, <2>0, <2>1, <3>1
    <3>2. CASE i # 1
      <4>1. i - 1 \in 1..Len(V_retry) /\ V_retry'[i] = V_retry[i - 1]
        BY <1>1, <1>6, <3>2
      <4>2. Leq(Snap(Vscan), Snap(V_retry[i - 1])) /\ Leq(V_retry[i - 1], par.stop)
            /\ Snap(V_retry[i - 1]) \in Int
        BY <2>4, <4>1
      <4>3. Leq(Snap(Vscan'), Snap(V_retry[i - 1]))
        BY <1>1, <2>1, <2>3, <4>2 DEF Leq
      <4> QED
        BY <4>1, <4>2, <4>3
    <3> QED
      BY <3>1, <3>2
  <2>6. ASSUME NEW i \in 1..Len(V_retry'), NEW j \in 1..Len(V_retry'), i < j
        PROVE  Leq(Snap(V_retry'[i]), Snap(V_retry'[j]))
    <3>0. i \in Int /\ j \in Int /\ 1 <= i /\ j # 1
      BY <2>6
    <3>1. j - 1 \in 1..Len(V_retry) /\ V_retry'[j] = V_retry[j - 1]
      BY <1>6, <3>0
    <3>2. CASE i = 1
      BY <1>6, <2>4, <3>1, <3>2
    <3>3. CASE i # 1
      <4>1. i - 1 \in 1..Len(V_retry) /\ V_retry'[i] = V_retry[i - 1] /\ i - 1 < j - 1
        BY <1>6, <2>6, <3>0, <3>3
      <4> QED
        BY <1>1, <3>1, <4>1 DEF IInv, RetryOrdered
    <3> QED
      BY <3>2, <3>3
  <2> QED
    BY <1>2, <1>4, <2>5, <2>6 DEF RetryOrdered, Leq, Snap
<1>9. StepForward' /\ SolvesInRange' /\ SavedIsSolved'
  BY <1>2 DEF StepForward, SolvesInRange, InRange, IInv, SavedIsSolved
<1>10. (StopInside => StopReached)'
  BY <1>2, <1>5 DEF StopReached
<1> QED
  BY <1>7, <1>8, <1>9, <1>10 DEF IInv

(* Giving up keeps the inductive invariant. *)
LEMMA GiveUpInv ==
  ASSUME IInv, GiveUp
  PROVE  IInv'
<1>1. TypeOK'
  BY DEF IInv, TypeOK, GiveUp, HistoryAtEnd
<1>2. RetryOrdered' /\ SolvesInRange'
  BY DEF GiveUp, RetryOrdered, SolvesInRange
<1>3. StepForward'
  BY DEF GiveUp, IInv, StepForward
<1>5. SavedIsSolved'
  BY DEF GiveUp, IInv, SavedIsSolved, BiasSaved
<1>4. (StopInside => StopReached)'
  BY DEF GiveUp, StopReached
<1> QED
  BY <1>1, <1>2, <1>3, <1>4, <1>5 DEF IInv

(* Every step of the sweep keeps the inductive invariant. *)
LEMMA StepInv == IInv /\ [Next]_vars => IInv'
<1> SUFFICES ASSUME IInv, [Next]_vars PROVE IInv'
  OBVIOUS
<1>1. CASE Converged
  BY <1>1, ConvergedInv
<1>2. CASE Retry
  BY <1>2, RetryInv
<1>3. CASE GiveUp
  BY <1>3, GiveUpInv
<1>4. CASE UNCHANGED vars
  BY <1>4 DEF vars, IInv, TypeOK, RetryOrdered, Leq, Snap, StepForward, SolvesInRange,
              InRange, StopReached, StopInside, SavedIsSolved, BiasSaved
<1> QED
  BY <1>1, <1>2, <1>3, <1>4 DEF Next, Finished

(* The inductive invariant holds in every reachable state of every sweep:    *)
(* for all sets of sweeps, retry limits and tolerances.                      *)
THEOREM Invariance == Spec => []IInv
BY InitInv, StepInv, PTL DEF Spec

(* Type correctness of the sweep driver; in particular the retry stack of    *)
(* solve_dcsweep never outgrows its limit.                                   *)
THEOREM TypeCorrect == Spec => []TypeOK
<1>1. IInv => TypeOK
  BY DEF IInv
<1> QED
  BY <1>1, Invariance, PTL

(* The retry stack is ordered and ahead of the sweep, for every pattern of   *)
(* diverging and converging solves.                                          *)
THEOREM RetryStackOrdered == Spec => []RetryOrdered
<1>1. IInv => RetryOrdered
  BY DEF IInv
<1> QED
  BY <1>1, Invariance, PTL

(* A sweep whose VStop does not lie on the other side of zero from where its *)
(* step points reports success only after it solved VStop.                   *)
THEOREM AlignedSweepReachesStop == Spec => [](StopInside => StopReached)
<1>1. IInv => (StopInside => StopReached)
  BY DEF IInv
<1> QED
  BY <1>1, Invariance, PTL

(* A driver that enters its loop was asked to move towards VStop. *)
Directed == pc = "solve" => Leq(par.start, par.stop)

(* The invariant of the refinement: the sweep saves its biases and its VStop *)
(* does not lie on the other side of zero.                                   *)
DriveInv == IInv /\ Directed /\ BiasSaved /\ StopInside

LEMMA DriveInitInv == Init /\ BiasSaved /\ StopInside => DriveInv
<1> SUFFICES ASSUME Init, BiasSaved, StopInside PROVE DriveInv
  OBVIOUS
<1>1. par \in Sweeps /\ par.start \in Int
  BY SweepAssumption DEF Init, SweepType
<1>2. Directed
  BY <1>1, InRangeSign DEF Init, Directed
<1> QED
  BY <1>2, InitInv DEF DriveInv

LEMMA DriveStepInv == DriveInv /\ [Next]_vars => DriveInv'
<1> SUFFICES ASSUME DriveInv, [Next]_vars PROVE DriveInv'
  OBVIOUS
<1>1. IInv'
  BY StepInv DEF DriveInv
<1>2. par' = par /\ (pc' = "solve" => pc = "solve")
  BY DEF Next, Converged, Retry, GiveUp, Finished, vars
<1>3. Directed'
  BY <1>2 DEF DriveInv, Directed, Leq
<1>4. BiasSaved' /\ StopInside'
  BY <1>2 DEF DriveInv, BiasSaved, StopInside
<1> QED
  BY <1>1, <1>3, <1>4 DEF DriveInv

(* The direction of the abstract driver is that of the sweep. *)
LEMMA DriveBefore ==
  ASSUME NEW a, NEW b
  PROVE  Drive!Before(a, b) <=> Leq(a, b)
BY DEF Drive!Before, JobOf, Leq

(* The sweep starts where the abstract driver does. *)
LEMMA DriveInit ==
  ASSUME Init, BiasSaved, StopInside
  PROVE  Drive!Init
<1>1. par \in Sweeps /\ par.start \in Int /\ sol = par.start
  BY SweepAssumption DEF Init, SweepType
<1>2. JobOf(par) \in {JobOf(p) : p \in Sweeps}
  BY <1>1
<1>3. JobOf(par).from = par.start /\ JobOf(par).to = par.stop
  BY DEF JobOf
<1>4. pc = IF Leq(par.start, par.stop) THEN "solve" ELSE "done"
  BY <1>1, InRangeSign DEF Init
<1>5. Drive!Before(par.start, par.stop) <=> Leq(par.start, par.stop)
  BY DriveBefore
<1> QED
  BY <1>1, <1>2, <1>3, <1>4, <1>5 DEF Drive!Init

(* Every step of the sweep advances the abstract driver, makes it fail or    *)
(* leaves it alone: a solved bias is an advance, a retry is invisible.       *)
LEMMA DriveStep ==
  ASSUME DriveInv, [Next]_vars
  PROVE  [Drive!Next]_(Drive!vars)
<1>0. IInv /\ DriveInv'
  BY DriveStepInv DEF DriveInv
<1>1. CASE Converged
  <2>1. /\ pc = "solve" /\ par' = par /\ sol' = Vscan /\ sol' \in Int
        /\ pc' \in {"solve", "done"}
    BY <1>0, <1>1 DEF Converged, LoopTest, IInv, TypeOK
  <2>2. Leq(sol, sol') /\ Leq(sol', par.stop)
    BY <1>0, <2>1 DEF IInv, RetryOrdered, DriveInv
  <2>3. pc' = "done" => sol' = par.stop
    <3>1. Leq(par.start, par.stop) /\ (StopInside => StopReached)' /\ StopInside' /\ BiasSaved'
      BY <1>0, <2>1 DEF DriveInv, Directed, IInv
    <3> QED
      BY <2>1, <3>1 DEF StopReached, Leq
  <2>4. JobOf(par).to = par.stop /\ JobOf(par') = JobOf(par)
    BY <2>1 DEF JobOf
  <2>5. Drive!Before(sol, sol') /\ Drive!Before(sol', par.stop)
    BY <2>2, DriveBefore
  <2> QED
    BY <2>1, <2>3, <2>4, <2>5 DEF Drive!Next, Drive!Advance
<1>2. CASE Retry
  <2>1. pc' = pc /\ sol' = sol /\ JobOf(par') = JobOf(par)
    BY <1>0, <1>2, RetryGoesOn DEF Retry, DriveInv
  <2> QED
    BY <2>1 DEF Drive!vars
<1>3. CASE GiveUp
  <2>1. pc = "solve" /\ pc' = "failed" /\ sol' = sol /\ JobOf(par') = JobOf(par)
    BY <1>3 DEF GiveUp
  <2> QED
    BY <2>1 DEF Drive!Next, Drive!Fail
<1>4. CASE UNCHANGED vars
  BY <1>4 DEF vars, Drive!vars
<1> QED
  BY <1>1, <1>2, <1>3, <1>4 DEF Next, Finished

(* solve_dcsweep implements the abstract driver: whatever diverges and is    *)
(* retried, the solved biases go from VStart to VStop, never back and never  *)
(* past it, and a sweep without a failure ends at VStop.                     *)
THEOREM SweepContinues == Spec /\ BiasSaved /\ StopInside => Continues
<1>1. Init /\ BiasSaved /\ StopInside => Drive!Init
  BY DriveInit
<1>2. DriveInv /\ [Next]_vars => [Drive!Next]_(Drive!vars)
  BY DriveStep
<1> QED
  BY <1>1, <1>2, DriveInitInv, DriveStepInv, PTL DEF Spec, Continues, Drive!Spec

-----------------------------------------------------------------------------
(* Sweeps with a constant step: no bias the user asked for is lost, and      *)
(* where small moves converge no bias is solved twice and the sweep ends at  *)
(* VStop.                                                                    *)

(* a lies before b in the sweep's direction. *)
Before(a, b) == Leq(a, b) /\ a # b

(* The step stays the user's. *)
StepKept == ConstantStep => VStep = par.step

-----------------------------------------------------------------------------
(* The next bias that the user asked for: the bottom of the retry stack.     *)
Target == IF V_retry = <<>> THEN Vscan ELSE V_retry[Len(V_retry)]

(* The first n multiples of the step are solved. *)
CoveredBelow(n) ==
  \A k \in 0..(n - 1) :
    \E v \in solved : Snap(v) = Snap(par.start + k * par.step)

(* The bias t stands for the multiple n of the step, or for VStop in its     *)
(* place.                                                                    *)
StandsFor(t, n) ==
  LET v == par.start + n * par.step
  IN \/ t = v
     \/ t = par.stop /\ (Snap(v) = par.stop \/ Before(par.stop, v))

(* What the sweep of a constant step has covered while it goes on.           *)
GridInv ==
  ConstantStep /\ BiasSaved =>
    /\ DC_Cycles = 0 => V_retry = <<>> /\ solved = {}
    /\ pc = "solve" =>
         /\ DC_Cycles # 0 => Snap(Target) = Target
         /\ \E n \in Nat : StandsFor(Target, n) /\ CoveredBelow(n)

-----------------------------------------------------------------------------
(* Where small moves converge, a retry moves strictly forward from the last  *)
(* solved bias, so no two biases of the sweep are equal.                     *)
StrictInv ==
  Regular =>
    /\ pc = "solve" =>
         /\ DC_Cycles # 0 => Before(sol, Vscan)
         /\ \A i \in 1..Len(V_retry) : Before(Vscan, V_retry[i])
         /\ \A i, j \in 1..Len(V_retry) : i < j => Before(V_retry[i], V_retry[j])
    /\ DC_Cycles >= 2 => Before(Vs[2], Vs[1])
    /\ DC_Cycles >= 3 => Before(Vs[3], Vs[2])
    /\ x # "nan"

(* What both invariants need to know of a state. *)
LEMMA SweepFacts ==
  ASSUME IInv
  PROVE  /\ par \in Sweeps /\ par \in SweepType
         /\ par.start \in Int /\ par.stop \in Int /\ par.step \in Int /\ par.step # 0
         /\ par.stepMax \in Int /\ par.snap \in Nat \ {0} /\ par.radius \in Int
         /\ Vscan \in Int /\ VStep \in Int \ {0} /\ sol \in Int /\ solved \subseteq Int
         /\ V_retry \in Seq(Int) /\ Len(V_retry) \in Nat
         /\ Vs \in Int \X Int \X Int /\ DC_Cycles \in 0..3
         /\ pc = "solve" /\ BiasSaved => Leq(sol, Vscan) /\ Leq(Vscan, par.stop)
         /\ BiasSaved /\ DC_Cycles # 0 => Vs[1] = sol
<1>1. par \in Sweeps /\ par \in SweepType
  BY SweepAssumption DEF IInv, TypeOK
<1>2. /\ Vscan \in Int /\ VStep \in Int \ {0} /\ sol \in Int /\ solved \subseteq Int
      /\ V_retry \in Seq(Int) /\ Vs \in Int \X Int \X Int /\ DC_Cycles \in 0..3
  BY DEF IInv, TypeOK, CycleCap
<1>3. Len(V_retry) \in Nat
  BY <1>2
<1>4. /\ pc = "solve" /\ BiasSaved => Leq(sol, Vscan) /\ Leq(Vscan, par.stop)
      /\ BiasSaved /\ DC_Cycles # 0 => Vs[1] = sol
  BY DEF IInv, RetryOrdered, SavedIsSolved
<1> QED
  BY <1>1, <1>2, <1>3, <1>4 DEF SweepType

(* A step as long as VStepMax stays as it is. *)
LEMMA StepKeptStep ==
  ASSUME IInv, StepKept, [Next]_vars
  PROVE  StepKept' /\ (ConstantStep => VStep' = VStep)
<1>1. CASE Converged
  <2>1. VStep' \in Grown(VStep) /\ par' = par
    BY <1>1 DEF Converged
  <2>2. ConstantStep => VStep' = VStep
    <3>1. StepKept /\ par.step \in Int /\ par.stepMax \in Int
      BY SweepFacts
    <3>2. ConstantStep => VStep = par.step /\ ~(Abs(VStep) < Abs(par.stepMax))
      BY <3>1 DEF StepKept, ConstantStep, Abs
    <3> QED
      BY <2>1, <3>2 DEF Grown
  <2> QED
    BY <2>1, <2>2 DEF StepKept, ConstantStep
<1>2. CASE Retry \/ GiveUp \/ UNCHANGED vars
  BY <1>2 DEF Retry, GiveUp, vars, StepKept, ConstantStep
<1> QED
  BY <1>1, <1>2 DEF Next, Finished

(* Where no bias is rounded to VStop, Snap does nothing. *)
LEMMA SnapExact ==
  ASSUME par \in Sweeps, par.snap = 1, NEW v \in Int
  PROVE  Snap(v) = v
BY SweepAssumption DEF Snap, Abs, SweepType

LEMMA BeforeTrans ==
  ASSUME par \in Sweeps, NEW a \in Int, NEW b \in Int, NEW c \in Int
  PROVE  /\ Before(a, b) /\ Leq(b, c) => Before(a, c)
         /\ Leq(a, b) /\ Before(b, c) => Before(a, c)
BY DEF Before, Leq

(* The projection of increasing biases divides by no zero. *)
LEMMA ProjectionOfIncreasing ==
  ASSUME par \in Sweeps, NEW c \in 0..3, NEW s \in Int \X Int \X Int,
         c >= 2 => Before(s[2], s[1]), c >= 3 => Before(s[3], s[2])
  PROVE  Project(c, s) # "nan"
<1>1. s[1] \in Int /\ s[2] \in Int /\ s[3] \in Int
  OBVIOUS
<1>2. c >= 2 => s[1] - s[2] # 0
  BY <1>1 DEF Before
<1>3. c >= 3 => s[2] - s[3] # 0 /\ (s[1] - s[2]) + (s[2] - s[3]) # 0
  BY <1>1 DEF Before, Leq
<1>4. ProjectionOrder(c) # 0 => c >= 2 /\ (ProjectionOrder(c) = 2 => c >= 3)
  BY DEF ProjectionOrder
<1> QED
  BY <1>2, <1>3, <1>4 DEF Project

(* A solved bias keeps the biases strictly ordered. *)
LEMMA StrictConverged ==
  ASSUME IInv, StepKept, StrictInv, Converged
  PROVE  StrictInv'
<1>0. /\ par \in Sweeps /\ par \in SweepType
      /\ par.stop \in Int /\ par.step \in Int /\ par.step # 0
      /\ Vscan \in Int /\ VStep \in Int \ {0} /\ sol \in Int
      /\ V_retry \in Seq(Int) /\ Len(V_retry) \in Nat
      /\ Vs \in Int \X Int \X Int /\ DC_Cycles \in 0..3
      /\ pc = "solve"
  BY SweepFacts DEF Converged
<1> SUFFICES ASSUME Regular PROVE StrictInv'
  BY DEF StrictInv, Regular, BiasSaved, ConstantStep, Converged
<1>1. /\ BiasSaved /\ ConstantStep /\ par.snap = 1 /\ VStep' = par.step
      /\ Leq(Vscan, par.stop) /\ (DC_Cycles # 0 => Vs[1] = sol)
  BY SweepFacts, StepKeptStep, <1>0 DEF Regular, Next, StepKept
<1>2. /\ DC_Cycles # 0 => Before(sol, Vscan)
      /\ \A i \in 1..Len(V_retry) : Before(Vscan, V_retry[i])
      /\ \A i, j \in 1..Len(V_retry) : i < j => Before(V_retry[i], V_retry[j])
      /\ DC_Cycles >= 2 => Before(Vs[2], Vs[1])
  BY <1>0 DEF StrictInv
<1>3. /\ sol' = Vscan /\ par' = par /\ Vs' = <<Vscan, Vs[1], Vs[2]>>
      /\ DC_Cycles' = Lesser(DC_Cycles + 1, 3)
      /\ V_retry' = IF V_retry = <<>> THEN <<>> ELSE Tail(V_retry)
      /\ Vscan' = ForceStop(Snap(NextBias), par.step)
      /\ x' = Project(DC_Cycles', Vs')
  BY <1>1 DEF Converged, CycleCap
<1>4. DC_Cycles' \in 0..3 /\ DC_Cycles' <= DC_Cycles + 1 /\ DC_Cycles' >= 1
  BY <1>0, <1>3 DEF Lesser
<1>5. /\ Vs' \in Int \X Int \X Int
      /\ DC_Cycles' >= 2 => Before(Vs'[2], Vs'[1])
      /\ DC_Cycles' >= 3 => Before(Vs'[3], Vs'[2])
  BY <1>0, <1>1, <1>2, <1>3, <1>4
<1>6. x' # "nan"
  BY <1>0, <1>3, <1>4, <1>5, ProjectionOfIncreasing
<1>7. Before(Vscan, Vscan') /\ \A i \in 1..Len(V_retry') : Before(Vscan', V_retry'[i])
  <2>1. CASE V_retry = <<>>
    <3> DEFINE w == Vscan + par.step
    <3>1. NextBias = w /\ w \in Int /\ Snap(w) = w
      BY <1>0, <1>1, <2>1, SnapExact DEF NextBias, StepKept
    <3>2. Vscan' = ForceStop(w, par.step)
      BY <1>3, <3>1
    <3>3. Before(Vscan, w)
      <4>1. Vscan \in Int /\ par.step \in Int /\ par.step # 0
        BY <1>0
      <4>2. IF par.step > 0 THEN Vscan < w ELSE w < Vscan
        BY <4>1
      <4> QED
        BY <4>1, <4>2 DEF Before, Leq
    <3>4. Vscan' = w \/ Vscan' = par.stop
      BY <3>2 DEF ForceStop
    <3>5. Vscan' = par.stop => Vscan # par.stop
      <4>1. SUFFICES ASSUME Vscan' = par.stop, Vscan = par.stop PROVE FALSE
        OBVIOUS
      <4>2. w = par.stop + par.step
        BY <4>1
      <4>3. par.stop \in Int /\ par.step \in Int /\ par.step # 0
        BY <1>0
      <4> HIDE DEF w
      <4>4. w # par.stop
        BY <4>2, <4>3
      <4>5. (par.stop + par.step) * par.step \in Int
        BY <4>3
      <4>6. ~(w * par.step < (par.stop + par.step) * par.step)
        BY <4>2, <4>5
      <4>7. ForceStop(w, par.step) = w
        BY <4>6 DEF ForceStop
      <4> QED
        BY <3>2, <4>1, <4>4, <4>7
    <3>6. Before(Vscan, Vscan')
      BY <1>1, <3>3, <3>4, <3>5 DEF Before
    <3>7. V_retry' = <<>>
      BY <1>3, <2>1
    <3>8. Len(V_retry') = 0
      BY <3>7
    <3> QED
      BY <3>6, <3>8
  <2>2. CASE V_retry # <<>>
    <3>1. /\ 1 \in 1..Len(V_retry) /\ V_retry[1] \in Int /\ NextBias = V_retry[1]
          /\ V_retry' = Tail(V_retry)
      BY <1>0, <1>3, <2>2 DEF NextBias
    <3>2. Leq(V_retry[1], par.stop)
      BY <1>0, <1>1, <3>1 DEF IInv, RetryOrdered
    <3>3. Vscan' = V_retry[1]
      BY <1>0, <1>1, <1>3, <3>1, <3>2, SnapExact, ForceStopFacts
    <3>4. ASSUME NEW i \in 1..Len(V_retry')
          PROVE  i + 1 \in 1..Len(V_retry) /\ V_retry'[i] = V_retry[i + 1] /\ 1 < i + 1
      <4>1. Len(V_retry') = Len(V_retry) - 1
        BY <1>0, <2>2, <3>1
      <4>2. i \in Nat /\ i >= 1
        BY <1>0, <4>1
      <4> QED
        BY <1>0, <2>2, <3>1, <4>1, <4>2
    <3> QED
      BY <1>2, <3>1, <3>3, <3>4
  <2> QED
    BY <2>1, <2>2
<1>8. \A i, j \in 1..Len(V_retry') : i < j => Before(V_retry'[i], V_retry'[j])
  <2>1. CASE V_retry = <<>>
    BY <1>3, <2>1
  <2>2. CASE V_retry # <<>>
    <3>1. V_retry' = Tail(V_retry) /\ Len(V_retry') = Len(V_retry) - 1
      BY <1>0, <1>3, <2>2
    <3>2. \A i \in 1..Len(V_retry') : i + 1 \in 1..Len(V_retry) /\ V_retry'[i] = V_retry[i + 1]
      BY <1>0, <2>2, <3>1
    <3>3. \A i, j \in 1..Len(V_retry') : i < j => i + 1 < j + 1
      BY <1>0, <3>1
    <3> QED
      BY <1>2, <3>2, <3>3
  <2> QED
    BY <2>1, <2>2
<1> QED
  BY <1>3, <1>5, <1>6, <1>7, <1>8 DEF StrictInv, Before, Leq

(* A retry moves strictly between the last solved bias and the diverged one: *)
(* the solve diverged, so they are more than two units apart.                *)
LEMMA StrictRetry ==
  ASSUME IInv, StrictInv, Retry
  PROVE  StrictInv'
<1>0. /\ par \in Sweeps /\ par \in SweepType /\ par.radius \in Int
      /\ Vscan \in Int /\ sol \in Int
      /\ V_retry \in Seq(Int) /\ Len(V_retry) \in Nat
      /\ Vs \in Int \X Int \X Int /\ DC_Cycles \in 0..3
      /\ pc = "solve" /\ DC_Cycles # 0
  BY SweepFacts DEF Retry
<1> SUFFICES ASSUME Regular PROVE StrictInv'
  BY DEF StrictInv, Regular, BiasSaved, ConstantStep, Retry
<1>1. Vs[1] = sol /\ par.radius >= 2
  BY SweepFacts, <1>0 DEF Regular
<1>2. /\ Before(sol, Vscan)
      /\ \A i \in 1..Len(V_retry) : Before(Vscan, V_retry[i])
      /\ \A i, j \in 1..Len(V_retry) : i < j => Before(V_retry[i], V_retry[j])
      /\ DC_Cycles >= 2 => Before(Vs[2], Vs[1])
      /\ DC_Cycles >= 3 => Before(Vs[3], Vs[2])
      /\ x # "nan"
  BY <1>0 DEF StrictInv
<1>3. /\ par' = par /\ Vs' = Vs /\ sol' = sol /\ DC_Cycles' = DC_Cycles
      /\ V_retry' = <<Vscan>> \o V_retry
      /\ x' = Project(DC_Cycles, Vs)
  BY DEF Retry, Pushed
<1>4. Vscan' \in Int /\ Vscan + sol - 1 <= 2 * Vscan' /\ 2 * Vscan' <= Vscan + sol + 1
  BY <1>0, <1>1, RoundedHalf DEF Retry, Halfway
<1>5. Abs(Vscan - sol) > 2
  BY <1>0, <1>1, <1>2 DEF Retry, MustConverge, Abs
<1>6. Before(sol, Vscan') /\ Before(Vscan', Vscan)
  <2> DEFINE v == Vscan'
  <2>1. v \in Int /\ Vscan + sol - 1 <= 2 * v /\ 2 * v <= Vscan + sol + 1
    BY <1>4
  <2> HIDE DEF v
  <2>2. Before(sol, v) /\ Before(v, Vscan)
    BY <1>0, <1>2, <1>5, <2>1 DEF Before, Leq, Abs
  <2> QED
    BY <2>2 DEF v
<1>7. /\ Len(V_retry') = Len(V_retry) + 1
      /\ V_retry'[1] = Vscan
      /\ \A i \in 1..Len(V_retry') :
           i # 1 => i - 1 \in 1..Len(V_retry) /\ V_retry'[i] = V_retry[i - 1]
  BY <1>0, <1>3
<1>8. ASSUME NEW i \in 1..Len(V_retry') PROVE Before(Vscan', V_retry'[i])
  <2>1. CASE i = 1
    BY <1>6, <1>7, <2>1
  <2>2. CASE i # 1
    <3>1. i - 1 \in 1..Len(V_retry) /\ V_retry'[i] = V_retry[i - 1]
      BY <1>7, <2>2
    <3>2. Before(Vscan, V_retry'[i]) /\ V_retry'[i] \in Int
      BY <1>0, <1>2, <3>1
    <3>3. Leq(Vscan, V_retry'[i])
      BY <3>2 DEF Before
    <3> QED
      BY <1>0, <1>4, <1>6, <3>2, <3>3, BeforeTrans
  <2> QED
    BY <2>1, <2>2
<1>9. ASSUME NEW i \in 1..Len(V_retry'), NEW j \in 1..Len(V_retry'), i < j
      PROVE  Before(V_retry'[i], V_retry'[j])
  <2>1. i \in Nat /\ j \in Nat /\ i >= 1 /\ j # 1
    BY <1>0, <1>7, <1>9
  <2>2. j - 1 \in 1..Len(V_retry) /\ V_retry'[j] = V_retry[j - 1]
    BY <1>7, <2>1
  <2>3. CASE i = 1
    BY <1>2, <1>7, <2>2, <2>3
  <2>4. CASE i # 1
    <3>1. i - 1 \in 1..Len(V_retry) /\ V_retry'[i] = V_retry[i - 1] /\ i - 1 < j - 1
      BY <1>7, <1>9, <2>1, <2>4
    <3> QED
      BY <1>2, <2>2, <3>1
  <2> QED
    BY <2>3, <2>4
<1>10. x' # "nan"
  BY <1>0, <1>2, <1>3, ProjectionOfIncreasing
<1> QED
  BY <1>2, <1>3, <1>6, <1>8, <1>9, <1>10 DEF StrictInv, Before, Leq

(* The invariant of regular sweeps is inductive together with IInv. *)
LEMMA StrictInit == Init => StepKept /\ StrictInv
<1> SUFFICES ASSUME Init PROVE StepKept /\ StrictInv
  OBVIOUS
<1>1. V_retry = <<>> /\ DC_Cycles = 0 /\ x = "solution" /\ VStep = par.step
  BY DEF Init
<1>2. Len(V_retry) = 0
  BY <1>1
<1> QED
  BY <1>1, <1>2 DEF StepKept, StrictInv

LEMMA StrictStep ==
  ASSUME IInv, StepKept, StrictInv, [Next]_vars
  PROVE  StrictInv'
<1>1. CASE GiveUp
  BY <1>1 DEF GiveUp, StrictInv, Regular, BiasSaved, ConstantStep, Before, Leq
<1>2. CASE UNCHANGED vars
  BY <1>2 DEF vars, StrictInv, Regular, BiasSaved, ConstantStep, Before, Leq
<1> QED
  BY <1>1, <1>2, StrictConverged, StrictRetry DEF Next, Finished

(* Where moves of up to two units converge, the projection is defined        *)
(* whenever the equations are solved: no saved bias occurs twice.            *)
THEOREM ProjectionIsDefined == Spec => []ProjectionDefined
<1>1. IInv /\ StepKept /\ StrictInv /\ [Next]_vars => StepKept' /\ StrictInv'
  BY StepKeptStep, StrictStep
<1>2. StrictInv => ProjectionDefined
  BY DEF StrictInv, ProjectionDefined
<1> QED
  BY <1>1, <1>2, StrictInit, Invariance, StepInv, PTL DEF Spec

(* Solving VStop ends the loop: nothing waits on the stack beyond it, and    *)
(* the step leads out of range.                                              *)
LEMMA StopEnds ==
  ASSUME IInv, StepKept, StrictInv, Regular, Converged, Vscan = par.stop
  PROVE  pc' = "done"
<1>0. /\ par \in Sweeps /\ par.stop \in Int /\ par.step \in Int /\ par.step # 0
      /\ V_retry \in Seq(Int) /\ Len(V_retry) \in Nat /\ pc = "solve"
      /\ BiasSaved /\ par.snap = 1 /\ VStep' = par.step /\ VStep = par.step
  BY SweepFacts, StepKeptStep DEF Converged, Regular, Next, StepKept
<1>1. V_retry = <<>>
  <2>1. SUFFICES ASSUME V_retry # <<>> PROVE FALSE
    OBVIOUS
  <2>2. 1 \in 1..Len(V_retry) /\ V_retry[1] \in Int
    BY <1>0, <2>1
  <2>3. Before(par.stop, V_retry[1]) /\ Leq(V_retry[1], par.stop)
    BY <1>0, <2>2 DEF StrictInv, IInv, RetryOrdered
  <2> QED
    BY <1>0, <2>2, <2>3 DEF Before, Leq
<1> DEFINE w == par.stop + par.step
<1>2. w \in Int /\ ~Leq(w, par.stop) /\ Leq(w, w)
  BY <1>0 DEF Leq
<1>3. Vscan' = ForceStop(w, par.step)
  BY <1>0, <1>1, <1>2, SnapExact DEF Converged, NextBias
<1>4. ~(w * par.step < (par.stop + par.step) * par.step)
  BY <1>0
<1>5. Vscan' = w
  BY <1>3, <1>4 DEF ForceStop
<1>6. ~InRange(par, Vscan')
  BY <1>0, <1>2, <1>5, InRangeSign
<1> QED
  BY <1>6 DEF Converged, LoopTest

(* VStop is the last bias of a regular sweep, for all its other parameters   *)
(* and every pattern of retries.                                             *)
THEOREM StopComesLast == Spec => StopIsLast
<1>1. IInv /\ StepKept /\ StrictInv /\ [Next]_vars => StepKept' /\ StrictInv'
  BY StepKeptStep, StrictStep
<1>2. IInv /\ StepKept /\ StrictInv /\ [Next]_vars
        => [Regular /\ Converged /\ Vscan = par.stop => pc' = "done"]_vars
  BY StopEnds
<1> QED
  BY <1>1, <1>2, StrictInit, Invariance, StepInv, PTL DEF Spec, StopIsLast

-----------------------------------------------------------------------------
(* What a sweep still has to do: its first bias, then the way to VStop, then *)
(* the distance of the bias tried from the last solved one.                  *)
Measure ==
  <<IF DC_Cycles = 0 THEN 1 ELSE 0, Abs(par.stop - sol), Abs(Vscan - sol)>>

LEMMA MeasureType ==
  IInv => /\ Measure \in Triples
          /\ Measure[1] = IF DC_Cycles = 0 THEN 1 ELSE 0
          /\ Measure[2] = Abs(par.stop - sol)
          /\ Measure[3] = Abs(Vscan - sol)
<1> SUFFICES ASSUME IInv PROVE Measure \in Triples
  BY DEF Measure
<1>1. par.stop \in Int /\ sol \in Int /\ Vscan \in Int
  BY SweepFacts
<1>2. Abs(par.stop - sol) \in Nat /\ Abs(Vscan - sol) \in Nat
  BY <1>1 DEF Abs
<1> QED
  BY <1>2 DEF Measure, Triples

(* A solved bias is nearer to VStop, a retried one nearer to the last solved *)
(* one.                                                                      *)
LEMMA MeasureDescends ==
  ASSUME IInv, IInv', StrictInv, Regular, Converged \/ Retry
  PROVE  \/ DC_Cycles = 0 /\ DC_Cycles' # 0
         \/ /\ DC_Cycles # 0 /\ DC_Cycles' # 0
            /\ \/ Abs(par'.stop - sol') < Abs(par.stop - sol)
               \/ /\ Abs(par'.stop - sol') = Abs(par.stop - sol)
                  /\ Abs(Vscan' - sol') < Abs(Vscan - sol)
<1>1. /\ par \in Sweeps /\ par.stop \in Int /\ par.radius \in Int
      /\ Vscan \in Int /\ sol \in Int /\ DC_Cycles \in 0..3
      /\ pc = "solve" /\ BiasSaved /\ par' = par
      /\ Leq(Vscan, par.stop)
      /\ DC_Cycles # 0 => Vs[1] = sol
  BY SweepFacts DEF Regular, Converged, Retry
<1>2. DC_Cycles # 0 => Before(sol, Vscan)
  BY <1>1 DEF StrictInv
<1>3. CASE Converged
  <2>1. sol' = Vscan /\ DC_Cycles' # 0
    BY <1>1, <1>3 DEF Converged, Lesser, CycleCap
  <2>2. DC_Cycles # 0 => Abs(par.stop - Vscan) < Abs(par.stop - sol)
    BY <1>1, <1>2 DEF Before, Leq, Abs
  <2> QED
    BY <1>1, <2>1, <2>2
<1>4. CASE Retry
  <2>1. DC_Cycles # 0 /\ DC_Cycles' = DC_Cycles /\ sol' = sol
    BY <1>4 DEF Retry
  <2> DEFINE v == Vscan'
  <2>2. v \in Int /\ Vscan + sol - 1 <= 2 * v /\ 2 * v <= Vscan + sol + 1
    BY <1>1, <1>4, <2>1, RoundedHalf DEF Retry, Halfway
  <2>3. Abs(Vscan - sol) > 2
    BY <1>1, <1>4 DEF Retry, MustConverge, StrictInv, Regular, Abs
  <2> HIDE DEF v
  <2>4. Abs(v - sol) < Abs(Vscan - sol)
    BY <1>1, <2>2, <2>3 DEF Abs
  <2> QED
    BY <1>1, <2>1, <2>4 DEF v
<1> QED
  BY <1>3, <1>4

(* A regular sweep ends: every solve after which it goes on descends, in an  *)
(* order in which nothing descends for ever (DescentEnds), whichever solves  *)
(* beyond the radius diverge.                                                *)
THEOREM RegularSweepsDescend ==
  Spec => [][Regular /\ pc' = "solve" => Descends(Measure', Measure)]_vars
<1>1. (IInv => /\ Measure \in Triples
               /\ Measure[1] = IF DC_Cycles = 0 THEN 1 ELSE 0
               /\ Measure[2] = Abs(par.stop - sol)
               /\ Measure[3] = Abs(Vscan - sol))'
  BY MeasureType, PTL
<1>2. IInv /\ StepKept /\ StrictInv /\ [Next]_vars => StepKept' /\ StrictInv'
  BY StepKeptStep, StrictStep
<1>3. IInv /\ IInv' /\ StrictInv /\ [Next]_vars =>
        [Regular /\ pc' = "solve" => Descends(Measure', Measure)]_vars
  <2> SUFFICES ASSUME IInv, IInv', StrictInv, Next, Regular, pc' = "solve",
                      ~UNCHANGED vars
               PROVE  Descends(Measure', Measure)
    OBVIOUS
  <2>1. Converged \/ Retry
    BY DEF Next, GiveUp, Finished
  <2> QED
    BY <1>1, <2>1, MeasureType, MeasureDescends DEF Descends
<1> QED
  BY <1>2, <1>3, StrictInit, InitInv, StepInv, PTL DEF Spec

-----------------------------------------------------------------------------
(* A multiple of a divides without remainder. *)
LEMMA MultipleMod ==
  ASSUME NEW m \in Int, NEW a \in Nat \ {0}
  PROVE  (m * a) % a = 0
<1> DEFINE r == 0  n == m * a
<1>1. r \in 0..(a - 1) /\ n \in Int
  OBVIOUS
<1> HIDE DEF r
<1>2. (m * a + r) % a = r
  BY <1>1, DivModUnique
<1> HIDE DEF n
<1>3. n + r = n
  BY <1>1 DEF r
<1> QED
  BY <1>2, <1>3 DEF n, r

(* The multiples of the step from VStart. *)
Multiple(n) == par.start + n * par.step

LEMMA MultipleOrder ==
  ASSUME par \in Sweeps, NEW n \in Nat, NEW k \in Nat, n <= k
  PROVE  /\ Multiple(n) \in Int /\ Multiple(k) \in Int
         /\ Leq(Multiple(n), Multiple(k))
         /\ Leq(Multiple(k), Multiple(n)) => k = n
         /\ OnGrid(Multiple(n))
<1> DEFINE a == par.start  d == par.step
<1>0. a \in Int /\ d \in Int /\ d # 0
  BY SweepAssumption DEF SweepType
<1>1. Multiple(n) = a + n * d /\ Multiple(k) = a + k * d
  BY DEF Multiple
<1>2. n * d \in Int /\ k * d \in Int
  BY <1>0
<1>3. OnGrid(Multiple(n))
  <2>1. Multiple(n) - a = n * d
    BY <1>0, <1>1, <1>2
  <2>2. CASE d > 0
    <3>1. (n * d) % d = 0
      BY <1>0, <2>2, MultipleMod
    <3> QED
      BY <1>0, <2>1, <2>2, <3>1 DEF OnGrid, Abs
  <2>3. CASE d < 0
    <3> DEFINE e == -d  m == -n
    <3>1. e \in Nat \ {0} /\ m \in Int /\ m * e = n * d /\ Abs(d) = e
      BY <1>0, <2>3 DEF Abs
    <3> HIDE DEF e, m
    <3>2. (m * e) % e = 0
      BY <3>1, MultipleMod
    <3> QED
      BY <2>1, <3>1, <3>2 DEF OnGrid
  <2> QED
    BY <1>0, <2>2, <2>3
<1> HIDE DEF a, d
<1>4. CASE d > 0
  <2>1. n * d <= k * d /\ (k <= n <=> k * d <= n * d)
    BY <1>0, <1>4, MulMono
  <2> QED
    BY <1>0, <1>1, <1>2, <1>3, <1>4, <2>1 DEF Leq, a, d
<1>5. CASE d < 0
  <2>1. n * (-d) <= k * (-d) /\ (k <= n <=> k * (-d) <= n * (-d))
    BY <1>0, <1>5, MulMono
  <2>2. n * (-d) = -(n * d) /\ k * (-d) = -(k * d)
    BY <1>0
  <2> QED
    BY <1>0, <1>1, <1>2, <1>3, <1>5, <2>1, <2>2 DEF Leq, a, d
<1> QED
  BY <1>0, <1>4, <1>5

(* Snap leaves a bias alone or makes it VStop. *)
LEMMA SnapEither ==
  ASSUME par \in Sweeps, NEW v \in Int
  PROVE  /\ Snap(v) \in Int
         /\ Snap(v) = v \/ Snap(v) = par.stop
         /\ Snap(par.stop) = par.stop
         /\ \A w \in Int : Leq(w, v) /\ Leq(v, par.stop) /\ Snap(w) = par.stop
                             => Snap(v) = par.stop
BY SweepAssumption DEF Snap, Abs, SweepType, Leq

(* The bias being tried is not past the one it leads to, which is not past   *)
(* VStop.                                                                    *)
LEMMA TargetAhead ==
  ASSUME IInv, GridInv, ConstantStep, BiasSaved, pc = "solve"
  PROVE  Target \in Int /\ Leq(Vscan, Target) /\ Leq(Target, par.stop)
<1>0. /\ par \in Sweeps /\ Vscan \in Int /\ V_retry \in Seq(Int) /\ Len(V_retry) \in Nat
      /\ Leq(Vscan, par.stop) /\ Leq(Vscan, Vscan)
  BY SweepFacts DEF Leq
<1>1. CASE V_retry = <<>>
  BY <1>0, <1>1 DEF Target
<1>2. CASE V_retry # <<>>
  <2>1. Len(V_retry) \in 1..Len(V_retry) /\ Target = V_retry[Len(V_retry)] /\ Target \in Int
    BY <1>0, <1>2 DEF Target
  <2>2. Leq(Snap(Vscan), Snap(Target)) /\ Leq(Target, par.stop)
    BY <2>1 DEF IInv, RetryOrdered
  <2>3. Snap(Target) = Target
    BY <1>2 DEF GridInv
  <2>4. Leq(Vscan, Snap(Vscan)) /\ Snap(Vscan) \in Int
    BY <1>0, SnapFacts
  <2>5. Leq(Vscan, Target)
    BY <1>0, <2>1, <2>2, <2>3, <2>4 DEF Leq
  <2> QED
    BY <2>1, <2>2, <2>5
<1> QED
  BY <1>1, <1>2

(* Solving a bias on the way to the target of the n-th multiple covers every *)
(* multiple up to that bias.                                                 *)
LEMMA CoverStep ==
  ASSUME par \in Sweeps, NEW v \in Int, NEW t \in Int, Leq(v, t), Leq(t, par.stop),
         NEW n \in Nat, StandsFor(t, n), NEW k \in Nat, n <= k, Leq(Snap(Multiple(k)), v)
  PROVE  OnGrid(v) /\ Snap(v) = Snap(Multiple(k))
<1>0. par.stop \in Int /\ OnGrid(par.stop)
  BY SweepAssumption DEF SweepType, OnGrid
<1>1. /\ Multiple(n) \in Int /\ Multiple(k) \in Int
      /\ Leq(Multiple(n), Multiple(k))
      /\ Leq(Multiple(k), Multiple(n)) => k = n
      /\ OnGrid(Multiple(n))
  BY MultipleOrder
<1>2. \/ t = Multiple(n)
      \/ t = par.stop /\ (Snap(Multiple(n)) = par.stop \/ Before(par.stop, Multiple(n)))
  BY DEF StandsFor, Multiple
<1>3. CASE Snap(Multiple(k)) = par.stop
  <2>1. v = par.stop
    BY <1>0, <1>3 DEF Leq
  <2> QED
    BY <1>0, <1>3, <2>1, SnapEither
<1>4. CASE Snap(Multiple(k)) # par.stop
  <2>1. Snap(Multiple(k)) = Multiple(k)
    BY <1>1, <1>4, SnapEither
  <2>2. Leq(Multiple(k), v) /\ Leq(Multiple(k), t) /\ Leq(Multiple(k), par.stop)
    BY <1>0, <1>1, <2>1 DEF Leq
  <2>3. t = Multiple(n)
    <3>1. ~Before(par.stop, Multiple(n))
      BY <1>0, <1>1, <2>2 DEF Before, Leq
    <3>2. Snap(Multiple(n)) # par.stop
      BY <1>1, <1>4, <2>2, SnapEither
    <3> QED
      BY <1>2, <3>1, <3>2
  <2>4. k = n
    BY <1>1, <2>2, <2>3
  <2>5. v = Multiple(n)
    BY <1>1, <2>2, <2>3, <2>4 DEF Leq
  <2> QED
    BY <1>1, <2>4, <2>5
<1> QED
  BY <1>3, <1>4

(* Every multiple of the step up to a solved bias has been solved. *)
LEMMA CoveredConverged ==
  ASSUME IInv, GridInv, Converged
  PROVE  GridCovered'
<1>0. /\ par \in Sweeps /\ Vscan \in Int /\ pc = "solve"
      /\ par' = par /\ sol' = Vscan
      /\ solved' = solved \union {v \in {Vscan} : OnGrid(v)}
  BY SweepFacts DEF Converged
<1> SUFFICES ASSUME ConstantStep, BiasSaved, NEW k \in Nat, Leq(Snap(Multiple(k)), Vscan)
             PROVE  \E v \in solved' : Snap(v) = Snap(Multiple(k))
  <2>1. Vscan - par.start \in Int
    BY <1>0, SweepFacts
  <2>2. \A k \in 0..Abs(Vscan - par.start) : k \in Nat
    BY <2>1 DEF Abs
  <2> QED
    BY <1>0, <2>2 DEF GridCovered, ConstantStep, BiasSaved, Leq, Snap, Multiple
<1>1. PICK n \in Nat : StandsFor(Target, n) /\ CoveredBelow(n)
  BY <1>0 DEF GridInv
<1>2. CASE k < n
  <2>1. k \in 0..(n - 1)
    BY <1>2
  <2> QED
    BY <1>0, <1>1, <2>1 DEF CoveredBelow, Multiple
<1>3. CASE n <= k
  <2>1. OnGrid(Vscan) /\ Snap(Vscan) = Snap(Multiple(k))
    BY <1>0, <1>1, <1>3, TargetAhead, CoverStep
  <2> QED
    BY <1>0, <2>1
<1> QED
  BY <1>2, <1>3

(* After the target itself the sweep goes for the next multiple, or for      *)
(* VStop in its place.                                                       *)
LEMMA NextTarget ==
  ASSUME IInv, StepKept, GridInv, ConstantStep, BiasSaved, Converged,
         V_retry = <<>>, pc' = "solve"
  PROVE  \E n \in Nat : StandsFor(Vscan', n)
                        /\ \A k \in 0..(n - 1) :
                             \E v \in solved' : Snap(v) = Snap(Multiple(k))
<1> DEFINE s == par.step  b == par.stop
<1>0. /\ par \in Sweeps /\ Vscan \in Int /\ pc = "solve" /\ V_retry \in Seq(Int)
      /\ s \in Int /\ s # 0 /\ b \in Int /\ OnGrid(b)
      /\ VStep = s /\ VStep' = s
      /\ solved' = solved \union {v \in {Vscan} : OnGrid(v)}
      /\ Vscan' = ForceStop(Snap(Vscan + s), s)
      /\ Leq(Vscan', b)
  <2>1. Vscan' \in Int /\ InRange(par, Vscan')
    BY ConvergedType DEF Converged, LoopTest
  <2>2. Leq(Vscan', b)
    BY <2>1, SweepFacts, InRangeSign
  <2>3. VStep = s /\ VStep' = s
    BY StepKeptStep DEF StepKept, Next
  <2> QED
    BY <2>2, <2>3, SweepFacts DEF Converged, NextBias, OnGrid
<1>1. PICK n \in Nat : StandsFor(Vscan, n) /\ CoveredBelow(n)
  BY <1>0 DEF GridInv, Target
<1>2. /\ Multiple(n) \in Int /\ OnGrid(Multiple(n)) /\ Multiple(n + 1) \in Int
      /\ Multiple(n + 1) = Multiple(n) + s
  <2> DEFINE u == n * s  v == (n + 1) * s
  <2>1. n + 1 \in Nat /\ n <= n + 1 /\ v = u + s /\ u \in Int
    BY <1>0
  <2>2. par.start \in Int /\ Multiple(n) = par.start + u /\ Multiple(n + 1) = par.start + v
    BY SweepFacts DEF Multiple
  <2> HIDE DEF u, v
  <2>3. Multiple(n) \in Int /\ OnGrid(Multiple(n)) /\ Multiple(n + 1) \in Int
    BY <1>0, <2>1, MultipleOrder
  <2> QED
    BY <1>0, <2>1, <2>2, <2>3
<1>3. \A k \in 0..(n - 1) : \E v \in solved' : Snap(v) = Snap(Multiple(k))
  BY <1>0, <1>1 DEF CoveredBelow, Multiple
<1>4. CASE Vscan = Multiple(n)
  <2> DEFINE w == Multiple(n + 1)
  <2>1. Vscan' = ForceStop(Snap(w), s) /\ w \in Int
    BY <1>0, <1>2, <1>4
  <2>2. StandsFor(Vscan', n + 1)
    <3>1. CASE Snap(w) = b
      <4>1. Vscan' = b
        BY <1>0, <2>1, <3>1 DEF ForceStop
      <4> QED
        BY <3>1, <4>1 DEF StandsFor, Multiple
    <3>2. CASE Snap(w) # b
      <4>1. Snap(w) = w
        BY <1>0, <2>1, <3>2, SnapEither
      <4>2. CASE Leq(w, b)
        <5>1. Vscan' = w
          BY <1>0, <2>1, <4>1, <4>2, ForceStopFacts
        <5> QED
          BY <5>1 DEF StandsFor, Multiple
      <4>3. CASE ~Leq(w, b)
        <5>1. Vscan' = b \/ Vscan' = w
          BY <2>1, <4>1 DEF ForceStop
        <5>2. Vscan' = b
          BY <1>0, <4>3, <5>1
        <5>3. Before(b, w)
          BY <1>0, <2>1, <4>3 DEF Before, Leq
        <5> QED
          BY <5>2, <5>3 DEF StandsFor, Multiple
      <4> QED
        BY <4>2, <4>3
    <3> QED
      BY <3>1, <3>2
  <2>3. ASSUME NEW k \in 0..((n + 1) - 1)
        PROVE  \E v \in solved' : Snap(v) = Snap(Multiple(k))
    <3>1. k \in 0..(n - 1) \/ k = n
      BY <2>3
    <3>2. Vscan \in solved' /\ Snap(Vscan) = Snap(Multiple(n))
      BY <1>0, <1>2, <1>4
    <3> QED
      BY <1>3, <3>1, <3>2
  <2>4. n + 1 \in Nat
    OBVIOUS
  <2> QED
    BY <2>2, <2>3, <2>4
<1>5. CASE Vscan = b /\ (Snap(Multiple(n)) = b \/ Before(b, Multiple(n)))
  <2> DEFINE w == b + s
  <2>1. w \in Int /\ ~Leq(w, b) /\ Vscan' = ForceStop(Snap(w), s)
    BY <1>0, <1>5 DEF Leq
  <2>2. Vscan' = b
    <3>1. Snap(w) = b => Vscan' = b
      BY <1>0, <2>1 DEF ForceStop
    <3>2. Snap(w) = w \/ Snap(w) = b
      BY <1>0, <2>1, SnapEither
    <3>3. Snap(w) = w => Vscan' = b \/ Vscan' = w
      BY <2>1 DEF ForceStop
    <3> QED
      BY <1>0, <2>1, <3>1, <3>2, <3>3
  <2> QED
    BY <1>3, <1>5, <2>2 DEF StandsFor, Multiple
<1> QED
  BY <1>1, <1>4, <1>5 DEF StandsFor, Multiple

(* What has to be shown of a step that goes on. *)
LEMMA GridInvNext ==
  ASSUME par' = par, DC_Cycles' # 0,
         ConstantStep /\ BiasSaved /\ pc' = "solve" =>
           /\ Snap(Target') = Target'
           /\ \E n \in Nat : /\ StandsFor(Target', n)
                             /\ \A k \in 0..(n - 1) :
                                  \E v \in solved' : Snap(v) = Snap(Multiple(k))
  PROVE  GridInv'
BY DEF GridInv, StandsFor, CoveredBelow, Snap, Before, Leq, Multiple, BiasSaved,
       ConstantStep

(* A stack that is popped keeps its bottom, or was its bottom. *)
LEMMA TailEnd ==
  ASSUME NEW S, NEW q \in Seq(S), q # <<>>
  PROVE  /\ Tail(q) = <<>> => Head(q) = q[Len(q)]
         /\ Tail(q) # <<>> => Tail(q)[Len(Tail(q))] = q[Len(q)]
<1>1. /\ Len(q) \in Nat /\ Len(q) >= 1 /\ Tail(q) \in Seq(S) /\ Len(Tail(q)) = Len(q) - 1
      /\ Head(q) = q[1]
  OBVIOUS
<1>2. Tail(q) = <<>> => Len(q) = 1
  <2>1. Len(<<>>) = 0
    OBVIOUS
  <2>2. Tail(q) = <<>> => Len(Tail(q)) = 0
    BY <2>1, Zenon
  <2> QED
    BY <1>1, <2>2
<1>3. Tail(q) # <<>> => Len(q) - 1 >= 1
  <2>1. Tail(q) # <<>> => Len(Tail(q)) # 0
    BY <1>1
  <2> QED
    BY <1>1, <2>1
<1>4. Len(q) - 1 >= 1 => Tail(q)[Len(q) - 1] = q[Len(q)]
  BY <1>1
<1> QED
  BY <1>1, <1>2, <1>3, <1>4

LEMMA GridConverged ==
  ASSUME IInv, StepKept, GridInv, Converged
  PROVE  GridInv'
<1>0. /\ par \in Sweeps /\ Vscan \in Int /\ V_retry \in Seq(Int) /\ Len(V_retry) \in Nat
      /\ DC_Cycles \in 0..3 /\ pc = "solve" /\ par' = par
      /\ DC_Cycles' = Lesser(DC_Cycles + 1, 3)
      /\ solved \subseteq solved'
      /\ V_retry' = IF V_retry = <<>> THEN <<>> ELSE Tail(V_retry)
  BY SweepFacts DEF Converged, CycleCap
<1>1. DC_Cycles' # 0
  BY <1>0 DEF Lesser
<1> DEFINE Aim ==
      /\ Snap(Target') = Target'
      /\ \E n \in Nat : /\ StandsFor(Target', n)
                        /\ \A k \in 0..(n - 1) :
                             \E v \in solved' : Snap(v) = Snap(Multiple(k))
<1> SUFFICES ASSUME ConstantStep, BiasSaved, pc' = "solve" PROVE Aim
  BY <1>0, <1>1, GridInvNext
<1>2. CASE V_retry = <<>>
  <2>1. Target' = Vscan'
    BY <1>0, <1>2 DEF Target
  <2>2. Snap(Vscan') = Vscan'
    <3>1. NextBias \in Int
      BY <1>0, <1>2, SweepFacts DEF NextBias
    <3>2. Vscan' = par.stop \/ Vscan' = Snap(NextBias)
      BY DEF Converged, ForceStop
    <3>3. Snap(par.stop) = par.stop
      BY <1>0, <3>1, SnapEither
    <3>4. Snap(NextBias) = NextBias \/ Snap(NextBias) = par.stop
      BY <1>0, <3>1, SnapEither
    <3>5. Snap(Snap(NextBias)) = Snap(NextBias)
      BY <3>3, <3>4
    <3> QED
      BY <3>2, <3>3, <3>5
  <2> QED
    BY <1>2, <2>1, <2>2, NextTarget
<1>3. CASE V_retry # <<>>
  <2>1. Target' = Target
    <3>1. V_retry' = Tail(V_retry) /\ Target = V_retry[Len(V_retry)]
      BY <1>0, <1>3 DEF Target
    <3>2. CASE Tail(V_retry) = <<>>
      <4>1. Vscan' = Snap(Head(V_retry)) /\ Head(V_retry) = Target
        BY <1>0, <1>3, <3>1, <3>2, TailEnd, ConvergedBias
      <4>2. Snap(Target) = Target
        BY <1>0, <1>3 DEF GridInv
      <4> QED
        BY <3>1, <3>2, <4>1, <4>2 DEF Target
    <3>3. CASE Tail(V_retry) # <<>>
      <4>1. Tail(V_retry)[Len(Tail(V_retry))] = V_retry[Len(V_retry)]
        BY <1>0, <1>3, <3>3, TailEnd
      <4> QED
        BY <3>1, <3>3, <4>1 DEF Target
    <3> QED
      BY <3>2, <3>3
  <2>2. Snap(Target) = Target
    BY <1>0, <1>3 DEF GridInv
  <2>3. PICK n \in Nat : StandsFor(Target, n) /\ CoveredBelow(n)
    BY <1>0 DEF GridInv
  <2>4. \A k \in 0..(n - 1) : \E v \in solved' : Snap(v) = Snap(Multiple(k))
    BY <1>0, <2>3 DEF CoveredBelow, Multiple
  <2> QED
    BY <2>1, <2>2, <2>3, <2>4
<1> QED
  BY <1>2, <1>3

LEMMA GridRetry ==
  ASSUME IInv, GridInv, Retry
  PROVE  GridInv'
<1>0. /\ par' = par /\ DC_Cycles' = DC_Cycles /\ DC_Cycles # 0 /\ solved' = solved
      /\ V_retry' = <<Vscan>> \o V_retry /\ pc = "solve"
      /\ Vscan \in Int /\ V_retry \in Seq(Int) /\ Len(V_retry) \in Nat
  BY SweepFacts DEF Retry, Pushed
<1>1. Target' = Target
  <2>1. V_retry' # <<>> /\ Len(V_retry') = Len(V_retry) + 1
    BY <1>0
  <2>2. Target' = V_retry'[Len(V_retry) + 1]
    BY <2>1 DEF Target
  <2>3. CASE V_retry = <<>>
    BY <1>0, <2>2, <2>3 DEF Target
  <2>4. CASE V_retry # <<>>
    BY <1>0, <2>2, <2>4 DEF Target
  <2> QED
    BY <2>3, <2>4
<1>2. ConstantStep /\ BiasSaved =>
        /\ Snap(Target) = Target
        /\ \E n \in Nat : StandsFor(Target, n) /\ CoveredBelow(n)
  BY <1>0 DEF GridInv
<1> QED
  BY <1>0, <1>1, <1>2, GridInvNext DEF CoveredBelow, Multiple

(* The invariant of the grid is inductive together with IInv. *)
LEMMA GridInit == Init => StepKept /\ GridInv /\ GridCovered
<1> SUFFICES ASSUME Init PROVE StepKept /\ GridInv /\ GridCovered
  OBVIOUS
<1>1. /\ V_retry = <<>> /\ DC_Cycles = 0 /\ solved = {} /\ Vscan = par.start
      /\ VStep = par.step /\ par.start \in Int /\ par.step \in Int
  BY SweepAssumption DEF Init, SweepType
<1>2. StandsFor(Target, 0) /\ CoveredBelow(0) /\ 0 \in Nat
  BY <1>1 DEF StandsFor, CoveredBelow, Target
<1> QED
  BY <1>1, <1>2 DEF StepKept, GridInv, GridCovered

LEMMA GridStep ==
  ASSUME IInv, StepKept, GridInv, GridCovered, [Next]_vars
  PROVE  GridInv' /\ GridCovered'
<1>1. CASE Converged
  BY <1>1, GridConverged, CoveredConverged
<1>2. CASE Retry
  <2>1. GridCovered'
    BY <1>2 DEF Retry, GridCovered, ConstantStep, BiasSaved, Leq, Snap
  <2> QED
    BY <1>2, <2>1, GridRetry
<1>3. CASE GiveUp
  BY <1>3 DEF GiveUp, GridInv, GridCovered, ConstantStep, BiasSaved, Leq, Snap
<1>4. CASE UNCHANGED vars
  BY <1>4 DEF vars, GridInv, GridCovered, ConstantStep, BiasSaved, Leq, Snap, Target,
              StandsFor, CoveredBelow, Before
<1> QED
  BY <1>1, <1>2, <1>3, <1>4 DEF Next, Finished

(* Retries lose no bias the user asked for: with a constant step, every      *)
(* multiple of it up to the last solved bias was solved, whatever diverged.  *)
THEOREM GridIsCovered == Spec => []GridCovered
<1>1. IInv /\ StepKept /\ GridInv /\ GridCovered /\ [Next]_vars
        => StepKept' /\ GridInv' /\ GridCovered'
  BY StepKeptStep, GridStep
<1> QED
  BY <1>1, GridInit, Invariance, StepInv, PTL DEF Spec
=============================================================================
