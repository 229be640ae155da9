---------------------------- MODULE IVTraceProofs ----------------------------
(***************************************************************************)
(* Proofs about the curve tracer, for every set of traces, every device    *)
(* and every table of load resistances.                                    *)
(***************************************************************************)
EXTENDS IVTrace, Numbers, TLAPS

(* The first point is solved without a load, at VStart unless the electrode  *)
(* has a source.                                                             *)
FirstPointInv ==
  pc = "initial" =>
    /\ first_step /\ R = 0 /\ Rload = 0
    /\ par.source.kind = "none" => Vapp = V

IInv == TypeOK /\ OnLoadLine /\ LimitReached /\ FirstPointInv

PointType == [P : Int, I : Int]

(* What every step starts from. *)
LEMMA Types ==
  ASSUME TypeOK
  PROVE  /\ par \in Traces /\ par \in TraceType
         /\ par.VStart \in Int /\ par.VStop \in Int /\ par.VStep \in Int
         /\ par.R \in Int /\ par.IStop \in Nat
         /\ par.source \in SourceType /\ par.source.value \in Int
         /\ {V, Vapp, R, Rload} \subseteq Int /\ VStep \in Int \ {0}
         /\ V + VStep \in Int
         /\ \A s \in Slopes : Load[s] \in Int
         /\ MaxRecovery \in Nat /\ recovery \in 0..MaxRecovery
<1>1. par \in TraceType
  BY TraceAssumption DEF TypeOK
<1>2. par.R \in Nat /\ par.IStop \in Nat /\ par.VStart \in Int /\ par.VStop \in Int
      /\ par.VStep \in Int /\ par.source \in SourceType
  BY <1>1 DEF TraceType
<1>3. par.source.value \in Int
  BY <1>2 DEF SourceType
<1> QED
  BY <1>1, <1>2, <1>3, TraceAssumption DEF TypeOK

(* A point the device has at the voltage v lies on v's load line, unless the *)
(* electrode is driven by a current.                                         *)
LEMMA PointsOnLine ==
  ASSUME TypeOK, NEW v \in Int, NEW pt \in Points(v)
  PROVE  /\ pt \in PointType
         /\ par.source.kind # "current" => pt.P = v - R * pt.I
<1>1. R \in Int /\ par.source.value \in Int
  BY Types
<1>2. CASE par.source.kind = "current"
  <2>1. PICK p \in Potentials : pt = [P |-> p, I |-> par.source.value]
    BY <1>2 DEF Points
  <2>2. p \in Int
    BY TraceAssumption
  <2> QED
    BY <1>1, <1>2, <2>1, <2>2 DEF PointType
<1>3. CASE par.source.kind # "current"
  <2>1. PICK i \in Currents : pt = [P |-> v - R * i, I |-> i]
    BY <1>3 DEF Points
  <2>2. i \in Int /\ v - R * i \in Int
    BY <1>1, TraceAssumption
  <2> QED
    BY <1>3, <2>1, <2>2 DEF PointType
<1> QED
  BY <1>2, <1>3

(* Scaled and halved steps are steps. *)
LEMMA RoundedPositiveType ==
  ASSUME NEW n \in Int, NEW q \in RoundedPositive(n, 2)
  PROVE  q \in Nat \ {0}
BY DEF RoundedPositive, Rounded, Greater

LEMMA ScaledType ==
  ASSUME NEW s \in Int \ {0}, NEW f \in 1..4, NEW h \in Scaled(s, f)
  PROVE  h \in Int \ {0}
<1>1. f * s \in Int /\ -f * s \in Int
  OBVIOUS
<1>2. CASE s > 0
  BY <1>1, <1>2, RoundedPositiveType DEF Scaled
<1>3. CASE ~(s > 0)
  <2>1. PICK q \in RoundedPositive(-f * s, 2) : h = -q
    BY <1>3 DEF Scaled
  <2>2. q \in Nat \ {0}
    BY <1>1, <2>1, RoundedPositiveType
  <2> QED
    BY <2>1, <2>2
<1> QED
  BY <1>2, <1>3

LEMMA HalfStepType ==
  ASSUME NEW s \in Int \ {0}, NEW h \in HalfStep(s)
  PROVE  h \in Int \ {0}
<1>1. -s \in Int
  OBVIOUS
<1>2. CASE s > 0
  BY <1>2, RoundedPositiveType DEF HalfStep
<1>3. CASE ~(s > 0)
  <2>1. PICK q \in RoundedPositive(-s, 2) : h = -q
    BY <1>3 DEF HalfStep
  <2>2. q \in Nat \ {0}
    BY <1>1, <2>1, RoundedPositiveType
  <2> QED
    BY <2>1, <2>2
<1> QED
  BY <1>2, <1>3

(* The new load line goes through the point that was solved on the old one.  *)
LEMMA LineThroughPoint ==
  ASSUME NEW v \in Int, NEW p \in Int, NEW i \in Int, NEW r \in Int,
         Rload \in Int, p = v - Rload * i
  PROVE  MovedLine(v, i, r) \in Int /\ MovedLine(v, i, r) = p + r * i
<1>1. i * (r - Rload) = r * i - Rload * i /\ Rload * i \in Int /\ r * i \in Int
  OBVIOUS
<1> QED
  BY <1>1 DEF MovedLine

(* The loop test goes on or ends the trace at a limit. *)
LEMMA AfterLoopTest ==
  ASSUME NEW p \in Int, NEW i \in Int, NEW r \in Int, LoopTest(p, i, r)
  PROVE  \/ pc' = "solve" /\ R' = r /\ error' = error
         \/ /\ pc' = "done" /\ R' = par.R /\ error' = 0
            /\ ~(p * par.VStep < par.VStop * par.VStep /\ Abs(i) < par.IStop)
BY DEF LoopTest, Returns

(* A trace begins in the inductive invariant. *)
LEMMA InitInv == Init => IInv
<1> SUFFICES ASSUME Init PROVE IInv
  OBVIOUS
<1>1. par \in TraceType /\ MaxRecovery \in Nat
  BY TraceAssumption DEF Init
<1>2. par.VStart \in Int /\ par.VStep \in Int \ {0} /\ par.source \in SourceType
  BY <1>1 DEF TraceType
<1>3. par.source.value \in Int
  BY <1>2 DEF SourceType
<1>4. TypeOK
  BY <1>1, <1>2, <1>3 DEF Init, TypeOK
<1>5. FirstPointInv
  BY DEF Init, FirstPointInv
<1> QED
  BY <1>4, <1>5 DEF Init, IInv, OnLoadLine, LimitReached

(* The first point. *)
LEMMA InitialPointInv ==
  ASSUME IInv, InitialPoint
  PROVE  IInv'
<1>1. PICK pt \in Points(Vapp) :
        sol' = pt /\ Potential' = pt.P /\ I' = pt.I /\ LoopTest(pt.P, pt.I, R)
  BY DEF InitialPoint
<1>2. /\ pc = "initial" /\ R = 0 /\ Rload = 0 /\ first_step
      /\ par.source.kind = "none" => Vapp = V
      /\ UNCHANGED <<par, V, Rload, slope, VStep, Vapp, first_step, recovery, x>>
  BY DEF IInv, InitialPoint, FirstPointInv, line
<1>3. Vapp \in Int /\ pt \in PointType /\ pt.P \in Int /\ pt.I \in Int /\ R \in Int
  BY <1>1, Types, PointsOnLine DEF IInv, PointType
<1>4. \/ pc' = "solve" /\ R' = R /\ error' = error
      \/ /\ pc' = "done" /\ R' = par.R /\ error' = 0
         /\ ~(pt.P * par.VStep < par.VStop * par.VStep /\ Abs(pt.I) < par.IStop)
  BY <1>1, <1>3, AfterLoopTest
<1>5. TypeOK'
  BY <1>1, <1>2, <1>3, <1>4, Types DEF IInv, TypeOK, PointType
<1>6. OnLoadLine'
  <2>1. par.source.kind = "none" => V = pt.P + R * pt.I
    <3>1. par.source.kind # "current" => pt.P = Vapp - R * pt.I
      BY <1>3, PointsOnLine DEF IInv
    <3>2. R * pt.I \in Int
      BY <1>3
    <3> QED
      BY <1>2, <1>3, <3>1, <3>2
  <2> QED
    BY <1>1, <1>2, <1>4, <2>1 DEF OnLoadLine
<1>7. LimitReached'
  BY <1>1, <1>2, <1>3, <1>4, Types DEF IInv, LimitReached, Abs
<1>8. FirstPointInv'
  BY <1>4 DEF FirstPointInv
<1> QED
  BY <1>5, <1>6, <1>7, <1>8 DEF IInv

(* The first solve fails. *)
LEMMA InitialFailsInv ==
  ASSUME IInv, InitialFails
  PROVE  IInv'
<1>1. /\ pc' = "done" /\ error' = 1 /\ R' = par.R /\ x' = "iterate"
      /\ UNCHANGED <<par, V, Rload, slope, VStep, Vapp, first_step, Potential, I,
                     recovery, sol>>
  BY DEF InitialFails, Returns, line
<1>2. TypeOK'
  BY <1>1, Types DEF IInv, TypeOK
<1> QED
  BY <1>1, <1>2 DEF IInv, OnLoadLine, LimitReached, FirstPointInv

(* A diverged step is taken back. *)
LEMMA StepDivergedInv ==
  ASSUME IInv, StepDiverged
  PROVE  IInv'
<1>1. /\ pc = "solve" /\ Vapp' = V + VStep /\ V' = V /\ VStep' \in HalfStep(VStep)
      /\ x' = "iterate"
      /\ UNCHANGED <<par, Rload, slope, first_step, Potential, I, sol>>
  BY DEF StepDiverged, TakenBack
<1>2. \/ /\ pc' = "done" /\ error' = 1 /\ R' = par.R /\ recovery' = recovery
      \/ /\ pc' = "solve" /\ error' = error /\ R' = R
         /\ recovery' = recovery + 1 /\ ~TooManyRecoveries
  BY <1>1 DEF StepDiverged, Returns
<1>3. recovery' \in 0..MaxRecovery
  BY <1>2, Types DEF IInv, TooManyRecoveries
<1>4. VStep' \in Int \ {0} /\ Vapp' \in Int
  BY <1>1, HalfStepType, Types DEF IInv
<1>5. TypeOK'
  BY <1>1, <1>2, <1>3, <1>4, Types DEF IInv, TypeOK
<1>6. OnLoadLine'
  BY <1>1, <1>2 DEF IInv, OnLoadLine
<1>7. LimitReached' /\ FirstPointInv'
  BY <1>1, <1>2 DEF LimitReached, FirstPointInv
<1> QED
  BY <1>5, <1>6, <1>7 DEF IInv

(* A rejected step is taken back. *)
LEMMA StepRejectedInv ==
  ASSUME IInv, StepRejected
  PROVE  IInv'
<1>1. PICK pt \in Points(V + VStep) :
        /\ Vapp' = V + VStep /\ V' = V /\ VStep' \in HalfStep(VStep)
        /\ Potential' = 0 /\ I' = pt.I /\ LoopTest(0, pt.I, R)
  BY DEF StepRejected, TakenBack, StepAfterRejection
<1>2. /\ pc = "solve" /\ recovery' = 0 /\ x' = "iterate"
      /\ UNCHANGED <<par, Rload, slope, first_step, sol>>
  BY DEF StepRejected
<1>3. V + VStep \in Int /\ pt.I \in Int /\ R \in Int
  <2>1. V + VStep \in Int /\ R \in Int
    BY Types DEF IInv
  <2> QED
    BY <2>1, PointsOnLine DEF IInv, PointType
<1>4. \/ pc' = "solve" /\ R' = R /\ error' = error
      \/ pc' = "done" /\ R' = par.R /\ error' = 0
  BY <1>1, <1>3, AfterLoopTest
<1>5. VStep' \in Int \ {0}
  BY <1>1, HalfStepType, Types DEF IInv
<1>6. TypeOK'
  <2>1. recovery' \in 0..MaxRecovery
    BY <1>2, Types DEF IInv
  <2> QED
    BY <1>1, <1>2, <1>3, <1>4, <1>5, <2>1, Types DEF IInv, TypeOK
<1>7. OnLoadLine'
  BY <1>1, <1>2, <1>4 DEF IInv, OnLoadLine
<1>8. LimitReached' /\ FirstPointInv'
  BY <1>2, <1>4 DEF LimitReached, FirstPointInv
<1> QED
  BY <1>6, <1>7, <1>8 DEF IInv

(* An accepted step: the load line is moved through the new point. *)
LEMMA StepAcceptedInv ==
  ASSUME IInv, StepAccepted
  PROVE  IInv'
<1>1. PICK pt \in Points(V + VStep), s \in Slopes :
        /\ sol' = pt /\ Potential' = pt.P /\ I' = pt.I
        /\ V' = MovedLine(V + VStep, pt.I, Load[s])
        /\ VStep' \in Scaled(VStep, StepFactor(s))
        /\ Rload' = Load[s] /\ slope' = s
        /\ LoopTest(pt.P, pt.I, Load[s])
  BY DEF StepAccepted
<1>2. /\ pc = "solve" /\ Vapp' = V' /\ first_step' = FALSE /\ recovery' = 0
      /\ x' = "solution" /\ par' = par
  BY DEF StepAccepted
<1>3. V + VStep \in Int /\ Load[s] \in Int /\ R \in Int /\ Rload \in Int /\ R = Rload
  BY <1>2, Types DEF IInv, OnLoadLine
<1>4. /\ pt \in PointType /\ pt.P \in Int /\ pt.I \in Int
      /\ par.source.kind # "current" => pt.P = (V + VStep) - R * pt.I
  <2> DEFINE v == V + VStep
  <2>1. v \in Int /\ pt \in Points(v) /\ TypeOK
    BY <1>3 DEF IInv
  <2> HIDE DEF v
  <2>2. /\ pt \in PointType
        /\ par.source.kind # "current" => pt.P = v - R * pt.I
    BY <2>1, PointsOnLine
  <2> QED
    BY <2>2 DEF v, PointType
<1>5. \/ pc' = "solve" /\ R' = Load[s] /\ error' = error
      \/ /\ pc' = "done" /\ R' = par.R /\ error' = 0
         /\ ~(pt.P * par.VStep < par.VStop * par.VStep /\ Abs(pt.I) < par.IStop)
  BY <1>1, <1>3, <1>4, AfterLoopTest
<1>6. StepFactor(s) \in 1..4
  BY DEF StepFactor
<1>7. VStep' \in Int \ {0}
  BY <1>1, <1>6, ScaledType, Types DEF IInv
<1>8. V' \in Int
  <2>1. pt.I * (Load[s] - Rload) \in Int
    BY <1>3, <1>4
  <2> QED
    BY <1>1, <1>3, <2>1 DEF MovedLine
<1>9. TypeOK'
  <2>1. recovery' \in 0..MaxRecovery
    BY <1>2, Types DEF IInv
  <2>2. {V', Vapp', R', Rload'} \subseteq Int
    BY <1>1, <1>2, <1>3, <1>5, <1>8, Types DEF IInv
  <2>3. {Potential', I'} \subseteq Int /\ sol' \in [P : Int, I : Int]
    BY <1>1, <1>4 DEF PointType
  <2>4. error' \in {0, 1} /\ pc' \in {"initial", "solve", "done", "abort"}
    BY <1>5 DEF IInv, TypeOK
  <2>5. /\ par' \in Traces /\ slope' \in Slopes \union {90} /\ first_step' \in BOOLEAN
        /\ x' \in {"solution", "iterate"}
    BY <1>1, <1>2 DEF IInv, TypeOK
  <2> QED
    BY <1>7, <2>1, <2>2, <2>3, <2>4, <2>5 DEF TypeOK
<1>10. OnLoadLine'
  <2>1. par.source.kind # "current" => V' = pt.P + Load[s] * pt.I
    <3> SUFFICES ASSUME par.source.kind # "current"
                 PROVE  V' = pt.P + Load[s] * pt.I
      OBVIOUS
    <3> DEFINE v == V + VStep
    <3>1. v \in Int /\ pt.P = v - Rload * pt.I
      BY <1>3, <1>4
    <3>2. V' = MovedLine(v, pt.I, Load[s])
      BY <1>1
    <3> HIDE DEF v
    <3> QED
      BY <1>3, <1>4, <3>1, <3>2, LineThroughPoint
  <2> QED
    BY <1>1, <1>2, <1>5, <2>1 DEF OnLoadLine
<1>11. LimitReached'
  BY <1>1, <1>2, <1>4, <1>5, Types DEF IInv, LimitReached, Abs
<1>12. FirstPointInv'
  BY <1>5 DEF FirstPointInv
<1> QED
  BY <1>9, <1>10, <1>11, <1>12 DEF IInv

(* A turning point aborts the program. *)
LEMMA TurningPointInv ==
  ASSUME IInv, TurningPoint
  PROVE  IInv'
<1>1. PICK pt \in Points(V + VStep) : sol' = pt /\ Potential' = pt.P /\ I' = pt.I
  BY DEF TurningPoint
<1>2. /\ pc' = "abort" /\ x' = "solution" /\ Vapp' = V + VStep /\ V' = V + VStep
      /\ UNCHANGED <<par, VStep, R, Rload, slope, first_step, recovery, error>>
  BY DEF TurningPoint
<1>3. V + VStep \in Int
  BY Types DEF IInv
<1>4. pt \in [P : Int, I : Int] /\ pt.P \in Int /\ pt.I \in Int
  BY <1>3, PointsOnLine DEF IInv, PointType
<1>5. TypeOK'
  BY <1>1, <1>2, <1>3, <1>4 DEF IInv, TypeOK
<1> QED
  BY <1>2, <1>5 DEF IInv, OnLoadLine, LimitReached, FirstPointInv

(* Every step keeps the inductive invariant. *)
LEMMA StepInv == IInv /\ [Next]_vars => IInv'
<1> SUFFICES ASSUME IInv, [Next]_vars PROVE IInv'
  OBVIOUS
<1>1. CASE UNCHANGED vars
  BY <1>1 DEF vars, line, device, IInv, TypeOK, OnLoadLine, LimitReached, FirstPointInv
<1>2. CASE Finished
  BY <1>1, <1>2 DEF Finished
<1> QED
  BY <1>1, <1>2, InitialPointInv, InitialFailsInv, StepDivergedInv, StepRejectedInv,
     StepAcceptedInv, TurningPointInv DEF Next

(* The inductive invariant of the tracer. *)
THEOREM Invariance == Spec => []IInv
BY InitInv, StepInv, PTL DEF Spec

(* Steps are never zero and recoveries stay within their limit. *)
THEOREM TypeCorrect == Spec => []TypeOK
<1>1. IInv => TypeOK
  BY DEF IInv
<1> QED
  BY <1>1, Invariance, PTL

(* Every step starts on a load line through the stored point, whatever load  *)
(* resistance the slope asks for.                                            *)
THEOREM StepsOnLoadLine == Spec => []OnLoadLine
<1>1. IInv => OnLoadLine
  BY DEF IInv
<1> QED
  BY <1>1, Invariance, PTL

(* A trace that returns gives the electrode its resistance back, and one     *)
(* that returns 0 with an accepted point has reached a limit.                *)
THEOREM TracesReachLimits == Spec => []LimitReached
<1>1. IInv => LimitReached
  BY DEF IInv
<1> QED
  BY <1>1, Invariance, PTL

(* Half a step is no longer than the step, and shorter unless the step is as *)
(* short as the voltages can tell.                                           *)
LEMMA HalfStepShorter ==
  ASSUME NEW s \in Int \ {0}, NEW h \in HalfStep(s)
  PROVE  /\ Abs(h) \in Nat /\ Abs(s) \in Nat
         /\ Abs(h) <= Abs(s) /\ (Abs(s) > 1 => Abs(h) < Abs(s))
<1>1. ASSUME NEW n \in Nat \ {0}, NEW q \in RoundedPositive(n, 2)
      PROVE  q \in Nat \ {0} /\ q <= n /\ (n > 1 => q < n)
  BY <1>1 DEF RoundedPositive, Rounded, Greater
<1>2. CASE s > 0
  <2>1. h \in RoundedPositive(s, 2) /\ s \in Nat \ {0}
    BY <1>2 DEF HalfStep
  <2>2. h \in Nat \ {0} /\ h <= s /\ (s > 1 => h < s)
    BY <1>1, <2>1
  <2> QED
    BY <1>2, <2>2 DEF Abs
<1>3. CASE ~(s > 0)
  <2>1. PICK q \in RoundedPositive(-s, 2) : h = -q
    BY <1>3 DEF HalfStep
  <2>2. -s \in Nat \ {0}
    BY <1>3
  <2>3. q \in Nat \ {0} /\ q <= -s /\ (-s > 1 => q < -s)
    BY <1>1, <2>1, <2>2
  <2> QED
    BY <1>3, <2>1, <2>3 DEF Abs
<1> QED
  BY <1>2, <1>3

(* What the tracer still tries from one point of the curve. *)
Measure == <<Abs(VStep), MaxRecovery - recovery, 0>>

(* From one accepted point to the next the tracer descends, in an order in   *)
(* which nothing descends for ever (DescentEnds): a rejection shortens the   *)
(* step, a divergence does not lengthen it and is counted, provided that     *)
(* steps are not rejected down to the resolution of the voltages.            *)
THEOREM RetriesDescend ==
  Smooth > 0 /\ Spec =>
    [][pc = "solve" /\ pc' = "solve" /\ ~StepAccepted => Descends(Measure', Measure)]_vars
<1> SUFFICES ASSUME Smooth > 0
             PROVE  Spec => [][pc = "solve" /\ pc' = "solve" /\ ~StepAccepted
                                 => Descends(Measure', Measure)]_vars
  OBVIOUS
<1>1. ASSUME IInv, IInv', Next, pc = "solve", pc' = "solve",
             ~StepAccepted, ~UNCHANGED vars
      PROVE  Descends(Measure', Measure)
  <2> DEFINE s == Abs(VStep)  s1 == Abs(VStep')
             room == MaxRecovery - recovery  room1 == MaxRecovery - recovery'
  <2>1. StepDiverged \/ StepRejected
    BY <1>1 DEF Next, InitialPoint, InitialFails, TurningPoint, Finished
  <2>2. VStep \in Int \ {0} /\ VStep' \in HalfStep(VStep)
    BY <1>1, <2>1, Types DEF IInv, StepDiverged, StepRejected, StepAfterRejection
  <2>3. s \in Nat /\ s1 \in Nat /\ s1 <= s /\ (s > 1 => s1 < s)
    BY <2>2, HalfStepShorter
  <2>4. room \in Nat /\ room1 \in Nat
    <3>1. recovery \in 0..MaxRecovery /\ recovery' \in 0..MaxRecovery
      BY <1>1 DEF IInv, TypeOK
    <3>2. \A r \in 0..MaxRecovery : MaxRecovery - r \in Nat
      BY TraceAssumption
    <3> QED
      BY <3>1, <3>2
  <2>5. s1 < s \/ (s1 = s /\ room1 < room)
    <3>1. CASE StepDiverged
      <4>1. recovery' = recovery + 1
        BY <1>1, <3>1 DEF StepDiverged, Returns
      <4>2. recovery \in Nat /\ MaxRecovery \in Nat
        BY <1>1, Types DEF IInv
      <4>3. room1 < room
        BY <4>1, <4>2
      <4> QED
        BY <2>3, <4>3
    <3>2. CASE StepRejected
      <4>1. ~Follows /\ Points(V + VStep) # {}
        BY <3>2 DEF StepRejected
      <4>2. s > 1
        BY <2>3, <4>1, TraceAssumption DEF Follows
      <4> QED
        BY <2>3, <4>2
    <3> QED
      BY <2>1, <3>1, <3>2
  <2>6. Measure = <<s, room, 0>> /\ Measure' = <<s1, room1, 0>>
    BY DEF Measure
  <2> HIDE DEF s, s1, room, room1
  <2> QED
    BY <2>3, <2>4, <2>5, <2>6 DEF Descends, Triples
<1>2. IInv /\ IInv' /\ [Next]_vars =>
        [pc = "solve" /\ pc' = "solve" /\ ~StepAccepted => Descends(Measure', Measure)]_vars
  BY <1>1
<1> QED
  BY <1>2, InitInv, StepInv, PTL DEF Spec
=============================================================================
