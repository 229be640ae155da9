---------------------------- MODULE MixOpProofs -----------------------------
(***************************************************************************)
(* Proofs about the mixed-mode operating points, for every set of cards,   *)
(* any number of cards in a session, retry limit and resolution of the     *)
(* ramp.                                                                   *)
(***************************************************************************)
EXTENDS MixOp, Numbers, TLAPS

(* The ramp's steps are whole units. *)
WholeUnits == \E q \in 1..Full : rampup_steps * q = Full

(* Where the ramp is, and how often it diverged. *)
RampInv == pc = "ramp" => step <= rampup_steps /\ retry <= MaxRetry

(* What a ramp that did not give up hands over to the lowering of gmin. *)
RampDone ==
  pc = "gmin" /\ ~gave_up =>
    sources = Full /\ device.sources = Full /\ device.card = card /\ rhs_old = device

(* A card whose large gmin is less than the user's leaves it set.            *)
LowGminKept ==
  card > 0 /\ par.GminInit < par.Gmin => gmin = par.GminInit

(* How far gmin has come. *)
GminInv ==
  /\ pc = "ramp" => gmin = par.GminInit
  /\ pc = "gmin" => gmin > par.Gmin /\ par.GminInit > par.Gmin
  /\ LowGminKept

(* Only a diverged iteration belongs to no card. *)
DeviceSolved == device.card >= 0

IInv ==
  /\ TypeOK /\ RampAnchored /\ PartiesAgree /\ SourcesReached /\ GminScaledBack
  /\ WholeUnits /\ RampInv /\ RampDone /\ GminInv /\ DeviceSolved

(* A step of the ramp is a whole number of units. *)
LEMMA LevelExact ==
  ASSUME NEW n \in Nat \ {0}, NEW q \in Nat, NEW s \in Nat
  PROVE  (n * q * s) \div n = q * s
<1> DEFINE L == (n * q * s) \div n
           d == q * s - L
<1>1. n * q * s \in Nat /\ q * s \in Nat
  OBVIOUS
<1>2. L \in Int /\ n * L <= n * q * s /\ n * q * s < n * L + n
  BY <1>1
<1>3. d \in Int
  BY <1>1, <1>2
<1>4. n * d = n * q * s - n * L
  BY <1>1, <1>2
<1>5. 0 <= n * d /\ n * d < n
  <2>1. n * L \in Int
    BY <1>2
  <2> QED
    BY <1>1, <1>2, <1>4, <2>1
<1> HIDE DEF d, L
<1>6. d = 0
  <2>1. CASE d >= 1
    <3>1. n * d >= n
      BY <2>1, <1>3
    <3> QED
      BY <3>1, <1>3, <1>5
  <2>2. CASE d <= -1
    <3>1. n * d <= -n
      BY <2>2, <1>3
    <3> QED
      BY <3>1, <1>3, <1>5
  <2> QED
    BY <2>1, <2>2, <1>3
<1> QED
  BY <1>1, <1>2, <1>6 DEF d, L

(* A divisor is no larger than what it divides. *)
LEMMA DivisorType ==
  ASSUME NEW n \in Nat \ {0}, NEW q \in Nat \ {0}
  PROVE  n <= n * q
<1>1. q - 1 \in Nat /\ n * q = n * (q - 1) + n
  OBVIOUS
<1>2. n * (q - 1) >= 0
  BY <1>1
<1> QED
  BY <1>1, <1>2

(* The number of steps of a ramp, and its first step. *)
LEMMA FirstStep ==
  ASSUME NEW n \in Nat \ {0}, \E q \in 1..Full : n * q = Full
  PROVE  n \in 1..Full /\ 1 \in 1..(n + 1) /\ n * 0 = Full * (1 - 1) /\ 1 <= n
<1>1. PICK q \in 1..Full : n * q = Full
  OBVIOUS
<1>2. Full \in Nat \ {0} /\ q \in Nat \ {0}
  BY CardAssumption
<1>3. n <= Full
  BY <1>1, <1>2, DivisorType
<1> QED
  BY <1>2, <1>3

(* What the steps of the ramp start from. *)
LEMMA Types ==
  ASSUME TypeOK
  PROVE  /\ par \in Cards /\ par \in CardType /\ par.GminInit \in Int /\ par.Gmin \in Int
         /\ {MaxCards, MaxRetry, Decades, Full} \subseteq Nat \ {0}
         /\ card \in 0..MaxCards /\ step \in Nat \ {0} /\ rampup_steps \in Nat \ {0}
         /\ retry \in Nat /\ gmin \in Int /\ sources \in 0..Full
         /\ device.card \in Int /\ device.sources \in Int /\ device.gmin \in Int
BY CardAssumption DEF TypeOK, CardType, PointType

(* While the ramp runs its level is a whole number of units, all of them at  *)
(* the last step.                                                            *)
LEMMA LevelType ==
  ASSUME IInv, pc = "ramp"
  PROVE  /\ Level \in 0..Full
         /\ rampup_steps * Level = Full * step
         /\ step = rampup_steps => Level = Full
<1>1. PICK q \in 1..Full : rampup_steps * q = Full
  BY DEF IInv, WholeUnits
<1>2. q \in Nat /\ Full \in Nat /\ step \in Nat \ {0} /\ rampup_steps \in Nat \ {0}
  BY Types DEF IInv
<1>3. step <= rampup_steps
  BY DEF IInv, RampInv
<1>4. Level = q * step
  <2>1. Full * step = rampup_steps * q * step
    BY <1>1
  <2> QED
    BY <2>1, <1>2, LevelExact DEF Level
<1>5. rampup_steps * (q * step) = Full * step
  BY <1>1, <1>2
<1>6. q * step \in Nat /\ q * step <= q * rampup_steps /\ q * rampup_steps = Full
  <2>1. rampup_steps = step + (rampup_steps - step) /\ rampup_steps - step \in Nat
    BY <1>2, <1>3
  <2>2. q * rampup_steps = q * step + q * (rampup_steps - step)
    BY <2>1, <1>2
  <2>3. q * (rampup_steps - step) \in Nat /\ q * step \in Nat
    BY <2>1, <1>2
  <2> QED
    BY <1>1, <1>2, <2>2, <2>3
<1> QED
  BY <1>2, <1>4, <1>5, <1>6

(* The session starts in the inductive invariant. *)
LEMMA InitInv == Init => IInv
<1> SUFFICES ASSUME Init PROVE IInv
  OBVIOUS
<1>1. par \in CardType /\ {MaxCards, MaxRetry, Full} \subseteq Nat \ {0}
  BY CardAssumption DEF Init
<1>2. Start \in PointType
  BY <1>1 DEF Start, Point, PointType
<1>3. TypeOK
  <2>1. rampup_steps \in 1..Full /\ step \in 1..(rampup_steps + 1)
    BY <1>1 DEF Init
  <2>2. card \in 0..MaxCards /\ retry \in 0..(MaxRetry + 1) /\ sources \in 0..Full
    BY <1>1 DEF Init
  <2>3. par \in Cards /\ gmin \in Int
    BY <1>1 DEF Init, CardType
  <2> QED
    BY <1>2, <2>1, <2>2, <2>3 DEF Init, TypeOK
<1>4. PartiesAgree /\ DeviceSolved
  BY DEF Init, PartiesAgree, DeviceSolved, Start, Point
<1>5. WholeUnits
  BY <1>1 DEF Init, WholeUnits
<1> QED
  BY <1>3, <1>4, <1>5
  DEF Init, IInv, RampAnchored, SourcesReached, GminScaledBack, RampInv, RampDone,
      GminInv, LowGminKept

(* A card's start keeps it: nothing is solved yet. *)
LEMMA StartCardInv ==
  ASSUME IInv, StartCard
  PROVE  IInv'
<1>1. card' \in 1..MaxCards /\ par' \in Cards /\ par' \in CardType
  BY Types, CardAssumption DEF IInv, StartCard
<1>2. \E q \in 1..Full : rampup_steps' * q = Full
  BY <1>1, CardAssumption DEF StartCard
<1>3. /\ rampup_steps' \in 1..Full /\ 1 \in 1..(rampup_steps' + 1)
      /\ rampup_steps' * 0 = Full * (1 - 1) /\ 1 <= rampup_steps'
  <2>1. rampup_steps' \in Nat \ {0}
    BY <1>1 DEF StartCard, CardType
  <2> QED
    BY <1>2, <2>1, FirstStep
<1>4. TypeOK'
  <2>1. /\ step' = 1 /\ retry' = 0 /\ solves' = FALSE /\ gave_up' = FALSE
        /\ sources' = Full /\ gmin' = par'.GminInit /\ pc' = "ramp"
        /\ device' = device /\ rhs_old' = rhs_old /\ solution' = solution
    BY DEF StartCard, circuit
  <2>2. step' \in 1..(rampup_steps' + 1)
    BY <2>1, <1>3
  <2>3. retry' \in 0..(MaxRetry + 1) /\ sources' \in 0..Full
    BY <2>1, CardAssumption
  <2>4. gmin' \in Int
    BY <1>1, <2>1 DEF CardType
  <2>5. /\ card' \in 0..MaxCards
        /\ {device', rhs_old', solution'} \subseteq PointType
    BY <1>1, <2>1, CardAssumption DEF IInv, TypeOK
  <2> QED
    BY <1>1, <1>3, <2>1, <2>2, <2>3, <2>4, <2>5 DEF TypeOK
<1>5. RampAnchored'
  <2>1. step' = 1 /\ solves' = FALSE
    BY DEF StartCard
  <2> QED
    BY <1>3, <2>1 DEF RampAnchored
<1>6. PartiesAgree' /\ DeviceSolved'
  BY DEF IInv, StartCard, PartiesAgree, DeviceSolved, circuit
<1>7. RampInv'
  BY <1>3, CardAssumption DEF StartCard, RampInv
<1> QED
  BY <1>2, <1>4, <1>5, <1>6, <1>7
  DEF IInv, StartCard, SourcesReached, GminScaledBack, WholeUnits, RampDone, GminInv,
      LowGminKept

(* A solved step of the ramp. *)
LEMMA RampSolvedInv ==
  ASSUME IInv, RampSolved
  PROVE  IInv'
<1>1. pc = "ramp" /\ step <= rampup_steps /\ gmin = par.GminInit
  BY DEF IInv, RampSolved, RampInv, GminInv
<1>2. /\ Level \in 0..Full /\ rampup_steps * Level = Full * step
      /\ step = rampup_steps => Level = Full
  BY <1>1, LevelType
<1>3. card \in 0..MaxCards /\ step \in Nat \ {0} /\ rampup_steps \in 1..Full
      /\ gmin \in Int /\ par.Gmin \in Int /\ par.GminInit \in Int
  BY Types DEF IInv, TypeOK
<1>4. Point(card, Level, gmin) \in PointType
  BY <1>2, <1>3 DEF Point, PointType
<1>5. pc' \in {"ramp", "gmin", "idle"}
  BY DEF RampSolved, GminTest
<1>6. TypeOK'
  BY <1>1, <1>2, <1>3, <1>4, <1>5, CardAssumption DEF IInv, RampSolved, Kept, TypeOK
<1>7. /\ device' = Point(card, Level, gmin) /\ rhs_old' = device' /\ solution' = device'
      /\ device'.card = card /\ device'.sources = Level /\ device'.gmin = gmin
  BY DEF RampSolved, Kept, Point
<1>8. RampAnchored'
  <2>1. /\ rampup_steps' = rampup_steps /\ card' = card /\ step' = step + 1
        /\ solves' = TRUE /\ gmin' = gmin
    BY DEF RampSolved
  <2>2. step' - 1 = step
    BY <1>3, <2>1
  <2>3. rampup_steps' * device'.sources = Full * (step' - 1)
    BY <1>2, <1>7, <2>1, <2>2
  <2> QED
    BY <1>7, <2>1, <2>3 DEF RampAnchored
<1>9. PartiesAgree' /\ DeviceSolved'
  BY <1>3, <1>7 DEF PartiesAgree, DeviceSolved
<1>10. pc' # "ramp" => Level = Full
  BY <1>1, <1>2, <1>3 DEF RampSolved, MoreSteps
<1>11. RampInv' /\ RampDone' /\ SourcesReached'
  <2>1. /\ rampup_steps' = rampup_steps /\ card' = card /\ retry' = 0
        /\ sources' = Level /\ step' = step + 1
        /\ pc' = "ramp" => step' <= rampup_steps
    BY DEF RampSolved, MoreSteps, GminTest
  <2>2. RampInv'
    BY <2>1, CardAssumption DEF RampInv
  <2> QED
    BY <1>7, <1>10, <2>1, <2>2 DEF RampDone, SourcesReached
<1>12. GminInv' /\ GminScaledBack'
  BY <1>1, <1>3, <1>7
  DEF IInv, RampSolved, GminTest, GminInv, LowGminKept, GminScaledBack
<1>13. WholeUnits'
  BY DEF IInv, RampSolved, WholeUnits
<1> QED
  BY <1>6, <1>8, <1>9, <1>11, <1>12, <1>13 DEF IInv

(* A diverged step that is halved: twice as many steps, from the same place. *)
LEMMA RampDivergedInv ==
  ASSUME IInv, RampDiverged
  PROVE  IInv'
<1>1. /\ pc = "ramp" /\ pc' = "ramp" /\ step <= rampup_steps
      /\ gmin' = gmin /\ par' = par /\ device' = device /\ card' = card
      /\ step' = 2 * step - 1 /\ rampup_steps' = 2 * rampup_steps
      /\ rhs_old' = solution /\ solution' = solution /\ retry' = retry + 1
      /\ solves' = solves /\ sources' = Level /\ gave_up' = gave_up
  BY DEF IInv, RampDiverged, Halved, Recovered, RampInv
<1>2. Level \in 0..Full
  BY <1>1, LevelType
<1>3. step \in Nat \ {0} /\ rampup_steps \in Nat \ {0} /\ retry \in Nat
      /\ Full \in Nat \ {0} /\ MaxRetry \in Nat /\ device.sources \in Int
  BY Types DEF IInv
<1>4. PICK q \in 1..Full : 2 * rampup_steps * q = Full
  BY DEF RampDiverged, MayDiverge
<1>5. rampup_steps' \in 1..Full
  <2>1. 2 * rampup_steps * q = 2 * rampup_steps * (q - 1) + 2 * rampup_steps
    BY <1>3, <1>4
  <2>2. 2 * rampup_steps * (q - 1) \in Nat
    BY <1>3, <1>4
  <2> QED
    BY <1>1, <1>3, <1>4, <2>1, <2>2
<1>6. WholeUnits'
  BY <1>1, <1>4 DEF WholeUnits
<1>7. retry' <= MaxRetry
  BY <1>1, <1>3 DEF RampDiverged, RetryLeft
<1>8. TypeOK'
  <2>1. step' \in 1..(rampup_steps' + 1) /\ retry' \in 0..(MaxRetry + 1)
    BY <1>1, <1>3, <1>7
  <2> QED
    BY <1>1, <1>2, <1>5, <2>1 DEF IInv, TypeOK
<1>9. RampAnchored'
  <2> DEFINE d == IF solves THEN device.sources ELSE 0
  <2>1. d \in Int /\ rampup_steps * d = Full * (step - 1)
    BY <1>1, <1>3 DEF IInv, RampAnchored
  <2>2. 2 * rampup_steps * d = 2 * (Full * (step - 1))
    <3> HIDE DEF d
    <3> QED
      BY <1>3, <2>1
  <2>3. 2 * (Full * (step - 1)) = Full * (2 * step - 1 - 1)
    BY <1>3
  <2> QED
    BY <1>1, <2>2, <2>3 DEF IInv, RampAnchored
<1>10. PartiesAgree' /\ DeviceSolved'
  BY <1>1 DEF IInv, PartiesAgree, DeviceSolved
<1>11. RampInv'
  BY <1>1, <1>3, <1>7 DEF RampInv
<1> QED
  BY <1>1, <1>6, <1>8, <1>9, <1>10, <1>11
  DEF IInv, SourcesReached, GminScaledBack, RampDone, GminInv, LowGminKept

(* The ramp given up: the circuit keeps its diverged values. *)
LEMMA RampGiveUpInv ==
  ASSUME IInv, RampGiveUp
  PROVE  IInv'
<1>1. /\ pc = "ramp" /\ retry <= MaxRetry /\ pc' = GminTest(gmin)
      /\ UNCHANGED <<par, card, step, rampup_steps, solves, gmin, device, solution>>
      /\ gave_up' = TRUE /\ rhs_old' = Diverged /\ retry' = retry + 1 /\ sources' = Level
  BY DEF IInv, RampGiveUp, RampInv
<1>2. Level \in 0..Full
  BY <1>1, LevelType
<1>3. Diverged \in PointType /\ Diverged.card = -1
  BY CardAssumption DEF Diverged, Point, PointType
<1>4. pc' \in {"gmin", "idle"}
  BY <1>1 DEF GminTest
<1>5. retry' \in 0..(MaxRetry + 1)
  BY <1>1, Types DEF IInv
<1>6. TypeOK'
  BY <1>1, <1>2, <1>3, <1>4, <1>5 DEF IInv, TypeOK
<1>7. rhs_old' # device' /\ DeviceSolved'
  BY <1>1, <1>3 DEF IInv, DeviceSolved
<1>8. PartiesAgree' /\ SourcesReached' /\ RampDone' /\ GminScaledBack'
  BY <1>1, <1>7 DEF IInv, PartiesAgree, SourcesReached, RampDone, GminScaledBack
<1>9. GminInv'
  BY <1>1, Types DEF IInv, GminInv, LowGminKept, GminTest
<1>10. WholeUnits' /\ RampInv' /\ RampAnchored'
  BY <1>1, <1>4 DEF IInv, WholeUnits, RampInv, RampAnchored
<1> QED
  BY <1>6, <1>7, <1>8, <1>9, <1>10 DEF IInv

(* A lower gmin solved. *)
LEMMA GminSolvedInv ==
  ASSUME IInv, GminSolved
  PROVE  IInv'
<1>1. /\ pc = "gmin" /\ gmin' = LowerGmin /\ pc' = GminTest(gmin')
      /\ UNCHANGED <<par, card, step, rampup_steps, retry, solves, sources, gave_up>>
      /\ device' = Point(card, sources, gmin') /\ rhs_old' = device'
      /\ solution' = device'
  BY DEF GminSolved, Kept, ramp
<1>2. /\ gmin \in Int /\ par.Gmin \in Int /\ par.GminInit \in Int /\ Decades \in Nat
      /\ card \in 0..MaxCards /\ sources \in 0..Full
      /\ gmin > par.Gmin /\ par.GminInit > par.Gmin
  BY <1>1, Types DEF IInv, GminInv
<1>3. gmin' \in Int /\ gmin' >= par.Gmin
  BY <1>1, <1>2 DEF LowerGmin, Greater
<1>4. device' \in PointType /\ device'.card = card /\ device'.sources = sources
      /\ device'.gmin = gmin'
  BY <1>1, <1>2, <1>3, CardAssumption DEF Point, PointType
<1>5. pc' \in {"gmin", "idle"}
  BY <1>1 DEF GminTest
<1>6. TypeOK'
  BY <1>1, <1>3, <1>4, <1>5 DEF IInv, TypeOK
<1>7. PartiesAgree' /\ DeviceSolved'
  BY <1>1, <1>2, <1>4 DEF PartiesAgree, DeviceSolved
<1>8. SourcesReached' /\ RampDone'
  BY <1>1, <1>4 DEF IInv, SourcesReached, RampDone
<1>9. GminInv' /\ GminScaledBack'
  BY <1>1, <1>2, <1>3, <1>4, <1>5
  DEF GminInv, LowGminKept, GminScaledBack, GminTest
<1>10. WholeUnits' /\ RampInv' /\ RampAnchored'
  BY <1>1, <1>5 DEF IInv, WholeUnits, RampInv, RampAnchored
<1> QED
  BY <1>6, <1>7, <1>8, <1>9, <1>10 DEF IInv

(* A lower gmin that diverged: the card ends with the values it had. *)
LEMMA GminDivergedInv ==
  ASSUME IInv, GminDiverged
  PROVE  IInv'
<1>1. /\ pc = "gmin" /\ gmin' = LowerGmin /\ pc' = "idle" /\ rhs_old' = Diverged
      /\ UNCHANGED <<par, card, step, rampup_steps, retry, solves, sources, device,
                     solution, gave_up>>
  BY DEF GminDiverged, ramp
<1>2. Diverged \in PointType /\ Diverged.card = -1
  BY CardAssumption DEF Diverged, Point, PointType
<1>3. gmin' \in Int
  BY <1>1, Types DEF IInv, LowerGmin, Greater
<1>4. TypeOK'
  BY <1>1, <1>2, <1>3 DEF IInv, TypeOK
<1>5. rhs_old' # device' /\ DeviceSolved'
  BY <1>1, <1>2 DEF IInv, DeviceSolved
<1>6. PartiesAgree' /\ SourcesReached' /\ RampDone' /\ GminScaledBack'
  BY <1>1, <1>5 DEF IInv, PartiesAgree, SourcesReached, RampDone, GminScaledBack
<1>7. GminInv' /\ WholeUnits' /\ RampInv' /\ RampAnchored'
  BY <1>1, Types DEF IInv, GminInv, LowGminKept, WholeUnits, RampInv, RampAnchored
<1> QED
  BY <1>4, <1>5, <1>6, <1>7 DEF IInv

(* Every step keeps the inductive invariant. *)
LEMMA StepInv == IInv /\ [Next]_vars => IInv'
<1> SUFFICES ASSUME IInv, [Next]_vars PROVE IInv'
  OBVIOUS
<1>1. CASE UNCHANGED vars
  BY <1>1
  DEF vars, ramp, circuit, IInv, TypeOK, RampAnchored, PartiesAgree, SourcesReached,
      GminScaledBack, WholeUnits, RampInv, RampDone, GminInv, LowGminKept, DeviceSolved
<1>2. CASE Finished
  BY <1>1, <1>2 DEF Finished
<1> QED
  BY <1>1, <1>2, StartCardInv, RampSolvedInv, RampDivergedInv, RampGiveUpInv,
     GminSolvedInv, GminDivergedInv DEF Next

(* The inductive invariant of a session of operating points. *)
THEOREM Invariance == Spec => []IInv
BY InitInv, StepInv, PTL DEF Spec

(* The counters, the ramp's steps and its level stay in their ranges: all    *)
(* levels are whole parts of the sources' values.                            *)
THEOREM TypeCorrect == Spec => []TypeOK
<1>1. IInv => TypeOK
  BY DEF IInv
<1> QED
  BY <1>1, Invariance, PTL

(* The ramp goes on one step from the fraction last solved, however often    *)
(* its number of steps was doubled.                                          *)
THEOREM RampStepsAnchored == Spec => []RampAnchored
<1>1. IInv => RampAnchored
  BY DEF IInv
<1> QED
  BY <1>1, Invariance, PTL

(* Device and circuit hold the same operating point. *)
THEOREM PartiesStayTogether == Spec => []PartiesAgree
<1>1. IInv => PartiesAgree
  BY DEF IInv
<1> QED
  BY <1>1, Invariance, PTL

(* A card that does not give up leaves the sources at their values. *)
THEOREM SourcesComeBack == Spec => []SourcesReached
<1>1. IInv => SourcesReached
  BY DEF IInv
<1> QED
  BY <1>1, Invariance, PTL

(* A card that starts with at least the user's gmin and ends with a solution *)
(* ends with the user's gmin, in the circuit and in the solution.            *)
THEOREM GminComesBack == Spec => []GminScaledBack
<1>1. IInv => GminScaledBack
  BY DEF IInv
<1> QED
  BY <1>1, Invariance, PTL

(* Where gmin starts below the user's value, nothing brings the circuit to   *)
(* it: while(gmin > gmin_user) is not entered, although the comment above    *)
(* that loop promises to scale gmin back to the user's value.                *)
THEOREM LowGminStays == Spec => []LowGminKept
<1>1. IInv => LowGminKept
  BY DEF IInv, GminInv
<1> QED
  BY <1>1, Invariance, PTL

(* What a card still has to do: the phases of its driver, then the sources   *)
(* still to be ramped or the decades gmin still has to fall, then the        *)
(* retries left in the ramp.                                                 *)
PhasesLeft == CASE pc = "ramp" -> 2 [] pc = "gmin" -> 1 [] OTHER -> 0

RampedTo == IF solves THEN device.sources ELSE 0

StepsLeft == CASE pc = "ramp" -> Full - RampedTo [] pc = "gmin" -> gmin - par.Gmin
               [] OTHER -> 0

TriesLeft == IF pc = "ramp" THEN MaxRetry - retry ELSE 0

Measure == <<PhasesLeft, StepsLeft, TriesLeft>>

LEMMA MeasureType == IInv => Measure \in Triples
<1> SUFFICES ASSUME IInv PROVE Measure \in Triples
  OBVIOUS
<1>1. PhasesLeft \in Nat
  BY DEF PhasesLeft
<1>2. StepsLeft \in Nat
  <2>1. RampedTo \in 0..Full /\ Full \in Nat
    BY Types DEF IInv, TypeOK, RampedTo, PointType
  <2>2. pc = "gmin" => gmin - par.Gmin \in Nat
    BY Types DEF IInv, GminInv
  <2> HIDE DEF RampedTo
  <2> QED
    BY <2>1, <2>2 DEF StepsLeft
<1>3. TriesLeft \in Nat
  BY Types DEF IInv, RampInv, TriesLeft
<1> QED
  BY <1>1, <1>2, <1>3 DEF Measure, Triples

(* A solved step of the ramp reaches further than the one before. *)
LEMMA RampReachesFurther ==
  ASSUME IInv, pc = "ramp"
  PROVE  RampedTo < Level
<1>1. /\ rampup_steps \in Nat \ {0} /\ step \in Nat /\ Full \in Nat \ {0}
      /\ Level \in Nat /\ RampedTo \in Nat
  BY Types, LevelType DEF IInv, TypeOK, PointType, RampedTo
<1>2. rampup_steps * Level = Full * step /\ rampup_steps * RampedTo = Full * (step - 1)
  BY LevelType DEF IInv, RampAnchored, RampedTo
<1> DEFINE n == rampup_steps  a == Level  b == RampedTo  s == step
<1>3. n * b < n * a
  <2>1. Full * s = Full * (s - 1) + Full
    BY <1>1
  <2>2. n * a \in Int /\ n * b \in Int /\ Full * (s - 1) \in Int
    BY <1>1
  <2> QED
    BY <1>1, <1>2, <2>1, <2>2
<1> HIDE DEF n, a, b, s
<1>4. n \in Int /\ n > 0 /\ a \in Int /\ b \in Int
  BY <1>1 DEF n, a, b
<1>5. a <= b => a * n <= b * n
  BY <1>4, MulMono
<1>6. a * n = n * a /\ b * n = n * b /\ n * a \in Int /\ n * b \in Int
  BY <1>4
<1>7. b < a
  BY <1>3, <1>4, <1>5, <1>6
<1> QED
  BY <1>7 DEF a, b

(* A step of a card's driver enters a later phase, raises the sources or     *)
(* lowers gmin, or it uses up a retry.                                       *)
LEMMA MeasureDescends ==
  ASSUME IInv, IInv', Next, pc # "idle"
  PROVE  \/ PhasesLeft' < PhasesLeft
         \/ PhasesLeft' = PhasesLeft /\ StepsLeft' < StepsLeft
         \/ /\ PhasesLeft' = PhasesLeft /\ StepsLeft' = StepsLeft
            /\ TriesLeft' < TriesLeft
<1>1. CASE RampSolved
  <2>1. pc = "ramp" /\ device'.sources = Level /\ solves' = TRUE
    BY <1>1 DEF RampSolved, Kept, Point
  <2>2. CASE pc' = "ramp"
    <3>1. StepsLeft' = Full - Level /\ StepsLeft = Full - RampedTo
      BY <2>1, <2>2 DEF StepsLeft, RampedTo
    <3>2. RampedTo < Level /\ Full \in Nat /\ Level \in Nat /\ RampedTo \in Nat
      BY <2>1, RampReachesFurther, LevelType, Types
      DEF IInv, TypeOK, PointType, RampedTo
    <3>3. StepsLeft' < StepsLeft
      BY <3>1, <3>2
    <3> QED
      BY <2>1, <2>2, <3>3 DEF PhasesLeft
  <2>3. CASE pc' # "ramp"
    BY <2>1, <2>3 DEF PhasesLeft
  <2> QED
    BY <2>2, <2>3
<1>2. CASE RampDiverged
  <2>1. /\ pc = "ramp" /\ pc' = "ramp" /\ device' = device /\ solves' = solves
        /\ retry' = retry + 1
    BY <1>2 DEF RampDiverged, Recovered
  <2>2. TriesLeft' < TriesLeft
    BY <2>1, Types DEF IInv, TriesLeft
  <2> QED
    BY <2>1, <2>2 DEF PhasesLeft, StepsLeft, RampedTo
<1>3. CASE RampGiveUp
  BY <1>3 DEF RampGiveUp, GminTest, PhasesLeft
<1>4. CASE GminSolved
  <2>1. pc = "gmin" /\ gmin' = LowerGmin /\ par' = par /\ gmin > par.Gmin
    BY <1>4 DEF GminSolved, IInv, GminInv
  <2>2. gmin' < gmin /\ gmin' \in Int
    BY <2>1, Types DEF IInv, LowerGmin, Greater
  <2>3. pc' \in {"gmin", "idle"}
    BY <1>4 DEF GminSolved, GminTest
  <2>4. pc' = "gmin" => StepsLeft' < StepsLeft
    BY <2>1, <2>2, Types DEF IInv, StepsLeft
  <2> QED
    BY <2>1, <2>3, <2>4 DEF PhasesLeft
<1>5. CASE GminDiverged
  BY <1>5 DEF GminDiverged, PhasesLeft
<1> QED
  BY <1>1, <1>2, <1>3, <1>4, <1>5 DEF Next, StartCard, Finished

(* Every operating point ends: each step of its driver descends, in an order *)
(* in which nothing descends for ever (DescentEnds), whichever solves        *)
(* diverge.                                                                  *)
THEOREM CardsDescend ==
  Spec => [][pc # "idle" => Descends(Measure', Measure)]_vars
<1>1. (IInv => Measure \in Triples)'
  BY MeasureType, PTL
<1>2. IInv /\ IInv' /\ [Next]_vars =>
        [pc # "idle" => Descends(Measure', Measure)]_vars
  <2> SUFFICES ASSUME IInv, IInv', Next, pc # "idle"
               PROVE  Descends(Measure', Measure)
    OBVIOUS
  <2>1. Measure \in Triples /\ Measure' \in Triples
    BY <1>1, MeasureType
  <2>2. /\ Measure[1] = PhasesLeft /\ Measure'[1] = PhasesLeft'
        /\ Measure[2] = StepsLeft /\ Measure'[2] = StepsLeft'
        /\ Measure[3] = TriesLeft /\ Measure'[3] = TriesLeft'
    BY DEF Measure
  <2> QED
    BY <2>1, <2>2, MeasureDescends DEF Descends
<1> QED
  BY <1>2, InitInv, StepInv, PTL DEF Spec
=============================================================================
