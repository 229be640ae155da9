--------------------------- MODULE OpPointProofs ----------------------------
(***************************************************************************)
(* Proofs about the static drivers, for every set of SOLVE cards, every    *)
(* retry limit and every resolution of the ramp.                           *)
(***************************************************************************)
EXTENDS OpPoint, Numbers, TLAPS

(* The bias a card asks for. *)
Asked(c) == IF c.type = "EQUILIBRIUM" THEN Ground ELSE Target(c)

(* Which driver is in which phase, and what it has set up by then. *)
PhaseInv ==
  /\ pc \in {"ramp", "drive", "metal"} => card.type = "OP"
  /\ pc = "steady" => card.type = "STEADYSTATE"
  /\ pc = "solve" => card.type # "OP" /\ bias = Asked(card)
  /\ pc \in {"solve", "ramp", "steady"} => ierr = 0
  /\ InPseudoTime => bias = Target(card)
  /\ pc \notin {"ramp", "drive"} => metal = "material"
  /\ pc \in {"solve", "steady"} => ~tran_histroy

(* What has been solved: the whole ramp after it ended well, and in a pseudo *)
(* time iteration of its own either the card's bias or nothing at all, every *)
(* iteration so far being a divergence.                                      *)
ProgressInv ==
  /\ pc \in {"drive", "metal"} /\ ierr = 0 => sol = Target(card)
  /\ pc = "steady" => sol = Target(card) \/ k = diverged_retry + 1

(* A ramp step starts at no negative bias. *)
RampInv == pc = "ramp" => dstep <= step

(* What the solution vector holds where it is not loaded from the nodes. *)
VectorInv ==
  /\ pc = "ramp" /\ t_cycles = 1 => x = "solution"
  /\ InPseudoTime /\ k > 1 => x = "solution"

IInv == TypeOK /\ RampAnchored /\ PhaseInv /\ ProgressInv /\ RampInv /\ VectorInv

(* A card's bias is a whole number of ramp steps, at least one. *)
LEMMA TargetType ==
  ASSUME NEW c \in Cards
  PROVE  Target(c) \in Nat /\ Part <= Target(c) /\ 0 < Target(c)
<1>1. c.ramp_steps \in Nat /\ c.ramp_steps >= 1 /\ Part \in Nat /\ Part >= 1
  BY CardAssumption DEF CardType
<1>2. ASSUME NEW m \in Nat, NEW p \in Nat, m >= 1, p >= 1
      PROVE  m * p \in Nat /\ p <= m * p
  <2>1. m * p = (m - 1) * p + p
    BY <1>2
  <2>2. (m - 1) * p >= 0 /\ (m - 1) * p \in Int
    BY <1>2
  <2> QED
    BY <2>1, <2>2, <1>2
<1> QED
  BY <1>1, <1>2 DEF Target

(* The ramp step grows within a whole one. *)
LEMMA GrownType ==
  ASSUME NEW d \in 1..Part, NEW h \in GrownSteps(d)
  PROVE  h \in 1..Part
BY CardAssumption DEF GrownSteps, Rounded, Lesser

(* Halving a ramp step keeps some of it. *)
LEMMA HalfType ==
  ASSUME NEW d \in 1..Part, NEW h \in RoundedPositive(d, 2)
  PROVE  h \in 1..Part /\ h <= d
BY CardAssumption DEF RoundedPositive, Rounded, Greater

(* The pseudo time steps stay a function of the three fields. *)
LEMMA TauType ==
  ASSUME NEW t \in [Fields -> Int]
  PROVE  Halved(t) \in [Fields -> Int] /\ Doubled(t) \in [Fields -> Int]
BY DEF Halved, Doubled

(* The first card starts from the inductive invariant. *)
LEMMA InitInv == Init => IInv
<1> SUFFICES ASSUME Init PROVE IInv
  OBVIOUS
<1>1. card \in CardType /\ Part \in Nat \ {0} /\ MaxRetry \in Nat \ {0}
  BY CardAssumption DEF Init
<1>2. TypeOK
  <2>1. card \in Cards /\ card.tau \in [Fields -> Int]
    BY <1>1 DEF Init, CardType
  <2>2. tau \in [Fields -> Int]
    BY <2>1 DEF Init
  <2>3. dstep \in 1..Part /\ diverged_retry \in 0..(MaxRetry - 1)
    BY <1>1 DEF Init
  <2>4. tran_histroy \in BOOLEAN
    BY Zenon DEF Init
  <2> QED
    BY <2>1, <2>2, <2>3, <2>4 DEF Init, TypeOK, InPseudoTime
<1> QED
  BY <1>2 DEF Init, IInv, RampAnchored, PhaseInv, ProgressInv, RampInv, VectorInv,
              InPseudoTime

(* Starting a card, whatever the session has left. *)
LEMMA StartInv ==
  ASSUME IInv, NEW c \in Cards, Start(c)
  PROVE  IInv'
<1>1. c \in CardType /\ Part \in Nat \ {0} /\ MaxRetry \in Nat \ {0}
  BY CardAssumption
<1>2. Target(c) \in Nat /\ Part <= Target(c) /\ 0 < Target(c)
  BY TargetType
<1>3. card' = c /\ Target(card') = Target(c)
  BY DEF Start
<1>4. TypeOK'
  BY <1>1, <1>2 DEF IInv, TypeOK, Start, InPseudoTime, CardType, Ground, Elsewhere
<1>5. RampAnchored'
  BY <1>1, <1>2, <1>3 DEF Start, RampAnchored, Elsewhere
<1>6. PhaseInv'
  BY <1>1, <1>3 DEF IInv, PhaseInv, Start, InPseudoTime, Asked, CardType, Target
<1>7. ProgressInv'
  BY <1>1 DEF Start, ProgressInv, CardType
<1>8. VectorInv' /\ RampInv'
  BY <1>1 DEF IInv, VectorInv, RampInv, Start
<1> QED
  BY <1>4, <1>5, <1>6, <1>7, <1>8 DEF IInv

(* A transient card between two static ones. *)
LEMMA TransientInv ==
  ASSUME IInv, TransientCard
  PROVE  IInv'
<1>1. TypeOK'
  BY DEF IInv, TypeOK, TransientCard, InPseudoTime, ramp, pseudo, Ground, Elsewhere
<1>2. RampAnchored' /\ PhaseInv' /\ ProgressInv' /\ RampInv'
  BY DEF IInv, PhaseInv, RampAnchored, ProgressInv, RampInv, TransientCard,
         InPseudoTime, ramp, pseudo
<1>3. VectorInv'
  BY DEF IInv, VectorInv, TransientCard, InPseudoTime, ramp, pseudo
<1> QED
  BY <1>1, <1>2, <1>3 DEF IInv

(* The one solve of solve_equ and solve_steadystate. *)
LEMMA SolveOnceInv ==
  ASSUME IInv, SolveOnce
  PROVE  IInv'
<1>1. TypeOK'
  BY DEF IInv, TypeOK, SolveOnce, InPseudoTime, ramp, pseudo, session, Ground,
         Elsewhere
<1>2. RampAnchored' /\ PhaseInv' /\ ProgressInv' /\ RampInv'
  BY DEF IInv, PhaseInv, RampAnchored, ProgressInv, RampInv, SolveOnce,
         InPseudoTime, ramp, pseudo
<1>3. VectorInv'
  BY DEF IInv, VectorInv, SolveOnce, InPseudoTime
<1> QED
  BY <1>1, <1>2, <1>3 DEF IInv

(* Where the ramp's loop test leads.  A step within the card's bias is       *)
(* solved; the ramp ends only on the step after the card's bias.             *)
LEMMA ClippedStep ==
  ASSUME NEW c \in Cards, card = c, NEW s \in Nat, NEW d \in 1..Part,
         s <= Target(card)
  PROVE  LET n == Clipped(s + d, d)
         IN  /\ n[1] \in Nat /\ n[2] \in 1..Part
             /\ s < Target(card) =>
                  /\ n[1] = s + n[2] /\ n[1] <= Target(card)
                  /\ RampGoesOn(n[1], n[2])
             /\ s = Target(card) => ~RampGoesOn(n[1], n[2])
<1>1. Target(card) \in Nat /\ Part \in Nat
  BY TargetType, CardAssumption
<1>2. CASE s + d > Target(card) /\ s + d < Target(card) + d
  <2>1. Clipped(s + d, d) = <<Target(card), d - ((s + d) - Target(card))>>
    BY <1>2 DEF Clipped
  <2> QED
    BY <1>1, <1>2, <2>1 DEF RampGoesOn
<1>3. CASE ~(s + d > Target(card) /\ s + d < Target(card) + d)
  <2>1. Clipped(s + d, d) = <<s + d, d>>
    BY <1>3 DEF Clipped
  <2> QED
    BY <1>1, <1>3, <2>1 DEF RampGoesOn
<1> QED
  BY <1>2, <1>3

(* The state every step of a driver starts from. *)
LEMMA Types ==
  ASSUME IInv
  PROVE  /\ card \in Cards /\ card \in CardType
         /\ Target(card) \in Nat /\ 0 < Target(card)
         /\ Part \in Nat \ {0} /\ MaxRetry \in Nat \ {0}
         /\ step \in Nat /\ dstep \in 1..Part
         /\ tau \in [Fields -> Int] /\ card.tau \in [Fields -> Int]
         /\ PseudoTimeTolRelax \in {7, 8}
         /\ k \in Nat \ {0} /\ diverged_retry \in 0..(MaxRetry - 1)
<1>1. card \in Cards /\ card \in CardType
  BY CardAssumption DEF IInv, TypeOK
<1>2. Target(card) \in Nat /\ 0 < Target(card)
  BY <1>1, TargetType
<1>3. card.tau \in [Fields -> Int]
  BY <1>1 DEF CardType
<1> QED
  BY <1>1, <1>2, <1>3, CardAssumption DEF IInv, TypeOK

(* A phase entered leaves the parameters well typed, the conductance as the  *)
(* phase needs it, and everything restored at the driver's end.              *)
LEMMA EnterPhaseFacts ==
  ASSUME IInv, NEW p \in {"ready", "drive", "metal"}, NEW t \in [Fields -> Int],
         card' = card, EnterPhase(p, t)
  PROVE  /\ pc' = p /\ k' = 1
         /\ tau' \in [Fields -> Int]
         /\ p = "ready" /\ card.type = "OP" => tau' = card.tau
         /\ PseudoTimeTolRelax' \in {7, 8}
         /\ metal' \in {"material", "pseudo"}
         /\ p # "drive" => metal' = "material"
         /\ tran_histroy' \in BOOLEAN
         /\ p = "ready" => ~tran_histroy'
<1>1. tau' \in [Fields -> Int] /\ (p = "ready" /\ card.type = "OP" => tau' = card.tau)
  BY Types DEF EnterPhase, Restored
<1>2. PseudoTimeTolRelax' \in {7, 8}
  BY Types DEF EnterPhase
<1>3. tran_histroy' \in BOOLEAN /\ (p = "ready" => ~tran_histroy')
  BY DEF EnterPhase, IInv, TypeOK
<1> QED
  BY <1>1, <1>2, <1>3 DEF EnterPhase, IInv, TypeOK

(* The ramp's loop test keeps what does not depend on the step. *)
LEMMA RampLoopTestFacts ==
  ASSUME IInv, pc = "ramp", card' = card, NEW s \in Nat, NEW d \in 1..Part,
         NEW t \in [Fields -> Int], RampLoopTest(s, d, t)
  PROVE  /\ pc' \in {"ramp", "drive", "ready"}
         /\ pc' = "ramp" <=> RampGoesOn(s, d)
         /\ k' \in Nat \ {0} /\ (pc' = "drive" => k' = 1)
         /\ tau' \in [Fields -> Int]
         /\ pc' = "ready" => tau' = card.tau /\ ~tran_histroy' /\ bias' = step
         /\ PseudoTimeTolRelax' \in {7, 8}
         /\ metal' \in {"material", "pseudo"} /\ (pc' = "ready" => metal' = "material")
         /\ tran_histroy' \in BOOLEAN
         /\ bias' \in Nat
         /\ pc' = "drive" => bias' = Target(card)
<1>1. AfterRamp \in {"ready", "drive"}
  BY DEF AfterRamp
<1>2. CASE RampGoesOn(s, d)
  <2>1. tran_histroy' \in BOOLEAN
    BY <1>2 DEF RampLoopTest, IInv, TypeOK
  <2> QED
    BY <1>2, <2>1, Types DEF RampLoopTest, IInv, TypeOK
<1>3. CASE ~RampGoesOn(s, d)
  <2>1. EnterPhase(AfterRamp, t)
    BY <1>3 DEF RampLoopTest
  <2>2. card.type = "OP"
    BY DEF IInv, PhaseInv
  <2>3. bias' = IF AfterRamp = "drive" THEN Target(card) ELSE step
    BY <1>3 DEF RampLoopTest
  <2> QED
    BY <1>1, <1>3, <2>1, <2>2, <2>3, EnterPhaseFacts, Types
<1> QED
  BY <1>2, <1>3

(* A solved ramp step. *)
LEMMA RampConvergedInv ==
  ASSUME IInv, RampConverged
  PROVE  IInv' /\ (pc' # "ramp" => sol' = Target(card))
<1>1. PICK d \in GrownSteps(dstep) : /\ step' = Clipped(step + d, d)[1]
                                     /\ dstep' = Clipped(step + d, d)[2]
  BY DEF RampConverged
<1>2. d \in 1..Part
  BY <1>1, GrownType, Types
<1>3. step \in Nat /\ step <= Target(card) /\ card' = card /\ pc = "ramp"
  BY Types DEF IInv, RampAnchored, RampConverged
<1>4. /\ step' \in Nat /\ dstep' \in 1..Part
      /\ step < Target(card) => /\ step' = step + dstep' /\ step' <= Target(card)
                                /\ RampGoesOn(step', dstep')
      /\ step = Target(card) => ~RampGoesOn(step', dstep')
  BY <1>1, <1>2, <1>3, ClippedStep, Types
<1>5. /\ pc' \in {"ramp", "drive", "ready"}
      /\ pc' = "ramp" <=> RampGoesOn(step', dstep')
      /\ k' \in Nat \ {0} /\ (pc' = "drive" => k' = 1)
      /\ tau' \in [Fields -> Int]
      /\ PseudoTimeTolRelax' \in {7, 8}
      /\ metal' \in {"material", "pseudo"} /\ (pc' = "ready" => metal' = "material")
      /\ tran_histroy' \in BOOLEAN
      /\ bias' \in Nat
      /\ pc' = "drive" => bias' = Target(card)
  BY <1>3, <1>4, RampLoopTestFacts, Types DEF RampConverged
<1>6. Target(card') = Target(card) /\ Target(card) \in Nat
  BY <1>3, Types
<1>7. pc' # "ramp" => sol' = Target(card)
  BY <1>3, <1>4, <1>5, <1>6 DEF RampConverged
<1>8. TypeOK'
  <2>1. T_Cycles' = T_Cycles /\ ierr' = ierr /\ card' = card /\ sol' = step
        /\ x' = "solution" /\ diverged_retry' = 0 /\ t_cycles' = 1
    BY DEF RampConverged
  <2>2. card'.PseudoTimeSteps \in Nat \ {0}
    BY <2>1, Types DEF CardType
  <2> QED
    BY <1>3, <1>4, <1>5, <2>1, <2>2, Types DEF IInv, TypeOK, InPseudoTime
<1>9. RampAnchored' /\ RampInv'
  BY <1>3, <1>4, <1>5, <1>6 DEF RampAnchored, RampInv, RampConverged
<1>10. PhaseInv'
  BY <1>3, <1>5, <1>6 DEF IInv, PhaseInv, RampConverged, InPseudoTime
<1>11. ProgressInv'
  BY <1>5, <1>6, <1>7 DEF ProgressInv
<1>12. VectorInv'
  BY DEF IInv, VectorInv, RampConverged
<1> QED
  BY <1>7, <1>8, <1>9, <1>10, <1>11, <1>12 DEF IInv

(* A ramp step cut in half goes on from the same solution. *)
LEMMA RampRetryInv ==
  ASSUME IInv, RampRetry
  PROVE  IInv' /\ pc' = "ramp"
<1>1. card' = card /\ pc = "ramp" /\ step \in Nat /\ step <= Target(card)
  BY Types DEF IInv, RampAnchored, RampRetry
<1>2. dstep' \in 1..Part /\ dstep' <= dstep
  BY HalfType, Types DEF RampRetry
<1>3. step' = step - (dstep - dstep')
  BY DEF RampRetry, StepBack
<1>4. step' \in Nat /\ dstep' <= step' /\ step' <= Target(card)
  BY <1>1, <1>2, <1>3, Types DEF IInv, RampInv
<1>5. RampGoesOn(step', dstep')
  BY <1>2, <1>4, Types DEF RampGoesOn
<1>6. RampLoopTest(step', dstep', Halved(tau)) /\ Halved(tau) \in [Fields -> Int]
  BY TauType, Types DEF RampRetry
<1>7. /\ pc' = "ramp" /\ k' = k /\ tau' = Halved(tau) /\ bias' = step
      /\ PseudoTimeTolRelax' = PseudoTimeTolRelax /\ metal' = metal
      /\ tran_histroy' = tran_histroy
  BY <1>1, <1>5, <1>6 DEF RampLoopTest
<1>8. diverged_retry' \in 0..(MaxRetry - 1)
  BY Types DEF RampRetry, RoomToRetry
<1>9. /\ card' = card /\ t_cycles' = t_cycles /\ T_Cycles' = T_Cycles /\ sol' = sol
      /\ ierr' = ierr /\ x' = "solution"
  BY DEF RampRetry, Recovered
<1>10. TypeOK'
  <2>1. tran_histroy' \in BOOLEAN
    BY <1>7 DEF IInv, TypeOK
  <2> QED
    BY <1>1, <1>2, <1>4, <1>6, <1>7, <1>8, <1>9, <2>1, Types
    DEF IInv, TypeOK, InPseudoTime
<1>11. RampAnchored' /\ RampInv'
  <2>1. sol # Elsewhere => step = sol + dstep /\ sol \in Int
    BY <1>1 DEF IInv, RampAnchored, TypeOK, Ground
  <2>2. Target(card') = Target(card)
    BY <1>1
  <2> QED
    BY <1>2, <1>3, <1>4, <1>9, <2>1, <2>2, Types DEF RampAnchored, RampInv
<1>12. PhaseInv' /\ ProgressInv' /\ VectorInv'
  BY <1>1, <1>7, <1>9 DEF IInv, PhaseInv, ProgressInv, VectorInv, InPseudoTime
<1> QED
  BY <1>7, <1>10, <1>11, <1>12 DEF IInv

(* Giving up the ramp. *)
LEMMA RampGiveUpInv ==
  ASSUME IInv, RampGiveUp
  PROVE  IInv'
<1>1. card' = card /\ card.type = "OP" /\ AfterRamp \in {"ready", "drive"}
  BY DEF IInv, PhaseInv, RampGiveUp, AfterRamp
<1>2. EnterPhase(AfterRamp, tau) /\ tau \in [Fields -> Int]
  BY Types DEF RampGiveUp
<1>3. /\ pc' = AfterRamp /\ k' = 1
      /\ tau' \in [Fields -> Int]
      /\ PseudoTimeTolRelax' \in {7, 8}
      /\ metal' \in {"material", "pseudo"}
      /\ AfterRamp # "drive" => metal' = "material"
      /\ tran_histroy' \in BOOLEAN
  BY <1>1, <1>2, EnterPhaseFacts
<1>4. bias' = IF AfterRamp = "drive" THEN Target(card) ELSE step
  BY DEF RampGiveUp
<1>5. /\ step' = step /\ dstep' = dstep /\ t_cycles' = t_cycles
      /\ T_Cycles' = T_Cycles /\ sol' = sol
      /\ ierr' = 1 /\ x' = "diverged" /\ diverged_retry' = 0
  BY DEF RampGiveUp, ramp
<1>6. TypeOK'
  <2>1. card'.PseudoTimeSteps \in Nat \ {0}
    BY <1>1, Types DEF CardType
  <2>2. bias' \in Nat
    BY <1>4, Types
  <2> QED
    BY <1>1, <1>3, <1>5, <2>1, <2>2, Types DEF IInv, TypeOK, InPseudoTime
<1>7. RampAnchored' /\ RampInv' /\ ProgressInv'
  BY <1>1, <1>3, <1>5 DEF RampAnchored, RampInv, ProgressInv
<1>8. PhaseInv'
  <2>1. Target(card') = Target(card)
    BY <1>1
  <2> QED
    BY <1>1, <1>3, <1>4, <2>1 DEF PhaseInv, InPseudoTime
<1>9. VectorInv'
  BY <1>1, <1>3, <1>5 DEF IInv, VectorInv
<1> QED
  BY <1>6, <1>7, <1>8, <1>9 DEF IInv

(* The pseudo time iteration returns to the driver that called it. *)
LEMMA PseudoTimeReturnsFacts ==
  ASSUME IInv, InPseudoTime, card' = card, NEW e \in {0, 1},
         NEW t \in [Fields -> Int], PseudoTimeReturns(e, t)
  PROVE  /\ pc' \in {"ready", "metal"} /\ k' = 1 /\ diverged_retry' = 0
         /\ pc' = "metal" => pc = "drive" /\ card.type = "OP"
         /\ tau' \in [Fields -> Int]
         /\ pc' = "ready" /\ card.type = "OP" => tau' = card.tau
         /\ PseudoTimeTolRelax' \in {7, 8}
         /\ metal' = "material"
         /\ tran_histroy' \in BOOLEAN
         /\ pc' = "ready" => ~tran_histroy'
         /\ ierr' = IF pc = "steady" THEN e ELSE ierr
<1> DEFINE p == IF pc = "drive" THEN AfterDrive ELSE "ready"
<1>1. p \in {"ready", "metal"} /\ (p = "metal" => pc = "drive")
  BY DEF AfterDrive
<1>2. EnterPhase(p, t) /\ diverged_retry' = 0 /\ ierr' = IF pc = "steady" THEN e ELSE ierr
  BY DEF PseudoTimeReturns
<1>3. pc = "drive" => card.type = "OP"
  BY DEF IInv, PhaseInv
<1> HIDE DEF p
<1> QED
  BY <1>1, <1>2, <1>3, EnterPhaseFacts

(* The last solve of a call of the pseudo time iteration. *)
LEMMA ReturnsInv ==
  ASSUME IInv, InPseudoTime, UNCHANGED <<card, ramp, T_Cycles, bias>>,
         sol' \in {sol, bias}, x' \in {"solution", "diverged"},
         NEW e \in {0, 1}, NEW t \in [Fields -> Int], PseudoTimeReturns(e, t)
  PROVE  IInv'
<1>1. /\ pc' \in {"ready", "metal"} /\ k' = 1 /\ diverged_retry' = 0
      /\ pc' = "metal" => pc = "drive" /\ card.type = "OP"
      /\ tau' \in [Fields -> Int]
      /\ PseudoTimeTolRelax' \in {7, 8}
      /\ metal' = "material"
      /\ tran_histroy' \in BOOLEAN
      /\ ierr' = IF pc = "steady" THEN e ELSE ierr
  BY PseudoTimeReturnsFacts
<1>2. /\ card' = card /\ step' = step /\ dstep' = dstep /\ t_cycles' = t_cycles
      /\ T_Cycles' = T_Cycles /\ bias' = bias
  BY DEF ramp
<1>3. bias = Target(card) /\ Target(card') = Target(card)
  BY <1>2 DEF IInv, PhaseInv
<1>4. TypeOK'
  <2>1. card'.PseudoTimeSteps \in Nat \ {0}
    BY <1>2, Types DEF CardType
  <2>2. sol' \in Nat \union {Ground, Elsewhere} /\ bias' \in Nat
    BY <1>2, <1>3, Types DEF IInv, TypeOK
  <2> QED
    BY <1>1, <1>2, <2>1, <2>2, Types DEF IInv, TypeOK, InPseudoTime
<1>5. RampAnchored' /\ RampInv' /\ VectorInv'
  BY <1>1, <1>2 DEF IInv, RampAnchored, RampInv, VectorInv
<1>6. PhaseInv'
  BY <1>1, <1>2, <1>3 DEF PhaseInv, InPseudoTime
<1>7. ProgressInv'
  BY <1>1, <1>2, <1>3 DEF IInv, ProgressInv
<1> QED
  BY <1>4, <1>5, <1>6, <1>7 DEF IInv

(* An iteration of the pseudo time loop: it stores a solution at the card's  *)
(* bias, or it adds to the divergences.                                      *)
LEMMA IterationInv ==
  ASSUME IInv, InPseudoTime, UNCHANGED <<card, ramp, T_Cycles, bias>>,
         x' = "solution",
         NEW r \in 0..(MaxRetry - 1), NEW t \in [Fields -> Int],
         sol' = bias \/ (sol' = sol /\ r = diverged_retry + 1),
         NextIteration(r, t)
  PROVE  IInv'
<1>1. CASE k < card.PseudoTimeSteps
  <2>1. /\ k' = k + 1 /\ tau' = t /\ diverged_retry' = r
        /\ pc' = pc /\ PseudoTimeTolRelax' = PseudoTimeTolRelax /\ metal' = metal
        /\ tran_histroy' = tran_histroy /\ ierr' = ierr
    BY <1>1 DEF NextIteration
  <2>2. /\ card' = card /\ step' = step /\ dstep' = dstep /\ t_cycles' = t_cycles
        /\ T_Cycles' = T_Cycles /\ bias' = bias
    BY DEF ramp
  <2>3. bias = Target(card) /\ Target(card') = Target(card)
    BY <2>2 DEF IInv, PhaseInv
  <2>4. TypeOK'
    <3>1. card.PseudoTimeSteps \in Nat \ {0}
      BY Types DEF CardType
    <3>2. k' \in Nat \ {0} /\ k' <= card'.PseudoTimeSteps
      BY <1>1, <2>1, <2>2, <3>1, Types
    <3>3. sol' \in Nat \union {Ground, Elsewhere} /\ bias' \in Nat
      BY <2>2, <2>3, Types DEF IInv, TypeOK
    <3>4. tran_histroy' \in BOOLEAN
      BY <2>1 DEF IInv, TypeOK
    <3> QED
      BY <2>1, <2>2, <3>2, <3>3, <3>4 DEF IInv, TypeOK, InPseudoTime
  <2>5. RampAnchored' /\ RampInv' /\ VectorInv'
    BY <2>1, <2>2 DEF IInv, RampAnchored, RampInv, VectorInv, InPseudoTime
  <2>6. PhaseInv'
    BY <2>1, <2>2, <2>3 DEF IInv, PhaseInv, InPseudoTime
  <2>7. ProgressInv'
    BY <2>1, <2>2, <2>3, Types DEF IInv, ProgressInv
  <2> QED
    BY <2>4, <2>5, <2>6, <2>7 DEF IInv
<1>2. CASE ~(k < card.PseudoTimeSteps)
  <2>1. PseudoTimeReturns(0, t)
    BY <1>2 DEF NextIteration
  <2> QED
    BY <2>1, ReturnsInv
<1> QED
  BY <1>1, <1>2

(* A diverged, a given up and a converged pseudo time iteration. *)
LEMMA PseudoInv ==
  ASSUME IInv, PseudoRetry \/ PseudoGiveUp \/ PseudoConverged
  PROVE  IInv'
<1>1. CASE PseudoRetry
  <2>1. diverged_retry + 1 \in 0..(MaxRetry - 1)
    BY <1>1, Types DEF PseudoRetry, RoomToRetry
  <2> QED
    BY <1>1, <2>1, IterationInv, TauType, Types DEF PseudoRetry, Recovered
<1>2. CASE PseudoGiveUp
  BY <1>2, ReturnsInv, Types DEF PseudoGiveUp
<1>3. CASE PseudoConverged
  <2>1. (IF diverged_retry = 0 THEN Doubled(tau) ELSE tau) \in [Fields -> Int]
    BY TauType, Types
  <2>2. CASE PseudoTimeReturns(0, tau)
    BY <1>3, <2>2, ReturnsInv, Types DEF PseudoConverged
  <2>3. CASE NextIteration(diverged_retry, IF diverged_retry = 0 THEN Doubled(tau) ELSE tau)
    BY <1>3, <2>1, <2>3, IterationInv, Types DEF PseudoConverged
  <2> QED
    BY <1>3, <2>2, <2>3 DEF PseudoConverged
<1> QED
  BY <1>1, <1>2, <1>3

(* Every step of a session keeps the inductive invariant. *)
LEMMA StepInv == IInv /\ [Next]_vars => IInv'
<1> SUFFICES ASSUME IInv, [Next]_vars PROVE IInv'
  OBVIOUS
<1>1. CASE UNCHANGED vars
  BY <1>1 DEF vars, ramp, pseudo, session, IInv, TypeOK, RampAnchored, PhaseInv,
              ProgressInv, RampInv, VectorInv, InPseudoTime, Asked, Target
<1> QED
  BY <1>1, StartInv, TransientInv, SolveOnceInv, RampConvergedInv, RampRetryInv,
     RampGiveUpInv, PseudoInv DEF Next

(* The inductive invariant holds throughout every session of SOLVE cards. *)
THEOREM Invariance == Spec => []IInv
BY InitInv, StepInv, PTL DEF Spec

(* Type correctness of the static drivers; in particular the divergence      *)
(* counters stay within their limit and a ramp step within a whole one.      *)
THEOREM TypeCorrect == Spec => []TypeOK
<1>1. IInv => TypeOK
  BY DEF IInv
<1> QED
  BY <1>1, Invariance, PTL

(* Each ramp step of solve_op starts at the solution the nodes hold and does *)
(* not pass the card's bias, for every pattern of divergence.                *)
THEOREM RampStepsAnchored == Spec => []RampAnchored
<1>1. IInv => RampAnchored
  BY DEF IInv
<1> QED
  BY <1>1, Invariance, PTL

(* Every nonlinear solve of a static driver starts from the nodes' solution, *)
(* except for the first of a pseudo time iteration after transient steps.    *)
THEOREM GuessesFromNodes == Spec => []GuessLoaded
<1>1. IInv => GuessLoaded
  BY DEF IInv, TypeOK, VectorInv, GuessLoaded, Guess, LoadsSolution, InPseudoTime
<1> QED
  BY <1>1, Invariance, PTL

(* The iteration that ends a call of snes_solve_pseudo_time_step without an  *)
(* error for the driver has solved the card's bias by then.                  *)
LEMMA PseudoSolved ==
  ASSUME IInv, PseudoRetry \/ PseudoGiveUp \/ PseudoConverged,
         pc' = "ready", ierr' = 0, card.PseudoTimeSteps >= MaxRetry
  PROVE  sol' = bias' /\ bias' = Target(card) /\ card.type # "EQUILIBRIUM"
<1>1. InPseudoTime /\ bias' = bias /\ card' = card
  BY DEF PseudoRetry, PseudoGiveUp, PseudoConverged
<1>2. bias = Target(card) /\ card.type # "EQUILIBRIUM"
  BY <1>1 DEF IInv, PhaseInv, InPseudoTime
<1>3. card.PseudoTimeSteps \in Nat
  BY Types DEF CardType
<1>4. CASE PseudoRetry
  <2>1. sol' = sol /\ diverged_retry + 1 < MaxRetry
    BY <1>4 DEF PseudoRetry, RoomToRetry
  <2>2. ~(k < card.PseudoTimeSteps) /\ PseudoTimeReturns(0, Halved(tau))
    BY <1>1, <1>4 DEF PseudoRetry, NextIteration, InPseudoTime
  <2>3. pc = "steady" => sol = Target(card)
    BY <2>1, <2>2, <1>3, Types DEF IInv, ProgressInv
  <2>4. pc # "steady" => ierr = 0
    BY <2>2 DEF PseudoTimeReturns
  <2> QED
    BY <1>1, <1>2, <2>1, <2>3, <2>4 DEF IInv, ProgressInv, InPseudoTime
<1>5. CASE PseudoGiveUp
  <2>1. sol' = sol /\ pc # "steady" /\ ierr = 0
    BY <1>5 DEF PseudoGiveUp, PseudoTimeReturns
  <2> QED
    BY <1>1, <1>2, <2>1 DEF IInv, ProgressInv, InPseudoTime
<1>6. CASE PseudoConverged
  BY <1>1, <1>2, <1>6 DEF PseudoConverged
<1> QED
  BY <1>4, <1>5, <1>6

(* Success of a static driver means a stored solution at the bias the card   *)
(* asks for, for every order of divergences in the ramp and in the pseudo    *)
(* time iterations.                                                          *)
THEOREM SuccessMeansSolved == Spec => SolvedAsAsked
<1>1. ASSUME IInv, Next, pc # "ready", pc' = "ready", ierr' = 0,
             card.PseudoTimeSteps >= MaxRetry
      PROVE  sol' = bias' /\ bias' = Asked(card)
  <2>1. CASE SolveOnce
    BY <1>1, <2>1 DEF SolveOnce, IInv, PhaseInv
  <2>2. CASE RampConverged
    <3>1. sol' = Target(card) /\ sol' = step /\ card.type = "OP"
      BY <1>1, <2>2, RampConvergedInv DEF RampConverged, IInv, PhaseInv
    <3>2. bias' = step
      BY <1>1, <2>2 DEF RampConverged, RampLoopTest, EnterPhase
    <3> QED
      BY <3>1, <3>2 DEF Asked
  <2>3. CASE RampRetry
    BY <1>1, <2>3, RampRetryInv
  <2>4. CASE RampGiveUp
    BY <1>1, <2>4 DEF RampGiveUp
  <2>5. CASE PseudoRetry \/ PseudoGiveUp \/ PseudoConverged
    BY <1>1, <2>5, PseudoSolved DEF Asked
  <2> QED
    BY <1>1, <2>1, <2>2, <2>3, <2>4, <2>5 DEF Next, Start, TransientCard
<1>2. IInv /\ [Next]_vars =>
        [pc # "ready" /\ pc' = "ready" /\ ierr' = 0
           /\ card.PseudoTimeSteps >= MaxRetry =>
             /\ sol' = bias'
             /\ bias' = IF card.type = "EQUILIBRIUM" THEN Ground ELSE Target(card)]_vars
  BY <1>1 DEF Asked
<1> QED
  BY <1>2, Invariance, PTL DEF Spec, SolvedAsAsked

(* Whatever way a static driver ends, the conductances, the transient flag   *)
(* and (OP) the pseudo time steps are as the comment "restore pseudo         *)
(* parameters" promises.                                                     *)
THEOREM ParametersComeBack == Spec => ParametersRestored
<1>1. ASSUME IInv, Next, pc # "ready", pc' = "ready"
      PROVE  /\ metal' = "material"
             /\ ~tran_histroy'
             /\ card.type = "OP" => tau' = card.tau
  <2>1. CASE SolveOnce
    BY <1>1, <2>1 DEF SolveOnce, IInv, PhaseInv, pseudo, session
  <2>2. ASSUME NEW t \in [Fields -> Int], EnterPhase("ready", t), card' = card
        PROVE  /\ metal' = "material"
               /\ ~tran_histroy'
               /\ card.type = "OP" => tau' = card.tau
    BY <1>1, <2>2, EnterPhaseFacts
  <2>3. CASE RampConverged
    BY <1>1, <2>2, <2>3, Types DEF RampConverged, RampLoopTest, EnterPhase
  <2>4. CASE RampRetry
    BY <1>1, <2>4, RampRetryInv
  <2>5. CASE RampGiveUp
    BY <1>1, <2>2, <2>5, Types DEF RampGiveUp, EnterPhase
  <2>6. ASSUME InPseudoTime, NEW e \in {0, 1}, NEW t \in [Fields -> Int],
               PseudoTimeReturns(e, t), card' = card
        PROVE  /\ metal' = "material"
               /\ ~tran_histroy'
               /\ card.type = "OP" => tau' = card.tau
    BY <1>1, <2>6, PseudoTimeReturnsFacts
  <2>7. CASE PseudoRetry
    <3>1. PseudoTimeReturns(0, Halved(tau))
      BY <1>1, <2>7 DEF PseudoRetry, NextIteration
    <3>2. InPseudoTime /\ card' = card /\ Halved(tau) \in [Fields -> Int]
      BY <1>1, <2>7, TauType, Types DEF PseudoRetry
    <3> QED
      BY <2>6, <3>1, <3>2
  <2>8. CASE PseudoGiveUp
    <3>1. PseudoTimeReturns(1, tau) /\ InPseudoTime /\ card' = card
      BY <2>8 DEF PseudoGiveUp
    <3>2. tau \in [Fields -> Int]
      BY <1>1, Types
    <3> QED
      BY <2>6, <3>1, <3>2
  <2>9. CASE PseudoConverged
    <3>1. \E t \in [Fields -> Int] : PseudoTimeReturns(0, t)
      BY <1>1, <2>9, TauType, Types DEF PseudoConverged, NextIteration
    <3> QED
      BY <2>6, <2>9, <3>1 DEF PseudoConverged
  <2> QED
    BY <1>1, <2>1, <2>3, <2>4, <2>5, <2>7, <2>8, <2>9 DEF Next, Start, TransientCard
<1>2. IInv /\ [Next]_vars =>
        [pc # "ready" /\ pc' = "ready" =>
           /\ metal' = "material"
           /\ ~tran_histroy'
           /\ card.type = "OP" => tau' = card.tau]_vars
  BY <1>1
<1> QED
  BY <1>2, Invariance, PTL DEF Spec, ParametersRestored

(* What a card still has to do: the phases of its driver, then the ramp left *)
(* from the last solved bias or the pseudo time iterations left, then the    *)
(* divergences tolerated.                                                    *)
PhasesLeft == CASE pc = "ready" -> 0 [] pc = "ramp" -> 3 [] pc = "drive" -> 2
                [] OTHER -> 1

StepsLeft == IF pc = "ramp" THEN Target(card) - (step - dstep)
             ELSE IF InPseudoTime THEN card.PseudoTimeSteps - k ELSE 0

Measure == <<PhasesLeft, StepsLeft, MaxRetry - diverged_retry>>

LEMMA MeasureType == IInv => PhasesLeft \in Nat /\ StepsLeft \in Nat /\ Measure \in Triples
<1> SUFFICES ASSUME IInv PROVE PhasesLeft \in Nat /\ StepsLeft \in Nat /\ Measure \in Triples
  OBVIOUS
<1>1. PhasesLeft \in Nat /\ MaxRetry - diverged_retry \in Nat
  BY Types DEF PhasesLeft
<1>2. StepsLeft \in Nat
  <2>1. CASE pc = "ramp"
    BY <2>1, Types DEF StepsLeft, IInv, RampAnchored, RampInv
  <2>2. CASE InPseudoTime
    <3>1. card.PseudoTimeSteps \in Nat /\ k \in Nat /\ k <= card.PseudoTimeSteps
      BY <2>2, Types DEF IInv, TypeOK, CardType
    <3> QED
      BY <2>2, <3>1 DEF StepsLeft, InPseudoTime
  <2> QED
    BY <2>1, <2>2 DEF StepsLeft
<1> QED
  BY <1>1, <1>2 DEF Measure, Triples

(* A step of a card's driver enters a later phase, or it solves a ramp step  *)
(* or makes a pseudo time iteration, or it uses up one of the divergences    *)
(* tolerated and solves from the same bias.                                  *)
LEMMA MeasureDescends ==
  ASSUME IInv, IInv', Next, pc # "ready"
  PROVE  \/ PhasesLeft' < PhasesLeft
         \/ PhasesLeft' = PhasesLeft /\ StepsLeft' < StepsLeft
         \/ /\ PhasesLeft' = PhasesLeft /\ StepsLeft' = StepsLeft
            /\ MaxRetry - diverged_retry' < MaxRetry - diverged_retry
<1>1. CASE SolveOnce
  BY <1>1 DEF SolveOnce, PhasesLeft
<1>2. CASE RampConverged
  <2>1. pc = "ramp" /\ card' = card /\ sol' = step
    BY <1>2 DEF RampConverged
  <2>2. pc' # "ramp" => pc' \in {"drive", "ready"}
    BY <1>2, <2>1 DEF RampConverged, RampLoopTest, EnterPhase, AfterRamp
  <2>3. CASE pc' = "ramp"
    <3>1. Target(card') = Target(card)
      BY <2>1
    <3>2. step' = step + dstep'
      <4>1. sol' # Elsewhere
        BY <2>1, Types DEF Elsewhere
      <4> QED
        BY <2>1, <2>3, <4>1 DEF IInv, RampAnchored
    <3>3. dstep' \in Nat
      BY DEF IInv, TypeOK
    <3>4. StepsLeft' = Target(card) - step
      <4>1. StepsLeft' = Target(card) - (step' - dstep')
        BY <2>3, <3>1 DEF StepsLeft
      <4> QED
        BY <3>2, <3>3, <4>1, Types
    <3>5. StepsLeft = Target(card) - (step - dstep)
      BY <2>1 DEF StepsLeft
    <3>6. StepsLeft' < StepsLeft
      BY <3>4, <3>5, Types
    <3> QED
      BY <2>1, <2>3, <3>6 DEF PhasesLeft
  <2> QED
    BY <2>1, <2>2, <2>3 DEF PhasesLeft
<1>3. CASE RampRetry
  <2>1. pc = "ramp" /\ pc' = "ramp" /\ Target(card') = Target(card)
    BY <1>3, RampRetryInv DEF RampRetry
  <2>2. dstep' \in Nat /\ step' = step - (dstep - dstep')
    BY <1>3 DEF RampRetry, StepBack, IInv, TypeOK
  <2>3. step' - dstep' = step - dstep
    BY <2>2, Types
  <2>4. MaxRetry - diverged_retry' < MaxRetry - diverged_retry
    BY <1>3, Types DEF RampRetry
  <2> QED
    BY <2>1, <2>3, <2>4 DEF PhasesLeft, StepsLeft
<1>4. CASE RampGiveUp
  BY <1>4 DEF RampGiveUp, EnterPhase, AfterRamp, PhasesLeft
<1>5. ASSUME InPseudoTime, NEW e, NEW t, PseudoTimeReturns(e, t)
      PROVE  PhasesLeft' < PhasesLeft
  <2>1. pc' = IF pc = "drive" THEN AfterDrive ELSE "ready"
    BY <1>5 DEF PseudoTimeReturns, EnterPhase
  <2> QED
    BY <1>5, <2>1 DEF AfterDrive, InPseudoTime, PhasesLeft
<1>6. ASSUME InPseudoTime, card' = card, NEW r, NEW t, NextIteration(r, t)
      PROVE  \/ PhasesLeft' < PhasesLeft
             \/ PhasesLeft' = PhasesLeft /\ StepsLeft' < StepsLeft
  <2>1. CASE k < card.PseudoTimeSteps
    <3>1. k' = k + 1 /\ pc' = pc
      BY <1>6, <2>1 DEF NextIteration
    <3>2. card.PseudoTimeSteps \in Nat
      BY Types DEF CardType
    <3> QED
      BY <1>6, <3>1, <3>2, Types DEF InPseudoTime, PhasesLeft, StepsLeft
  <2>2. CASE ~(k < card.PseudoTimeSteps)
    BY <1>5, <1>6, <2>2 DEF NextIteration
  <2> QED
    BY <2>1, <2>2
<1>7. CASE PseudoRetry
  BY <1>6, <1>7 DEF PseudoRetry
<1>8. CASE PseudoGiveUp
  BY <1>5, <1>8 DEF PseudoGiveUp
<1>9. CASE PseudoConverged
  <2>1. InPseudoTime /\ card' = card
    BY <1>9 DEF PseudoConverged
  <2>2. \/ PseudoTimeReturns(0, tau)
        \/ NextIteration(diverged_retry,
                         IF diverged_retry = 0 THEN Doubled(tau) ELSE tau)
    BY <1>9 DEF PseudoConverged
  <2> QED
    BY <1>5, <1>6, <2>1, <2>2
<1> QED
  BY <1>1, <1>2, <1>3, <1>4, <1>7, <1>8, <1>9 DEF Next, Start, TransientCard

(* Every card ends: each step of its driver descends, in an order in which   *)
(* nothing descends for ever (DescentEnds), however ramp steps and pseudo    *)
(* time iterations diverge.                                                  *)
THEOREM CardsDescend ==
  Spec => [][pc # "ready" => Descends(Measure', Measure)]_vars
<1>1. (IInv => PhasesLeft \in Nat /\ StepsLeft \in Nat /\ Measure \in Triples)'
  BY MeasureType, PTL
<1>2. IInv /\ IInv' /\ [Next]_vars =>
        [pc # "ready" => Descends(Measure', Measure)]_vars
  <2> SUFFICES ASSUME IInv, IInv', Next, pc # "ready"
               PROVE  Descends(Measure', Measure)
    OBVIOUS
  <2>1. Measure \in Triples /\ Measure' \in Triples
    BY <1>1, MeasureType
  <2>2. /\ Measure[1] = PhasesLeft /\ Measure'[1] = PhasesLeft'
        /\ Measure[2] = StepsLeft /\ Measure'[2] = StepsLeft'
        /\ Measure[3] = MaxRetry - diverged_retry
        /\ Measure'[3] = MaxRetry - diverged_retry'
    BY DEF Measure
  <2> QED
    BY <2>1, <2>2, MeasureDescends DEF Descends
<1> QED
  BY <1>2, InitInv, StepInv, PTL DEF Spec
=============================================================================
