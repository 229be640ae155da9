--------------------------- MODULE SourcesProofs ----------------------------
(***************************************************************************)
(* Proofs about the limits the sources put on a time step, for every set   *)
(* of electrodes and sources.  The sums, the cuts of the step and the pass *)
(* over all sources are recursive functions; what they compute is proved   *)
(* by induction from the fact that a set of natural numbers has a least    *)
(* element.                                                                *)
(***************************************************************************)
EXTENDS Sources, Numbers, TLAPS

-----------------------------------------------------------------------------
(* The sum over a sequence of numbers. *)
LEMMA TotalOfOne ==
  ASSUME NEW v \in Int
  PROVE  Total(<<v>>) = v
<1> DEFINE q == <<v>>
           Def(f) == [k \in 0..Len(q) |-> IF k = 0 THEN 0 ELSE f[k - 1] + q[k]]
           sum == CHOOSE f : f = Def(f)
<1>1. Len(q) = 1 /\ q[1] = v
  OBVIOUS
<1>2. \E f : f = Def(f)
  <2> DEFINE f == [k \in 0..1 |-> IF k = 0 THEN 0 ELSE v]
  <2>1. f = Def(f)
    BY <1>1
  <2> QED
    BY <2>1
<1>3. sum = Def(sum)
  BY <1>2
<1> HIDE DEF sum
<1>4. sum[1] = v
  <2>1. sum = [k \in 0..1 |-> IF k = 0 THEN 0 ELSE sum[k - 1] + q[k]]
    BY <1>1, <1>3
  <2>2. sum[0] = 0
    BY <2>1
  <2>3. sum[1] = sum[0] + q[1]
    BY <2>1
  <2> QED
    BY <1>1, <2>2, <2>3
<1> QED
  BY <1>1, <1>4 DEF Total, sum

-----------------------------------------------------------------------------
(* Ten percent less of a step of two or more is a shorter step. *)
LEMMA CutShorter ==
  ASSUME NEW g \in Nat, g >= 2
  PROVE  (9 * g) \div 10 \in 1..(g - 1) /\ 10 * ((9 * g) \div 10) >= 9 * g - 9
OBVIOUS

(* What the loop of limit_dt leaves of a step h: no more of it, and either   *)
(* dt_min is reached or no electrode changes by too much.  A step that is    *)
(* cut was longer than dt_min, so nine tenths of that remain.                *)
LEMMA ShrunkFacts ==
  ASSUME par.dt_min \in Nat \ {0}, NEW t, NEW h \in Nat \ {0}
  PROVE  /\ Shrunk(t, h) \in 1..h
         /\ Shrunk(t, h) <= par.dt_min \/ ~TooLarge(t, Shrunk(t, h))
         /\ Shrunk(t, h) = h \/ 10 * Shrunk(t, h) >= 9 * par.dt_min
<1> DEFINE d == par.dt_min
           Cuts(g) == g > d /\ TooLarge(t, g)
           Def(f) == [g \in 1..h |-> IF g > d /\ TooLarge(t, g) THEN f[(9 * g) \div 10] ELSE g]
           cut == CHOOSE f : f = Def(f)
<1>0. d \in Nat /\ d >= 1
  OBVIOUS
<1>1. Shrunk(t, h) = cut[h]
  BY DEF Shrunk
<1> HIDE DEF d, Cuts
<1>2. ASSUME NEW g \in Nat, Cuts(g)
      PROVE  (9 * g) \div 10 \in 1..(g - 1) /\ 10 * ((9 * g) \div 10) >= 9 * d
  BY <1>0, <1>2, CutShorter DEF Cuts
<1> DEFINE Has(m) == \E f \in [1..m -> Nat] :
                       \A g \in 1..m : f[g] = IF Cuts(g) THEN f[(9 * g) \div 10] ELSE g
           S == {m \in 0..h : Has(m)}
<1>3. 0 \in S
  <2>1. [g \in 1..0 |-> g] \in [1..0 -> Nat]
    OBVIOUS
  <2>2. \A g \in 1..0 : FALSE
    OBVIOUS
  <2>3. Has(0)
    BY <2>1, <2>2
  <2> HIDE DEF Has
  <2> QED
    BY <2>3
<1>4. ASSUME NEW m \in 1..h, m - 1 \in S PROVE m \in S
  <2>1. PICK f \in [1..(m - 1) -> Nat] :
          \A g \in 1..(m - 1) : f[g] = IF Cuts(g) THEN f[(9 * g) \div 10] ELSE g
    BY <1>4
  <2> DEFINE e == [g \in 1..m |-> IF g # m THEN f[g]
                                 ELSE IF Cuts(m) THEN f[(9 * m) \div 10] ELSE m]
  <2>2. Cuts(m) => f[(9 * m) \div 10] \in Nat
    BY <1>2
  <2>3. e \in [1..m -> Nat]
    BY <2>2
  <2>4. ASSUME NEW g \in 1..m
        PROVE  e[g] = IF Cuts(g) THEN e[(9 * g) \div 10] ELSE g
    <3>1. Cuts(g) => /\ (9 * g) \div 10 \in 1..m /\ (9 * g) \div 10 # m
      BY <1>2
    <3>2. Cuts(g) => e[(9 * g) \div 10] = f[(9 * g) \div 10]
      BY <3>1
    <3>3. CASE g = m
      BY <3>2, <3>3
    <3>4. CASE g # m
      <4>1. g \in 1..(m - 1) /\ e[g] = f[g]
        BY <3>4
      <4> QED
        BY <2>1, <3>2, <4>1
    <3> QED
      BY <3>3, <3>4
  <2> HIDE DEF e
  <2>5. Has(m)
    BY <2>3, <2>4
  <2> HIDE DEF Has
  <2> QED
    BY <2>5
<1>5. Has(h)
  <2> HIDE DEF Has
  <2>1. \A m \in 0..h : m \in S
    BY <1>3, <1>4, InductionUpTo
  <2> QED
    BY <2>1
<1>6. \E f : f = Def(f)
  <2>1. PICK f \in [1..h -> Nat] :
          \A g \in 1..h : f[g] = IF Cuts(g) THEN f[(9 * g) \div 10] ELSE g
    BY <1>5
  <2>2. f = [g \in 1..h |-> IF Cuts(g) THEN f[(9 * g) \div 10] ELSE g]
    BY <2>1
  <2> QED
    BY <2>2 DEF Cuts
<1>7. cut = Def(cut)
  BY <1>6
<1> HIDE DEF cut
<1>8. \A g \in 1..h : cut[g] = IF Cuts(g) THEN cut[(9 * g) \div 10] ELSE g
  BY <1>7 DEF Cuts
<1> HIDE DEF Def
<1> DEFINE P(g) == /\ cut[g] \in 1..g
                   /\ ~Cuts(cut[g])
                   /\ cut[g] = g \/ 10 * cut[g] >= 9 * d
           R == {m \in 0..h : \A g \in 1..m : P(g)}
<1>9. 0 \in R
  <2>1. \A g \in 1..0 : FALSE
    OBVIOUS
  <2> QED
    BY <2>1
<1>10. ASSUME NEW m \in 1..h, m - 1 \in R PROVE m \in R
  <2>1. \A g \in 1..(m - 1) : P(g)
    BY <1>10
  <2>2. P(m)
    <3>1. CASE ~Cuts(m)
      BY <1>8, <3>1
    <3>2. CASE Cuts(m)
      <4> DEFINE b == (9 * m) \div 10
      <4>1. b \in 1..(m - 1) /\ 10 * b >= 9 * d /\ cut[m] = cut[b]
        BY <1>2, <1>8, <3>2
      <4> HIDE DEF b
      <4>2. P(b)
        BY <2>1, <4>1
      <4> QED
        BY <1>0, <4>1, <4>2
    <3> QED
      BY <3>1, <3>2
  <2> HIDE DEF P
  <2>3. \A g \in 1..m : g = m \/ g \in 1..(m - 1)
    OBVIOUS
  <2> QED
    BY <2>1, <2>2, <2>3
<1>11. P(h)
  <2> HIDE DEF P
  <2>1. \A m \in 0..h : m \in R
    BY <1>9, <1>10, InductionUpTo
  <2> QED
    BY <2>1
<1> QED
  BY <1>0, <1>1, <1>11 DEF Cuts, d

-----------------------------------------------------------------------------
(* The corners of a waveform are whole numbers. *)
LEMMA CycleType ==
  ASSUME NEW s \in SourceType, NEW t \in Int
  PROVE  Cycle(s, t) \in Int
BY DEF Cycle, Truncated, SourceType

LEMMA CornersOfType ==
  ASSUME NEW s \in SourceType, NEW c \in Int
  PROVE  /\ CornersOf(s, c) \in Seq(Int) /\ Len(CornersOf(s, c)) = 4
         /\ \A k \in 1..4 : CornersOf(s, c)[k] \in Int
<1> DEFINE b == c * s.pr
<1>1. b \in Int /\ s.td \in Int /\ s.tr \in Int /\ s.tf \in Int /\ s.pw \in Int
  BY DEF SourceType
<1>2. CornersOf(s, c) = <<b + s.td, b + s.td + s.tr, b + s.td + s.tr + s.pw,
                          b + s.td + s.tr + s.pw + s.tf>>
  BY DEF CornersOf
<1> HIDE DEF b
<1> QED
  BY <1>1, <1>2

LEMMA ConcatLength ==
  ASSUME NEW p \in Seq(Int), NEW q \in Seq(Int)
  PROVE  p \o q \in Seq(Int) /\ Len(p \o q) = Len(p) + Len(q)
OBVIOUS

(* A source leaves a step alone or ends it at a corner that is at least      *)
(* dt_min away.                                                              *)
LEMMA CornerLimitedFacts ==
  ASSUME par.dt_min \in Nat \ {0}, NEW s \in SourceType, NEW t \in Int, NEW h \in Nat \ {0}
  PROVE  /\ CornerLimited(s, t, h) \in 1..h
         /\ CornerLimited(s, t, h) = h \/ CornerLimited(s, t, h) >= par.dt_min
<1> DEFINE first == CornersOf(s, Cycle(s, t))
           next == CornersOf(s, Cycle(s, t) + 1)
           c == first \o <<next[1]>>
           stops == {k \in 2..5 : EndsAt(t, h, c[k])}
           stop == CHOOSE k \in stops : \A j \in stops : k <= j
<1>1. /\ first \in Seq(Int) /\ Len(first) = 4
      /\ \A k \in 1..4 : first[k] \in Int
      /\ next[1] \in Int
  <2>1. Cycle(s, t) \in Int /\ Cycle(s, t) + 1 \in Int
    BY CycleType
  <2> QED
    BY <2>1, CornersOfType
<1>2. CornerLimited(s, t, h) = IF s.form = "dc" \/ stops = {} THEN h ELSE c[stop] - t
  BY DEF CornerLimited
<1> HIDE DEF first, next
<1>3. \A k \in 2..5 : c[k] \in Int
  <2> DEFINE one == <<next[1]>>
  <2>1. one \in Seq(Int) /\ Len(one) = 1
    BY <1>1
  <2> HIDE DEF one
  <2>2. first \o one \in Seq(Int) /\ Len(first \o one) = 5
    <3>1. first \o one \in Seq(Int) /\ Len(first \o one) = Len(first) + Len(one)
      BY <1>1, <2>1, ConcatLength
    <3> QED
      BY <1>1, <2>1, <3>1
  <2>3. c = first \o one
    BY DEF one
  <2> HIDE DEF c
  <2> QED
    BY <2>2, <2>3
<1> HIDE DEF c
<1>4. stops # {} => stop \in stops
  <2> SUFFICES ASSUME stops # {} PROVE \E k \in stops : \A j \in stops : k <= j
    OBVIOUS
  <2>1. stops \in SUBSET Nat
    OBVIOUS
  <2> HIDE DEF stops
  <2> QED
    BY <2>1, LeastNatural
<1>5. stops # {} => c[stop] \in Int /\ EndsAt(t, h, c[stop])
  <2> HIDE DEF stop
  <2> QED
    BY <1>3, <1>4
<1> HIDE DEF stop, stops
<1>6. stops # {} => c[stop] - t \in 1..h /\ c[stop] - t >= par.dt_min
  BY <1>5 DEF EndsAt
<1> QED
  BY <1>2, <1>6

(* The sources of all electrodes. *)
LEMMA FlattenType ==
  ASSUME NEW S, NEW q \in Seq(Seq(S))
  PROVE  FlattenSeq(q) \in Seq(S)
<1> DEFINE n == Len(q)
           Def(f) == [i \in 1..n |-> IF i = 1 THEN q[i] ELSE f[i - 1] \o q[i]]
           flatten == CHOOSE f : f = Def(f)
<1>0. n \in Nat /\ \A i \in 1..n : q[i] \in Seq(S)
  OBVIOUS
<1>1. FlattenSeq(q) = IF n = 0 THEN q ELSE flatten[n]
  BY DEF FlattenSeq
<1>2. n = 0 => q \in Seq(S)
  <2>1. n = 0 => q = <<>>
    OBVIOUS
  <2> QED
    BY <2>1
<1> HIDE DEF n
<1> DEFINE Has(m) == \E f \in [1..m -> Seq(S)] :
                       \A i \in 1..m : f[i] = IF i = 1 THEN q[i] ELSE f[i - 1] \o q[i]
           R == {m \in 0..n : Has(m)}
<1>3. 0 \in R
  <2>1. [i \in 1..0 |-> <<>>] \in [1..0 -> Seq(S)] /\ \A i \in 1..0 : FALSE
    OBVIOUS
  <2>2. Has(0)
    BY <2>1
  <2> HIDE DEF Has
  <2> QED
    BY <1>0, <2>2
<1>4. ASSUME NEW m \in 1..n, m - 1 \in R PROVE m \in R
  <2>1. PICK f \in [1..(m - 1) -> Seq(S)] :
          \A i \in 1..(m - 1) : f[i] = IF i = 1 THEN q[i] ELSE f[i - 1] \o q[i]
    BY <1>4
  <2> DEFINE last == IF m = 1 THEN q[m] ELSE f[m - 1] \o q[m]
             e == [i \in 1..m |-> IF i # m THEN f[i] ELSE last]
  <2>2. last \in Seq(S)
    <3>1. q[m] \in Seq(S) /\ (m # 1 => m - 1 \in 1..(m - 1))
      BY <1>0
    <3>2. m # 1 => f[m - 1] \in Seq(S)
      BY <3>1
    <3> QED
      BY <3>1, <3>2
  <2> HIDE DEF last
  <2>3. e \in [1..m -> Seq(S)]
    BY <2>2
  <2>4. ASSUME NEW i \in 1..m
        PROVE  e[i] = IF i = 1 THEN q[i] ELSE e[i - 1] \o q[i]
    <3>1. i # 1 => i - 1 \in 1..m /\ i - 1 # m
      OBVIOUS
    <3>2. i # 1 => e[i - 1] = f[i - 1]
      BY <3>1
    <3>3. CASE i = m
      BY <3>2, <3>3 DEF last
    <3>4. CASE i # m
      <4>1. i \in 1..(m - 1) /\ e[i] = f[i]
        BY <3>4
      <4> QED
        BY <2>1, <3>2, <4>1
    <3> QED
      BY <3>3, <3>4
  <2> HIDE DEF e
  <2>5. Has(m)
    BY <2>3, <2>4
  <2> HIDE DEF Has
  <2> QED
    BY <1>0, <2>5
<1>5. Has(n)
  <2> HIDE DEF Has
  <2>1. \A m \in 0..n : m \in R
    BY <1>0, <1>3, <1>4, InductionUpTo
  <2> QED
    BY <1>0, <2>1
<1>6. \E f : f = Def(f)
  <2>1. PICK f \in [1..n -> Seq(S)] :
          \A i \in 1..n : f[i] = IF i = 1 THEN q[i] ELSE f[i - 1] \o q[i]
    BY <1>5
  <2>2. f = Def(f)
    BY <2>1
  <2> QED
    BY <2>2
<1>7. flatten = Def(flatten)
  BY <1>6
<1> HIDE DEF flatten
<1>8. \A i \in 1..n : flatten[i] = IF i = 1 THEN q[i] ELSE flatten[i - 1] \o q[i]
  BY <1>7
<1> HIDE DEF Def
<1> DEFINE Q == {i \in 0..n : i # 0 => flatten[i] \in Seq(S)}
<1>9. \A i \in 0..n : i \in Q
  <2>1. 0 \in Q
    BY <1>0
  <2>2. ASSUME NEW i \in 1..n, i - 1 \in Q PROVE i \in Q
    <3>1. q[i] \in Seq(S) /\ (i # 1 => flatten[i - 1] \in Seq(S))
      BY <1>0, <2>2
    <3>2. flatten[i] = IF i = 1 THEN q[i] ELSE flatten[i - 1] \o q[i]
      BY <1>8
    <3>3. flatten[i] \in Seq(S)
      <4>1. CASE i = 1
        BY <3>1, <3>2, <4>1
      <4>2. CASE i # 1
        <5>1. flatten[i - 1] \o q[i] \in Seq(S)
          BY <3>1, <4>2
        <5> QED
          BY <3>2, <4>2, <5>1
      <4> QED
        BY <4>1, <4>2
    <3> QED
      BY <1>0, <3>3
  <2> HIDE DEF Q
  <2> QED
    BY <1>0, <2>1, <2>2, InductionUpTo
<1>10. n # 0 => flatten[n] \in Seq(S)
  BY <1>0, <1>9
<1> QED
  BY <1>1, <1>2, <1>10

(* limit_dt: the pass over the sources leaves the step of the loop alone or  *)
(* shortens it to no less than dt_min.                                       *)
LEMMA LimitFacts ==
  ASSUME par \in SetupType, NEW t \in Int, NEW h \in Nat \ {0}
  PROVE  /\ limit_dt(t, h) \in 1..Shrunk(t, h)
         /\ limit_dt(t, h) = Shrunk(t, h) \/ limit_dt(t, h) >= par.dt_min
<1> DEFINE sources == FlattenSeq(par.electrodes)
           n == Len(sources)
           base == Shrunk(t, h)
           T == 1..base
           Def(f) == [k \in 0..n |-> IF k = 0 THEN base ELSE CornerLimited(sources[k], t, f[k - 1])]
           limited == CHOOSE f : f = Def(f)
<1>0. par.dt_min \in Nat \ {0} /\ par.electrodes \in Seq(Seq(SourceType))
  BY DEF SetupType
<1>1. limit_dt(t, h) = limited[n]
  BY DEF limit_dt
<1>2. n \in Nat /\ \A k \in 1..n : sources[k] \in SourceType
  <2>1. sources \in Seq(SourceType)
    BY <1>0, FlattenType
  <2> HIDE DEF sources
  <2> QED
    BY <2>1
<1>3. base \in Nat \ {0} /\ base \in T
  BY <1>0, ShrunkFacts
<1> HIDE DEF sources, n, base
<1>4. ASSUME NEW k \in 1..n, NEW g \in T
      PROVE  /\ CornerLimited(sources[k], t, g) \in 1..g
             /\ CornerLimited(sources[k], t, g) \in T
             /\ CornerLimited(sources[k], t, g) = g
                  \/ CornerLimited(sources[k], t, g) >= par.dt_min
  <2>1. g \in Nat \ {0} /\ sources[k] \in SourceType
    BY <1>2, <1>3
  <2>2. /\ CornerLimited(sources[k], t, g) \in 1..g
        /\ CornerLimited(sources[k], t, g) = g
             \/ CornerLimited(sources[k], t, g) >= par.dt_min
    BY <1>0, <2>1, CornerLimitedFacts
  <2> QED
    BY <1>3, <2>2
<1>5. \E f : f = Def(f)
  <2> DEFINE step == [k \in 1..n |-> [g \in T |-> CornerLimited(sources[k], t, g)]]
  <2> HIDE DEF T
  <2>1. step \in [1..n -> [T -> T]]
    BY <1>4
  <2>2. \A k \in 1..n, g \in T : step[k][g] = CornerLimited(sources[k], t, g)
    OBVIOUS
  <2> HIDE DEF step
  <2>3. PICK f \in [0..n -> T] : Iterates(f, n, base, step)
    <3>1. n \in Nat /\ base \in T
      BY <1>2, <1>3
    <3> QED
      BY <2>1, <3>1, IterationExists
  <2>4. ASSUME NEW k \in 0..n
        PROVE  f[k] = IF k = 0 THEN base ELSE CornerLimited(sources[k], t, f[k - 1])
    <3>1. f[0] = base /\ (k # 0 => f[k] = step[k][f[k - 1]])
      BY <1>2, <2>3 DEF Iterates
    <3>2. k # 0 => k \in 1..n /\ k - 1 \in 0..n
      BY <1>2
    <3>3. k # 0 => f[k - 1] \in T
      BY <3>2
    <3> QED
      BY <2>2, <3>1, <3>2, <3>3
  <2>5. f = Def(f)
    BY <2>4
  <2> QED
    BY <2>5
<1>6. limited = Def(limited)
  BY <1>5
<1> HIDE DEF limited
<1>7. /\ limited[0] = base
      /\ \A k \in 1..n : limited[k] = CornerLimited(sources[k], t, limited[k - 1])
  BY <1>2, <1>6
<1> HIDE DEF Def
<1> DEFINE P(k) == limited[k] \in T /\ (limited[k] = base \/ limited[k] >= par.dt_min)
           R == {k \in 0..n : P(k)}
<1>8. 0 \in R
  BY <1>2, <1>3, <1>7
<1>9. ASSUME NEW k \in 1..n, k - 1 \in R PROVE k \in R
  <2> DEFINE g == limited[k - 1]
  <2>1. g \in T /\ (g = base \/ g >= par.dt_min)
    BY <1>9
  <2>2. limited[k] = CornerLimited(sources[k], t, g)
    BY <1>7
  <2> HIDE DEF g
  <2>3. P(k)
    BY <1>4, <2>1, <2>2
  <2> HIDE DEF P
  <2> QED
    BY <2>3
<1>10. P(n)
  <2> HIDE DEF P
  <2>1. \A k \in 0..n : k \in R
    BY <1>2, <1>8, <1>9, InductionUpTo
  <2> QED
    BY <1>2, <2>1
<1> QED
  BY <1>1, <1>10 DEF base

-----------------------------------------------------------------------------
(* The step being tried is no longer than what the loop of limit_dt left.    *)
StepLimited == asked > 0 => dt <= Shrunk(time, asked)

(* The inductive invariant. *)
IInv == TypeOK /\ StepLimited

LEMMA SetupFacts ==
  ASSUME TypeOK
  PROVE  /\ par \in Setups /\ par \in SetupType
         /\ par.dt_min \in Nat \ {0} /\ par.change \in Nat
         /\ MaxStep \in Nat \ {0} /\ Horizon \in Nat
         /\ Greater(MaxStep, par.dt_min) \in Nat
         /\ MaxStep <= Greater(MaxStep, par.dt_min)
         /\ par.dt_min <= Greater(MaxStep, par.dt_min)
         /\ time \in Nat /\ asked \in Nat /\ dt \in Nat \ {0}
         /\ dt <= Greater(MaxStep, par.dt_min)
<1>1. par \in Setups /\ par \in SetupType
  BY SetupAssumption DEF TypeOK
<1>2. par.dt_min \in Nat \ {0} /\ par.change \in Nat
  BY <1>1 DEF SetupType
<1>3. /\ MaxStep \in Nat \ {0} /\ Horizon \in Nat
      /\ Greater(MaxStep, par.dt_min) \in Nat
      /\ MaxStep <= Greater(MaxStep, par.dt_min)
      /\ par.dt_min <= Greater(MaxStep, par.dt_min)
  BY <1>2, SetupAssumption DEF Greater
<1> QED
  BY <1>1, <1>2, <1>3 DEF TypeOK

LEMMA InitInv == Init => IInv
<1> SUFFICES ASSUME Init PROVE IInv
  OBVIOUS
<1>1. par \in Setups /\ par \in SetupType /\ MaxStep \in Nat \ {0} /\ Horizon \in Nat
  BY SetupAssumption DEF Init
<1>2. par.dt_min \in Nat
  BY <1>1 DEF SetupType
<1>3. Greater(MaxStep, par.dt_min) \in Nat
  BY <1>1, <1>2 DEF Greater
<1> QED
  BY <1>1, <1>2, <1>3 DEF Init, IInv, TypeOK, StepLimited

(* What an accepted step makes of the next one. *)
LEMMA AcceptFacts ==
  ASSUME TypeOK, Accept
  PROVE  /\ par' = par /\ time < Horizon /\ time' = time + dt /\ time' \in Nat
         /\ asked' \in Nat \ {0} /\ asked' >= par.dt_min
         /\ asked' <= Greater(MaxStep, par.dt_min)
         /\ dt' \in 1..Shrunk(time', asked')
         /\ Shrunk(time', asked') \in 1..asked'
         /\ dt' = asked' \/ 10 * dt' >= 9 * par.dt_min
<1>0. /\ par \in SetupType /\ par.dt_min \in Nat \ {0}
      /\ Greater(MaxStep, par.dt_min) \in Nat /\ time \in Nat /\ dt \in Nat
  BY SetupFacts
<1>1. PICK h \in par.dt_min..Greater(MaxStep, par.dt_min) :
        /\ time < Horizon
        /\ time' = time + dt
        /\ asked' = h
        /\ dt' = limit_dt(time', h)
        /\ UNCHANGED par
  BY DEF Accept
<1> DEFINE t == time + dt
<1>2. t \in Int /\ h \in Nat \ {0} /\ t \in Nat
  BY <1>0
<1> HIDE DEF t
<1> DEFINE g == Shrunk(t, h)
<1>3. g \in 1..h /\ (g = h \/ 10 * g >= 9 * par.dt_min)
  BY <1>0, <1>2, ShrunkFacts
<1> DEFINE l == limit_dt(t, h)
<1>4. l \in 1..g /\ (l = g \/ l >= par.dt_min)
  BY <1>0, <1>2, LimitFacts
<1>5. time' = t /\ asked' = h /\ dt' = l /\ Shrunk(time', asked') = g
  BY <1>0, <1>1 DEF t, Shrunk, TooLarge
<1> HIDE DEF g, l
<1>6. l = h \/ 10 * l >= 9 * par.dt_min
  BY <1>0, <1>2, <1>3, <1>4
<1> QED
  BY <1>0, <1>1, <1>2, <1>3, <1>4, <1>5, <1>6

(* The inductive invariant is kept by every step. *)
LEMMA NextInv == IInv /\ [Next]_vars => IInv'
<1> SUFFICES ASSUME IInv, [Next]_vars PROVE IInv'
  OBVIOUS
<1>0. TypeOK /\ StepLimited
  BY DEF IInv
<1>1. CASE Accept
  <2>1. /\ par' = par /\ time < Horizon /\ time' = time + dt /\ time' \in Nat
        /\ asked' \in Nat \ {0} /\ asked' <= Greater(MaxStep, par.dt_min)
        /\ dt' \in 1..Shrunk(time', asked')
        /\ Shrunk(time', asked') \in 1..asked'
    BY <1>0, <1>1, AcceptFacts
  <2>2. /\ par \in Setups /\ Greater(MaxStep, par.dt_min) \in Nat /\ Horizon \in Nat
        /\ time \in Nat /\ dt \in Nat /\ dt <= Greater(MaxStep, par.dt_min)
    BY <1>0, SetupFacts
  <2>3. StepLimited'
    BY <2>1 DEF StepLimited, Shrunk, TooLarge
  <2>4. time' <= Horizon + Greater(MaxStep, par.dt_min)
    BY <2>1, <2>2
  <2>5. dt' \in 1..asked'
    BY <2>1
  <2>6. TypeOK'
    BY <2>1, <2>2, <2>4, <2>5 DEF TypeOK
  <2> QED
    BY <2>3, <2>6 DEF IInv
<1>2. CASE Shorten
  <2>1. dt' \in 1..(dt - 1) /\ par' = par /\ time' = time /\ asked' = asked
    BY <1>2 DEF Shorten
  <2>2. MaxStep \in Nat /\ asked \in Nat /\ dt \in Nat
    BY <1>0, SetupFacts
  <2>3. TypeOK'
    BY <1>0, <2>1, <2>2 DEF TypeOK
  <2>4. asked > 0 => Shrunk(time, asked) \in Nat
    <3>1. par \in SetupType /\ par.dt_min \in Nat \ {0} /\ time \in Int
      BY <1>0, SetupFacts
    <3> QED
      BY <2>2, <3>1, ShrunkFacts
  <2>5. asked > 0 => dt' <= Shrunk(time, asked)
    BY <1>0, <2>1, <2>2, <2>4 DEF StepLimited
  <2>6. StepLimited'
    BY <2>1, <2>5 DEF StepLimited, Shrunk, TooLarge
  <2> QED
    BY <2>3, <2>6 DEF IInv
<1>3. CASE Finished \/ UNCHANGED vars
  <2>1. UNCHANGED <<par, time, asked, dt>>
    BY <1>3 DEF Finished, vars
  <2> QED
    BY <1>0, <2>1 DEF IInv, TypeOK, StepLimited, Shrunk, TooLarge
<1> QED
  BY <1>1, <1>2, <1>3 DEF Next

LEMMA InvCorrect == Spec => []IInv
BY InitInv, NextInv, PTL DEF Spec

(* Steps are positive and no longer than the driver asked for: what          *)
(* ElectricalSource::limit_dt returns and what a rejection makes of it.      *)
THEOREM TypeCorrect == Spec => []TypeOK
<1>1. IInv => TypeOK
  BY DEF IInv
<1> QED
  BY <1>1, InvCorrect, PTL

(* A step that limit_dt cuts keeps nine tenths of the driver's TStepMin:     *)
(* the loop stops at the first step no longer than it, and a corner nearer   *)
(* than it cuts nothing.                                                     *)
THEOREM MinimumKept == Spec => KeepsMinimum
<1>1. IInv /\ [Next]_vars => [Accept => dt' = asked' \/ 10 * dt' >= 9 * par.dt_min]_vars
  BY AcceptFacts DEF IInv
<1> QED
  BY <1>1, InvCorrect, PTL DEF Spec, KeepsMinimum

-----------------------------------------------------------------------------
(* Arithmetic of the waveforms.  Products keep the order. *)
LEMMA ProductOrder ==
  ASSUME NEW a \in Int, NEW b \in Int, NEW c \in Nat, a <= b
  PROVE  a * c <= b * c
OBVIOUS

(* v lies between p and q. *)
Between(p, q, v) == (p <= v /\ v <= q) \/ (q <= v /\ v <= p)

LEMMA BetweenEnds ==
  ASSUME NEW p \in Int, NEW q \in Int, NEW v \in Int, NEW e \in Int, Between(p, q, v)
  PROVE  Abs(v - e) <= Abs(p - e) \/ Abs(v - e) <= Abs(q - e)
BY DEF Between, Abs

(* A straight line. *)
LEMMA LineBetween ==
  ASSUME NEW b \in Int, NEW k \in Int, NEW x \in Int, NEW y \in Int, NEW z \in Int,
         x <= y, y <= z
  PROVE  Between(b + x * k, b + z * k, b + y * k)
<1>1. CASE k >= 0
  <2>1. x * k <= y * k /\ y * k <= z * k
    BY <1>1, ProductOrder
  <2> DEFINE p == x * k  q == y * k  r == z * k
  <2>2. p \in Int /\ q \in Int /\ r \in Int /\ p <= q /\ q <= r
    BY <2>1
  <2> HIDE DEF p, q, r
  <2>3. Between(b + p, b + r, b + q)
    BY <2>2 DEF Between
  <2> QED
    BY <2>3 DEF p, q, r
<1>2. CASE k < 0
  <2> DEFINE j == -k
  <2>1. j \in Nat /\ x * k = -(x * j) /\ y * k = -(y * j) /\ z * k = -(z * j)
    BY <1>2
  <2> HIDE DEF j
  <2>2. x * j <= y * j /\ y * j <= z * j
    BY <2>1, ProductOrder
  <2> DEFINE p == x * k  q == y * k  r == z * k
  <2>3. p \in Int /\ q \in Int /\ r \in Int /\ r <= q /\ q <= p
    BY <2>1, <2>2
  <2> HIDE DEF p, q, r
  <2>4. Between(b + p, b + r, b + q)
    BY <2>3 DEF Between
  <2> QED
    BY <2>4 DEF p, q, r
<1> QED
  BY <1>1, <1>2

LEMMA LineFromStart ==
  ASSUME NEW b \in Int, NEW k \in Int, NEW y \in Int, NEW z \in Int, 0 <= y, y <= z
  PROVE  Between(b, b + z * k, b + y * k) /\ Between(b, b - z * k, b - y * k)
<1> DEFINE o == 0  j == -k
<1>1. o \in Int /\ o * k = 0 /\ o * j = 0 /\ o <= y /\ j \in Int
  OBVIOUS
<1>2. y * j = -(y * k) /\ z * j = -(z * k)
  OBVIOUS
<1> HIDE DEF o, j
<1>3. /\ Between(b + o * k, b + z * k, b + y * k)
      /\ Between(b + o * j, b + z * j, b + y * j)
  BY <1>1, LineBetween
<1> DEFINE p == y * k  q == z * k
<1>4. p \in Int /\ q \in Int
  OBVIOUS
<1>5. Between(b + 0, b + q, b + p) /\ Between(b + 0, b + (-q), b + (-p))
  BY <1>1, <1>2, <1>3
<1> HIDE DEF p, q
<1>6. b + 0 = b /\ b + (-q) = b - q /\ b + (-p) = b - p
  BY <1>4
<1>7. Between(b, b + q, b + p) /\ Between(b, b - q, b - p)
  BY <1>5, <1>6
<1> QED
  BY <1>7 DEF p, q

(* A pulse whose flanks and top fit into its period, with whole slopes. *)
IsPulse(s) ==
  /\ s \in SourceType /\ s.form = "pulse"
  /\ s.pr > s.tr + s.pw + s.tf
  /\ (s.V2 - s.V1) % s.tr = 0 /\ (s.V2 - s.V1) % s.tf = 0

Rise(s) == (s.V2 - s.V1) \div s.tr
Fall(s) == (s.V2 - s.V1) \div s.tf

(* The value x into a period, and the start of period m. *)
Shape(s, x) ==
  IF x < s.tr THEN s.V1 + x * Rise(s)
  ELSE IF x < s.tr + s.pw THEN s.V2
  ELSE IF x < s.tr + s.pw + s.tf THEN s.V2 - (x - s.tr - s.pw) * Fall(s)
  ELSE s.V1

Base(s, m) == m * s.pr + s.td

LEMMA Quotient ==
  ASSUME NEW n \in Int, NEW d \in Nat \ {0}, n % d = 0
  PROVE  n \div d \in Int /\ (n \div d) * d = n
<1> DEFINE q == n \div d  r == n % d
<1>1. q \in Int /\ r = 0 /\ n = d * q + r
  OBVIOUS
<1> HIDE DEF q, r
<1>2. q * d = n
  BY <1>1
<1> QED
  BY <1>1, <1>2 DEF q

LEMMA PulseFacts ==
  ASSUME NEW s, IsPulse(s)
  PROVE  /\ s.td \in Nat /\ s.tr \in Nat \ {0} /\ s.tf \in Nat \ {0} /\ s.pw \in Nat
         /\ s.pr \in Nat \ {0} /\ s.V1 \in Int /\ s.V2 \in Int
         /\ s.pr > s.tr + s.pw + s.tf
         /\ Rise(s) \in Int /\ s.tr * Rise(s) = s.V2 - s.V1
         /\ Fall(s) \in Int /\ s.tf * Fall(s) = s.V2 - s.V1
<1>1. /\ s.td \in Nat /\ s.tr \in Nat \ {0} /\ s.tf \in Nat \ {0} /\ s.pw \in Nat
      /\ s.pr \in Nat \ {0} /\ s.V1 \in Int /\ s.V2 \in Int
      /\ s.pr > s.tr + s.pw + s.tf
  BY DEF IsPulse, SourceType
<1> DEFINE d == s.V2 - s.V1
<1>2. d \in Int /\ d % s.tr = 0 /\ d % s.tf = 0
  BY <1>1 DEF IsPulse
<1> HIDE DEF d
<1>3. d \div s.tr \in Int /\ (d \div s.tr) * s.tr = d
  BY <1>1, <1>2, Quotient
<1>4. d \div s.tf \in Int /\ (d \div s.tf) * s.tf = d
  BY <1>1, <1>2, Quotient
<1> DEFINE r == d \div s.tr  f == d \div s.tf  a == s.tr  b == s.tf
<1>5. a \in Int /\ b \in Int /\ r \in Int /\ f \in Int /\ r * a = d /\ f * b = d
  BY <1>1, <1>3, <1>4
<1>6. Rise(s) = r /\ Fall(s) = f
  BY DEF Rise, Fall, d
<1> HIDE DEF r, f, a, b
<1>7. a * r = d /\ b * f = d
  BY <1>5
<1> QED
  BY <1>1, <1>5, <1>6, <1>7 DEF a, b, d

(* The four pieces of a period, with their corners. *)
LEMMA ShapePieces ==
  ASSUME NEW s, IsPulse(s), NEW x \in Nat
  PROVE  /\ x <= s.tr => Shape(s, x) = s.V1 + x * Rise(s)
         /\ s.tr <= x /\ x <= s.tr + s.pw => Shape(s, x) = s.V2
         /\ s.tr + s.pw <= x /\ x <= s.tr + s.pw + s.tf =>
              Shape(s, x) = s.V2 - (x - s.tr - s.pw) * Fall(s)
         /\ s.tr + s.pw + s.tf <= x => Shape(s, x) = s.V1
         /\ Shape(s, x) \in Int
<1> DEFINE a == s.tr  b == s.tr + s.pw  c == s.tr + s.pw + s.tf
           up == x * Rise(s)  down == (x - s.tr - s.pw) * Fall(s)
<1>1. /\ a \in Nat /\ b \in Nat /\ c \in Nat /\ a <= b /\ b < c /\ 0 < a
      /\ up \in Int /\ down \in Int /\ s.V1 \in Int /\ s.V2 \in Int
  BY PulseFacts
<1>2. Shape(s, x) = IF x < a THEN s.V1 + up ELSE IF x < b THEN s.V2
                    ELSE IF x < c THEN s.V2 - down ELSE s.V1
  BY DEF Shape
<1>3. x = a => up = s.V2 - s.V1
  BY PulseFacts
<1>4. x = b => down = 0
  BY PulseFacts
<1>5. x = c => down = s.V2 - s.V1
  <2>1. x = c => x - s.tr - s.pw = s.tf
    BY PulseFacts
  <2> QED
    BY <2>1, PulseFacts
<1> HIDE DEF a, b, c, up, down
<1>6. /\ x <= a => Shape(s, x) = s.V1 + up
      /\ a <= x /\ x <= b => Shape(s, x) = s.V2
      /\ b <= x /\ x <= c => Shape(s, x) = s.V2 - down
      /\ c <= x => Shape(s, x) = s.V1
      /\ Shape(s, x) \in Int
  BY <1>1, <1>2, <1>3, <1>4, <1>5
<1> QED
  BY <1>6 DEF a, b, c, up, down

(* The code's remainder of a time within a period is the time into it, or    *)
(* the whole period at its start, where the value is the same.               *)
LEMMA ValueInPeriod ==
  ASSUME NEW s, IsPulse(s), NEW m \in Nat, NEW x \in 0..s.pr
  PROVE  Base(s, m) + x \in Nat /\ Value(s, Base(s, m) + x) = Shape(s, x)
<1> DEFINE d == s.pr  B == m * d  v == B + s.td + x
<1>1. /\ d \in Nat \ {0} /\ s.td \in Nat /\ B \in Nat /\ v \in Nat /\ v >= s.td
      /\ s.form = "pulse" /\ x \in 0..d /\ Base(s, m) + x = v
  <2>1. d \in Nat \ {0} /\ s.td \in Nat /\ s.form = "pulse"
    BY PulseFacts DEF IsPulse
  <2>2. B \in Nat
    BY <2>1
  <2> HIDE DEF B
  <2> QED
    BY <2>1, <2>2 DEF Base, B
<1>2. Value(s, v) = Shape(s, Phase(s, v))
  <2> DEFINE u == Phase(s, v)
  <2>1. ~(v < s.td)
    BY <1>1
  <2> QED
    BY <1>1, <2>1 DEF Value, Shape, Rise, Fall
<1>3. CASE x # 0
  <2> DEFINE y == x - 1
  <2>1. y \in 0..(d - 1) /\ m \in Int
    BY <1>1, <1>3
  <2> HIDE DEF y
  <2>2. (m * d + y) % d = y
    BY <1>1, <2>1, DivModUnique
  <2>3. v # s.td /\ v - s.td - 1 = B + y
    BY <1>1, <1>3 DEF y
  <2>4. Phase(s, v) = ((B + y) % d) + 1
    BY <2>3 DEF Phase
  <2>5. Phase(s, v) = x
    BY <1>1, <2>2, <2>4 DEF y
  <2> QED
    BY <1>1, <1>2, <2>5
<1>4. CASE x = 0 /\ m = 0
  <2>1. v = s.td
    BY <1>1, <1>4
  <2>2. Phase(s, v) = x
    BY <2>1, <1>4 DEF Phase
  <2> QED
    BY <1>1, <1>2, <2>2
<1>5. CASE x = 0 /\ m # 0
  <2> DEFINE n == m - 1  y == d - 1
  <2>1. n \in Int /\ y \in 0..(d - 1) /\ B = n * d + d
    BY <1>1, <1>5
  <2> HIDE DEF n, y
  <2>2. (n * d + y) % d = y
    BY <1>1, <2>1, DivModUnique
  <2> DEFINE C == n * d
  <2>3. C \in Int /\ B = C + d /\ (C + y) % d = y /\ B >= d
    <3>1. C \in Int
      BY <1>1, <2>1
    <3>2. C >= 0
      <4>1. n \in Nat
        BY <1>5 DEF n
      <4> QED
        BY <1>1, <4>1
    <3> HIDE DEF C
    <3> QED
      BY <1>1, <2>1, <2>2, <3>1, <3>2 DEF C
  <2> HIDE DEF C
  <2>4. v # s.td /\ v - s.td - 1 = C + y
    BY <1>1, <1>5, <2>3 DEF y
  <2>5. Phase(s, v) = ((C + y) % d) + 1
    BY <2>4 DEF Phase
  <2>6. Phase(s, v) = d
    BY <1>1, <2>3, <2>5 DEF y
  <2>7. Shape(s, d) = s.V1
    BY PulseFacts, ShapePieces
  <2>8. Shape(s, 0) = s.V1
    BY PulseFacts, ShapePieces
  <2> QED
    BY <1>1, <1>2, <1>5, <2>6, <2>7, <2>8
<1> QED
  BY <1>3, <1>4, <1>5

(* Every time from the delay on lies in a period. *)
LEMMA PeriodOf ==
  ASSUME NEW s, IsPulse(s), NEW v \in Int, v >= s.td
  PROVE  /\ (v - s.td) \div s.pr \in Nat
         /\ Base(s, (v - s.td) \div s.pr) \in Nat
         /\ Base(s, (v - s.td) \div s.pr) <= v
         /\ v < Base(s, (v - s.td) \div s.pr) + s.pr
<1> DEFINE d == s.pr  n == v - s.td  m == n \div d  r == n % d
<1>1. d \in Nat \ {0} /\ n \in Nat /\ s.td \in Nat
  BY PulseFacts
<1> HIDE DEF n, d
<1>2. m \in Int /\ r \in 0..(d - 1) /\ n = d * m + r /\ m >= 0
  BY <1>1
<1> DEFINE B == m * d
<1>3. B \in Nat /\ n = B + r
  BY <1>1, <1>2
<1>4. Base(s, m) = B + s.td
  BY DEF Base, d
<1> HIDE DEF m, r, B
<1>5. m \in Nat /\ Base(s, m) \in Nat /\ Base(s, m) <= v /\ v < Base(s, m) + d
  BY <1>1, <1>2, <1>3, <1>4 DEF n
<1> QED
  BY <1>5 DEF m, n, d

(* A pulse stays between its two levels. *)
LEMMA ShapeBetween ==
  ASSUME NEW s, IsPulse(s), NEW x \in Nat
  PROVE  Between(s.V1, s.V2, Shape(s, x))
<1>1. /\ s.tr \in Nat /\ s.pw \in Nat /\ s.tf \in Nat /\ s.V1 \in Int /\ s.V2 \in Int
      /\ Rise(s) \in Int /\ Fall(s) \in Int
      /\ s.tr * Rise(s) = s.V2 - s.V1 /\ s.tf * Fall(s) = s.V2 - s.V1
  BY PulseFacts
<1>2. CASE x <= s.tr
  <2>1. Between(s.V1, s.V1 + s.tr * Rise(s), s.V1 + x * Rise(s))
    <3> DEFINE k == Rise(s)  b == s.V1  z == s.tr
    <3>1. k \in Int /\ b \in Int /\ z \in Int /\ x \in Int /\ 0 <= x /\ x <= z
      BY <1>1, <1>2
    <3> HIDE DEF k, b, z
    <3>2. Between(b, b + z * k, b + x * k)
      BY <3>1, LineFromStart
    <3> QED
      BY <3>2 DEF k, b, z
  <2>2. s.V1 + s.tr * Rise(s) = s.V2
    BY <1>1
  <2>3. Shape(s, x) = s.V1 + x * Rise(s)
    BY <1>2, ShapePieces
  <2> QED
    BY <2>1, <2>2, <2>3
<1>3. CASE s.tr + s.pw <= x /\ x <= s.tr + s.pw + s.tf
  <2> DEFINE y == x - s.tr - s.pw  k == Fall(s)  b == s.V2  z == s.tf
  <2>1. /\ y \in Int /\ 0 <= y /\ y <= z
        /\ k \in Int /\ b \in Int /\ z \in Int /\ b - z * k = s.V1
    BY <1>1, <1>3
  <2>2. Shape(s, x) = b - y * k
    BY <1>3, ShapePieces
  <2> HIDE DEF y, k, b, z
  <2>3. Between(b, b - z * k, b - y * k)
    BY <2>1, LineFromStart
  <2>4. Between(s.V2, s.V1, Shape(s, x))
    BY <2>1, <2>2, <2>3 DEF b
  <2> QED
    BY <2>4 DEF Between
<1>4. CASE ~(x <= s.tr) /\ ~(s.tr + s.pw <= x /\ x <= s.tr + s.pw + s.tf)
  <2>1. Shape(s, x) = s.V1 \/ Shape(s, x) = s.V2
    BY <1>1, <1>4, ShapePieces
  <2> QED
    BY <1>1, <2>1 DEF Between
<1> QED
  BY <1>2, <1>3, <1>4

LEMMA ValueBetween ==
  ASSUME NEW s, IsPulse(s), NEW v \in Int
  PROVE  Value(s, v) \in Int /\ Between(s.V1, s.V2, Value(s, v))
<1>1. s.V1 \in Int /\ s.V2 \in Int /\ s.td \in Nat
  BY PulseFacts
<1>2. CASE v < s.td
  <2>1. Value(s, v) = s.V1
    BY <1>2 DEF Value, IsPulse
  <2> QED
    BY <1>1, <2>1 DEF Between
<1>3. CASE ~(v < s.td)
  <2> DEFINE m == (v - s.td) \div s.pr  x == v - Base(s, m)
  <2>1. m \in Nat /\ Base(s, m) \in Nat /\ Base(s, m) <= v /\ v < Base(s, m) + s.pr
    BY <1>1, <1>3, PeriodOf
  <2> HIDE DEF m
  <2>2. x \in 0..s.pr /\ x \in Nat /\ v = Base(s, m) + x
    BY <2>1, PulseFacts
  <2> HIDE DEF x
  <2>3. Value(s, v) = Shape(s, x)
    BY <2>1, <2>2, ValueInPeriod
  <2> QED
    BY <2>2, <2>3, ShapeBetween, ShapePieces
<1> QED
  BY <1>2, <1>3

(* The corners of the periods from the one that t lies in. *)
LEMMA CornersHas ==
  ASSUME NEW s, IsPulse(s), NEW t \in Nat, NEW m \in Int,
         m = Cycle(s, t) \/ m = Cycle(s, t) + 1
  PROVE  /\ Base(s, m) \in Corners(s, t)
         /\ Base(s, m) + s.tr \in Corners(s, t)
         /\ Base(s, m) + s.tr + s.pw \in Corners(s, t)
         /\ Base(s, m) + s.tr + s.pw + s.tf \in Corners(s, t)
<1> DEFINE q == CornersOf(s, m)
<1>1. s \in SourceType
  BY DEF IsPulse
<1>2. q = <<Base(s, m), Base(s, m) + s.tr, Base(s, m) + s.tr + s.pw,
            Base(s, m) + s.tr + s.pw + s.tf>>
  BY DEF CornersOf, Base
<1>3. ToSet(q) = {q[k] : k \in 1..4}
  <2>1. DOMAIN q = 1..4
    BY <1>2
  <2> QED
    BY <2>1 DEF ToSet
<1>4. /\ q[1] = Base(s, m) /\ q[2] = Base(s, m) + s.tr
      /\ q[3] = Base(s, m) + s.tr + s.pw
      /\ q[4] = Base(s, m) + s.tr + s.pw + s.tf
  BY <1>2
<1>5. ToSet(q) \subseteq Corners(s, t)
  BY DEF Corners
<1> HIDE DEF q
<1> QED
  BY <1>3, <1>4, <1>5

LEMMA CornersWhole ==
  ASSUME NEW s \in SourceType, NEW t \in Int
  PROVE  Corners(s, t) \subseteq Int
<1>1. Cycle(s, t) \in Int /\ Cycle(s, t) + 1 \in Int
  BY CycleType
<1>2. ASSUME NEW c \in Int PROVE ToSet(CornersOf(s, c)) \subseteq Int
  <2>1. DOMAIN CornersOf(s, c) = 1..4 /\ \A k \in 1..4 : CornersOf(s, c)[k] \in Int
    BY CornersOfType
  <2> QED
    BY <2>1 DEF ToSet
<1> QED
  BY <1>1, <1>2 DEF Corners

(* The next period of the code is the next one to come, of a source in       *)
(* sight; later times lie in this or a later one.                            *)
LEMMA CycleFacts ==
  ASSUME NEW s, IsPulse(s), NEW t \in Nat, t + s.pr >= s.td
  PROVE  /\ Cycle(s, t) \in Int /\ Cycle(s, t) + 1 \in Nat
         /\ t < Base(s, Cycle(s, t) + 1)
         /\ \A m \in Nat : t < Base(s, m) + s.pr => Cycle(s, t) <= m
<1> DEFINE d == s.pr  c == Cycle(s, t)
<1>1. d \in Nat \ {0} /\ s.td \in Nat
  BY PulseFacts
<1>2. CASE t >= s.td
  <2>1. c = (t - s.td) \div d
    BY <1>1, <1>2 DEF Cycle, Truncated
  <2>2. c \in Nat /\ Base(s, c) \in Nat /\ Base(s, c) <= t /\ t < Base(s, c) + d
    BY <1>1, <1>2, <2>1, PeriodOf
  <2> HIDE DEF c
  <2>3. (c + 1) * d = c * d + d /\ c * d \in Int
    BY <1>1, <2>2
  <2>4. t < Base(s, c + 1)
    <3> DEFINE x == c * d  y == (c + 1) * d
    <3>1. x \in Int /\ y = x + d /\ Base(s, c) = x + s.td /\ Base(s, c + 1) = y + s.td
      BY <2>3 DEF Base
    <3> HIDE DEF x, y
    <3> QED
      BY <1>1, <2>2, <3>1
  <2>5. ASSUME NEW m \in Nat, t < Base(s, m) + d PROVE c <= m
    <3>1. m + 1 <= c => (m + 1) * d <= c * d
      BY <1>1, <2>2, ProductOrder
    <3>2. (m + 1) * d = m * d + d /\ m * d \in Int
      BY <1>1
    <3> DEFINE x == c * d  y == m * d  z == (m + 1) * d
    <3>3. /\ x \in Int /\ y \in Int /\ z = y + d /\ (m + 1 <= c => z <= x)
          /\ Base(s, c) = x + s.td /\ Base(s, m) = y + s.td
      BY <2>3, <3>1, <3>2 DEF Base
    <3> HIDE DEF x, y, z
    <3> QED
      BY <1>1, <2>2, <2>5, <3>3
  <2> QED
    BY <2>2, <2>4, <2>5 DEF c
<1>3. CASE t < s.td
  <2> DEFINE n == s.td - t
  <2>1. n \in 1..d /\ c = -(n \div d)
    <3>1. n \in 1..d /\ ~(t - s.td >= 0) /\ -(t - s.td) = n
      BY <1>1, <1>3
    <3> QED
      BY <3>1 DEF Cycle, Truncated
  <2> HIDE DEF n
  <2>2. n < d => n \div d = 0
    BY <1>1, <2>1
  <2>3. n = d => n \div d = 1
    BY <1>1, <2>1
  <2>4. c = 0 \/ c = -1
    BY <1>1, <2>1, <2>2, <2>3
  <2> HIDE DEF c
  <2>5. Base(s, c + 1) >= s.td
    <3>1. 0 * d = 0 /\ 1 * d = d
      BY <1>1
    <3>2. Base(s, 0) = 0 * d + s.td /\ Base(s, 1) = 1 * d + s.td
      BY DEF Base
    <3> QED
      BY <1>1, <2>4, <3>1, <3>2
  <2>6. Base(s, c + 1) \in Int
    <3> QED
      BY <1>1, <2>4 DEF Base
  <2> QED
    BY <1>1, <1>3, <2>4, <2>5, <2>6 DEF c
<1> QED
  BY <1>1, <1>2, <1>3

-----------------------------------------------------------------------------
(* The instants dv_max looks at, and that one of them changes by as much. *)
Instants(s, t, h) == Within(s, t, h) \union {t + h}
Reached(s, t, h, v) ==
  \E w \in Instants(s, t, h) : Abs(Change(s, t, v)) <= Abs(Change(s, t, w))

(* ... on a piece without corners inside, from one corner to the next. *)
LEMMA PieceReached ==
  ASSUME NEW s, IsPulse(s), NEW t \in Nat, NEW h \in Nat \ {0},
         NEW v \in (t + 1)..(t + h),
         NEW lo \in Corners(s, t), NEW hi \in Corners(s, t), lo <= v, v <= hi,
         \A x, z \in lo..hi : x <= v /\ v <= z =>
           Between(Value(s, x), Value(s, z), Value(s, v))
  PROVE  Reached(s, t, h, v)
<1>0. lo \in Int /\ hi \in Int /\ s \in SourceType
  BY CornersWhole DEF IsPulse
<1> DEFINE x == IF t >= lo THEN t ELSE lo
           z == IF hi < t + h THEN hi ELSE t + h
<1>1. x \in lo..hi /\ z \in lo..hi /\ x <= v /\ v <= z
  BY <1>0
<1>2. z \in Instants(s, t, h)
  BY <1>0 DEF Instants, Within
<1>3. v # t + h => x = t \/ x \in Instants(s, t, h)
  BY <1>0 DEF Instants, Within
<1> HIDE DEF x, z
<1>4. Between(Value(s, x), Value(s, z), Value(s, v))
  BY <1>1
<1>5. /\ x \in Int /\ z \in Int /\ Value(s, x) \in Int /\ Value(s, z) \in Int
      /\ Value(s, v) \in Int /\ Value(s, t) \in Int
  BY <1>0, <1>1, ValueBetween
<1>6. \/ Abs(Change(s, t, v)) <= Abs(Change(s, t, x))
      \/ Abs(Change(s, t, v)) <= Abs(Change(s, t, z))
  BY <1>4, <1>5, BetweenEnds DEF Change
<1>7. x = t => Abs(Change(s, t, x)) <= Abs(Change(s, t, z))
  BY <1>5 DEF Change, Abs
<1>8. /\ Abs(Change(s, t, x)) \in Int /\ Abs(Change(s, t, z)) \in Int
      /\ Abs(Change(s, t, v)) \in Int
  BY <1>5 DEF Change, Abs
<1>9. CASE v = t + h
  BY <1>8, <1>9 DEF Reached, Instants
<1>10. CASE v # t + h
  <2>1. CASE x = t
    <3>1. Abs(Change(s, t, v)) <= Abs(Change(s, t, z))
      BY <1>6, <1>7, <1>8, <2>1
    <3> QED
      BY <1>2, <3>1 DEF Reached
  <2>2. CASE x \in Instants(s, t, h)
    BY <1>2, <1>6, <2>2 DEF Reached
  <2> QED
    BY <1>3, <1>10, <2>1, <2>2
<1> QED
  BY <1>9, <1>10

(* ... and on a level piece, where only the corner it begins at is needed. *)
LEMMA LevelReached ==
  ASSUME NEW s, IsPulse(s), NEW t \in Nat, NEW h \in Nat \ {0},
         NEW v \in (t + 1)..(t + h),
         NEW lo \in Corners(s, t), lo <= v,
         \A x \in lo..v : Value(s, x) = Value(s, v)
  PROVE  Reached(s, t, h, v)
<1>0. lo \in Int /\ s \in SourceType
  BY CornersWhole DEF IsPulse
<1>1. /\ Value(s, t) \in Int /\ Value(s, v) \in Int /\ Value(s, lo) \in Int
      /\ Value(s, t + h) \in Int
  BY <1>0, ValueBetween
<1>2. /\ Abs(Change(s, t, v)) \in Int /\ Abs(Change(s, t, lo)) \in Int
      /\ Abs(Change(s, t, t + h)) \in Nat
  BY <1>1 DEF Change, Abs
<1>3. CASE v = t + h
  BY <1>2, <1>3 DEF Reached, Instants
<1>4. CASE v # t + h /\ t < lo
  <2>1. lo \in Instants(s, t, h)
    BY <1>0, <1>4 DEF Instants, Within
  <2>2. Value(s, lo) = Value(s, v)
    BY <1>0
  <2> QED
    BY <1>2, <2>1, <2>2 DEF Reached, Change
<1>5. CASE lo <= t
  <2>1. Value(s, t) = Value(s, v)
    BY <1>0, <1>5
  <2>2. Abs(Change(s, t, v)) = 0
    BY <1>1, <2>1 DEF Change, Abs
  <2> QED
    BY <1>2, <2>2 DEF Reached, Instants
<1> QED
  BY <1>0, <1>3, <1>4, <1>5

(* A time in the period that t lies in, or in the next one. *)
LEMMA NearReached ==
  ASSUME NEW s, IsPulse(s), NEW t \in Nat, NEW h \in Nat \ {0},
         NEW v \in (t + 1)..(t + h), NEW m \in Nat,
         m = Cycle(s, t) \/ m = Cycle(s, t) + 1,
         Base(s, m) <= v, v <= Base(s, m) + s.pr
  PROVE  Reached(s, t, h, v)
<1> DEFINE B == Base(s, m)
           c1 == B + s.tr  c2 == B + s.tr + s.pw  c3 == B + s.tr + s.pw + s.tf
<1>1. /\ s.tr \in Nat /\ s.pw \in Nat /\ s.tf \in Nat /\ s.V1 \in Int /\ s.V2 \in Int
      /\ s.pr \in Nat /\ s.pr > s.tr + s.pw + s.tf
      /\ Rise(s) \in Int /\ Fall(s) \in Int
  BY PulseFacts
<1>2. B \in Nat
  <2>1. 0 \in 0..s.pr
    BY <1>1
  <2>2. B + 0 \in Nat
    BY <2>1, ValueInPeriod
  <2> QED
    BY <1>1, <2>2, PulseFacts DEF Base
<1>3. B \in Corners(s, t) /\ c1 \in Corners(s, t) /\ c2 \in Corners(s, t) /\ c3 \in Corners(s, t)
  BY CornersHas
<1>4. ASSUME NEW x \in B..(B + s.pr)
      PROVE  x - B \in Nat /\ Value(s, x) = Shape(s, x - B)
  <2> DEFINE y == x - B
  <2>1. y \in 0..s.pr /\ y \in Nat /\ x = B + y
    BY <1>1, <1>2
  <2> HIDE DEF y
  <2>2. Value(s, x) = Shape(s, y)
    BY <2>1, ValueInPeriod
  <2> QED
    BY <2>1, <2>2 DEF y
<1> HIDE DEF B
<1>5. CASE v <= c1
  <2>1. ASSUME NEW x \in B..c1, NEW z \in B..c1, x <= v, v <= z
        PROVE  Between(Value(s, x), Value(s, z), Value(s, v))
    <3> DEFINE i == x - B  j == v - B  k == z - B  r == Rise(s)  b == s.V1
    <3>1. /\ i \in Nat /\ j \in Nat /\ k \in Nat /\ i <= j /\ j <= k
          /\ i <= s.tr /\ j <= s.tr /\ k <= s.tr
      BY <1>1, <1>2, <1>5, <2>1
    <3>2. /\ x \in B..(B + s.pr) /\ v \in B..(B + s.pr) /\ z \in B..(B + s.pr)
      BY <1>1, <1>2, <1>5, <2>1
    <3>3. Value(s, x) = Shape(s, i) /\ Value(s, v) = Shape(s, j) /\ Value(s, z) = Shape(s, k)
      BY <1>4, <3>2
    <3> HIDE DEF i, j, k
    <3>4. Shape(s, i) = b + i * r /\ Shape(s, j) = b + j * r /\ Shape(s, k) = b + k * r
      BY <3>1, ShapePieces
    <3>5. /\ b \in Int /\ r \in Int /\ i \in Int /\ j \in Int /\ k \in Int
          /\ i <= j /\ j <= k
      BY <1>1, <3>1
    <3> HIDE DEF b, r
    <3>6. Between(b + i * r, b + k * r, b + j * r)
      BY <3>5, LineBetween
    <3> QED
      BY <3>3, <3>4, <3>6
  <2> HIDE DEF c1
  <2>2. B <= v
    BY DEF B
  <2> QED
    BY <1>3, <1>5, <2>1, <2>2, PieceReached
<1>6. CASE c1 <= v /\ v <= c2
  <2>1. ASSUME NEW x \in c1..v PROVE Value(s, x) = Value(s, v)
    <3> DEFINE i == x - B  j == v - B
    <3>1. /\ i \in Nat /\ j \in Nat /\ s.tr <= i /\ s.tr <= j
          /\ i <= s.tr + s.pw /\ j <= s.tr + s.pw
          /\ x \in B..(B + s.pr) /\ v \in B..(B + s.pr)
      BY <1>1, <1>2, <1>6
    <3>2. Value(s, x) = Shape(s, i) /\ Value(s, v) = Shape(s, j)
      BY <1>4, <3>1
    <3> HIDE DEF i, j
    <3> QED
      BY <3>1, <3>2, ShapePieces
  <2> HIDE DEF c1
  <2> QED
    BY <1>3, <1>6, <2>1, LevelReached
<1>7. CASE c2 <= v /\ v <= c3
  <2>1. ASSUME NEW x \in c2..c3, NEW z \in c2..c3, x <= v, v <= z
        PROVE  Between(Value(s, x), Value(s, z), Value(s, v))
    <3> DEFINE i == x - B  j == v - B  k == z - B
               p == i - s.tr - s.pw  q == j - s.tr - s.pw  o == k - s.tr - s.pw
               r == Fall(s)  b == s.V2  n == -r
    <3>1. /\ i \in Nat /\ j \in Nat /\ k \in Nat
          /\ p \in Int /\ q \in Int /\ o \in Int /\ p <= q /\ q <= o
          /\ s.tr + s.pw <= i /\ i <= s.tr + s.pw + s.tf
          /\ s.tr + s.pw <= j /\ j <= s.tr + s.pw + s.tf
          /\ s.tr + s.pw <= k /\ k <= s.tr + s.pw + s.tf
      BY <1>1, <1>2, <1>7, <2>1
    <3>2. /\ x \in B..(B + s.pr) /\ v \in B..(B + s.pr) /\ z \in B..(B + s.pr)
      BY <1>1, <1>2, <1>7, <2>1
    <3>3. Value(s, x) = Shape(s, i) /\ Value(s, v) = Shape(s, j) /\ Value(s, z) = Shape(s, k)
      BY <1>4, <3>2
    <3> HIDE DEF i, j, k
    <3>4. Shape(s, i) = b - p * r /\ Shape(s, j) = b - q * r /\ Shape(s, k) = b - o * r
      BY <3>1, ShapePieces
    <3>5. b \in Int /\ r \in Int /\ n \in Int
      BY <1>1
    <3> HIDE DEF b, r, p, q, o
    <3>6. b - p * r = b + p * n /\ b - q * r = b + q * n /\ b - o * r = b + o * n
      <4>1. ASSUME NEW y \in Int PROVE b - y * r = b + y * n
        BY <3>5
      <4> QED
        BY <3>1, <4>1
    <3> HIDE DEF n
    <3>7. Between(b + p * n, b + o * n, b + q * n)
      BY <3>1, <3>5, LineBetween
    <3> QED
      BY <3>3, <3>4, <3>6, <3>7
  <2> HIDE DEF c2, c3
  <2> QED
    BY <1>3, <1>7, <2>1, PieceReached
<1>8. CASE c3 <= v
  <2>1. v <= B + s.pr
    BY DEF B
  <2>2. ASSUME NEW x \in c3..v PROVE Value(s, x) = Value(s, v)
    <3> DEFINE i == x - B  j == v - B
    <3>1. /\ i \in Nat /\ j \in Nat
          /\ s.tr + s.pw + s.tf <= i /\ s.tr + s.pw + s.tf <= j
          /\ x \in B..(B + s.pr) /\ v \in B..(B + s.pr)
      BY <1>1, <1>2, <1>8, <2>1
    <3>2. Value(s, x) = Shape(s, i) /\ Value(s, v) = Shape(s, j)
      BY <1>4, <3>1
    <3> HIDE DEF i, j
    <3> QED
      BY <3>1, <3>2, ShapePieces
  <2> HIDE DEF c3
  <2> QED
    BY <1>3, <1>8, <2>2, LevelReached
<1> QED
  BY <1>1, <1>2, <1>5, <1>6, <1>7, <1>8

(* A time after the next period, whose corners then all lie in between. *)
LEMMA FarReached ==
  ASSUME NEW s, IsPulse(s), NEW t \in Nat, NEW h \in Nat \ {0},
         NEW v \in (t + 1)..(t + h), NEW m \in Nat, m = Cycle(s, t) + 1,
         t < Base(s, m), Base(s, m) + s.pr <= v
  PROVE  Reached(s, t, h, v)
<1> DEFINE B == Base(s, m)  p == B + s.tr
<1>1. /\ s.tr \in Nat /\ s.pw \in Nat /\ s.tf \in Nat /\ s.V1 \in Int /\ s.V2 \in Int
      /\ s.pr \in Nat /\ s.pr > s.tr + s.pw + s.tf
  BY PulseFacts
<1>2. 0 \in 0..s.pr /\ s.tr \in 0..s.pr
  BY <1>1
<1>3. B + 0 \in Nat /\ p \in Nat /\ Value(s, B + 0) = Shape(s, 0) /\ Value(s, p) = Shape(s, s.tr)
  BY <1>2, ValueInPeriod
<1>4. B \in Int
  BY <1>1, PulseFacts DEF Base
<1>5. Shape(s, 0) = s.V1
  BY PulseFacts, ShapePieces
<1>6. Shape(s, s.tr) = s.V2
  BY <1>1, ShapePieces
<1>7. B + 0 = B
  BY <1>4
<1>8. Value(s, B) = s.V1 /\ Value(s, p) = s.V2
  BY <1>3, <1>5, <1>6, <1>7
<1>9. B \in Corners(s, t) /\ p \in Corners(s, t)
  BY CornersHas
<1>10. t < B /\ B + s.pr <= v
  OBVIOUS
<1> HIDE DEF B
<1>11. t < p /\ p < t + h /\ B < t + h
  BY <1>1, <1>4, <1>10
<1>12. B \in Instants(s, t, h) /\ p \in Instants(s, t, h)
  BY <1>9, <1>10, <1>11 DEF Instants, Within
<1> HIDE DEF p
<1>13. Between(Value(s, B), Value(s, p), Value(s, v)) /\ Value(s, v) \in Int /\ Value(s, t) \in Int
  BY <1>8, ValueBetween
<1>14. \/ Abs(Change(s, t, v)) <= Abs(Change(s, t, B))
       \/ Abs(Change(s, t, v)) <= Abs(Change(s, t, p))
  BY <1>1, <1>8, <1>13, BetweenEnds DEF Change
<1> QED
  BY <1>12, <1>14 DEF Reached

LEMMA AllReached ==
  ASSUME NEW s, IsPulse(s), NEW t \in Nat, NEW h \in Nat \ {0}, t + s.pr >= s.td,
         NEW v \in t..(t + h)
  PROVE  Reached(s, t, h, v)
<1> DEFINE c == Cycle(s, t)
<1>1. /\ s.td \in Nat /\ s.pr \in Nat \ {0}
      /\ Value(s, t) \in Int /\ Value(s, v) \in Int /\ Value(s, t + h) \in Int
  BY PulseFacts, ValueBetween
<1>2. Abs(Change(s, t, v)) \in Int /\ Abs(Change(s, t, t + h)) \in Nat
  BY <1>1 DEF Change, Abs
<1>3. CASE v = t
  <2>1. Abs(Change(s, t, v)) = 0
    BY <1>1, <1>3 DEF Change, Abs
  <2> QED
    BY <1>2, <2>1 DEF Reached, Instants
<1>4. CASE v # t /\ v < s.td
  <2>1. Value(s, t) = s.V1 /\ Value(s, v) = s.V1
    BY <1>1, <1>4 DEF Value, IsPulse
  <2>2. Abs(Change(s, t, v)) = 0
    BY <1>1, <2>1 DEF Change, Abs
  <2> QED
    BY <1>2, <2>2 DEF Reached, Instants
<1>5. CASE v # t /\ v >= s.td
  <2> DEFINE m == (v - s.td) \div s.pr
  <2>1. m \in Nat /\ Base(s, m) \in Nat /\ Base(s, m) <= v /\ v < Base(s, m) + s.pr
    BY <1>1, <1>5, PeriodOf
  <2> HIDE DEF m
  <2>2. c \in Int /\ c + 1 \in Nat /\ t < Base(s, c + 1) /\ c <= m
    <3>1. t < Base(s, m) + s.pr
      BY <1>1, <2>1
    <3> QED
      BY <2>1, <3>1, CycleFacts
  <2>3. v \in (t + 1)..(t + h)
    BY <1>5
  <2>4. CASE m <= c + 1
    <3>1. m = c \/ m = c + 1
      BY <2>1, <2>2, <2>4
    <3> QED
      BY <1>1, <2>1, <2>3, <3>1, NearReached
  <2>5. CASE c + 2 <= m
    <3> DEFINE k == c + 1  d == s.pr
    <3>1. k \in Nat /\ k + 1 <= m /\ t < Base(s, k)
      BY <2>1, <2>2, <2>5
    <3>2. d \in Nat /\ k + 1 \in Int /\ m \in Int
      BY <1>1, <2>1, <3>1
    <3> HIDE DEF k
    <3>3. (k + 1) * d <= m * d /\ (k + 1) * d = k * d + d
      BY <3>1, <3>2, ProductOrder
    <3> DEFINE x == k * d  y == m * d  z == (k + 1) * d
    <3>4. /\ x \in Int /\ y \in Int /\ z <= y /\ z = x + d
          /\ Base(s, k) = x + s.td /\ Base(s, m) = y + s.td
      BY <2>1, <3>1, <3>2, <3>3 DEF Base
    <3> HIDE DEF x, y, z
    <3>5. Base(s, k) + s.pr <= v
      BY <1>1, <2>1, <3>4
    <3> QED
      BY <2>3, <3>1, <3>5, FarReached DEF k
  <2> QED
    BY <2>1, <2>2, <2>4, <2>5
<1> QED
  BY <1>1, <1>3, <1>4, <1>5

(* Of the instants one has the largest change. *)
LEMMA LargestExists ==
  ASSUME NEW s, IsPulse(s), NEW t \in Nat, NEW h \in Nat \ {0}
  PROVE  \E w \in Instants(s, t, h) : Largest(s, t, h, w)
<1> DEFINE I == Instants(s, t, h)
           top == Abs(s.V2 - s.V1)
           short(w) == top - Abs(Change(s, t, w))
           T == {short(w) : w \in I}
<1>1. I \subseteq Int /\ t + h \in I
  BY CornersWhole DEF Instants, Within, IsPulse
<1>2. ASSUME NEW w \in I PROVE short(w) \in Nat /\ Abs(Change(s, t, w)) \in Int
  <2> DEFINE a == Value(s, t)  b == Value(s, w)
  <2>1. /\ a \in Int /\ Between(s.V1, s.V2, a) /\ b \in Int /\ Between(s.V1, s.V2, b)
        /\ s.V1 \in Int /\ s.V2 \in Int
    BY <1>1, ValueBetween, PulseFacts
  <2>2. Change(s, t, w) = b - a
    BY DEF Change
  <2> HIDE DEF a, b
  <2> QED
    BY <2>1, <2>2 DEF Between, Abs
<1>3. top \in Int
  BY PulseFacts DEF Abs
<1> HIDE DEF I, top
<1>4. T \in SUBSET Nat /\ T # {}
  BY <1>1, <1>2
<1> HIDE DEF T
<1>5. PICK n \in T : \A k \in T : n <= k
  BY <1>4, LeastNatural
<1>6. PICK w \in I : n = short(w)
  BY DEF T
<1>7. ASSUME NEW u \in I PROVE Abs(Change(s, t, u)) <= Abs(Change(s, t, w))
  <2>1. short(w) <= short(u)
    BY <1>5, <1>6 DEF T
  <2> QED
    BY <1>2, <1>3, <2>1
<1> QED
  BY <1>7 DEF Largest, I, Instants

(* dv_max: no change within the step is larger. *)
LEMMA DvMaxLargest ==
  ASSUME NEW s \in SourceType,
         s.pr > s.tr + s.pw + s.tf,
         (s.V2 - s.V1) % s.tr = 0, (s.V2 - s.V1) % s.tf = 0,
         NEW t \in Nat, NEW h \in Nat \ {0}, s.form = "dc" \/ t + s.pr >= s.td,
         NEW u \in 0..h
  PROVE  Abs(Change(s, t, t + u)) <= Abs(DvMax(s, t, h)) /\ DvMax(s, t, h) \in Int
<1>1. CASE s.form = "dc"
  <2>1. s.td \in Nat /\ s.V2 \in Int
    BY DEF SourceType
  <2>2. \A v \in Int : Value(s, v) = IF v >= s.td THEN s.V2 ELSE 0
    BY <1>1 DEF Value
  <2>3. DvMax(s, t, h) = IF t < s.td /\ t + h >= s.td THEN s.V2 ELSE 0
    BY <1>1 DEF DvMax
  <2> QED
    BY <2>1, <2>2, <2>3 DEF Change, Abs
<1>2. CASE s.form # "dc"
  <2>0. s.form = "pulse" /\ IsPulse(s) /\ t + s.pr >= s.td
    BY <1>2 DEF IsPulse, SourceType
  <2> DEFINE I == Instants(s, t, h)
             best == DvMax(s, t, h)
  <2>1. ASSUME NEW w \in I PROVE w \in Int /\ Change(s, t, w) \in Int
    <3>1. w \in Int
      BY CornersWhole DEF Instants, Within
    <3> QED
      BY <2>0, <3>1, ValueBetween DEF Change
  <2>2. \E w \in I : best = Change(s, t, w) /\ Largest(s, t, h, w)
    <3>1. CASE Largest(s, t, h, t + h)
      <4>1. best = Change(s, t, t + h)
        BY <1>2, <3>1 DEF DvMax
      <4> QED
        BY <3>1, <4>1 DEF Instants
    <3>2. CASE ~Largest(s, t, h, t + h)
      <4> DEFINE candidates == {w \in Within(s, t, h) : Largest(s, t, h, w)}
                 first == CHOOSE w \in candidates : \A k \in candidates : w <= k
      <4>1. best = Change(s, t, first)
        BY <1>2, <3>2 DEF DvMax
      <4>2. candidates # {}
        BY <2>0, <3>2, LargestExists DEF Instants
      <4>3. candidates \in SUBSET Nat
        BY CornersWhole DEF Within
      <4> HIDE DEF candidates
      <4>4. first \in candidates
        BY <4>2, <4>3, LeastNatural
      <4> HIDE DEF first
      <4>5. first \in Within(s, t, h) /\ Largest(s, t, h, first)
        BY <4>4 DEF candidates
      <4> QED
        BY <4>1, <4>5 DEF Instants
    <3> QED
      BY <3>1, <3>2
  <2> HIDE DEF I, best
  <2>3. PICK w \in I : best = Change(s, t, w) /\ Largest(s, t, h, w)
    BY <2>2
  <2>4. PICK x \in I : Abs(Change(s, t, t + u)) <= Abs(Change(s, t, x))
    <3>1. t + u \in t..(t + h)
      OBVIOUS
    <3>2. Reached(s, t, h, t + u)
      BY <2>0, <3>1, AllReached
    <3> QED
      BY <3>2 DEF Reached, I
  <2>5. Abs(Change(s, t, x)) <= Abs(Change(s, t, w))
    BY <2>3 DEF Largest, Instants, I
  <2>6. Change(s, t, t + u) \in Int
    BY <2>0, ValueBetween DEF Change
  <2> QED
    BY <2>1, <2>3, <2>4, <2>5, <2>6 DEF Abs, best
<1> QED
  BY <1>1, <1>2

-----------------------------------------------------------------------------
LEMMA TotalOfSingle ==
  ASSUME NEW v \in Int
  PROVE  Total([k \in {1} |-> v]) = v
<1>1. [k \in {1} |-> v] = <<v>>
  OBVIOUS
<1> QED
  BY <1>1, TotalOfOne

(* What the sources of a setup are assumed to be. *)
LEMMA SourceFacts ==
  ASSUME TypeOK, NEW i \in DOMAIN par.electrodes, NEW k \in DOMAIN par.electrodes[i]
  PROVE  /\ par.electrodes[i][k] \in SourceType
         /\ par.electrodes[i][k].pr
              > par.electrodes[i][k].tr + par.electrodes[i][k].pw + par.electrodes[i][k].tf
         /\ (par.electrodes[i][k].V2 - par.electrodes[i][k].V1) % par.electrodes[i][k].tr = 0
         /\ (par.electrodes[i][k].V2 - par.electrodes[i][k].V1) % par.electrodes[i][k].tf = 0
<1>1. par \in Setups /\ par \in SetupType
  BY SetupFacts
<1>2. par.electrodes \in Seq(Seq(SourceType))
  BY <1>1 DEF SetupType
<1>3. par.electrodes[i] \in Seq(SourceType)
  BY <1>2
<1>4. par.electrodes[i][k] \in SourceType
  BY <1>3
<1> QED
  BY <1>1, <1>4, SetupAssumption

LEMMA DvMaxInv == TypeOK => DvMaxIsMax
<1> SUFFICES ASSUME TypeOK, asked > 0,
                    NEW i \in DOMAIN par.electrodes, NEW k \in DOMAIN par.electrodes[i],
                    InSight(par.electrodes[i][k]), NEW u \in 0..asked
             PROVE  Abs(Value(par.electrodes[i][k], time + u)
                          - Value(par.electrodes[i][k], time))
                      <= Abs(DvMax(par.electrodes[i][k], time, asked))
  BY DEF DvMaxIsMax
<1> DEFINE s == par.electrodes[i][k]
<1>1. /\ s \in SourceType /\ s.pr > s.tr + s.pw + s.tf
      /\ (s.V2 - s.V1) % s.tr = 0 /\ (s.V2 - s.V1) % s.tf = 0
  BY SourceFacts
<1>2. time \in Nat /\ asked \in Nat \ {0}
  BY SetupFacts
<1>3. s.form = "dc" \/ time + s.pr >= s.td
  BY DEF InSight
<1> HIDE DEF s
<1>4. Abs(Change(s, time, time + u)) <= Abs(DvMax(s, time, asked))
  BY <1>1, <1>2, <1>3, DvMaxLargest
<1> QED
  BY <1>4 DEF Change, s

LEMMA ChangeInv == IInv => ChangeBounded
<1> SUFFICES ASSUME TypeOK, StepLimited, asked > 0, dt > par.dt_min,
                    NEW i \in DOMAIN par.electrodes,
                    Len(par.electrodes[i]) = 1, InSight(par.electrodes[i][1]),
                    NEW u \in 0..dt
             PROVE  Abs(Applied(par.electrodes[i], time + u) - Applied(par.electrodes[i], time))
                      <= par.change
  BY DEF IInv, ChangeBounded, ChangeAllowed
<1> DEFINE e == par.electrodes[i]
           s == par.electrodes[i][1]
           h == Shrunk(time, asked)
<1>1. /\ par \in SetupType /\ par.dt_min \in Nat \ {0} /\ par.change \in Nat
      /\ time \in Nat /\ asked \in Nat \ {0} /\ dt \in Nat \ {0}
  BY SetupFacts
<1>2. e \in Seq(SourceType) /\ DOMAIN e = {1} /\ 1 \in DOMAIN par.electrodes[i]
  <2>1. par.electrodes \in Seq(Seq(SourceType))
    BY <1>1 DEF SetupType
  <2>2. e \in Seq(SourceType) /\ Len(e) = 1
    BY <2>1
  <2>3. DOMAIN e = {1}
    BY <2>2
  <2> QED
    BY <2>2, <2>3
<1>3. /\ s \in SourceType /\ s.pr > s.tr + s.pw + s.tf
      /\ (s.V2 - s.V1) % s.tr = 0 /\ (s.V2 - s.V1) % s.tf = 0
  BY <1>2, SourceFacts
<1>4. s.form = "dc" \/ time + s.pr >= s.td
  BY DEF InSight
<1>5. h \in Nat \ {0} /\ dt <= h /\ ~TooLarge(time, h)
  BY <1>1, ShrunkFacts DEF StepLimited
<1> HIDE DEF h
<1>6. ASSUME NEW v \in Int, Value(s, v) \in Int PROVE Applied(e, v) = Value(s, v)
  <2>1. [k \in DOMAIN e |-> Value(e[k], v)] = [k \in {1} |-> Value(s, v)]
    BY <1>2
  <2> QED
    BY <1>6, <2>1, TotalOfSingle DEF Applied
<1>7. ASSUME DvMax(s, time, h) \in Int
      PROVE  Total([k \in DOMAIN e |-> DvMax(e[k], time, h)]) = DvMax(s, time, h)
  <2>1. [k \in DOMAIN e |-> DvMax(e[k], time, h)] = [k \in {1} |-> DvMax(s, time, h)]
    BY <1>2
  <2> QED
    BY <1>7, <2>1, TotalOfSingle
<1>8. u \in 0..h
  BY <1>1, <1>5
<1>9. Abs(Change(s, time, time + u)) <= Abs(DvMax(s, time, h)) /\ DvMax(s, time, h) \in Int
  <2> HIDE DEF s
  <2> QED
    BY <1>1, <1>3, <1>4, <1>5, <1>8, DvMaxLargest
<1>10. Abs(Total([k \in DOMAIN e |-> DvMax(e[k], time, h)])) <= par.change
  <2>1. ~(Abs(Total([k \in DOMAIN e |-> DvMax(e[k], time, h)])) > par.change)
    BY <1>5 DEF TooLarge
  <2>2. Total([k \in DOMAIN e |-> DvMax(e[k], time, h)]) \in Int
    BY <1>7, <1>9
  <2> DEFINE g == Total([k \in DOMAIN e |-> DvMax(e[k], time, h)])
  <2>3. Abs(g) \in Int
    BY <2>2 DEF Abs
  <2> HIDE DEF g
  <2>4. ~(Abs(g) > par.change)
    BY <2>1 DEF g
  <2>5. Abs(g) <= par.change
    BY <1>1, <2>3, <2>4
  <2> QED
    BY <2>5 DEF g
<1>11. Abs(DvMax(s, time, h)) <= par.change
  BY <1>7, <1>9, <1>10
<1>12. Value(s, time) \in Int /\ Value(s, time + u) \in Int /\ time \in Int /\ time + u \in Int
  <2>1. time \in Int /\ time + u \in Int
    BY <1>1, <1>8, <1>5
  <2> HIDE DEF s
  <2>2. ASSUME NEW v \in Int PROVE Value(s, v) \in Int
    <3>1. CASE s.form = "dc"
      BY <1>3, <3>1 DEF Value, SourceType
    <3>2. CASE s.form # "dc"
      <4>1. IsPulse(s)
        BY <1>3, <3>2 DEF IsPulse, SourceType
      <4> QED
        BY <4>1, ValueBetween
    <3> QED
      BY <3>1, <3>2
  <2> QED
    BY <2>1, <2>2
<1>13. /\ Applied(e, time + u) = Value(s, time + u)
       /\ Applied(e, time) = Value(s, time)
  BY <1>6, <1>12
<1>14. Abs(Value(s, time + u) - Value(s, time)) <= par.change
  <2> DEFINE a == Value(s, time)  b == Value(s, time + u)  g == DvMax(s, time, h)
  <2>1. /\ a \in Int /\ b \in Int /\ g \in Int
        /\ Abs(b - a) <= Abs(g) /\ Abs(g) <= par.change
    BY <1>9, <1>11, <1>12 DEF Change
  <2> HIDE DEF a, b, g
  <2>2. Abs(b - a) <= par.change
    BY <1>1, <2>1 DEF Abs
  <2> QED
    BY <2>2 DEF a, b
<1> QED
  BY <1>13, <1>14

(* dv_max is the largest change of a source within the step asked for.       *)
THEOREM DvMaxIsLargest == Spec => []DvMaxIsMax
<1>1. IInv => DvMaxIsMax
  BY DvMaxInv DEF IInv
<1> QED
  BY <1>1, InvCorrect, PTL

(* limit_dt keeps its promise for electrodes with one source: within a step  *)
(* longer than TStepMin the source changes by no more than VStepMax or       *)
(* IStepMax, also at the instants between the ends and after rejections.     *)
THEOREM ChangeIsBounded == Spec => []ChangeBounded
BY InvCorrect, ChangeInv, PTL
=============================================================================
