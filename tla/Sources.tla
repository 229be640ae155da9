------------------------------ MODULE Sources -------------------------------
(***************************************************************************)
(* ElectricalSource::limit_dt (src/src/source/electrical_source.cc): the   *)
(* transient driver's next step, shortened for the waveforms of the        *)
(* sources attached to the electrodes (src/include/source/vsource.h and    *)
(* isource.h), and the steps the driver makes of it.                       *)
(*                                                                         *)
(* Times and voltages (currents) are whole numbers of some unit.  The      *)
(* sources are constant from a delay on (VDC, IDC) or trapezoidal pulses   *)
(* (VPULSE, IPULSE), whose code is the same for voltages and currents.     *)
(***************************************************************************)
EXTENDS Rounding, SequencesExt

CONSTANTS
  Setups,   \* the electrodes with their sources, and the limits in force
  MaxStep,  \* bound on the steps the driver asks for
  Horizon   \* the last time a step starts from

(* An electrode is the sequence of its sources: either all voltage sources   *)
(* or all current sources.                                                   *)
SourceType == [form : {"dc", "pulse"}, td : Nat, tr : Nat \ {0}, tf : Nat \ {0},
               pw : Nat, pr : Nat \ {0}, V1 : Int, V2 : Int]

(* dt_min is the driver's TStepMin, change its VStepMax or IStepMax. *)
SetupType == [electrodes : Seq(Seq(SourceType)), dt_min : Nat \ {0}, change : Nat]

ASSUME SetupAssumption ==
  /\ \A p \in Setups : p \in SetupType
  /\ \A p \in Setups : \A i \in DOMAIN p.electrodes : \A k \in DOMAIN p.electrodes[i] :
       LET s == p.electrodes[i][k]
       IN /\ s.pr > s.tr + s.pw + s.tf
          /\ (s.V2 - s.V1) % s.tr = 0 /\ (s.V2 - s.V1) % s.tf = 0
  /\ MaxStep \in Nat \ {0} /\ Horizon \in Nat

VARIABLES
  par,     \* the setup
  time,    \* the last accepted time
  asked,   \* the step the driver asked limit_dt for, 0 for its first one
  dt       \* the step being tried

vars == <<par, time, asked, dt>>

-----------------------------------------------------------------------------
(* Conversion of a quotient to int cuts off towards zero. *)
Truncated(n, d) == IF n >= 0 THEN n \div d ELSE -((-n) \div d)

(* The time into a pulse's period: while(_t>pr) _t-=pr. *)
Phase(s, t) == IF t = s.td THEN 0 ELSE ((t - s.td - 1) % s.pr) + 1

(* The waveform vapp(t). *)
Value(s, t) ==
  LET u == Phase(s, t)
      rise == (s.V2 - s.V1) \div s.tr
      fall == (s.V2 - s.V1) \div s.tf
  IN IF s.form = "dc" THEN IF t >= s.td THEN s.V2 ELSE 0
     ELSE IF t < s.td THEN s.V1
     ELSE IF u < s.tr THEN s.V1 + u * rise
     ELSE IF u < s.tr + s.pw THEN s.V2
     ELSE IF u < s.tr + s.pw + s.tf THEN s.V2 - (u - s.tr - s.pw) * fall
     ELSE s.V1

(* The sum over the sources of an electrode. *)
Total(q) ==
  LET sum[k \in 0..Len(q)] == IF k = 0 THEN 0 ELSE sum[k - 1] + q[k]
  IN sum[Len(q)]

(* What the electrode's sources add up to. *)
Applied(e, t) == Total([k \in DOMAIN e |-> Value(e[k], t)])

(* The corners of the waveform from the period that t lies in on, and the    *)
(* next period's.  Before the first period the code sees periods as well.    *)
Cycle(s, t) == Truncated(t - s.td, s.pr)
CornersOf(s, c) ==
  LET t0 == c * s.pr + s.td
  IN <<t0, t0 + s.tr, t0 + s.tr + s.pw, t0 + s.tr + s.pw + s.tf>>

MutThisPeriodOnly(s, t) == ToSet(CornersOf(s, Cycle(s, t)))
Corners(s, t) ==
  ToSet(CornersOf(s, Cycle(s, t))) \union ToSet(CornersOf(s, Cycle(s, t) + 1))

(* The instants dv_max looks at besides the end of the step h. *)
Change(s, t, u) == Value(s, u) - Value(s, t)
Within(s, t, h) == {u \in Corners(s, t) : t < u /\ u < t + h}

(* No instant has a larger change than u. *)
Largest(s, t, h, u) ==
  \A w \in Within(s, t, h) \union {t + h} : Abs(Change(s, t, w)) <= Abs(Change(s, t, u))

(* dv_max: the change at the end of the step h or at a corner within it,     *)
(* whichever is largest; of equal ones the end's, then the earliest.         *)
MutEndOnly(s, t, h) == Value(s, t + h) - Value(s, t)
DvMax(s, t, h) ==
  IF s.form = "dc" THEN IF t < s.td /\ t + h >= s.td THEN s.V2 ELSE 0
  ELSE IF Largest(s, t, h, t + h) THEN Change(s, t, t + h)
  ELSE LET candidates == {u \in Within(s, t, h) : Largest(s, t, h, u)}
       IN Change(s, t, CHOOSE u \in candidates : \A w \in candidates : u <= w)

(* Some electrode changes by more than allowed within the step h. *)
TooLarge(t, h) ==
  \E i \in DOMAIN par.electrodes :
    LET e == par.electrodes[i]
    IN Abs(Total([k \in DOMAIN e |-> DvMax(e[k], t, h)])) > par.change

(* The loop: 10% less until the change is allowed or dt_min is reached.      *)
(* Products are rounded down, as a double would shrink.                      *)
MutCutBelowMinimum(t, h) ==
  LET cut[g \in 0..h] == IF TooLarge(t, g) THEN cut[(9 * g) \div 10] ELSE g
  IN cut[h]
Shrunk(t, h) ==
  LET cut[g \in 1..h] ==
        IF g > par.dt_min /\ TooLarge(t, g) THEN cut[(9 * g) \div 10] ELSE g
  IN cut[h]

(* dt_critial_limit: end the step at the first corner in it that is dt_min   *)
(* away, of this period or the start of the next.                            *)
MutAnyCorner(t, h, u) == t < u /\ t + h > u
EndsAt(t, h, u) == t < u /\ t + h > u /\ u - t >= par.dt_min

CornerLimited(s, t, h) ==
  LET c == CornersOf(s, Cycle(s, t)) \o <<CornersOf(s, Cycle(s, t) + 1)[1]>>
      stops == {k \in 2..5 : EndsAt(t, h, c[k])}
  IN IF s.form = "dc" \/ stops = {} THEN h
     ELSE c[CHOOSE k \in stops : \A j \in stops : k <= j] - t

(* limit_dt: the loop, then the corners of all sources in turn. *)
limit_dt(t, h) ==
  LET sources == FlattenSeq(par.electrodes)
      limited[k \in 0..Len(sources)] ==
        IF k = 0 THEN Shrunk(t, h) ELSE CornerLimited(sources[k], t, limited[k - 1])
  IN limited[Len(sources)]

-----------------------------------------------------------------------------
(* The driver's first step is TStep, which nothing limits. *)
Init ==
  /\ par \in Setups
  /\ time = 0 /\ asked = 0
  /\ dt \in 1..MaxStep

(* The step is accepted; the driver asks for any step within its own bounds. *)
Accept ==
  \E h \in par.dt_min..Greater(MaxStep, par.dt_min) :
    /\ time < Horizon
    /\ time' = time + dt
    /\ asked' = h
    /\ dt' = limit_dt(time', h)
    /\ UNCHANGED par

(* The step diverged or its error is too large: try a shorter one. *)
Shorten ==
  /\ dt' \in 1..(dt - 1)
  /\ UNCHANGED <<par, time, asked>>

(* The end of the run: see Transient. *)
Finished == time >= Horizon /\ UNCHANGED vars

Next == Accept \/ Shorten \/ Finished

Spec == Init /\ [][Next]_vars

-----------------------------------------------------------------------------
(* Steps are positive and the limiter never lengthens one. *)
TypeOK ==
  /\ par \in Setups
  /\ time \in 0..(Horizon + Greater(MaxStep, par.dt_min))
  /\ asked \in 0..Greater(MaxStep, par.dt_min)
  /\ dt \in 1..(IF asked = 0 THEN MaxStep ELSE asked)

(* dv_max knows the corners that come next: the source is constant or at     *)
(* most one period before its first pulse.                                   *)
InSight(s) == s.form = "dc" \/ time + s.pr >= s.td

(* "the max value of vapp(t+delta_t)-vapp(t), delta_t in [0, dt]": dv_max of *)
(* a source in sight is as large as any change within the step.              *)
DvMaxIsMax ==
  asked > 0 =>
    \A i \in DOMAIN par.electrodes : \A k \in DOMAIN par.electrodes[i] :
      LET s == par.electrodes[i][k]
      IN InSight(s) =>
           \A u \in 0..asked : Abs(Value(s, time + u) - Value(s, time))
                                 <= Abs(DvMax(s, time, asked))

(* "limited time step by max allowd voltage/current change": no electrode    *)
(* changes by more than the limit anywhere within a step, also one shortened *)
(* later, unless the step is as small as steps get.                          *)
ChangeAllowed(e) ==
  asked > 0 /\ dt > par.dt_min =>
    \A u \in 0..dt : Abs(Applied(e, time + u) - Applied(e, time)) <= par.change

(* ... of electrodes with a single source, in sight; ElectricalSource adds   *)
(* up the largest changes of several, which may cancel.                      *)
ChangeBounded ==
  \A i \in DOMAIN par.electrodes :
    LET e == par.electrodes[i]
    IN Len(e) = 1 /\ InSight(e[1]) => ChangeAllowed(e)

(* ... of every electrode. *)
AllChangesBounded ==
  \A i \in DOMAIN par.electrodes : ChangeAllowed(par.electrodes[i])

(* What Transient takes the limiter to do (Transient!LimitedSteps): a step   *)
(* that is cut keeps nine tenths of dt_min.                                  *)
KeepsMinimum ==
  [][Accept => dt' = asked' \/ 10 * dt' >= 9 * par.dt_min]_vars
=============================================================================
