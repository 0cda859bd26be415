---------------------------- MODULE Dcqcn_proofs ----------------------------
(* Proofs about DCQCN: rates stay in bounds, the target is not below the   *)
(* rate, no timer runs twice or outlives the flow, for all intervals,      *)
(* gains and rates that satisfy the assumptions of Dcqcn.                  *)
EXTENDS Dcqcn, TLAPS

OneEach(S) == \A x, y \in S : x.timer = y.timer => x = y

(* The nanosecond between updates of alpha and checks of the rate.         *)
Apart(S) ==
  \A x, y \in S : x.timer = "decrease" /\ y.timer = "alpha" => (x.due - y.due) % 2 = 1

CheckInTime(S) ==
  \E x \in S : x.timer = "decrease" /\ x.due <= MicroSeconds(DecreaseInterval) + Nanosecond

Running(S) == (\E x \in S : x.timer = "alpha") /\ CheckInTime(S)

IInv ==
  /\ TypeOK
  /\ TargetNotBelowRate
  /\ OneEach(agenda)
  /\ Apart(agenda)
  /\ live /\ ~first_cnp => Running(agenda)
  /\ live /\ first_cnp => agenda = {}
  /\ decrease_cnp_arrived => ~first_cnp

-----------------------------------------------------------------------------
(* Arithmetic on rates.                                                    *)

(* Reducing by a factor of at most one keeps a rate below what it was.     *)
LEMMA Reduced ==
  ASSUME NEW r \in Nat, NEW a \in Nat, NEW b \in Nat \ {0}, a <= b
  PROVE  (r * a) \div b \in Nat /\ (r * a) \div b <= r
<1>1. r * a \in Nat
  OBVIOUS
<1>2. r * a <= r * b
  <2>1. r * b - r * a = r * (b - a)
    OBVIOUS
  <2>2. r * (b - a) \in Nat
    OBVIOUS
  <2> QED  BY <2>1, <2>2, <1>1
<1> DEFINE q == (r * a) \div b
<1>3. q \in Nat /\ q * b <= r * a
  BY <1>1, Z3
<1>4. ASSUME q > r PROVE FALSE
  <2>1. q - r - 1 \in Nat /\ (q - r - 1) * b \in Nat
    BY <1>3, <1>4
  <2>2. q * b = (q - r - 1) * b + r * b + b
    BY <1>3
  <2> QED  BY <2>1, <2>2, <1>2, <1>3
<1> QED  BY <1>3, <1>4

(* Halving and adding keeps between an even minimum and the larger rate.   *)
LEMMA Halves ==
  ASSUME NEW m \in Nat, m % 2 = 0, NEW r \in Nat, NEW t \in Nat, m <= r, r <= t
  PROVE  r \div 2 + t \div 2 \in m .. t
  OBVIOUS

LEMMA AlphaInRange ==
  ASSUME RateAssumption, alpha \in 0 .. One
  PROVE  ((One - Gain) * alpha) \div One + Gain \in 0 .. One /\ ((One - Gain) * alpha) \div One \in 0 .. One
<1>1. One \in Nat \ {0} /\ Gain \in Nat /\ One - Gain \in Nat /\ alpha \in Nat /\ alpha <= One
  BY DEF RateAssumption
<1>2. ((One - Gain) * alpha) \div One \in Nat /\ ((One - Gain) * alpha) \div One <= One - Gain
  BY <1>1, Reduced
<1> QED  BY <1>1, <1>2

-----------------------------------------------------------------------------
(* Sets of events.                                                         *)

(* What is left is what was scheduled, sooner by the time that passed.     *)
LEMMA RestFrom ==
  ASSUME agenda \subseteq Events, NEW e \in NextEvents, NEW g \in Rest(e)
  PROVE  /\ g \in Events
         /\ \E f \in agenda : f # e /\ g.timer = f.timer /\ g.due = f.due - e.due
<1>1. PICK f \in agenda \ {e} : g = [f EXCEPT !.due = @ - e.due]
  BY DEF Rest
<1>2. f \in Events /\ e \in Events
  BY DEF NextEvents
<1>3. e.due <= f.due
  BY <1>1, <1>2 DEF NextEvents, Events
<1> QED  BY <1>1, <1>2, <1>3 DEF Events

LEMMA RestHas ==
  ASSUME agenda \subseteq Events, NEW e \in NextEvents, NEW f \in agenda, f # e
  PROVE  \E g \in Rest(e) : g.timer = f.timer /\ g.due = f.due - e.due
<1>1. [f EXCEPT !.due = @ - e.due] \in Rest(e)
  BY DEF Rest
<1>2. f \in Events
  OBVIOUS
<1> QED  BY <1>1, <1>2 DEF Events

(* An event that runs and reschedules itself keeps the agenda well formed. *)
LEMMA Rescheduled ==
  ASSUME agenda \subseteq Events, OneEach(agenda), NEW e \in NextEvents, NEW d \in Nat
  PROVE  /\ Rest(e) \cup Schedule(e.timer, d) \subseteq Events
         /\ OneEach(Rest(e) \cup Schedule(e.timer, d))
<1>1. e \in agenda /\ e \in Events
  BY DEF NextEvents
<1>2. Schedule(e.timer, d) \subseteq Events
  BY <1>1 DEF Schedule, Events
<1>3. \A g \in Rest(e) : g \in Events /\ g.timer # e.timer
  BY <1>1, RestFrom DEF OneEach
<1>4. \A g, h \in Rest(e) : g.timer = h.timer => g = h
  <2> SUFFICES ASSUME NEW g \in Rest(e), NEW h \in Rest(e), g.timer = h.timer
               PROVE  g = h
    OBVIOUS
  <2>1. PICK f \in agenda : g.timer = f.timer /\ g.due = f.due - e.due
    BY RestFrom
  <2>2. PICK k \in agenda : h.timer = k.timer /\ h.due = k.due - e.due
    BY RestFrom
  <2>3. f = k
    BY <2>1, <2>2 DEF OneEach
  <2> QED  BY <2>1, <2>2, <2>3, <1>3 DEF Events
<1> QED  BY <1>2, <1>3, <1>4 DEF OneEach, Schedule

LEMMA Restarted ==
  ASSUME NEW S \in SUBSET Events, OneEach(S), TimerAssumption
  PROVE  RestartRp(S) \subseteq Events /\ OneEach(RestartRp(S))
  BY DEF RestartRp, Cancelled, Schedule, Events, OneEach, MicroSeconds, Timers, TimerAssumption

(* A set without two of the three timers keeps the nanosecond.             *)
LEMMA RestApart ==
  ASSUME agenda \subseteq Events, Apart(agenda), NEW e \in NextEvents
  PROVE  Apart(Rest(e))
<1> SUFFICES ASSUME NEW g \in Rest(e), NEW h \in Rest(e), g.timer = "decrease", h.timer = "alpha"
             PROVE  (g.due - h.due) % 2 = 1
  BY DEF Apart
<1>1. PICK f \in agenda : g.timer = f.timer /\ g.due = f.due - e.due
  BY RestFrom
<1>2. PICK k \in agenda : h.timer = k.timer /\ h.due = k.due - e.due
  BY RestFrom
<1>3. (f.due - k.due) % 2 = 1
  BY <1>1, <1>2 DEF Apart
<1>4. f.due \in Nat /\ k.due \in Nat /\ e.due \in Nat
  BY DEF Events, NextEvents
<1>5. g.due - h.due = f.due - k.due
  BY <1>1, <1>2, <1>4
<1> QED  BY <1>3, <1>5

LEMMA Completed ==
  ASSUME NEW S \in SUBSET Events
  PROVE  QpComplete(S) = {}
  BY DEF QpComplete, Cancelled, Events, Timers

-----------------------------------------------------------------------------
(* The first CNP and the later ones.                                       *)
LEMMA Started ==
  ASSUME TimerAssumption
  PROVE  LET S == {} \cup Schedule("alpha", MicroSeconds(AlphaInterval)) \cup FirstDecrease
         IN  S \subseteq Events /\ OneEach(S) /\ Apart(S) /\ Running(S)
<1> DEFINE a == [timer |-> "alpha", due |-> 2 * AlphaInterval]
           d == [timer |-> "decrease", due |-> 2 * DecreaseInterval + 1]
<1>1. {} \cup Schedule("alpha", MicroSeconds(AlphaInterval)) \cup FirstDecrease = {a, d}
  BY DEF Schedule, FirstDecrease, MicroSeconds, Nanosecond
<1>2. {a, d} \subseteq Events
  BY DEF Events, Timers, TimerAssumption
<1>3. OneEach({a, d})
  BY DEF OneEach
<1>4. (d.due - a.due) % 2 = 1
  <2>1. d.due - a.due = 2 * (DecreaseInterval - AlphaInterval) + 1
    BY DEF TimerAssumption
  <2>2. DecreaseInterval - AlphaInterval \in Int
    BY DEF TimerAssumption
  <2> QED  BY <2>1, <2>2
<1>5. Apart({a, d})
  BY <1>4 DEF Apart
<1>6. Running({a, d})
  <2>1. d.due <= MicroSeconds(DecreaseInterval) + Nanosecond
    BY DEF MicroSeconds, Nanosecond, TimerAssumption
  <2> QED  BY <2>1 DEF Running, CheckInTime
<1> QED  BY <1>1, <1>2, <1>3, <1>5, <1>6

-----------------------------------------------------------------------------
(* The steps.                                                              *)
LEMMA Rates ==
  ASSUME RateAssumption
  PROVE  /\ FirstRate \in MinRate .. LineRate /\ LineRate \in MinRate .. LineRate
         /\ FirstRate <= FirstRate /\ LineRate <= LineRate
         /\ One \in 0 .. One /\ 0 \in 0 .. Threshold + 1
  BY DEF RateAssumption

LEMMA InitInv ==
  ASSUME RateAssumption, TimerAssumption, Init
  PROVE  IInv
<1>1. TypeOK /\ TargetNotBelowRate
  BY Rates DEF Init, TypeOK, TimerAssumption, TargetNotBelowRate
<1> QED  BY <1>1 DEF IInv, Init, OneEach, Apart

LEMMA CnpStep ==
  ASSUME RateAssumption, TimerAssumption, IInv, CnpArrives
  PROVE  IInv'
<1>1. CASE first_cnp
  <2>1. agenda' = {} \cup Schedule("alpha", MicroSeconds(AlphaInterval)) \cup FirstDecrease
    BY <1>1 DEF CnpArrives, cnp_received, IInv
  <2>2. agenda' \subseteq Events /\ OneEach(agenda') /\ Apart(agenda') /\ Running(agenda')
    BY <2>1, Started
  <2>3. TypeOK' /\ TargetNotBelowRate'
    BY <1>1, <2>2, Rates DEF CnpArrives, cnp_received, IInv, TypeOK, TargetNotBelowRate
  <2>4. first_cnp' = FALSE
    BY <1>1 DEF CnpArrives, cnp_received
  <2> QED  BY <2>2, <2>3, <2>4 DEF IInv, Apart, OneEach, Running, CheckInTime
<1>2. CASE ~first_cnp
  <2>1. agenda' = agenda /\ first_cnp' = FALSE /\ live' = live
    BY <1>2 DEF CnpArrives, cnp_received, IInv, TypeOK
  <2>2. TypeOK' /\ TargetNotBelowRate'
    BY <1>2 DEF CnpArrives, cnp_received, IInv, TypeOK, TargetNotBelowRate
  <2> QED  BY <1>2, <2>1, <2>2 DEF IInv, Apart, OneEach, Running, CheckInTime
<1> QED  BY <1>1, <1>2

LEMMA FinalStep ==
  ASSUME RateAssumption, TimerAssumption, IInv, NEW cnp \in BOOLEAN, FinalAck(cnp)
  PROVE  IInv' /\ (agenda' = {} \/ (first_cnp /\ ~first_cnp'))
<1>1. QpComplete(agenda) = {}
  BY Completed DEF IInv, TypeOK
<1>2. live' = FALSE
  BY DEF FinalAck
<1>3. CASE cnp /\ first_cnp
  <2>1. agenda' = {} \cup Schedule("alpha", MicroSeconds(AlphaInterval)) \cup FirstDecrease
    BY <1>1, <1>3 DEF FinalAck, cnp_received
  <2>2. agenda' \subseteq Events /\ OneEach(agenda') /\ Apart(agenda')
    BY <2>1, Started
  <2>3. TypeOK' /\ TargetNotBelowRate' /\ first_cnp' = FALSE
    BY <1>3, <2>2, Rates DEF FinalAck, cnp_received, IInv, TypeOK, TargetNotBelowRate
  <2> QED  BY <1>2, <1>3, <2>2, <2>3 DEF IInv, Apart, OneEach
<1>4. CASE ~(cnp /\ first_cnp)
  <2>1. agenda' = {}
    BY <1>1, <1>4 DEF FinalAck, cnp_received
  <2>2. TypeOK' /\ TargetNotBelowRate' /\ (decrease_cnp_arrived' => ~first_cnp')
    BY <1>4, <2>1 DEF FinalAck, cnp_received, IInv, TypeOK, TargetNotBelowRate
  <2> QED  BY <1>2, <2>1, <2>2 DEF IInv, Apart, OneEach
<1> QED  BY <1>3, <1>4

LEMMA EndTimeStep ==
  ASSUME IInv, EndTimeReached
  PROVE  IInv' /\ agenda' = {}
<1>1. agenda' = {} /\ live' = FALSE
  BY Completed DEF EndTimeReached, IInv, TypeOK
<1>2. TypeOK' /\ TargetNotBelowRate' /\ (decrease_cnp_arrived' => ~first_cnp')
  BY <1>1 DEF EndTimeReached, IInv, TypeOK, TargetNotBelowRate
<1> QED  BY <1>1, <1>2 DEF IInv, Apart, OneEach

(* What an event leaves alone keeps running.                               *)
LEMMA AlphaStep ==
  ASSUME RateAssumption, TimerAssumption, IInv, NEW e \in NextEvents, UpdateAlpha(e),
         UNCHANGED <<live, end_pending>>
  PROVE  IInv'
<1> USE DEF IInv
<1>1. e.timer = "alpha" /\ e \in agenda /\ e \in Events
  BY DEF UpdateAlpha, NextEvents, TypeOK
<1>2. MicroSeconds(AlphaInterval) \in Nat /\ MicroSeconds(AlphaInterval) % 2 = 0
  BY DEF MicroSeconds, TimerAssumption
<1>3. agenda' \subseteq Events /\ OneEach(agenda')
  BY <1>1, <1>2, Rescheduled DEF UpdateAlpha, TypeOK
<1>4. Apart(agenda')
  <2> SUFFICES ASSUME NEW g \in agenda', NEW h \in agenda', g.timer = "decrease", h.timer = "alpha"
               PROVE  (g.due - h.due) % 2 = 1
    BY DEF Apart
  <2>1. g \in Rest(e)
    BY DEF UpdateAlpha, Schedule
  <2>2. PICK f \in agenda : g.timer = f.timer /\ g.due = f.due - e.due
    BY <2>1, RestFrom DEF TypeOK
  <2>3. (f.due - e.due) % 2 = 1
    BY <1>1, <2>2 DEF Apart
  <2>4. h.due = MicroSeconds(AlphaInterval)
    <3>1. \A x \in Rest(e) : x.timer # "alpha"
      BY <1>1, RestFrom DEF OneEach, TypeOK
    <3> QED  BY <3>1 DEF UpdateAlpha, Schedule
  <2>5. g.due \in Int /\ f.due \in Int /\ e.due \in Int
    BY <1>1, <2>2 DEF Events, TypeOK
  <2>6. (g.due - 2 * AlphaInterval) % 2 = 1
    <3>1. g.due % 2 = 1
      BY <2>2, <2>3
    <3> QED  BY <3>1, <2>5 DEF TimerAssumption
  <2> QED  BY <2>4, <2>6 DEF MicroSeconds
<1>5. live /\ ~first_cnp => Running(agenda')
  <2> SUFFICES ASSUME live, ~first_cnp PROVE Running(agenda')
    OBVIOUS
  <2>1. PICK d \in agenda : d.timer = "decrease" /\ d.due <= MicroSeconds(DecreaseInterval) + Nanosecond
    BY DEF Running, CheckInTime
  <2>2. PICK g \in Rest(e) : g.timer = d.timer /\ g.due = d.due - e.due
    BY <1>1, <2>1, RestHas DEF TypeOK
  <2>3. g.due <= d.due /\ d.due \in Nat /\ e.due \in Nat
    BY <1>1, <2>2 DEF Events, TypeOK
  <2>4. g \in agenda' /\ [timer |-> "alpha", due |-> MicroSeconds(AlphaInterval)] \in agenda'
    BY <2>2 DEF UpdateAlpha, Schedule
  <2>5. g.due <= MicroSeconds(DecreaseInterval) + Nanosecond
    BY <2>1, <2>2, <2>3 DEF MicroSeconds, Nanosecond, TimerAssumption
  <2> QED  BY <2>1, <2>2, <2>4, <2>5 DEF Running, CheckInTime
<1>6. alpha' \in 0 .. One
  BY AlphaInRange DEF UpdateAlpha, TypeOK
<1>7. TypeOK' /\ TargetNotBelowRate'
  BY <1>3, <1>6 DEF UpdateAlpha, TypeOK, TargetNotBelowRate
<1>8. ~(live /\ first_cnp)
  BY <1>1
<1> QED  BY <1>3, <1>4, <1>5, <1>7, <1>8 DEF UpdateAlpha, TypeOK

(* The check and the recovery schedule at odd distances from alpha.        *)
LEMMA CheckedApart ==
  ASSUME TimerAssumption, IInv, NEW e \in NextEvents, e.timer = "decrease"
  PROVE  Apart(Rest(e) \cup Schedule("decrease", MicroSeconds(DecreaseInterval)))
<1> DEFINE S == Rest(e) \cup Schedule("decrease", MicroSeconds(DecreaseInterval))
<1> SUFFICES ASSUME NEW g \in S, NEW h \in S, g.timer = "decrease", h.timer = "alpha"
             PROVE  (g.due - h.due) % 2 = 1
  BY DEF Apart
<1>1. e \in agenda /\ e \in Events /\ agenda \subseteq Events /\ OneEach(agenda) /\ Apart(agenda)
  BY DEF IInv, TypeOK, NextEvents
<1>2. h \in Rest(e)
  BY DEF Schedule
<1>3. PICK f \in agenda : h.timer = f.timer /\ h.due = f.due - e.due
  BY <1>1, <1>2, RestFrom
<1>4. (e.due - f.due) % 2 = 1
  BY <1>1, <1>3 DEF Apart
<1>5. g.due = 2 * DecreaseInterval
  <2>1. \A x \in Rest(e) : x.timer # "decrease"
    BY <1>1, RestFrom DEF OneEach
  <2> QED  BY <2>1 DEF Schedule, MicroSeconds
<1>6. e.due \in Int /\ f.due \in Int /\ DecreaseInterval \in Int
  BY <1>1, <1>3 DEF Events, TimerAssumption
<1>7. g.due - h.due = 2 * DecreaseInterval + (e.due - f.due)
  BY <1>3, <1>5, <1>6
<1> HIDE DEF S
<1> QED  BY <1>4, <1>6, <1>7

(* An event that is not an update of alpha keeps alpha running; a check    *)
(* keeps itself running, and a recovery the check.                         *)
LEMMA KeptAlpha ==
  ASSUME IInv, NEW e \in NextEvents, e.timer # "alpha", live, ~first_cnp
  PROVE  \E g \in Rest(e) : g.timer = "alpha"
<1>1. PICK a \in agenda : a.timer = "alpha"
  BY DEF IInv, Running
<1> QED  BY <1>1, RestHas DEF IInv, TypeOK

LEMMA KeptCheck ==
  ASSUME TimerAssumption, IInv, NEW e \in NextEvents, e.timer # "decrease", live, ~first_cnp
  PROVE  CheckInTime(Rest(e))
<1>1. PICK d \in agenda : d.timer = "decrease" /\ d.due <= MicroSeconds(DecreaseInterval) + Nanosecond
  BY DEF IInv, Running, CheckInTime
<1>2. PICK g \in Rest(e) : g.timer = d.timer /\ g.due = d.due - e.due
  BY <1>1, RestHas DEF IInv, TypeOK
<1>3. d.due \in Nat /\ e.due \in Nat
  BY DEF IInv, TypeOK, Events, NextEvents
<1>4. g.due <= MicroSeconds(DecreaseInterval) + Nanosecond
  BY <1>1, <1>2, <1>3 DEF MicroSeconds, Nanosecond, TimerAssumption
<1> QED  BY <1>1, <1>2, <1>4 DEF CheckInTime

LEMMA RestartedApart ==
  ASSUME NEW S, Apart(S)
  PROVE  Apart(RestartRp(S))
  BY DEF Apart, RestartRp, Cancelled, Schedule

LEMMA RestartedRunning ==
  ASSUME NEW S, Running(S)
  PROVE  Running(RestartRp(S))
  BY DEF Running, CheckInTime, RestartRp, Cancelled, Schedule

LEMMA Decreased ==
  ASSUME RateAssumption, IInv, DecreaseRate
  PROVE  rate' \in MinRate .. LineRate /\ target' \in MinRate .. LineRate /\ rate' <= target'
<1> DEFINE r == (rate * (2 * One - alpha)) \div (2 * One)
<1>1. rate \in Nat /\ target \in Nat /\ MinRate \in Nat /\ LineRate \in Nat
      /\ MinRate <= rate /\ rate <= target /\ target <= LineRate
  BY DEF IInv, TypeOK, TargetNotBelowRate, RateAssumption
<1>2. 2 * One - alpha \in Nat /\ 2 * One \in Nat \ {0} /\ 2 * One - alpha <= 2 * One
  BY DEF IInv, TypeOK, RateAssumption
<1>3. r \in Nat /\ r <= rate
  BY <1>1, <1>2, Reduced
<1>4. rate' = Larger(MinRate, r) /\ target' \in {rate, target}
  BY DEF DecreaseRate
<1> HIDE DEF r
<1> QED  BY <1>1, <1>3, <1>4 DEF Larger

LEMMA CheckStep ==
  ASSUME RateAssumption, TimerAssumption, IInv, NEW e \in NextEvents, CheckRateDecrease(e),
         UNCHANGED <<live, end_pending>>
  PROVE  IInv'
<1> DEFINE S == Rest(e) \cup Schedule("decrease", MicroSeconds(DecreaseInterval))
<1>1. e.timer = "decrease" /\ MicroSeconds(DecreaseInterval) \in Nat
  BY DEF CheckRateDecrease, MicroSeconds, TimerAssumption
<1>2. S \subseteq Events /\ OneEach(S)
  BY <1>1, Rescheduled DEF IInv, TypeOK
<1>3. Apart(S)
  BY <1>1, CheckedApart
<1>4. live /\ ~first_cnp => Running(S)
  <2> SUFFICES ASSUME live, ~first_cnp PROVE Running(S)
    OBVIOUS
  <2>1. \E g \in S : g.timer = "alpha"
    BY <1>1, KeptAlpha
  <2>2. [timer |-> "decrease", due |-> MicroSeconds(DecreaseInterval)] \in S
    BY DEF Schedule
  <2>3. MicroSeconds(DecreaseInterval) <= MicroSeconds(DecreaseInterval) + Nanosecond
    BY <1>1 DEF Nanosecond
  <2>4. CheckInTime(S)
    BY <2>2, <2>3 DEF CheckInTime
  <2> QED  BY <2>1, <2>4 DEF Running
<1>5. agenda' \in {S, RestartRp(S)}
  BY DEF CheckRateDecrease
<1> HIDE DEF S
<1>6. agenda' \subseteq Events /\ OneEach(agenda') /\ Apart(agenda')
      /\ (live /\ ~first_cnp => Running(agenda'))
  BY <1>2, <1>3, <1>4, <1>5, Restarted, RestartedApart, RestartedRunning
<1>7. rate' \in MinRate .. LineRate /\ target' \in MinRate .. LineRate /\ rate' <= target'
  BY Decreased DEF CheckRateDecrease, IInv, TypeOK, TargetNotBelowRate
<1>8. ~(live /\ first_cnp)
  BY DEF IInv, NextEvents
<1>9. rpTimeStage' \in 0 .. Threshold + 1 /\ decrease_cnp_arrived' \in BOOLEAN
      /\ (decrease_cnp_arrived' => decrease_cnp_arrived)
  BY Rates DEF CheckRateDecrease, DecreaseRate, IInv, TypeOK
<1>10. UNCHANGED <<alpha, alpha_cnp_arrived, first_cnp, live, end_pending>>
  BY DEF CheckRateDecrease
<1>11. TypeOK' /\ TargetNotBelowRate'
  BY <1>6, <1>7, <1>9, <1>10 DEF IInv, TypeOK, TargetNotBelowRate
<1> QED  BY <1>6, <1>8, <1>9, <1>10, <1>11 DEF IInv

LEMMA RateIncStep ==
  ASSUME RateAssumption, TimerAssumption, IInv, NEW e \in NextEvents, RateIncEvent(e),
         UNCHANGED <<live, end_pending>>
  PROVE  IInv'
<1> DEFINE S == Rest(e) \cup Schedule("rp", MicroSeconds(TimeReset))
<1>1. e.timer = "rp" /\ MicroSeconds(TimeReset) \in Nat /\ agenda' = S
  BY DEF RateIncEvent, MicroSeconds, TimerAssumption
<1>2. S \subseteq Events /\ OneEach(S)
  BY <1>1, Rescheduled DEF IInv, TypeOK
<1>3. Apart(S)
  <2>1. Apart(Rest(e))
    BY RestApart DEF IInv, TypeOK
  <2> QED  BY <2>1 DEF Apart, Schedule
<1>4. live /\ ~first_cnp => Running(S)
  BY <1>1, KeptAlpha, KeptCheck DEF Running, CheckInTime
<1>5. target' \in MinRate .. LineRate /\ target' >= target /\ target' \in Nat
  <2>1. Increment \in Nat
    BY DEF Increment, RateAssumption
  <2>2. target' = Smaller(target + Increment, LineRate)
    BY DEF RateIncEvent, IncreasedTarget
  <2> QED  BY <2>1, <2>2 DEF Smaller, IInv, TypeOK, RateAssumption
<1>6. rate' \in MinRate .. target'
  <2>1. rate \in Nat /\ MinRate \in Nat /\ MinRate % 2 = 0 /\ MinRate <= rate /\ rate <= target'
    BY <1>5 DEF IInv, TypeOK, TargetNotBelowRate, RateAssumption
  <2>2. rate' = rate \div 2 + target' \div 2
    BY DEF RateIncEvent
  <2> QED  BY <1>5, <2>1, <2>2, Halves
<1>7. rpTimeStage' \in 0 .. Threshold + 1
  BY DEF RateIncEvent, Smaller, IInv, TypeOK, RateAssumption
<1>8. ~(live /\ first_cnp)
  BY DEF IInv, NextEvents
<1> HIDE DEF S
<1>9. UNCHANGED <<alpha, alpha_cnp_arrived, decrease_cnp_arrived, first_cnp, live, end_pending>>
  BY DEF RateIncEvent
<1>10. rate' \in MinRate .. LineRate /\ rate' <= target'
  BY <1>5, <1>6 DEF RateAssumption
<1>11. TypeOK' /\ TargetNotBelowRate'
  BY <1>1, <1>2, <1>5, <1>7, <1>9, <1>10 DEF IInv, TypeOK, TargetNotBelowRate
<1> QED  BY <1>1, <1>2, <1>3, <1>4, <1>8, <1>9, <1>11 DEF IInv

LEMMA StepInv ==
  ASSUME RateAssumption, TimerAssumption, IInv, [Next]_vars
  PROVE  IInv'
<1>1. CASE CnpArrives
  BY <1>1, CnpStep
<1>2. CASE \E cnp \in BOOLEAN : FinalAck(cnp)
  BY <1>2, FinalStep
<1>3. CASE EndTimeReached
  BY <1>3, EndTimeStep
<1>4. CASE RunEvent
  BY <1>4, AlphaStep, CheckStep, RateIncStep DEF RunEvent
<1>5. CASE UNCHANGED vars
  BY <1>5 DEF vars, IInv, TypeOK, TargetNotBelowRate, OneEach, Apart, Running, CheckInTime
<1> QED  BY <1>1, <1>2, <1>3, <1>4, <1>5 DEF Next

LEMMA Invariant == Spec => []IInv
<1>1. Init => IInv
  BY InitInv, RateAssumption, TimerAssumption
<1>2. IInv /\ [Next]_vars => IInv'
  BY StepInv, RateAssumption, TimerAssumption
<1> QED  BY <1>1, <1>2, PTL DEF Spec

-----------------------------------------------------------------------------
(* Rates stay between the minimum and the line rate, alpha within one.     *)
THEOREM TypeCorrect == Spec => []TypeOK
<1>1. IInv => TypeOK
  BY DEF IInv
<1> QED  BY <1>1, Invariant, PTL

(* The rate never passes the target, whatever CNPs, decreases and          *)
(* recoveries follow each other.                                           *)
THEOREM ConvergesFromBelow == Spec => []TargetNotBelowRate
<1>1. IInv => TargetNotBelowRate
  BY DEF IInv
<1> QED  BY <1>1, Invariant, PTL

(* Each timer runs at most once, and a flow that heard a CNP is checked    *)
(* within an interval.                                                     *)
THEOREM TimersOnce == Spec => []OneTimerEach
<1>1. IInv => OneTimerEach
  BY DEF IInv, OneTimerEach, OneEach, AtMostOne, Scheduled, Running, CheckInTime, Timers
<1> QED  BY <1>1, Invariant, PTL

(* An update of alpha due in the microsecond of a check runs before it.    *)
THEOREM AlphaFirst == Spec => []AlphaBeforeDecrease
<1>1. IInv => AlphaBeforeDecrease
  <2> SUFFICES ASSUME IInv, NEW e \in NextEvents, e.timer = "decrease", NEW f \in Scheduled("alpha")
               PROVE  f.due > e.due
    BY DEF AlphaBeforeDecrease
  <2>1. e \in agenda /\ f \in agenda /\ f.timer = "alpha" /\ e \in Events /\ f \in Events
    BY DEF IInv, TypeOK, NextEvents, Scheduled
  <2>2. (e.due - f.due) % 2 = 1
    BY <2>1 DEF IInv, Apart
  <2>3. e.due <= f.due
    BY <2>1 DEF NextEvents, Events
  <2> QED  BY <2>1, <2>2, <2>3 DEF Events
<1> QED  BY <1>1, Invariant, PTL

(* No event of a flow outlives it, unless its last ACK is its first CNP.   *)
THEOREM NoTimerOutlives == Spec => TimersEndWithFlow
<1> DEFINE Ends == /\ live /\ ~live' => agenda' = {} \/ (first_cnp /\ ~first_cnp')
                   /\ ~live /\ agenda = {} => agenda' = {}
<1>1. IInv /\ [Next]_vars => [Ends]_vars
  <2> SUFFICES ASSUME IInv, Next PROVE Ends
    OBVIOUS
  <2>1. CASE CnpArrives
    BY <2>1 DEF CnpArrives
  <2>2. CASE \E cnp \in BOOLEAN : FinalAck(cnp)
    <3>1. PICK cnp \in BOOLEAN : FinalAck(cnp)
      BY <2>2
    <3>2. live /\ (agenda' = {} \/ (first_cnp /\ ~first_cnp'))
      BY <3>1, FinalStep, RateAssumption, TimerAssumption DEF FinalAck
    <3> QED  BY <3>2
  <2>3. CASE EndTimeReached
    BY <2>3, EndTimeStep
  <2>4. CASE RunEvent
    BY <2>4 DEF RunEvent, NextEvents
  <2> QED  BY <2>1, <2>2, <2>3, <2>4 DEF Next
<1>2. Spec => [][Ends]_vars
  BY <1>1, Invariant, PTL DEF Spec
<1> QED  BY <1>2 DEF TimersEndWithFlow
=============================================================================
