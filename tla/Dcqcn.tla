-------------------------------- MODULE Dcqcn --------------------------------
(***************************************************************************)
(* DCQCN as RdmaHw runs it for one queue pair (m_cc_mode 1): the estimate  *)
(* alpha of congestion, the current and the target rate, and three events  *)
(* that reschedule themselves: the update of alpha, the check whether the  *)
(* rate must go down, and the timer that lets it recover.  The first CNP   *)
(* starts them, QpComplete cancels them.                                   *)
(*                                                                         *)
(* Between two events only their order matters, so time jumps from event   *)
(* to event and `due' is relative to now.                                  *)
(***************************************************************************)
EXTENDS Integers

CONSTANTS
  LineRate,          \* the device's data rate
  MinRate,           \* m_minRate
  FirstRate,         \* m_rateOnFirstCNP times the line rate
  RateAI, RateHAI,   \* m_rai, m_rhai
  Threshold,         \* m_rpgThreshold
  ClampTarget,       \* m_EcnClampTgtRate
  AlphaInterval,     \* m_alpha_resume_interval, in microseconds
  DecreaseInterval,  \* m_rateDecreaseInterval
  TimeReset,         \* m_rpgTimeReset
  One, Gain,         \* alpha counts in fractions of One; Gain / One is m_g
  HasEndTime         \* AddQueuePair was given an endTime

(* The decrease rounds down to the minimum rate; halving an odd minimum    *)
(* would fall below it.                                                    *)
ASSUME RateAssumption ==
  /\ MinRate \in Nat \ {0} /\ MinRate % 2 = 0
  /\ LineRate \in Nat /\ FirstRate \in MinRate .. LineRate
  /\ RateAI \in Nat /\ RateHAI \in Nat
  /\ Threshold \in Nat
  /\ ClampTarget \in BOOLEAN
  /\ One \in Nat \ {0} /\ Gain \in 0 .. One

ASSUME TimerAssumption ==
  /\ AlphaInterval \in Nat \ {0}
  /\ DecreaseInterval \in Nat \ {0}
  /\ TimeReset \in Nat \ {0}
  /\ HasEndTime \in BOOLEAN

VARIABLES
  rate, target,          \* m_rate, m_targetRate
  alpha,                 \* m_alpha
  alpha_cnp_arrived, decrease_cnp_arrived, first_cnp,
  rpTimeStage,           \* m_rpTimeStage, not counted beyond Threshold + 1
  agenda,                \* the events scheduled and the time until each
  live,                  \* the queue pair is in m_qpMap
  end_pending            \* the event scheduled for endTime has not happened

vars == <<rate, target, alpha, alpha_cnp_arrived, decrease_cnp_arrived, first_cnp,
          rpTimeStage, agenda, live, end_pending>>

-----------------------------------------------------------------------------
Smaller(a, b) == IF a <= b THEN a ELSE b
Larger(a, b) == IF a >= b THEN a ELSE b

(* A microsecond is two units of time: one stands for the nanosecond that  *)
(* is added once to the decrease event.                                    *)
MicroSeconds(n) == 2 * n
Nanosecond == 1

Timers == {"alpha", "decrease", "rp"}
Events == [timer : Timers, due : Nat]
Schedule(t, delay) == {[timer |-> t, due |-> delay]}
Cancelled(events, t) == {e \in events : e.timer # t}

(* Faulty variant: the first check is due with an update of alpha.         *)
FirstDecrease_NoDelta == Schedule("decrease", MicroSeconds(DecreaseInterval))

FirstDecrease == Schedule("decrease", MicroSeconds(DecreaseInterval) + Nanosecond)

Init ==
  /\ rate = LineRate /\ target = LineRate
  /\ alpha = One
  /\ alpha_cnp_arrived = FALSE /\ decrease_cnp_arrived = FALSE /\ first_cnp = TRUE
  /\ rpTimeStage = 0
  /\ agenda = {}
  /\ live = TRUE
  /\ end_pending = HasEndTime

-----------------------------------------------------------------------------
(* cnp_received_mlx, with the events that are left of those scheduled.     *)
cnp_received(events) ==
  /\ decrease_cnp_arrived' = TRUE
  /\ IF first_cnp
     THEN /\ alpha' = One
          /\ alpha_cnp_arrived' = FALSE
          /\ agenda' = events \cup Schedule("alpha", MicroSeconds(AlphaInterval)) \cup FirstDecrease
          /\ rate' = FirstRate /\ target' = FirstRate
          /\ first_cnp' = FALSE
     ELSE /\ alpha_cnp_arrived' = TRUE
          /\ agenda' = events
          /\ UNCHANGED <<alpha, rate, target, first_cnp>>
  /\ UNCHANGED rpTimeStage

(* An ACK or NACK with the CNP flag that does not complete the flow.       *)
CnpArrives ==
  /\ live
  /\ cnp_received(agenda)
  /\ UNCHANGED <<live, end_pending>>

(* Faulty variant: the recovery timer is not cancelled.                    *)
QpComplete_KeepsRp(events) == {e \in events : e.timer = "rp"}

(* What QpComplete leaves of the events: it cancels all three.             *)
QpComplete(events) == Cancelled(Cancelled(Cancelled(events, "alpha"), "decrease"), "rp")

(* The ACK that completes the flow: QpComplete first, then its CNP flag.   *)
FinalAck(cnp) ==
  /\ live
  /\ live' = FALSE
  /\ IF cnp THEN cnp_received(QpComplete(agenda))
     ELSE /\ agenda' = QpComplete(agenda)
          /\ UNCHANGED <<rate, target, alpha, alpha_cnp_arrived, decrease_cnp_arrived,
                         first_cnp, rpTimeStage>>
  /\ UNCHANGED end_pending

(* The event for endTime, which may come after the flow completed.         *)
EndTimeReached ==
  /\ end_pending
  /\ end_pending' = FALSE
  /\ live' = FALSE
  /\ agenda' = QpComplete(agenda)
  /\ UNCHANGED <<rate, target, alpha, alpha_cnp_arrived, decrease_cnp_arrived, first_cnp,
                 rpTimeStage>>

-----------------------------------------------------------------------------
(* What runs next, and what is left once it is due.  Of two events due at  *)
(* once the one scheduled first runs, which is the one with the longer     *)
(* interval.                                                               *)
Interval == [alpha |-> AlphaInterval, decrease |-> DecreaseInterval, rp |-> TimeReset]
NextEvents ==
  {e \in agenda : \A f \in agenda :
     e.due < f.due \/ (e.due = f.due /\ Interval[e.timer] >= Interval[f.timer])}
Rest(e) == {[f EXCEPT !.due = @ - e.due] : f \in agenda \ {e}}

UpdateAlpha(e) ==
  /\ e.timer = "alpha"
  /\ alpha' = ((One - Gain) * alpha) \div One + (IF alpha_cnp_arrived THEN Gain ELSE 0)
  /\ alpha_cnp_arrived' = FALSE
  /\ agenda' = Rest(e) \cup Schedule("alpha", MicroSeconds(AlphaInterval))
  /\ UNCHANGED <<rate, target, decrease_cnp_arrived, first_cnp, rpTimeStage>>

(* Faulty variant: the CNP is not forgotten once it was obeyed.            *)
DecreaseRate_KeepsCnp ==
  /\ target' = IF ClampTarget \/ rpTimeStage # 0 THEN rate ELSE target
  /\ rate' = Larger(MinRate, (rate * (2 * One - alpha)) \div (2 * One))
  /\ rpTimeStage' = 0
  /\ UNCHANGED decrease_cnp_arrived

(* Faulty variant: the target follows the rate down.                       *)
DecreaseRate_Both ==
  /\ target' = Larger(MinRate, (target * (2 * One - alpha)) \div (2 * One))
  /\ rate' = rate
  /\ rpTimeStage' = 0
  /\ decrease_cnp_arrived' = FALSE

DecreaseRate ==
  /\ target' = IF ClampTarget \/ rpTimeStage # 0 THEN rate ELSE target
  /\ rate' = Larger(MinRate, (rate * (2 * One - alpha)) \div (2 * One))
  /\ rpTimeStage' = 0
  /\ decrease_cnp_arrived' = FALSE

(* Faulty variant: the timer of the last decrease goes on.                 *)
RestartRp_NoCancel(events) == events \cup Schedule("rp", MicroSeconds(TimeReset))

RestartRp(events) == Cancelled(events, "rp") \cup Schedule("rp", MicroSeconds(TimeReset))

CheckRateDecrease(e) ==
  LET events == Rest(e) \cup Schedule("decrease", MicroSeconds(DecreaseInterval))
  IN  /\ e.timer = "decrease"
      /\ IF decrease_cnp_arrived
         THEN DecreaseRate /\ agenda' = RestartRp(events)
         ELSE /\ agenda' = events
              /\ UNCHANGED <<rate, target, rpTimeStage, decrease_cnp_arrived>>
      /\ UNCHANGED <<alpha, alpha_cnp_arrived, first_cnp>>

Increment ==
  IF rpTimeStage < Threshold THEN 0
  ELSE IF rpTimeStage = Threshold THEN RateAI ELSE RateHAI

(* Faulty variant: the target is not held at the line rate.                *)
IncreasedTarget_Uncapped == target + Increment

(* FastRecovery leaves the target alone; below the line rate the cap does. *)
IncreasedTarget == Smaller(target + Increment, LineRate)

RateIncEvent(e) ==
  /\ e.timer = "rp"
  /\ target' = IncreasedTarget
  /\ rate' = rate \div 2 + target' \div 2
  /\ rpTimeStage' = Smaller(rpTimeStage + 1, Threshold + 1)
  /\ agenda' = Rest(e) \cup Schedule("rp", MicroSeconds(TimeReset))
  /\ UNCHANGED <<alpha, alpha_cnp_arrived, decrease_cnp_arrived, first_cnp>>

RunEvent ==
  /\ \E e \in NextEvents : UpdateAlpha(e) \/ CheckRateDecrease(e) \/ RateIncEvent(e)
  /\ UNCHANGED <<live, end_pending>>

Next ==
  \/ CnpArrives
  \/ \E cnp \in BOOLEAN : FinalAck(cnp)
  \/ EndTimeReached
  \/ RunEvent

Spec == Init /\ [][Next]_vars

(* The simulator runs what is scheduled.                                   *)
FairSpec == Spec /\ WF_vars(RunEvent)

-----------------------------------------------------------------------------
(* Both rates stay between the minimum and the line rate, alpha below one. *)
TypeOK ==
  /\ rate \in MinRate .. LineRate
  /\ target \in MinRate .. LineRate
  /\ alpha \in 0 .. One
  /\ alpha_cnp_arrived \in BOOLEAN
  /\ decrease_cnp_arrived \in BOOLEAN
  /\ first_cnp \in BOOLEAN
  /\ rpTimeStage \in 0 .. Threshold + 1
  /\ agenda \subseteq Events
  /\ live \in BOOLEAN
  /\ end_pending \in BOOLEAN

(* A decrease never leaves a target below the rate, and recovery never     *)
(* takes the rate past the target: it converges to it from below.          *)
TargetNotBelowRate == rate <= target

Scheduled(t) == {e \in agenda : e.timer = t}
AtMostOne(S) == \A e, f \in S : e = f

(* No timer runs twice, however decreases and recoveries interleave; from  *)
(* its first CNP on a flow has a check scheduled, so that a CNP is obeyed  *)
(* within an interval, and alpha is updated.                               *)
OneTimerEach ==
  /\ \A t \in Timers : AtMostOne(Scheduled(t))
  /\ live /\ ~first_cnp =>
       /\ Scheduled("alpha") # {}
       /\ \E e \in Scheduled("decrease") : e.due <= MicroSeconds(DecreaseInterval) + Nanosecond
  /\ decrease_cnp_arrived => ~first_cnp

(* "add 1 ns to make sure rate decrease is after alpha update": a check    *)
(* never runs before an update of alpha that is due in the same            *)
(* microsecond.                                                            *)
AlphaBeforeDecrease ==
  \A e \in NextEvents : e.timer = "decrease" => \A f \in Scheduled("alpha") : f.due > e.due

(* The flow's events end with it, whatever is pending when the last ACK or *)
(* the end time comes, with one exception: the last ACK carries the first  *)
(* CNP.  What is not scheduled then is never scheduled again.              *)
TimersEndWithFlow ==
  [][ /\ live /\ ~live' => agenda' = {} \/ (first_cnp /\ ~first_cnp')
      /\ ~live /\ agenda = {} => agenda' = {} ]_vars

(* Once CNPs stop the rate climbs back to the line rate but for what       *)
(* halving rounds off.                                                     *)
Recovers ==
  \/ []<><<CnpArrives>>_vars
  \/ <>~live
  \/ <>[](rate >= LineRate - 2)
=============================================================================
