----------------------------- MODULE RateControl -----------------------------
(***************************************************************************)
(* The controllers that RdmaHw runs once per ACK: HPCC with one rate or    *)
(* one per hop (m_cc_mode 3), TIMELY (7), DCTCP (8) and HPCC-PINT (10),    *)
(* over the sender, receiver and network of GoBackN, so that the sequence  *)
(* numbers they compare are those of a flow that loses segments and goes   *)
(* back.                                                                   *)
(*                                                                         *)
(* What the network says about congestion is a choice from a small set:    *)
(* the utilisation that INT or PINT report relative to the target, the     *)
(* verdict of TIMELY on its round-trip time, the CNP flag.                 *)
(***************************************************************************)
EXTENDS GoBackN, FiniteSets

CONSTANTS
  Controllers,       \* the controllers to choose from
  LineRate,          \* m_max_rate
  MinRate,           \* m_minRate
  RateAI, RateHAI,   \* m_rai (DCTCP: m_dctcp_rai), m_rhai
  MiThresh,          \* m_miThresh
  FastReact,         \* m_fast_react
  SampleFeedback,    \* m_sampleFeedback, or PINT's sampling
  Hops,              \* the hops of the path
  One,               \* utilisations, factors and alpha count in fractions of One
  Utilisations,      \* U / m_targetUtil
  Factors,           \* c of TIMELY
  Gain               \* Gain / One is m_g

TimelyStages == 5    \* additive increases before TIMELY's faster ones

ASSUME ControlAssumption ==
  /\ Controllers \subseteq {"hpcc", "hpcc_per_hop", "timely", "dctcp", "pint"}
  /\ MinRate \in Nat /\ LineRate \in Nat /\ MinRate <= LineRate
  /\ RateAI \in Nat /\ RateHAI \in Nat
  /\ MiThresh \in Nat
  /\ FastReact \in BOOLEAN /\ SampleFeedback \in BOOLEAN
  /\ IsFiniteSet(Hops)
  /\ One \in Nat \ {0} /\ Gain \in 0 .. One
  /\ Utilisations \subseteq Nat \ {0}
  /\ Factors \subseteq 0 .. One

VARIABLES
  controller,      \* m_cc_mode and m_multipleRate
  lastUpdateSeq,   \* m_lastUpdateSeq
  rate,            \* m_rate
  curRate,         \* m_curRate, what a round trip starts from
  incStage,        \* m_incStage; TIMELY's is not counted beyond TimelyStages
  hopState,        \* Rc and incStage of each hop
  dctcp,           \* m_caState, m_highSeq, m_ecnCnt, m_batchSizeOfAlpha, m_alpha
  old              \* for each kind of round, the packets under way that left
                   \* before the last one began; the code has no such state

control == <<controller, lastUpdateSeq, rate, curRate, incStage, hopState, dctcp>>
allVars == <<vars, control, old>>

-----------------------------------------------------------------------------
(* Faulty variant: the bound of the line rate is missing.                  *)
Bounded_NoMax(r) == Larger(r, MinRate)

Bounded(r) == Smaller(Larger(r, MinRate), LineRate)

(* One step of HPCC: multiplicative at or above the target and after       *)
(* MiThresh additive ones.                                                 *)
MustDivide(stage, u) == u >= One \/ stage >= MiThresh
NewRate(r, stage, u) ==
  Bounded((IF MustDivide(stage, u) THEN (r * One) \div u ELSE r) + RateAI)
NewStage(stage, u) == IF MustDivide(stage, u) THEN 0 ELSE stage + 1

ControlInit ==
  /\ controller \in Controllers
  /\ lastUpdateSeq = 0
  /\ rate = LineRate /\ curRate = LineRate
  /\ incStage = 0
  /\ hopState = [h \in Hops |-> [Rc |-> LineRate, incStage |-> 0]]
  /\ dctcp = [inCwr |-> FALSE, highSeq |-> 0, ecnCnt |-> 0, batch |-> 0, alpha |-> One]

-----------------------------------------------------------------------------
(* The handlers, with the sequence number of the ACK or NACK.  snd_nxt' is *)
(* what they read: RecoverQueue ran before them.                           *)
FullUpdate(seq) == seq > lastUpdateSeq

(* Faulty variant: a later update may take m_lastUpdateSeq back.           *)
Advance_ToAck(seq) == lastUpdateSeq' = seq

Advance(seq) == lastUpdateSeq' = Larger(lastUpdateSeq, snd_nxt')

(* The first feedback only starts the first round.                         *)
FirstRound == lastUpdateSeq' = snd_nxt' /\ UNCHANGED <<rate, curRate, incStage, hopState>>

(* Faulty variant: a fast reaction starts from the rate of the last one.   *)
UpdateRate_FromRate(full, u) ==
  /\ rate' = NewRate(rate, incStage, u)
  /\ IF full THEN curRate' = rate' /\ incStage' = NewStage(incStage, u)
     ELSE UNCHANGED <<curRate, incStage>>

UpdateRate(full, u) ==
  /\ rate' = NewRate(curRate, incStage, u)
  /\ IF full THEN curRate' = rate' /\ incStage' = NewStage(incStage, u)
     ELSE UNCHANGED <<curRate, incStage>>

LowestOf(S) == CHOOSE r \in S : \A s \in S : r <= s

(* One rate per hop; those whose queue is empty may be left out of a fast  *)
(* reaction.  m_curRate is kept, m_incStage gets a value nobody reads.     *)
UpdateRatePerHop(full, updated, u) ==
  LET candidate(h) == IF h \in updated THEN NewRate(hopState[h].Rc, hopState[h].incStage, u[h])
                      ELSE hopState[h].Rc
  IN  /\ rate' = LowestOf({LineRate} \cup {candidate(h) : h \in Hops})
      /\ IF full
         THEN /\ curRate' = rate'
              /\ hopState' = [h \in Hops |-> [Rc |-> candidate(h),
                                              incStage |-> NewStage(hopState[h].incStage, u[h])]]
         ELSE UNCHANGED <<curRate, hopState>>
      /\ UNCHANGED incStage

UpdateRateHp(seq, full) ==
  IF lastUpdateSeq = 0 THEN FirstRound
  ELSE /\ IF controller = "hpcc"
          THEN (\E u \in Utilisations : UpdateRate(full, u)) /\ UNCHANGED hopState
          ELSE \E u \in [Hops -> Utilisations], updated \in SUBSET Hops :
                 /\ full \/ ~SampleFeedback => updated = Hops
                 /\ updated # {}
                 /\ UpdateRatePerHop(full, updated, u)
       /\ IF full THEN Advance(seq) ELSE UNCHANGED lastUpdateSeq

Unmoved == UNCHANGED <<lastUpdateSeq, rate, curRate, incStage, hopState>>

HandleAckHp(seq) ==
  /\ IF FullUpdate(seq) THEN UpdateRateHp(seq, TRUE)
     ELSE \/ FastReact /\ UpdateRateHp(seq, FALSE)
          \/ (~FastReact \/ SampleFeedback) /\ Unmoved
  /\ UNCHANGED dctcp

(* Sampled out, an ACK is not looked at at all.                            *)
HandleAckHpPint(seq) ==
  /\ \/ SampleFeedback /\ Unmoved
     \/ /\ lastUpdateSeq = 0
        /\ FirstRound
     \/ /\ lastUpdateSeq # 0
        /\ \E u \in Utilisations : UpdateRate(FullUpdate(seq), u)
        /\ IF FullUpdate(seq) THEN Advance(seq) ELSE UNCHANGED lastUpdateSeq
        /\ UNCHANGED hopState
  /\ UNCHANGED dctcp

Increased == Smaller(curRate + (IF incStage < TimelyStages THEN RateAI ELSE RateHAI), LineRate)

(* TIMELY does not react between full updates.                             *)
HandleAckTimely(seq) ==
  /\ IF ~FullUpdate(seq) THEN Unmoved
     ELSE /\ Advance(seq)
          /\ \/ lastUpdateSeq = 0 /\ UNCHANGED <<rate, curRate, incStage>>
             \/ /\ lastUpdateSeq # 0
                /\ \/ /\ rate' = Increased
                      /\ incStage' = Smaller(incStage + 1, TimelyStages)
                   \/ /\ \E c \in Factors : rate' = Larger(MinRate, (curRate * c) \div One)
                      /\ incStage' = 0
                /\ curRate' = rate'
          /\ UNCHANGED hopState
  /\ UNCHANGED dctcp

(* Faulty variant: a CNP is obeyed in every ACK.                           *)
Reduces_EveryCnp(cnp, inCwr) == cnp

Reduces(cnp, inCwr) == cnp /\ ~inCwr

(* Alpha moves towards the share of marked ACKs once per batch; the first  *)
(* batch only sets the size of the second.                                 *)
UpdateAlpha(seq, ecnCnt) ==
  LET frac == (One * Smaller(ecnCnt, dctcp.batch)) \div dctcp.batch
  IN  IF lastUpdateSeq = 0
      THEN [dctcp EXCEPT !.ecnCnt = ecnCnt, !.batch = snd_nxt' \div Mtu + 1]
      ELSE [dctcp EXCEPT !.ecnCnt = 0, !.batch = ((snd_nxt' - seq) % CountWord) \div Mtu + 1,
                         !.alpha = ((One - Gain) * @ + Gain * frac) \div One]

HandleAckDctcp(seq, cnp) ==
  LET ecnCnt == dctcp.ecnCnt + (IF cnp THEN 1 ELSE 0)
      updated == IF FullUpdate(seq) THEN UpdateAlpha(seq, ecnCnt) ELSE [dctcp EXCEPT !.ecnCnt = ecnCnt]
      inCwr == dctcp.inCwr /\ seq <= dctcp.highSeq
      reduces == Reduces(cnp, inCwr)
  IN  /\ lastUpdateSeq' = IF FullUpdate(seq) THEN snd_nxt' ELSE lastUpdateSeq
      /\ dctcp' = IF reduces THEN [updated EXCEPT !.inCwr = TRUE, !.highSeq = snd_nxt']
                  ELSE [updated EXCEPT !.inCwr = inCwr]
      /\ rate' = IF reduces THEN Larger(MinRate, (rate * (2 * One - updated.alpha)) \div (2 * One))
                 ELSE IF ~inCwr /\ FullUpdate(seq) THEN Smaller(LineRate, rate + RateAI)
                 ELSE rate
      /\ UNCHANGED <<curRate, incStage, hopState>>

HandleAck(seq) ==
  \/ controller \in {"hpcc", "hpcc_per_hop"} /\ HandleAckHp(seq)
  \/ controller = "timely" /\ HandleAckTimely(seq)
  \/ controller = "dctcp" /\ \E cnp \in BOOLEAN : HandleAckDctcp(seq, cnp)
  \/ controller = "pint" /\ HandleAckHpPint(seq)

-----------------------------------------------------------------------------
(* A round of a flow's feedback begins with each full update; a round of   *)
(* DCTCP's window of reduction with each reduction.                        *)
Rounds == {"update", "reduction"}
Begins(round) ==
  IF round = "update" THEN lastUpdateSeq' # lastUpdateSeq
  ELSE dctcp'.inCwr /\ (~dctcp.inCwr \/ dctcp'.highSeq # dctcp.highSeq \/ rate' < rate)

Fewer(n) == IF n > 0 THEN n - 1 ELSE 0

SendPacket(w) ==
  /\ Send(w)
  /\ UNCHANGED <<control, old>>

ClearQp ==
  /\ ClearFinished
  /\ UNCHANGED <<control, old>>

ReceiveAckAndReact(i) ==
  /\ ReceiveAck(i)
  /\ IF InQpMap THEN HandleAck(toTx[i].seq) ELSE Unmoved /\ UNCHANGED dctcp
  /\ old' = [round \in Rounds |->
               IF Begins(round) THEN [rx |-> Len(toRx), tx |-> Len(toTx')]
               ELSE [old[round] EXCEPT !.tx = Fewer(@)]]
  /\ UNCHANGED controller

(* The answer to an old packet is old.                                     *)
ReceivePacket(i) ==
  /\ ReceiveUdp(i)
  /\ old' = [round \in Rounds |->
               IF old[round].rx = 0 THEN old[round]
               ELSE [rx |-> old[round].rx - 1, tx |-> old[round].tx + Len(toTx') - Len(toTx)]]
  /\ UNCHANGED control

LosePacket ==
  /\ LoseData
  /\ old' = [round \in Rounds |-> [old[round] EXCEPT !.rx = Fewer(@)]]
  /\ UNCHANGED control

LoseAck ==
  /\ LoseAnswer
  /\ old' = [round \in Rounds |-> [old[round] EXCEPT !.tx = Fewer(@)]]
  /\ UNCHANGED control

ControlledInit ==
  /\ Init
  /\ ControlInit
  /\ old = [round \in Rounds |-> [rx |-> 0, tx |-> 0]]

ControlledNext ==
  \/ \E w \in Windows : SendPacket(w)
  \/ ClearQp
  \/ \E i \in Arriving(toTx) : ReceiveAckAndReact(i)
  \/ \E i \in Arriving(toRx) : ReceivePacket(i)
  \/ LosePacket
  \/ LoseAck

ControlledSpec == ControlledInit /\ [][ControlledNext]_allVars

-----------------------------------------------------------------------------
(* No controller leaves the range from the minimum to the line rate, and   *)
(* DCTCP never divides by an empty batch.                                  *)
ControlTypeOK ==
  /\ controller \in Controllers
  /\ lastUpdateSeq \in 0 .. Size
  /\ rate \in MinRate .. LineRate
  /\ curRate \in MinRate .. LineRate
  /\ incStage \in 0 .. Larger(MiThresh, TimelyStages)
  /\ hopState \in [Hops -> [Rc : MinRate .. LineRate, incStage : 0 .. MiThresh]]
  /\ dctcp \in [inCwr : BOOLEAN, highSeq : 0 .. Size, ecnCnt : Nat, batch : Nat, alpha : 0 .. One]
  /\ controller = "dctcp" /\ lastUpdateSeq > 0 => dctcp.batch > 0

(* A full update happens once per round trip: the ACK that brings it       *)
(* answers a packet sent after the last one, also when the sender went     *)
(* back in between.                                                        *)
OneUpdatePerRoundTrip == [][Begins("update") => old["update"].tx = 0]_allVars

(* DCTCP reduces its rate once per round trip, however many ACKs carry the *)
(* flag.                                                                   *)
OneReductionPerRoundTrip ==
  [][controller = "dctcp" /\ Begins("reduction") => old["reduction"].tx = 0]_allVars

(* However many feedbacks arrive in a round, the rate is one step from the *)
(* rate the round started with: fast reactions do not build on each other. *)
(* With one rate per hop, the round starts from the slowest.               *)
OneStepPerRound ==
  /\ controller \in {"hpcc", "pint"} =>
       \/ rate = curRate
       \/ \E u \in Utilisations : rate = NewRate(curRate, incStage, u)
  /\ controller = "hpcc_per_hop" =>
       curRate = LowestOf({LineRate} \cup {hopState[h].Rc : h \in Hops})
=============================================================================
