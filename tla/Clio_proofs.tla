---------------------------- MODULE Clio_proofs -----------------------------
(***************************************************************************)
(* Proofs about CLIO: its timers, for any number of them, width of the     *)
(* counters and values the CPU writes; its interrupt registers, for every  *)
(* set of bits and masks and every size of the frame; and the two together,*)
(* which each behave as they do alone.                                     *)
(***************************************************************************)
EXTENDS Clio, TLAPS

(* The timers.                                                             *)
(* Any counter that goes below zero comes back at the largest count.       *)
LEMMA PredRange ==
  ASSUME NEW c \in 0 .. Max
  PROVE  /\ Pred(c) \in 0 .. Max
         /\ c = 0 => Pred(c) = Max
         /\ c > 0 => Pred(c) = c - 1
  <1>1. Max \in Nat \ {0}
    BY ClioTimersAssumption
  <1>2. CASE c = 0
    <2>1. Pred(c) = (0 - 1) % (Max + 1)
      BY <1>2 DEF Pred
    <2>2. (0 - 1) % (Max + 1) = Max
      BY <1>1
    <2> QED
      BY <1>1, <1>2, <2>1, <2>2
  <1>3. CASE c > 0
    <2>1. (c - 1) % (Max + 1) = c - 1
      BY <1>1, <1>3
    <2> QED
      BY <1>1, <1>3, <2>1 DEF Pred
  <1> QED
    BY <1>2, <1>3

(* What every edge but a reset does to the timers.  A CPU write changes    *)
(* the count that w names, or some backup, or the control bits; it is      *)
(* touched when it is a write of a count or a backup.                      *)
Edge(cnt, bkp, ctrl, w, touched) ==
  /\ Counters(cnt, bkp) /\ Pulses /\ SlackCount /\ Control(ctrl)
  /\ Announce(w) /\ Chain(touched)

Writes(cnt, bkp, ctrl, w, touched) ==
  /\ cnt \in [Timers -> 0 .. Max] /\ bkp \in [Timers -> 0 .. Max]
  /\ ctrl \subseteq CtrlBits
  /\ \A n \in Timers : cnt[n] = IF w[1] = n THEN w[2] ELSE tmr_cnt[n]
  /\ touched \in BOOLEAN
  /\ ~touched => cnt = tmr_cnt /\ bkp = tmr_bkp

SomeEdge == \E cnt, bkp, ctrl, w, touched :
              Writes(cnt, bkp, ctrl, w, touched) /\ Edge(cnt, bkp, ctrl, w, touched)

LEMMA Indices ==
  0 \in Timers /\ 1 \in Timers /\ N \notin Timers /\ Timers \subseteq Nat
  BY ClioTimersAssumption DEF Timers

(* Every step of the timers is an edge, a reset, or nothing.               *)
LEMMA StepKinds ==
  ASSUME TypeOK, [Next]_vars
  PROVE  SomeEdge \/ Reset \/ UNCHANGED vars
  <1> USE DEF SomeEdge
  <1>t. tmr_cnt \in [Timers -> 0 .. Max] /\ tmr_bkp \in [Timers -> 0 .. Max]
        /\ tmr_ctrl \subseteq CtrlBits
    BY DEF TypeOK
  <1>n. \A n \in Timers : NoCount[1] # n
    BY Indices DEF NoCount
  <1>0. \A ctrl : ctrl \subseteq CtrlBits =>
          Writes(tmr_cnt, tmr_bkp, ctrl, NoCount, FALSE)
    BY <1>t, <1>n DEF Writes
  <1>1. CASE Idle
    BY <1>1, <1>0, <1>t DEF Idle, Edge
  <1>2. ASSUME NEW n \in Timers, NEW v \in Counts, WriteCount(n, v)
        PROVE  SomeEdge
    <2>1. v \in 0 .. Max
      BY ClioTimersAssumption
    <2>2. Writes([tmr_cnt EXCEPT ![n] = v], tmr_bkp, tmr_ctrl, <<n, v>>, TRUE)
      BY <1>t, <2>1 DEF Writes
    <2> QED
      BY <1>2, <2>2 DEF WriteCount, Edge
  <1>3. ASSUME NEW n \in Timers, NEW v \in Counts, WriteBackup(n, v)
        PROVE  SomeEdge
    <2>1. v \in 0 .. Max
      BY ClioTimersAssumption
    <2>2. Writes(tmr_cnt, [tmr_bkp EXCEPT ![n] = v], tmr_ctrl, NoCount, TRUE)
      BY <1>t, <1>n, <2>1 DEF Writes
    <2> QED
      BY <1>3, <2>2 DEF WriteBackup, Edge
  <1>4. ASSUME NEW mask \in CtrlMasks, SetControl(mask)
        PROVE  SomeEdge
    <2>1. tmr_ctrl \union mask \subseteq CtrlBits
      BY <1>t, ClioTimersAssumption
    <2> QED
      BY <1>4, <1>0, <2>1 DEF SetControl, Edge
  <1>5. ASSUME NEW mask \in CtrlMasks, ClearControl(mask)
        PROVE  SomeEdge
    <2>1. tmr_ctrl \ mask \subseteq CtrlBits
      BY <1>t
    <2> QED
      BY <1>5, <1>0, <2>1 DEF ClearControl, Edge
  <1>6. ASSUME NEW v \in Slacks, WriteSlack(v)
        PROVE  SomeEdge
    BY <1>6, <1>0, <1>t DEF WriteSlack, Edge
  <1> QED
    BY <1>1, <1>2, <1>3, <1>4, <1>5, <1>6 DEF Next, TimerWrite

(* The slack register holds its value at the reset or one that the CPU     *)
(* wrote.                                                                  *)
LEMMA SlackStep ==
  ASSUME [Next]_vars
  PROVE  slack' = slack \/ slack' \in Slacks \/ slack' = ResetSlack
  BY DEF Next, TimerWrite, vars, Idle, WriteCount, WriteBackup, SetControl, ClearControl,
         WriteSlack, Reset
-----------------------------------------------------------------------------
LEMMA InitType == Init => TypeOK
  <1> SUFFICES ASSUME Init PROVE TypeOK
    OBVIOUS
  <1>1. 0 \in 0 .. Max /\ Max \in 0 .. Max /\ ResetSlack \in Nat
    BY ClioTimersAssumption
  <1> QED
    BY <1>1 DEF Init, TypeOK

LEMMA TypeStep ==
  ASSUME TypeOK, [Next]_vars
  PROVE  TypeOK'
  <1>1. CASE SomeEdge
    <2>1. PICK cnt, bkp, ctrl, w, touched :
             /\ Writes(cnt, bkp, ctrl, w, touched)
             /\ Edge(cnt, bkp, ctrl, w, touched)
      BY <1>1 DEF SomeEdge
    <2> HIDE DEF Pred, Decrements, Due, Underflows, PairReady, ena, reload
    <2>2. \A n \in Timers : Pred(tmr_cnt[n]) \in 0 .. Max
      BY PredRange DEF TypeOK
    <2>3. tmr_cnt' \in [Timers -> 0 .. Max]
      BY <2>1, <2>2 DEF TypeOK, Writes, Edge, Counters
    <2>4. tmr_cnt_prev' \in [Timers -> 0 .. Max]
      BY <2>1 DEF TypeOK, Edge, Counters
    <2>5. tmr_bkp' \in [Timers -> 0 .. Max] /\ tmr_ctrl' \subseteq CtrlBits
      BY <2>1 DEF Writes, Edge, Counters, Control
    <2>6. tmr_wrap' \in [Timers -> BOOLEAN] /\ tmr_ena_clr' \in [Timers -> BOOLEAN]
      BY <2>1 DEF Edge, Pulses, ena, Due, reload
    <2>7. owed' \in [Timers -> BOOLEAN] /\ faked' \in [Timers -> BOOLEAN]
      BY <2>1 DEF Edge, Announce, Underflows, Decrements, ena
    <2>8. slack_cnt' \in Nat
      BY <2>1 DEF TypeOK, Edge, SlackCount
    <2>9. slack' \in Nat
      BY SlackStep, ClioTimersAssumption DEF TypeOK
    <2>10. chained' \in BOOLEAN
      BY <2>1 DEF Edge, Chain, TypeOK, PairReady, ena, reload, cas, Due
    <2> QED
      BY <2>3, <2>4, <2>5, <2>6, <2>7, <2>8, <2>9, <2>10 DEF TypeOK
  <1>2. CASE Reset
    <2>1. 0 \in 0 .. Max /\ Max \in 0 .. Max /\ ResetSlack \in Nat
      BY ClioTimersAssumption
    <2> QED
      BY <1>2, <2>1 DEF Reset, TypeOK
  <1>3. CASE UNCHANGED vars
    BY <1>3 DEF vars, counters, pulses, history, TypeOK
  <1> QED
    BY <1>1, <1>2, <1>3, StepKinds

(* The registers keep their types.                                         *)
THEOREM TypeCorrect == Spec => []TypeOK
  <1>1. Init => TypeOK
    BY InitType
  <1>2. TypeOK /\ [Next]_vars => TypeOK'
    BY TypeStep
  <1> QED
    BY <1>1, <1>2, PTL DEF Spec
-----------------------------------------------------------------------------
(* What one edge does to one timer, in the four cases of the always block. *)
LEMMA EdgeCases ==
  ASSUME TypeOK, NEW cnt, NEW bkp, NEW ctrl, NEW w, NEW touched,
         Writes(cnt, bkp, ctrl, w, touched), Edge(cnt, bkp, ctrl, w, touched),
         NEW n \in Timers
  PROVE
    /\ ~ena(n) => /\ tmr_cnt'[n] = cnt[n] /\ tmr_cnt_prev'[n] = tmr_cnt_prev[n]
                  /\ ~tmr_wrap'[n] /\ ~Decrements(n)
    /\ ena(n) /\ Due(n) =>
         /\ tmr_cnt'[n] = IF reload(n) THEN tmr_bkp[n] ELSE cnt[n]
         /\ tmr_cnt_prev'[n] = Max /\ tmr_wrap'[n] /\ ~Decrements(n)
    /\ Decrements(n) =>
         /\ tmr_cnt'[n] = Pred(tmr_cnt[n]) /\ tmr_cnt_prev'[n] = tmr_cnt[n]
         /\ ~tmr_wrap'[n]
    /\ ena(n) /\ ~Due(n) /\ ~Decrements(n) =>
         /\ tmr_cnt'[n] = cnt[n] /\ tmr_cnt_prev'[n] = tmr_cnt[n]
         /\ ~tmr_wrap'[n]
  <1>1. /\ tmr_cnt'[n] = IF ena(n) /\ Due(n)
                         THEN IF reload(n) THEN tmr_bkp[n] ELSE cnt[n]
                         ELSE IF Decrements(n) THEN Pred(tmr_cnt[n]) ELSE cnt[n]
        /\ tmr_cnt_prev'[n] = IF ena(n) THEN tmr_cnt[n] ELSE tmr_cnt_prev[n]
        /\ tmr_wrap'[n] = (ena(n) /\ Due(n))
    <2> HIDE DEF ena, Due, reload, Decrements, Pred
    <2> QED
      BY DEF Edge, Counters, Pulses
  <1>2. Decrements(n) => ena(n) /\ ~Due(n)
    BY DEF Decrements
  <1>3. Due(n) => tmr_cnt[n] = Max
    BY DEF Due
  <1> HIDE DEF ena, Due, reload, Decrements, Pred
  <1> QED
    BY <1>1, <1>2, <1>3

(* A timer is due after an edge only if it was due and is stopped, if it   *)
(* just went below zero, or if the CPU wrote the largest count over 0.     *)
LEMMA DueAfter ==
  ASSUME TypeOK, NEW cnt, NEW bkp, NEW ctrl, NEW w, NEW touched,
         Writes(cnt, bkp, ctrl, w, touched), Edge(cnt, bkp, ctrl, w, touched),
         NEW n \in Timers
  PROVE  Due(n)' <=> \/ Underflows(n) \/ Fakes(n, w)
                     \/ ~ena(n) /\ Due(n) /\ w[1] # n
  <1>0. Max \in Nat \ {0} /\ tmr_cnt[n] \in 0 .. Max
    BY ClioTimersAssumption DEF TypeOK
  <1>1. cnt[n] = IF w[1] = n THEN w[2] ELSE tmr_cnt[n]
    BY DEF Writes
  <1>2. Due(n)' <=> tmr_cnt'[n] = Max /\ tmr_cnt_prev'[n] = 0
    BY DEF Due
  <1>f. Fakes(n, w) <=>
          /\ w[1] = n /\ w[2] = Max
          /\ IF ena(n) THEN tmr_cnt[n] = 0 /\ ~Decrements(n)
             ELSE tmr_cnt_prev[n] = 0
    BY DEF Fakes
  <1>3. CASE ~ena(n)
    <2>1. tmr_cnt'[n] = cnt[n] /\ tmr_cnt_prev'[n] = tmr_cnt_prev[n]
      BY <1>3, EdgeCases
    <2>2. ~Underflows(n)
      BY <1>3 DEF Underflows, Decrements
    <2>3. Due(n) <=> tmr_cnt[n] = Max /\ tmr_cnt_prev[n] = 0
      BY DEF Due
    <2> HIDE DEF ena, Due, Underflows, Decrements, Fakes
    <2> QED
      BY <1>f, <1>1, <1>2, <1>3, <2>1, <2>2, <2>3
  <1>4. CASE ena(n) /\ Due(n)
    <2>1. tmr_cnt_prev'[n] = Max
      BY <1>4, EdgeCases
    <2>2. ~Underflows(n)
      BY <1>4 DEF Underflows, Decrements
    <2>3. tmr_cnt[n] = Max
      BY <1>4 DEF Due
    <2> HIDE DEF ena, Due, Underflows, Decrements, Fakes
    <2> QED
      BY <1>f, <1>0, <1>2, <1>4, <2>1, <2>2, <2>3
  <1>5. CASE Decrements(n)
    <2>1. tmr_cnt'[n] = Pred(tmr_cnt[n]) /\ tmr_cnt_prev'[n] = tmr_cnt[n]
      BY <1>5, EdgeCases
    <2>2. tmr_cnt[n] = 0 => Pred(tmr_cnt[n]) = Max
      BY <1>0, PredRange
    <2>3. Underflows(n) <=> tmr_cnt[n] = 0
      BY <1>5 DEF Underflows
    <2>4. ena(n)
      BY <1>5 DEF Decrements
    <2> HIDE DEF ena, Due, Underflows, Pred, Decrements, Fakes
    <2> QED
      BY <1>f, <1>2, <1>5, <2>1, <2>2, <2>3, <2>4
  <1>6. CASE ena(n) /\ ~Due(n) /\ ~Decrements(n)
    <2>1. tmr_cnt'[n] = cnt[n] /\ tmr_cnt_prev'[n] = tmr_cnt[n]
      BY <1>6, EdgeCases
    <2>2. ~Underflows(n)
      BY <1>6 DEF Underflows
    <2> HIDE DEF ena, Due, Underflows, Decrements, Fakes
    <2> QED
      BY <1>f, <1>0, <1>1, <1>2, <1>6, <2>1, <2>2
  <1> QED
    BY <1>3, <1>4, <1>5, <1>6
-----------------------------------------------------------------------------
(* A timer that shows its wrap has left the largest count behind it.       *)
PulseInv == \A n \in Timers : tmr_wrap[n] => tmr_cnt_prev[n] = Max

LEMMA PulseStep ==
  ASSUME TypeOK, PulseInv, [Next]_vars
  PROVE  PulseInv'
  <1>1. CASE SomeEdge
    <2>1. PICK cnt, bkp, ctrl, w, touched :
             /\ Writes(cnt, bkp, ctrl, w, touched)
             /\ Edge(cnt, bkp, ctrl, w, touched)
      BY <1>1 DEF SomeEdge
    <2>2. ASSUME NEW n \in Timers, tmr_wrap'[n]
          PROVE  tmr_cnt_prev'[n] = Max
      <3>1. ena(n) /\ Due(n)
        BY <2>1, <2>2, EdgeCases
      <3> QED
        BY <2>1, <3>1, EdgeCases
    <2> QED
      BY <2>2 DEF PulseInv
  <1>2. CASE Reset
    BY <1>2 DEF Reset, PulseInv
  <1>3. CASE UNCHANGED vars
    BY <1>3 DEF vars, counters, pulses, PulseInv
  <1> QED
    BY <1>1, <1>2, <1>3, StepKinds

LEMMA PulseAlways == Spec => []PulseInv
  <1>1. Init => PulseInv
    BY DEF Init, PulseInv
  <1>2. TypeOK /\ PulseInv /\ [Next]_vars => PulseInv'
    BY PulseStep
  <1> QED
    BY <1>1, <1>2, TypeCorrect, PTL DEF Spec

(* A timer whose wrap is up is not due.                                    *)
LEMMA WrapNotDue ==
  ASSUME PulseInv, NEW n \in Timers, tmr_wrap[n]
  PROVE  ~Due(n)
  <1>1. Max # 0
    BY ClioTimersAssumption
  <1> QED
    BY <1>1 DEF PulseInv, Due

(* A wrap is a pulse of one clock.                                         *)
THEOREM PulseCorrect == Spec => WrapIsPulse
  <1>1. ASSUME TypeOK, PulseInv, [Next]_vars
        PROVE  [\A n \in Timers : ~(tmr_wrap[n] /\ tmr_wrap'[n])]_vars
    <2>1. CASE SomeEdge
      <3>1. PICK cnt, bkp, ctrl, w, touched :
               /\ Writes(cnt, bkp, ctrl, w, touched)
               /\ Edge(cnt, bkp, ctrl, w, touched)
        BY <2>1 DEF SomeEdge
      <3>2. ASSUME NEW n \in Timers, tmr_wrap[n], tmr_wrap'[n]
            PROVE  FALSE
        <4>1. ~Due(n)
          BY <1>1, <3>2, WrapNotDue
        <4>2. ena(n) /\ Due(n)
          BY <1>1, <3>1, <3>2, EdgeCases
        <4> QED
          BY <4>1, <4>2
      <3> QED
        BY <3>2
    <2>2. CASE Reset
      BY <2>2 DEF Reset
    <2> QED
      BY <1>1, <2>1, <2>2, StepKinds
  <1> QED
    BY <1>1, TypeCorrect, PulseAlways, PTL DEF Spec, WrapIsPulse
-----------------------------------------------------------------------------
LEMMA WrapStep ==
  ASSUME TypeOK, WrapExact, [Next]_vars
  PROVE  WrapExact'
  <1>1. CASE SomeEdge
    <2>1. PICK cnt, bkp, ctrl, w, touched :
             /\ Writes(cnt, bkp, ctrl, w, touched)
             /\ Edge(cnt, bkp, ctrl, w, touched)
      BY <1>1 DEF SomeEdge
    <2>2. ASSUME NEW n \in Timers
          PROVE  Due(n)' <=> owed'[n] \/ faked'[n]
      <3>1. owed'[n] <=> Underflows(n) \/ (owed[n] /\ ~ena(n) /\ w[1] # n)
        <4> HIDE DEF Underflows, ena
        <4> QED
          BY <2>1 DEF Edge, Announce
      <3>2. faked'[n] <=> Fakes(n, w) \/ (faked[n] /\ ~ena(n) /\ w[1] # n)
        <4> HIDE DEF Fakes, ena
        <4> QED
          BY <2>1 DEF Edge, Announce
      <3>3. Due(n)' <=> \/ Underflows(n) \/ Fakes(n, w)
                        \/ ~ena(n) /\ Due(n) /\ w[1] # n
        BY <2>1, DueAfter
      <3>4. Due(n) <=> owed[n] \/ faked[n]
        BY DEF WrapExact
      <3> HIDE DEF Underflows, Fakes, ena, Due
      <3> QED
        BY <3>1, <3>2, <3>3, <3>4
    <2> QED
      BY <2>2 DEF WrapExact
  <1>2. CASE Reset
    BY <1>2 DEF Reset, WrapExact, Due
  <1>3. CASE UNCHANGED vars
    BY <1>3 DEF vars, counters, history, WrapExact, Due
  <1> QED
    BY <1>1, <1>2, <1>3, StepKinds

(* Wraps are announced for the underflows and for the counts that a reset  *)
(* or a write made look like one, all of them and nothing else, whatever   *)
(* is written, started and stopped in between.                             *)
THEOREM WrapCorrect == Spec => []WrapExact
  <1>1. Init => WrapExact
    BY DEF Init, WrapExact, Due
  <1>2. TypeOK /\ WrapExact /\ [Next]_vars => WrapExact'
    BY WrapStep
  <1> QED
    BY <1>1, <1>2, TypeCorrect, PTL DEF Spec
-----------------------------------------------------------------------------
(* A pair that is left alone stays a pair, each count within its backup    *)
(* until it goes below zero, and no carry meets a reload of timer 1.       *)
ChainInv ==
  chained =>
    /\ \A n \in {0, 1} : ena(n) /\ reload(n) /\ (tmr_cnt[n] <= tmr_bkp[n] \/ Due(n))
    /\ cas(1)
    /\ ~(Due(1) /\ tmr_wrap[0])

(* An edge that leaves the pair alone.                                     *)
Kept(cnt, bkp, ctrl, w, touched) ==
  /\ Writes(cnt, bkp, ctrl, w, touched)
  /\ Edge(cnt, bkp, ctrl, w, touched)
  /\ chained /\ chained'

LEMMA KeptFacts ==
  ASSUME TypeOK, ChainInv, NEW cnt, NEW bkp, NEW ctrl, NEW w, NEW touched,
         Kept(cnt, bkp, ctrl, w, touched)
  PROVE  cnt = tmr_cnt /\ tmr_bkp' = tmr_bkp /\ tmr_ctrl' = tmr_ctrl
  <1>1. ena(0)
    BY DEF ChainInv, Kept
  <1>2. ~touched /\ tmr_ctrl' = tmr_ctrl
    <2> HIDE DEF ena, PairReady
    <2> QED
      BY <1>1 DEF Kept, Edge, Chain
  <1> QED
    BY <1>2 DEF Kept, Writes, Edge, Counters

(* What such an edge does to each of the two timers.                       *)
LEMMA KeptTimer ==
  ASSUME TypeOK, ChainInv, NEW cnt, NEW bkp, NEW ctrl, NEW w, NEW touched,
         Kept(cnt, bkp, ctrl, w, touched), NEW n \in {0, 1}
  PROVE
    /\ Due(n) => /\ tmr_cnt'[n] = tmr_bkp[n] /\ ~Due(n)' /\ tmr_wrap'[n]
                 /\ ~Decrements(n)
    /\ ~Due(n) => ~tmr_wrap'[n]
    /\ Decrements(n) /\ tmr_cnt[n] = 0 => Due(n)'
    /\ Decrements(n) /\ tmr_cnt[n] # 0 =>
         tmr_cnt'[n] = tmr_cnt[n] - 1 /\ ~Due(n)'
    /\ ~Due(n) /\ ~Decrements(n) => tmr_cnt'[n] = tmr_cnt[n] /\ ~Due(n)'
  <1>1. n \in Timers /\ ena(n) /\ reload(n)
    BY Indices DEF ChainInv, Kept
  <1>2. cnt = tmr_cnt
    BY KeptFacts
  <1>3. Max \in Nat \ {0} /\ tmr_cnt[n] \in 0 .. Max
    BY <1>1, ClioTimersAssumption DEF TypeOK
  <1>k. Writes(cnt, bkp, ctrl, w, touched) /\ Edge(cnt, bkp, ctrl, w, touched)
    BY DEF Kept
  <1>d. Due(n)' <=> tmr_cnt'[n] = Max /\ tmr_cnt_prev'[n] = 0
    BY DEF Due
  <1>e. Decrements(n) => ~Due(n)
    BY DEF Decrements
  <1>4. CASE Due(n)
    <2>1. /\ tmr_cnt'[n] = IF reload(n) THEN tmr_bkp[n] ELSE cnt[n]
          /\ tmr_cnt_prev'[n] = Max /\ tmr_wrap'[n]
      BY <1>1, <1>4, <1>k, EdgeCases
    <2> HIDE DEF ena, reload, Due, Decrements
    <2> QED
      BY <1>1, <1>3, <1>4, <1>d, <1>e, <2>1
  <1>5. CASE Decrements(n)
    <2>1. /\ tmr_cnt'[n] = Pred(tmr_cnt[n]) /\ tmr_cnt_prev'[n] = tmr_cnt[n]
          /\ ~tmr_wrap'[n]
      BY <1>1, <1>5, <1>k, EdgeCases
    <2>2. /\ tmr_cnt[n] = 0 => Pred(tmr_cnt[n]) = Max
          /\ tmr_cnt[n] > 0 => Pred(tmr_cnt[n]) = tmr_cnt[n] - 1
      BY <1>3, PredRange
    <2> HIDE DEF Due, Decrements, Pred
    <2> QED
      BY <1>3, <1>5, <1>d, <1>e, <2>1, <2>2
  <1>6. CASE ~Due(n) /\ ~Decrements(n)
    <2>1. /\ tmr_cnt'[n] = cnt[n] /\ tmr_cnt_prev'[n] = tmr_cnt[n]
          /\ ~tmr_wrap'[n]
      BY <1>1, <1>6, <1>k, EdgeCases
    <2> HIDE DEF Due, Decrements
    <2> QED
      BY <1>2, <1>3, <1>6, <1>d, <2>1
  <1> QED
    BY <1>4, <1>5, <1>6

(* In a pair, timer 1 counts exactly the wraps of timer 0.                 *)
LEMMA UpperCounts ==
  ASSUME ChainInv, chained
  PROVE  Decrements(1) <=> tmr_wrap[0]
  <1>1. ena(1) /\ cas(1) /\ ~(Due(1) /\ tmr_wrap[0])
    BY DEF ChainInv
  <1>2. tmr_dec(1) <=> tmr_wrap[0]
    BY <1>1 DEF tmr_dec, tmr_cas_clk
  <1> QED
    BY <1>1, <1>2 DEF Decrements

LEMMA ChainStep ==
  ASSUME TypeOK, PulseInv, ChainInv, [Next]_vars
  PROVE  ChainInv'
  <1>1. CASE SomeEdge
    <2>1. PICK cnt, bkp, ctrl, w, touched :
             /\ Writes(cnt, bkp, ctrl, w, touched)
             /\ Edge(cnt, bkp, ctrl, w, touched)
      BY <1>1 DEF SomeEdge
    <2>2. CASE chained' /\ chained
      <3>1. Kept(cnt, bkp, ctrl, w, touched)
        BY <2>1, <2>2 DEF Kept
      <3>2. tmr_ctrl' = tmr_ctrl /\ tmr_bkp' = tmr_bkp
        BY <3>1, KeptFacts
      <3>3. ASSUME NEW n \in {0, 1}
            PROVE  ena(n)' /\ reload(n)' /\ (tmr_cnt'[n] <= tmr_bkp'[n] \/ Due(n)')
        <4>1. ena(n) /\ reload(n) /\ (tmr_cnt[n] <= tmr_bkp[n] \/ Due(n))
          BY <2>2 DEF ChainInv
        <4>2. ena(n)' /\ reload(n)'
          BY <3>2, <4>1 DEF ena, reload
        <4>3. tmr_cnt[n] \in Nat /\ tmr_bkp[n] \in Nat
          BY Indices, ClioTimersAssumption DEF TypeOK
        <4>4. /\ Due(n) => tmr_cnt'[n] = tmr_bkp[n]
              /\ Decrements(n) /\ tmr_cnt[n] = 0 => Due(n)'
              /\ Decrements(n) /\ tmr_cnt[n] # 0 => tmr_cnt'[n] = tmr_cnt[n] - 1
              /\ ~Due(n) /\ ~Decrements(n) => tmr_cnt'[n] = tmr_cnt[n]
          BY <3>1, KeptTimer
        <4>5. Decrements(n) => ~Due(n)
          BY DEF Decrements
        <4>6. tmr_cnt'[n] <= tmr_bkp'[n] \/ Due(n)'
          <5> HIDE DEF Due, Decrements
          <5> QED
            BY <3>2, <4>1, <4>3, <4>4, <4>5
        <4> QED
          BY <4>2, <4>6
      <3>4. cas(1)'
        BY <2>2, <3>2 DEF ChainInv, cas
      <3>5. ~(Due(1)' /\ tmr_wrap'[0])
        <4>1. SUFFICES ASSUME Due(1)' PROVE ~tmr_wrap'[0]
          OBVIOUS
        <4>2. Decrements(1)
          BY <3>1, <4>1, KeptTimer
        <4>3. tmr_wrap[0]
          BY <2>2, <4>2, UpperCounts
        <4>4. ~Due(0)
          BY <4>3, WrapNotDue, Indices
        <4> QED
          BY <3>1, <4>4, KeptTimer
      <3> QED
        BY <3>3, <3>4, <3>5 DEF ChainInv
    <2>3. CASE chained' /\ ~chained
      <3>1. ~ena(0) /\ ~ena(1) /\ PairReady'
        <4> HIDE DEF ena, PairReady
        <4> QED
          BY <2>1, <2>3 DEF Edge, Chain
      <3>2. ~tmr_wrap'[0]
        BY <2>1, <3>1, EdgeCases, Indices
      <3> QED
        BY <3>1, <3>2 DEF PairReady, ChainInv
    <2> QED
      BY <2>2, <2>3 DEF ChainInv
  <1>2. CASE Reset
    BY <1>2 DEF Reset, ChainInv
  <1>3. CASE UNCHANGED vars
    BY <1>3 DEF vars, counters, pulses, history, ChainInv, ena, reload, cas, Due
  <1> QED
    BY <1>1, <1>2, <1>3, StepKinds

LEMMA ChainAlways == Spec => []ChainInv
  <1>1. Init => ChainInv
    BY DEF Init, ChainInv
  <1>2. TypeOK /\ PulseInv /\ ChainInv /\ [Next]_vars => ChainInv'
    BY ChainStep
  <1> QED
    BY <1>1, <1>2, TypeCorrect, PulseAlways, PTL DEF Spec
-----------------------------------------------------------------------------
(* Timer 0 of a pair is due only in the clock after a tick.                *)
LEMMA DueAfterTick ==
  ASSUME TypeOK, PulseInv, ChainInv, [Next]_vars,
         chained', ~cas(0)', Due(0)', slack_cnt # 0
  PROVE  UNCHANGED vars
  <1>1. CASE SomeEdge
    <2>1. PICK cnt, bkp, ctrl, w, touched :
             /\ Writes(cnt, bkp, ctrl, w, touched)
             /\ Edge(cnt, bkp, ctrl, w, touched)
      BY <1>1 DEF SomeEdge
    <2>2. CASE chained
      <3>1. Kept(cnt, bkp, ctrl, w, touched)
        BY <2>1, <2>2 DEF Kept
      <3>2. Decrements(0)
        BY <3>1, KeptTimer
      <3>3. ~cas(0)
        BY <3>1, KeptFacts DEF cas
      <3> QED
        BY <3>2, <3>3 DEF Decrements, tmr_dec
    <2>3. CASE ~chained
      <3>1. PairReady'
        <4> HIDE DEF ena, PairReady
        <4> QED
          BY <2>1, <2>3 DEF Edge, Chain
      <3> QED
        BY <3>1 DEF PairReady
    <2> QED
      BY <2>2, <2>3
  <1>2. CASE Reset
    BY <1>2 DEF Reset
  <1> QED
    BY <1>1, <1>2, StepKinds

(* A pair that is left alone counts every tick that does not follow        *)
(* another in the very next clock, whatever the slack is set to.           *)
THEOREM TickCorrect == Spec => TickCounted
  <1>1. TypeOK /\ PulseInv /\ ChainInv /\ ChainInv' /\ [Next]_vars =>
          [chained' /\ ~cas(0)' /\ slack_cnt' = 0 /\ slack_cnt # 0
             => Decrements(0)']_vars
    <2>1. SUFFICES ASSUME TypeOK, PulseInv, ChainInv, ChainInv', [Next]_vars,
                          ~UNCHANGED vars, chained', ~cas(0)', slack_cnt' = 0,
                          slack_cnt # 0
                   PROVE  Decrements(0)'
      OBVIOUS
    <2>2. ~Due(0)'
      BY <2>1, DueAfterTick
    <2>3. ena(0)'
      BY <2>1 DEF ChainInv
    <2> QED
      BY <2>1, <2>2, <2>3 DEF Decrements, tmr_dec
  <1> QED
    BY <1>1, TypeCorrect, PulseAlways, ChainAlways, PTL DEF Spec, TickCounted
-----------------------------------------------------------------------------
(* Two-digit numbers: d the upper digit to base b + 1, l the lower one to  *)
(* base a + 1.                                                             *)
LEMMA Distribute ==
  ASSUME NEW a \in Nat, NEW b \in Nat
  PROVE  b * (a + 1) = b * a + b /\ b * a \in Nat
  BY Z3

LEMMA Monotone ==
  ASSUME NEW a \in Nat, NEW b \in Nat, NEW d \in 0 .. b
  PROVE  d * a <= b * a
  BY Z3

LEMMA Digits ==
  ASSUME NEW a \in Nat, NEW b \in Nat, NEW d \in 0 .. b, NEW l \in 0 .. a
  PROVE
    /\ (b + 1) * (a + 1) = b * (a + 1) + a + 1
    /\ (b + 1) * (a + 1) \in Nat \ {0}
    /\ d * (a + 1) + l \in 0 .. (b + 1) * (a + 1) - 1
    /\ d * (a + 1) + l = 0 <=> d = 0 /\ l = 0
    /\ d > 0 => (d - 1) * (a + 1) + a = d * (a + 1) - 1
  <1>1. (b + 1) * (a + 1) = b * (a + 1) + a + 1
    <2>1. (b + 1) * (a + 1) = (b + 1) * a + (b + 1)
      BY Distribute
    <2>2. b * (a + 1) = b * a + b
      BY Distribute
    <2>3. (b + 1) * a = b * a + a
      BY Z3
    <2>4. b * a \in Nat
      BY Distribute
    <2> QED
      BY <2>1, <2>2, <2>3, <2>4
  <1>2. b * (a + 1) \in Nat /\ d * (a + 1) \in Nat
    BY Distribute
  <1>3. d * (a + 1) <= b * (a + 1)
    BY Monotone
  <1>4. d * (a + 1) = d * a + d /\ d * a \in Nat
    BY Distribute
  <1>5. d = 0 => d * a = 0
    BY Z3
  <1>6. d > 0 => (d - 1) * (a + 1) = d * (a + 1) - (a + 1)
    BY Z3
  <1> QED
    BY <1>1, <1>2, <1>3, <1>4, <1>5, <1>6
-----------------------------------------------------------------------------
(* The upper digit of a pair: what timer 1 will stand at when it has       *)
(* counted the carry that is under way.                                    *)
Digit == IF High >= Carry THEN High - Carry ELSE tmr_bkp[1]

LEMMA PairTypes ==
  ASSUME TypeOK, ChainInv, chained
  PROVE  /\ tmr_cnt[0] \in Nat /\ tmr_bkp[0] \in Nat
         /\ tmr_cnt[1] \in Nat /\ tmr_bkp[1] \in Nat
         /\ Low \in 0 .. tmr_bkp[0] /\ High \in 0 .. tmr_bkp[1]
         /\ Digit \in 0 .. tmr_bkp[1] /\ Carry \in {0, 1}
  <1>1. /\ tmr_cnt[0] \in Nat /\ tmr_bkp[0] \in Nat
        /\ tmr_cnt[1] \in Nat /\ tmr_bkp[1] \in Nat
    BY Indices, ClioTimersAssumption DEF TypeOK
  <1>2. \A n \in {0, 1} : tmr_cnt[n] <= tmr_bkp[n] \/ Due(n)
    BY DEF ChainInv
  <1>3. Low \in 0 .. tmr_bkp[0] /\ High \in 0 .. tmr_bkp[1]
    <2> HIDE DEF Due
    <2> QED
      BY <1>1, <1>2 DEF Low, High
  <1>4. Carry \in {0, 1}
    BY DEF Carry
  <1>5. Digit \in 0 .. tmr_bkp[1]
    <2> HIDE DEF High, Carry
    <2> QED
      BY <1>1, <1>3, <1>4 DEF Digit
  <1> QED
    BY <1>1, <1>3, <1>4, <1>5

(* Timer 1 takes over the carry that is under way, and nothing else.       *)
LEMMA UpperStep ==
  ASSUME TypeOK, PulseInv, ChainInv, NEW cnt, NEW bkp, NEW ctrl, NEW w, NEW touched,
         Kept(cnt, bkp, ctrl, w, touched)
  PROVE  High' = IF ~tmr_wrap[0] THEN High
                 ELSE IF High >= 1 THEN High - 1 ELSE tmr_bkp[1]
  <1>t. chained
    BY DEF Kept
  <1>0. /\ tmr_cnt[1] \in Nat /\ tmr_bkp[1] \in Nat /\ tmr_bkp' = tmr_bkp
    BY <1>t, PairTypes, KeptFacts
  <1>h. /\ High = IF Due(1) THEN tmr_bkp[1] ELSE tmr_cnt[1]
        /\ High' = IF Due(1)' THEN tmr_bkp'[1] ELSE tmr_cnt'[1]
    BY DEF High
  <1>u. Decrements(1) <=> tmr_wrap[0]
    BY <1>t, UpperCounts
  <1>d. Decrements(1) => ~Due(1)
    BY DEF Decrements
  <1>k. /\ Due(1) => tmr_cnt'[1] = tmr_bkp[1] /\ ~Due(1)'
        /\ Decrements(1) /\ tmr_cnt[1] = 0 => Due(1)'
        /\ Decrements(1) /\ tmr_cnt[1] # 0 =>
              tmr_cnt'[1] = tmr_cnt[1] - 1 /\ ~Due(1)'
        /\ ~Due(1) /\ ~Decrements(1) => tmr_cnt'[1] = tmr_cnt[1] /\ ~Due(1)'
    BY KeptTimer
  <1> HIDE DEF Due, Decrements, High
  <1>1. CASE ~tmr_wrap[0]
    BY <1>0, <1>1, <1>h, <1>u, <1>k
  <1>2. CASE tmr_wrap[0]
    BY <1>0, <1>2, <1>h, <1>u, <1>d, <1>k
  <1> QED
    BY <1>1, <1>2

(* Timer 0 starts a new carry exactly when it goes below zero.             *)
LEMMA LowerStep ==
  ASSUME TypeOK, PulseInv, ChainInv, NEW cnt, NEW bkp, NEW ctrl, NEW w, NEW touched,
         Kept(cnt, bkp, ctrl, w, touched)
  PROVE  /\ Low' = IF ~Decrements(0) THEN Low
                   ELSE IF Low > 0 THEN Low - 1 ELSE tmr_bkp[0]
         /\ Carry' = IF Due(0) \/ (Decrements(0) /\ Low = 0) THEN 1 ELSE 0
  <1>t. chained
    BY DEF Kept
  <1>0. /\ tmr_cnt[0] \in Nat /\ tmr_bkp[0] \in Nat /\ tmr_bkp' = tmr_bkp
    BY <1>t, PairTypes, KeptFacts
  <1>h. /\ Low = IF Due(0) THEN tmr_bkp[0] ELSE tmr_cnt[0]
        /\ Low' = IF Due(0)' THEN tmr_bkp'[0] ELSE tmr_cnt'[0]
        /\ Carry' = IF Due(0)' \/ tmr_wrap'[0] THEN 1 ELSE 0
    BY DEF Low, Carry
  <1>d. Decrements(0) => ~Due(0)
    BY DEF Decrements
  <1>k. /\ Due(0) => tmr_cnt'[0] = tmr_bkp[0] /\ ~Due(0)' /\ tmr_wrap'[0]
        /\ ~Due(0) => ~tmr_wrap'[0]
        /\ Decrements(0) /\ tmr_cnt[0] = 0 => Due(0)'
        /\ Decrements(0) /\ tmr_cnt[0] # 0 =>
              tmr_cnt'[0] = tmr_cnt[0] - 1 /\ ~Due(0)'
        /\ ~Due(0) /\ ~Decrements(0) => tmr_cnt'[0] = tmr_cnt[0] /\ ~Due(0)'
    BY KeptTimer
  <1> HIDE DEF Due, Decrements, Low, Carry
  <1>1. CASE Due(0)
    BY <1>0, <1>1, <1>h, <1>d, <1>k
  <1>2. CASE Decrements(0)
    BY <1>0, <1>2, <1>h, <1>d, <1>k
  <1>3. CASE ~Due(0) /\ ~Decrements(0)
    BY <1>0, <1>3, <1>h, <1>k
  <1> QED
    BY <1>1, <1>2, <1>3

(* Whether the carry is still to come, under way or taken over, the digit  *)
(* is the same; it moves only when timer 0 goes below zero.                *)
LEMMA DigitStep ==
  ASSUME TypeOK, PulseInv, ChainInv, NEW cnt, NEW bkp, NEW ctrl, NEW w, NEW touched,
         Kept(cnt, bkp, ctrl, w, touched)
  PROVE  Digit' = IF ~(Decrements(0) /\ Low = 0) THEN Digit
                  ELSE IF Digit = 0 THEN tmr_bkp[1] ELSE Digit - 1
  <1>t. chained
    BY DEF Kept
  <1>0. /\ tmr_bkp[1] \in Nat /\ tmr_bkp' = tmr_bkp
        /\ High \in 0 .. tmr_bkp[1]
    BY <1>t, PairTypes, KeptFacts
  <1>1. High' = IF ~tmr_wrap[0] THEN High
                ELSE IF High >= 1 THEN High - 1 ELSE tmr_bkp[1]
    BY UpperStep
  <1>2. Carry' = IF Due(0) \/ (Decrements(0) /\ Low = 0) THEN 1 ELSE 0
    BY LowerStep
  <1>3. Carry = IF Due(0) \/ tmr_wrap[0] THEN 1 ELSE 0
    BY DEF Carry
  <1>4. ~(Due(0) /\ tmr_wrap[0])
    BY WrapNotDue, Indices
  <1>5. Decrements(0) => ~Due(0)
    BY DEF Decrements
  <1>6. /\ Digit = IF High >= Carry THEN High - Carry ELSE tmr_bkp[1]
        /\ Digit' = IF High' >= Carry' THEN High' - Carry' ELSE tmr_bkp'[1]
    BY DEF Digit
  <1> HIDE DEF Due, Decrements, Low, High, Carry, Digit
  <1>a. CASE Due(0)
    BY <1>a, <1>0, <1>1, <1>2, <1>3, <1>4, <1>5, <1>6
  <1>b. CASE tmr_wrap[0]
    BY <1>b, <1>0, <1>1, <1>2, <1>3, <1>4, <1>6
  <1>c. CASE ~Due(0) /\ ~tmr_wrap[0]
    BY <1>c, <1>0, <1>1, <1>2, <1>3, <1>6
  <1> QED
    BY <1>a, <1>b, <1>c

LEMMA ValueOfDigits == Value = Digit * (tmr_bkp[0] + 1) + Low
  BY DEF Value, Digit

LEMMA KeptStep ==
  ASSUME TypeOK, PulseInv, ChainInv, NEW cnt, NEW bkp, NEW ctrl, NEW w, NEW touched,
         Kept(cnt, bkp, ctrl, w, touched)
  PROVE  /\ Period' = Period
         /\ Value' = IF ~Decrements(0) THEN Value
                     ELSE IF Value = 0 THEN Period - 1 ELSE Value - 1
  <1> DEFINE a == tmr_bkp[0]
             b == tmr_bkp[1]
  <1>t. chained
    BY DEF Kept
  <1>0. a \in Nat /\ b \in Nat /\ Digit \in 0 .. b /\ Low \in 0 .. a
    BY <1>t, PairTypes
  <1>b. tmr_bkp' = tmr_bkp
    BY KeptFacts
  <1>p. Period = (b + 1) * (a + 1) /\ Period' = Period
    BY <1>b DEF Period
  <1>v. Value = Digit * (a + 1) + Low /\ Value' = Digit' * (a + 1) + Low'
    <2> HIDE DEF High, Low, Carry
    <2> QED
      BY <1>b DEF Value, Digit
  <1>1. Low' = IF ~Decrements(0) THEN Low ELSE IF Low > 0 THEN Low - 1 ELSE a
    BY LowerStep
  <1>2. Digit' = IF ~(Decrements(0) /\ Low = 0) THEN Digit
                 ELSE IF Digit = 0 THEN b ELSE Digit - 1
    BY DigitStep
  <1>3. /\ (b + 1) * (a + 1) = b * (a + 1) + a + 1
        /\ Digit * (a + 1) + Low = 0 <=> Digit = 0 /\ Low = 0
        /\ Digit > 0 => (Digit - 1) * (a + 1) + a = Digit * (a + 1) - 1
    <2> HIDE DEF a, b, Digit, Low
    <2> QED
      BY <1>0, Digits
  <1>m. Digit * (a + 1) \in Nat /\ b * (a + 1) \in Nat
    <2> HIDE DEF a, b, Digit
    <2> QED
      BY <1>0, Distribute
  <1>4. CASE ~Decrements(0)
    BY <1>4, <1>1, <1>2, <1>v, <1>p
  <1>5. CASE Decrements(0) /\ Low > 0
    <2>1. Low' = Low - 1 /\ Digit' = Digit
      BY <1>0, <1>5, <1>1, <1>2
    <2>2. Value # 0
      BY <1>0, <1>5, <1>3, <1>v
    <2>3. Value' = Digit * (a + 1) + (Low - 1)
      BY <2>1, <1>v
    <2> HIDE DEF a, b, Digit, Low, Value, Period, Decrements
    <2> QED
      BY <2>2, <2>3, <1>0, <1>m, <1>v, <1>p, <1>5
  <1>6. CASE Decrements(0) /\ Low = 0 /\ Digit = 0
    <2>1. Low' = a /\ Digit' = b /\ Value = 0
      BY <1>6, <1>1, <1>2, <1>3, <1>v
    <2>2. Value' = b * (a + 1) + a
      BY <2>1, <1>v
    <2> HIDE DEF a, b, Digit, Low, Value, Period, Decrements
    <2> QED
      BY <2>1, <2>2, <1>0, <1>m, <1>3, <1>p, <1>6
  <1>7. CASE Decrements(0) /\ Low = 0 /\ Digit # 0
    <2>1. Low' = a /\ Digit' = Digit - 1 /\ Value # 0
      BY <1>7, <1>1, <1>2, <1>3, <1>v
    <2>2. Value' = (Digit - 1) * (a + 1) + a
      BY <2>1, <1>v
    <2>3. Value' = Digit * (a + 1) - 1
      BY <2>2, <1>0, <1>3, <1>7
    <2> HIDE DEF a, b, Digit, Low, Value, Period, Decrements
    <2> QED
      BY <2>1, <2>3, <1>m, <1>0, <1>v, <1>p, <1>7
  <1> QED
    BY <1>0, <1>4, <1>5, <1>6, <1>7

LEMMA ValueRange ==
  TypeOK /\ ChainInv /\ chained
    => Period \in Nat \ {0} /\ Value \in 0 .. Period - 1
  <1> SUFFICES ASSUME TypeOK, ChainInv, chained
               PROVE  Period \in Nat \ {0} /\ Value \in 0 .. Period - 1
    OBVIOUS
  <1> DEFINE a == tmr_bkp[0]
             b == tmr_bkp[1]
  <1>0. a \in Nat /\ b \in Nat /\ Digit \in 0 .. b /\ Low \in 0 .. a
    BY PairTypes
  <1>1. Period = (b + 1) * (a + 1) /\ Value = Digit * (a + 1) + Low
    BY ValueOfDigits DEF Period
  <1> HIDE DEF a, b, Digit, Low, Value, Period
  <1> QED
    BY <1>0, <1>1, Digits

LEMMA PairStep ==
  ASSUME TypeOK, PulseInv, ChainInv, TypeOK', ChainInv', [Next]_vars
  PROVE  [Pair!Next]_Pair!vars
  <1> USE DEF Pair!Next, Pair!vars
  <1>c. chained \in BOOLEAN /\ chained' \in BOOLEAN
    BY DEF TypeOK
  <1>1. CASE UNCHANGED vars
    <2>1. UNCHANGED <<chained, Value, Period>>
      BY <1>1 DEF vars, counters, pulses, history, Value, Period, High, Low,
                  Carry, Due
    <2> QED
      BY <2>1
  <1>2. CASE ~chained /\ ~chained'
    BY <1>2, <1>c
  <1>3. CASE ~chained /\ chained'
    <2>1. Period' \in Nat \ {0} /\ Value' \in 0 .. Period' - 1
      <3>1. (TypeOK /\ ChainInv /\ chained
              => Period \in Nat \ {0} /\ Value \in 0 .. Period - 1)'
        BY ValueRange, PTL
      <3> QED
        BY <1>3, <3>1
    <2> QED
      BY <1>3, <2>1 DEF Pair!Start
  <1>4. CASE chained /\ ~chained'
    BY <1>4 DEF Pair!Stop
  <1>5. CASE chained /\ chained' /\ ~UNCHANGED vars
    <2>1. ~Reset
      BY <1>5 DEF Reset
    <2>2. SomeEdge
      BY <1>5, <2>1, StepKinds
    <2>3. PICK cnt, bkp, ctrl, w, touched : Kept(cnt, bkp, ctrl, w, touched)
      BY <1>5, <2>2 DEF SomeEdge, Kept
    <2>4. /\ Period' = Period
          /\ Value' = IF ~Decrements(0) THEN Value
                      ELSE IF Value = 0 THEN Period - 1 ELSE Value - 1
      BY <2>3, KeptStep
    <2> HIDE DEF Value, Period, Decrements
    <2>5. CASE Decrements(0)
      BY <1>5, <1>c, <2>4, <2>5 DEF Pair!Tick
    <2>6. CASE ~Decrements(0)
      BY <1>5, <1>c, <2>4, <2>6
    <2> QED
      BY <2>5, <2>6
  <1> QED
    BY <1>1, <1>2, <1>3, <1>4, <1>5, <1>c

(* Two cascaded timers are one counter, for every width, every two reload  *)
(* values and every slack.                                                 *)
THEOREM PairRefinement == Spec => PairSpec
  <1>1. Init => Pair!Init
    BY DEF Init, Pair!Init
  <1>2. TypeOK /\ PulseInv /\ ChainInv /\ TypeOK' /\ ChainInv' /\ [Next]_vars
          => [Pair!Next]_Pair!vars
    BY PairStep
  <1> QED
    BY <1>1, <1>2, TypeCorrect, PulseAlways, ChainAlways, PTL
       DEF Spec, PairSpec, Pair!Spec
-----------------------------------------------------------------------------
(* The interrupt registers.                                                *)
(* An action at a clock edge lets the hardware assign irq0_pend, or lets   *)
(* the CPU's write do it.                                                  *)
HardwarePend0 == \E ticks \in SUBSET TimerBits : Hardware(ticks)
SomePend0(p, cleared) == \E ticks \in SUBSET TimerBits : Pend0(ticks, p, cleared)
IrqEdge == Firq /\ HardwarePend0 /\ Wait
CpuPend0 ==
  /\ Firq /\ waits' = 0
  /\ \E m \in Masks0 : SomePend0(irq0_pend \union m, {}) \/ SomePend0(irq0_pend \ m, m)
CSide ==
  /\ UNCHANGED <<firq_n, waits>>
  /\ \E d \in SUBSET DeviceBits :
       irq0_pend' = irq0_pend \union d /\ raised' = raised \union d
Cleared ==
  irq0_pend' = {} /\ raised' = {} /\ waits' = 0 /\ UNCHANGED firq_n

(* Every step treats irq0_pend, firq_n and the history in one of five ways.*)
LEMMA IrqStepKinds ==
  ASSUME [IrqNext]_irqVars
  PROVE  \/ IrqEdge \/ CpuPend0 \/ CSide \/ Cleared
         \/ UNCHANGED <<irq0_pend, firq_n, raised, waits>>
<1> USE DEF HardwarePend0, SomePend0
<1>1. ASSUME NEW ticks \in SUBSET TimerBits, IrqIdle(ticks) PROVE IrqEdge
  BY <1>1 DEF IrqIdle, IrqEdge
<1>2. ASSUME NEW ticks \in SUBSET TimerBits, CpuWrite(ticks) PROVE IrqEdge \/ CpuPend0
  <2>1. CASE \E m \in Masks0 : SetPend0(ticks, m) \/ ClearPend0(ticks, m)
    BY <2>1 DEF SetPend0, ClearPend0, CpuPend0
  <2>2. CASE \E m \in Masks0 : SetEnable0(ticks, m) \/ ClearEnable0(ticks, m)
    BY <2>2 DEF SetEnable0, ClearEnable0, IrqEdge
  <2>3. CASE \E m \in Masks1 : \/ SetPend1(ticks, m) \/ ClearPend1(ticks, m)
                               \/ SetEnable1(ticks, m) \/ ClearEnable1(ticks, m)
    BY <2>3 DEF SetPend1, ClearPend1, SetEnable1, ClearEnable1, IrqEdge
  <2>4. CASE \E v \in HWrites : WriteHcnt(ticks, v)
    BY <2>4 DEF WriteHcnt, IrqEdge
  <2>5. CASE \E v \in VWrites : WriteVcnt(ticks, v)
    BY <2>5 DEF WriteVcnt, IrqEdge
  <2>6. CASE \E v \in Lines : WriteVint(ticks, v)
    BY <2>6 DEF WriteVint, IrqEdge
  <2> QED BY <1>2, <2>1, <2>2, <2>3, <2>4, <2>5, <2>6 DEF CpuWrite
<1>3. CASE \E b \in DeviceBits : DeviceIrq(b)
  <2>1. PICK b \in DeviceBits : DeviceIrq(b)
    BY <1>3
  <2>2. {b} \in SUBSET DeviceBits
    BY <2>1
  <2> QED BY <2>1, <2>2 DEF DeviceIrq, CSide
<1>4. CASE PbusDone
  <2>1. {} \in SUBSET DeviceBits
    OBVIOUS
  <2> QED BY <1>4, <2>1 DEF PbusDone, CSide, irqHistory
<1>5. CASE IrqReset
  BY <1>5 DEF IrqReset, Cleared
<1>6. CASE UNCHANGED irqVars
  BY <1>6 DEF irqVars, irqRegs, irqHistory
<1> QED BY <1>1, <1>2, <1>3, <1>4, <1>5, <1>6 DEF IrqNext
-----------------------------------------------------------------------------
(* The types of irq0_pend and of the history.                              *)
Typed0 ==
  /\ irq0_pend \subseteq Bits0 /\ raised \subseteq Bits0
  /\ firq_n \in BOOLEAN /\ waits \in 0 .. 2

LEMMA VintsTyped == Vints \subseteq Bits0
BY DEF Vints, Bits0

LEMMA SummaryTyped ==
  ASSUME irq0_pend \subseteq Bits0
  PROVE  Summary \subseteq Bits0
BY DEF Summary, Bits0

LEMMA Pend0Typed ==
  ASSUME NEW p \in SUBSET Bits0, NEW c, SomePend0(p, c), raised \subseteq Bits0
  PROVE  irq0_pend' \subseteq Bits0 /\ raised' \subseteq Bits0
<1>1. TimerBits \subseteq Bits0 BY DEF Bits0
<1> QED BY <1>1, VintsTyped DEF SomePend0, Pend0

LEMMA FirqTyped == Firq => firq_n' \in BOOLEAN
BY DEF Firq

LEMMA Typed0Step ==
  ASSUME Typed0, [IrqNext]_irqVars
  PROVE  Typed0'
<1>1. DeviceBits \subseteq Bits0 BY DEF Bits0
<1>2. CASE IrqEdge
  <2>1. Summary \union Vints \in SUBSET Bits0
    BY SummaryTyped, VintsTyped DEF Typed0
  <2>2. irq0_pend' \subseteq Bits0 /\ raised' \subseteq Bits0
    BY <1>2, <2>1, Pend0Typed DEF IrqEdge, HardwarePend0, Hardware, SomePend0, Typed0
  <2>3. waits' \in 0 .. 2
    BY <1>2 DEF IrqEdge, Wait, Typed0
  <2> QED BY <1>2, <2>2, <2>3, FirqTyped DEF IrqEdge, Typed0
<1>3. CASE CpuPend0
  <2>1. PICK m \in Masks0 : SomePend0(irq0_pend \union m, {}) \/ SomePend0(irq0_pend \ m, m)
    BY <1>3 DEF CpuPend0
  <2>2. m \subseteq Bits0
    BY ClioIrqAssumption
  <2>3. irq0_pend \union m \in SUBSET Bits0 /\ irq0_pend \ m \in SUBSET Bits0
    BY <2>2 DEF Typed0
  <2>4. irq0_pend' \subseteq Bits0 /\ raised' \subseteq Bits0
    BY <2>1, <2>3, Pend0Typed DEF Typed0
  <2> QED BY <1>3, <2>4, FirqTyped DEF CpuPend0, Typed0
<1>4. CASE Cleared
  BY <1>4 DEF Cleared, Typed0
<1>5. CASE UNCHANGED <<irq0_pend, firq_n, raised, waits>>
  BY <1>5 DEF Typed0
<1>6. CASE CSide
  BY <1>1, <1>6 DEF CSide, Typed0
<1> QED BY <1>2, <1>3, <1>4, <1>5, <1>6, IrqStepKinds

(* The types of the other registers.                                       *)
Typed1 ==
  /\ irq0_enable \subseteq Bits0
  /\ irq1_pend \subseteq Bits1 /\ irq1_enable \subseteq Bits1

TypedBeam ==
  /\ hcnt \in 0 .. Top /\ vcnt \in 0 .. Top /\ field \in {0, 1}
  /\ vint0 \in Nat /\ vint1 \in Nat

LEMMA Typed1Step ==
  ASSUME Typed1, [IrqNext]_irqVars
  PROVE  Typed1'
<1>1. CASE UNCHANGED <<irq0_enable, irq1_pend, irq1_enable>>
  BY <1>1 DEF Typed1
<1>2. CASE \E ticks, m : m \in Masks0 /\ (SetEnable0(ticks, m) \/ ClearEnable0(ticks, m))
  BY <1>2, ClioIrqAssumption DEF SetEnable0, ClearEnable0, Typed1
<1>3. CASE \E ticks, m : m \in Masks1 /\ (SetPend1(ticks, m) \/ ClearPend1(ticks, m))
  BY <1>3, ClioIrqAssumption DEF SetPend1, ClearPend1, Typed1
<1>4. CASE \E ticks, m : m \in Masks1 /\ (SetEnable1(ticks, m) \/ ClearEnable1(ticks, m))
  BY <1>4, ClioIrqAssumption DEF SetEnable1, ClearEnable1, Typed1
<1>5. CASE PbusDone
  BY <1>5, ClioIrqAssumption DEF PbusDone, Typed1
<1>6. CASE IrqReset
  BY <1>6 DEF IrqReset, Typed1
<1>7. CASE (\E ticks : IrqIdle(ticks)) \/ (\E b \in DeviceBits : DeviceIrq(b)) \/ UNCHANGED irqVars
  BY <1>7, <1>1 DEF IrqIdle, DeviceIrq, irqVars, irqRegs
<1>8. CASE \E ticks, m : SetPend0(ticks, m) \/ ClearPend0(ticks, m)
  BY <1>8, <1>1 DEF SetPend0, ClearPend0
<1>9. CASE \E ticks, v : WriteHcnt(ticks, v) \/ WriteVcnt(ticks, v) \/ WriteVint(ticks, v)
  BY <1>9, <1>1 DEF WriteHcnt, WriteVcnt, WriteVint
<1> QED
  BY <1>2, <1>3, <1>4, <1>5, <1>6, <1>7, <1>8, <1>9 DEF IrqNext, CpuWrite

LEMMA AfterTyped ==
  ASSUME NEW count \in 0 .. Top, NEW last
  PROVE  After(count, last) \in 0 .. Top
<1>1. (count + 1) % (Top + 1) \in 0 .. Top
  BY ClioIrqAssumption
<1> QED
  BY <1>1, ClioIrqAssumption DEF After

LEMMA HcntTyped ==
  ASSUME hcnt \in 0 .. Top, Hcnt
  PROVE  hcnt' \in 0 .. Top
BY AfterTyped DEF Hcnt

LEMMA VcntTyped ==
  ASSUME vcnt \in 0 .. Top, Vcnt
  PROVE  vcnt' \in 0 .. Top
BY AfterTyped DEF Vcnt

LEMMA FieldTyped ==
  ASSUME field \in {0, 1}, Field
  PROVE  field' \in {0, 1}
BY DEF Field

LEMMA BeamStep ==
  ASSUME TypedBeam, Beam
  PROVE  TypedBeam'
BY HcntTyped, VcntTyped, FieldTyped DEF TypedBeam, Beam

LEMMA TypedBeamStep ==
  ASSUME TypedBeam, [IrqNext]_irqVars
  PROVE  TypedBeam'
<1>1. CASE UNCHANGED video
  BY <1>1 DEF video, TypedBeam
<1>2. CASE \E ticks, v : v \in HWrites /\ WriteHcnt(ticks, v)
  BY <1>2, VcntTyped, FieldTyped, ClioIrqAssumption DEF WriteHcnt, TypedBeam
<1>3. CASE \E ticks, v : v \in VWrites /\ WriteVcnt(ticks, v)
  BY <1>3, HcntTyped, FieldTyped, ClioIrqAssumption DEF WriteVcnt, TypedBeam
<1>4. CASE \E ticks, v : v \in Lines /\ WriteVint(ticks, v)
  BY <1>4, HcntTyped, VcntTyped, FieldTyped, ClioIrqAssumption DEF WriteVint, TypedBeam
<1>5. CASE \E ticks, m : \/ IrqIdle(ticks) \/ SetPend0(ticks, m) \/ ClearPend0(ticks, m)
                          \/ SetEnable0(ticks, m) \/ ClearEnable0(ticks, m)
  BY <1>5, BeamStep DEF IrqIdle, SetPend0, ClearPend0, SetEnable0, ClearEnable0
<1>6. CASE \E ticks, m : \/ SetPend1(ticks, m) \/ ClearPend1(ticks, m)
                          \/ SetEnable1(ticks, m) \/ ClearEnable1(ticks, m)
  BY <1>6, BeamStep DEF SetPend1, ClearPend1, SetEnable1, ClearEnable1
<1>7. CASE (\E b \in DeviceBits : DeviceIrq(b)) \/ PbusDone \/ UNCHANGED irqVars
  BY <1>7, <1>1 DEF DeviceIrq, PbusDone, irqVars
<1>8. CASE IrqReset
  BY <1>8, ClioIrqAssumption DEF IrqReset, TypedBeam
<1> QED
  BY <1>2, <1>3, <1>4, <1>5, <1>6, <1>7, <1>8 DEF IrqNext, CpuWrite

LEMMA IrqTypeParts == IrqTypeOK <=> Typed0 /\ Typed1 /\ TypedBeam
BY DEF IrqTypeOK, Typed0, Typed1, TypedBeam

LEMMA IrqTypeInit ==
  ASSUME IrqInit
  PROVE  IrqTypeOK
<1>1. Typed0
  <2>1. irq0_pend \subseteq Bits0 /\ raised \subseteq Bits0
    BY DEF IrqInit
  <2>2. firq_n \in BOOLEAN
    BY Zenon DEF IrqInit
  <2>3. waits \in 0 .. 2
    BY DEF IrqInit
  <2> QED BY <2>1, <2>2, <2>3 DEF Typed0
<1>2. Typed1
  BY DEF IrqInit, Typed1
<1>3. TypedBeam
  BY ClioIrqAssumption DEF IrqInit, TypedBeam
<1> QED BY <1>1, <1>2, <1>3, IrqTypeParts

LEMMA IrqTypeStep ==
  ASSUME IrqTypeOK, [IrqNext]_irqVars
  PROVE  IrqTypeOK'
<1>1. Typed0' /\ Typed1' /\ TypedBeam'
  BY Typed0Step, Typed1Step, TypedBeamStep, IrqTypeParts
<1> QED BY <1>1 DEF IrqTypeOK, Typed0, Typed1, TypedBeam

(* The registers keep their types: an interrupt register never holds a bit *)
(* it does not have, whatever the CPU writes, the beam counters included.  *)
THEOREM IrqTypeCorrect == IrqSpec => []IrqTypeOK
<1>1. IrqInit => IrqTypeOK BY IrqTypeInit
<1>2. IrqTypeOK /\ [IrqNext]_irqVars => IrqTypeOK' BY IrqTypeStep
<1> QED BY <1>1, <1>2, PTL DEF IrqSpec
-----------------------------------------------------------------------------
(* Only a CPU write takes a bit of a timer or a device away.               *)
LEMMA HardwareKeeps ==
  ASSUME EventsKept, HardwarePend0
  PROVE  EventsKept'
<1>1. irq0_pend \ {"irq1"} \subseteq Summary
  BY DEF Summary
<1>2. "irq1" \notin TimerBits \union DeviceBits
  BY ClioIrqAssumption
<1>3. PICK ticks \in SUBSET TimerBits :
        /\ irq0_pend' = Summary \union Vints \union ticks
        /\ raised' = raised \union ticks
  BY DEF HardwarePend0, Hardware, Pend0
<1> HIDE DEF Summary, Vints
<1> QED BY <1>1, <1>2, <1>3 DEF EventsKept

LEMMA CpuKeeps ==
  ASSUME EventsKept, NEW m,
         SomePend0(irq0_pend \union m, {}) \/ SomePend0(irq0_pend \ m, m)
  PROVE  EventsKept'
<1>1. PICK ticks \in SUBSET TimerBits :
        \/ /\ irq0_pend' = irq0_pend \union m \union ticks
           /\ raised' = raised \union ticks
        \/ /\ irq0_pend' = (irq0_pend \ m) \union ticks
           /\ raised' = (raised \ m) \union ticks
  BY DEF SomePend0, Pend0
<1> QED BY <1>1 DEF EventsKept

LEMMA KeepStep ==
  ASSUME EventsKept, [IrqNext]_irqVars
  PROVE  EventsKept'
<1>1. CASE IrqEdge
  BY <1>1, HardwareKeeps DEF IrqEdge
<1>2. CASE CpuPend0
  BY <1>2, CpuKeeps DEF CpuPend0
<1>3. CASE CSide
  BY <1>3 DEF CSide, EventsKept
<1>4. CASE Cleared
  BY <1>4 DEF Cleared, EventsKept
<1>5. CASE UNCHANGED <<irq0_pend, firq_n, raised, waits>>
  BY <1>5 DEF EventsKept
<1> QED BY <1>1, <1>2, <1>3, <1>4, <1>5, IrqStepKinds

(* An interrupt raised by a timer or by the C side stays in irq0_pend      *)
(* until the CPU clears it, whatever the CPU writes at the same edge: the  *)
(* timer wraps come last in clio.v's always block.                         *)
THEOREM EventsCorrect == IrqSpec => []EventsKept
<1>1. IrqInit => EventsKept BY DEF IrqInit, EventsKept
<1>2. EventsKept /\ [IrqNext]_irqVars => EventsKept' BY KeepStep
<1> QED BY <1>1, <1>2, PTL DEF IrqSpec
-----------------------------------------------------------------------------
(* After one edge of waiting the summary bit is set; after two the line is *)
(* low.                                                                    *)
WaitInv ==
  /\ waits \in 0 .. 2
  /\ waits > 0 => "irq1" \in irq0_pend
  /\ waits = 2 => ~firq_n

LEMMA EdgeDelivers ==
  ASSUME WaitInv, IrqEdge
  PROVE  WaitInv'
<1>1. CASE irq1_trig /\ "irq1" \in irq0_enable
  <2>1. irq1_pend # {}
    BY <1>1 DEF irq1_trig
  <2>2. Summary = irq0_pend \union {"irq1"}
    BY <1>1, <2>1 DEF Summary
  <2>3. "irq1" \in irq0_pend'
    BY <2>2 DEF IrqEdge, HardwarePend0, Hardware, Pend0
  <2>4. waits' \in 0 .. 2 /\ (waits' = 2 => waits > 0)
    BY <1>1 DEF WaitInv, IrqEdge, Wait
  <2>5. waits > 0 => irq0_trig
    BY <1>1 DEF WaitInv, irq0_trig
  <2>6. waits > 0 => ~firq_n'
    BY <2>5 DEF IrqEdge, Firq
  <2> QED BY <2>3, <2>4, <2>6 DEF WaitInv
<1>2. CASE ~(irq1_trig /\ "irq1" \in irq0_enable)
  <2>1. waits' = 0
    BY <1>2 DEF IrqEdge, Wait
  <2> QED BY <2>1 DEF WaitInv
<1> QED BY <1>1, <1>2

LEMMA WaitStep ==
  ASSUME WaitInv, [IrqNext]_irqVars
  PROVE  WaitInv'
<1>1. CASE IrqEdge
  BY <1>1, EdgeDelivers
<1>2. CASE CpuPend0
  BY <1>2 DEF CpuPend0, WaitInv
<1>3. CASE CSide
  BY <1>3 DEF CSide, WaitInv
<1>4. CASE Cleared
  BY <1>4 DEF Cleared, WaitInv
<1>5. CASE UNCHANGED <<irq0_pend, firq_n, raised, waits>>
  BY <1>5 DEF WaitInv
<1> QED BY <1>1, <1>2, <1>3, <1>4, <1>5, IrqStepKinds

(* An irq1 interrupt enabled in both stages has the fast interrupt line    *)
(* down after two edges at which the CPU does not write irq0_pend.         *)
THEOREM DeliveryCorrect == IrqSpec => []Irq1Delivered
<1>1. IrqInit => WaitInv BY DEF IrqInit, WaitInv
<1>2. WaitInv /\ [IrqNext]_irqVars => WaitInv' BY WaitStep
<1>3. WaitInv => Irq1Delivered BY DEF WaitInv, Irq1Delivered
<1> QED BY <1>1, <1>2, <1>3, PTL DEF IrqSpec
-----------------------------------------------------------------------------
(* The two together.  What holds of the timers and of the interrupt        *)
(* registers alone holds of both in CLIO: no edge does to one of them what *)
(* it could not do alone.                                                  *)
LEMMA TicksAreBits == Ticks \in SUBSET TimerBits
BY ClioAssumption DEF Ticks

LEMMA PartsStep ==
  ASSUME [ClioNext]_clioVars
  PROVE  [Next]_vars /\ [IrqNext]_irqVars
<1>1. CASE \/ Idle /\ (IrqIdle(Ticks) \/ CpuWrite(Ticks))
           \/ TimerWrite /\ IrqIdle(Ticks)
  BY <1>1, TicksAreBits DEF Next, IrqNext
<1>2. CASE ((\E b \in DeviceBits : DeviceIrq(b)) \/ PbusDone) /\ UNCHANGED vars
  BY <1>2 DEF IrqNext
<1>3. CASE Reset /\ IrqReset
  BY <1>3 DEF Next, IrqNext
<1>4. CASE UNCHANGED clioVars
  BY <1>4 DEF clioVars
<1> QED
  BY <1>1, <1>2, <1>3, <1>4 DEF ClioNext, ClioEdge, ClioReset

(* CLIO's timers and interrupt registers, wired together, are the timers   *)
(* of ClioTimers and the registers of ClioIrq.                             *)
THEOREM PartsCorrect == ClioSpec => Spec /\ IrqSpec
<1>1. ClioInit => Init /\ IrqInit
  BY DEF ClioInit
<1>2. [ClioNext]_clioVars => [Next]_vars /\ [IrqNext]_irqVars
  BY PartsStep
<1> QED
  BY <1>1, <1>2, PTL DEF ClioSpec, Spec, IrqSpec

(* The place an underflow has come to shows in the registers: a timer that *)
(* owes a wrap is due, one that announced it has its pulse up, and so on.  *)
OwedDue == \A n \in Timers : owed[n] => Due(n)
Shows ==
  \A n \in OddTimers :
    /\ "wrap" \in come[n] => tmr_wrap[n]
    /\ "pend" \in come[n] => IrqBit[n] \in irq0_pend
    /\ "line" \in come[n] => ~firq_n

LEMMA OwedStep ==
  ASSUME TypeOK, OwedDue, [Next]_vars
  PROVE  OwedDue'
<1>1. CASE SomeEdge
  <2>1. PICK cnt, bkp, ctrl, w, touched :
           /\ Writes(cnt, bkp, ctrl, w, touched)
           /\ Edge(cnt, bkp, ctrl, w, touched)
    BY <1>1 DEF SomeEdge
  <2>2. ASSUME NEW n \in Timers, owed'[n]
        PROVE  Due(n)'
    <3>1. Underflows(n) \/ (owed[n] /\ ~ena(n) /\ w[1] # n)
      <4> HIDE DEF Underflows, ena
      <4> QED
        BY <2>1, <2>2 DEF Edge, Announce
    <3>2. CASE Underflows(n)
      <4>1. Decrements(n) /\ tmr_cnt[n] = 0
        BY <3>2 DEF Underflows
      <4>2. tmr_cnt'[n] = Pred(tmr_cnt[n]) /\ tmr_cnt_prev'[n] = tmr_cnt[n]
        BY <2>1, <4>1, EdgeCases
      <4>3. Pred(tmr_cnt[n]) = Max
        BY <4>1, PredRange DEF TypeOK
      <4> QED
        BY <4>1, <4>2, <4>3 DEF Due
    <3>3. CASE owed[n] /\ ~ena(n) /\ w[1] # n
      <4>1. tmr_cnt'[n] = cnt[n] /\ tmr_cnt_prev'[n] = tmr_cnt_prev[n]
        BY <2>1, <3>3, EdgeCases
      <4>2. cnt[n] = tmr_cnt[n]
        BY <2>1, <3>3 DEF Writes
      <4>3. tmr_cnt[n] = Max /\ tmr_cnt_prev[n] = 0
        BY <3>3 DEF OwedDue, Due
      <4> QED
        BY <4>1, <4>2, <4>3 DEF Due
    <3> QED
      BY <3>1, <3>2, <3>3
  <2> QED
    BY <2>2 DEF OwedDue
<1>2. CASE Reset
  BY <1>2 DEF Reset, OwedDue
<1>3. CASE UNCHANGED vars
  BY <1>3 DEF vars, counters, history, OwedDue, Due
<1> QED
  BY <1>1, <1>2, <1>3, StepKinds

(* What an edge of CLIO does to the parts that carry an underflow on.      *)
LEMMA ClioSteps ==
  ASSUME [ClioNext]_clioVars
  PROVE
    \/ /\ Pulses /\ Firq /\ Arrive
       /\ Ticks \subseteq irq0_pend'
    \/ UNCHANGED <<come, tmr_wrap, firq_n>> /\ irq0_pend \subseteq irq0_pend'
    \/ come' = [n \in OddTimers |-> {}]
<1>1. CASE (Idle \/ TimerWrite) /\ IrqIdle(Ticks) /\ Arrive
  <2>1. Pulses
    BY <1>1 DEF Idle, TimerWrite, WriteCount, WriteBackup, SetControl,
                ClearControl, WriteSlack
  <2>2. Firq /\ Ticks \subseteq irq0_pend'
    BY <1>1 DEF IrqIdle, Hardware, Pend0
  <2> QED
    BY <1>1, <2>1, <2>2
<1>2. CASE Idle /\ CpuWrite(Ticks) /\ Arrive
  <2>1. Pulses
    BY <1>2 DEF Idle
  <2>2. Firq /\ Ticks \subseteq irq0_pend'
    BY <1>2 DEF CpuWrite, SetPend0, ClearPend0, SetEnable0, ClearEnable0,
                SetPend1, ClearPend1, SetEnable1, ClearEnable1,
                WriteHcnt, WriteVcnt, WriteVint, Hardware, Pend0
  <2> QED
    BY <1>2, <2>1, <2>2
<1>3. CASE ((\E b \in DeviceBits : DeviceIrq(b)) \/ PbusDone) /\ UNCHANGED <<vars, come>>
  BY <1>3 DEF DeviceIrq, PbusDone, vars, pulses
<1>4. CASE Reset /\ IrqReset /\ come' = [n \in OddTimers |-> {}]
  BY <1>4
<1>5. CASE UNCHANGED clioVars
  BY <1>5 DEF clioVars, vars, pulses, irqVars, irqRegs
<1> QED
  BY <1>1, <1>2, <1>3, <1>4, <1>5 DEF ClioNext, ClioEdge, ClioReset

LEMMA ShowsStep ==
  ASSUME OwedDue, Shows, [ClioNext]_clioVars
  PROVE  Shows'
<1>1. CASE Pulses /\ Firq /\ Arrive /\ Ticks \subseteq irq0_pend'
  <2>1. ASSUME NEW n \in OddTimers
        PROVE  /\ "wrap" \in come'[n] => tmr_wrap'[n]
               /\ "pend" \in come'[n] => IrqBit[n] \in irq0_pend'
               /\ "line" \in come'[n] => ~firq_n'
    <3>1. n \in Timers
      BY DEF OddTimers
    <3>2. come'[n] = Reached(n)
      <4> HIDE DEF Reached
      <4> QED
        BY <1>1 DEF Arrive
    <3>3. "wrap" \in Reached(n) => tmr_wrap'[n]
      <4>1. "wrap" \in Reached(n) => owed[n] /\ ena(n)
        BY DEF Reached
      <4>2. tmr_wrap'[n] = (ena(n) /\ Due(n))
        <5> HIDE DEF ena, Due
        <5> QED
          BY <1>1, <3>1 DEF Pulses
      <4> HIDE DEF ena, Due, Reached
      <4> QED
        BY <3>1, <4>1, <4>2 DEF OwedDue
    <3>4. "pend" \in Reached(n) => IrqBit[n] \in Ticks
      BY <3>1 DEF Reached, Shows, Ticks
    <3>5. "line" \in Reached(n) => ~firq_n'
      <4>1. "line" \in Reached(n) =>
              IrqBit[n] \in irq0_enable /\ IrqBit[n] \in irq0_pend
        BY DEF Reached, Shows
      <4> QED
        BY <1>1, <4>1 DEF Firq, irq0_trig
    <3> HIDE DEF Reached
    <3> QED
      BY <1>1, <3>2, <3>3, <3>4, <3>5
  <2> QED
    BY <2>1 DEF Shows
<1>2. CASE UNCHANGED <<come, tmr_wrap, firq_n>> /\ irq0_pend \subseteq irq0_pend'
  BY <1>2 DEF Shows
<1>3. CASE come' = [n \in OddTimers |-> {}]
  BY <1>3 DEF Shows
<1> QED
  BY <1>1, <1>2, <1>3, ClioSteps

(* No event is lost on its way to the CPU: an odd timer that went below    *)
(* zero has the fast interrupt line down three edges later, whatever the   *)
(* CPU writes meanwhile, and every event of a timer or the C side stays    *)
(* pending until the CPU clears it.                                        *)
THEOREM ArriveCorrect == ClioSpec => []EventsArrive
<1>1. Init => OwedDue
  BY DEF Init, OwedDue
<1>2. ClioInit => Shows
  BY DEF ClioInit, Shows
<1>3. TypeOK /\ OwedDue /\ [Next]_vars => OwedDue'
  BY OwedStep
<1>4. OwedDue /\ Shows /\ [ClioNext]_clioVars => Shows'
  BY ShowsStep
<1>5. Shows /\ EventsKept => EventsArrive
  BY DEF Shows, EventsArrive
<1>6. Spec => []OwedDue
  BY <1>1, <1>3, TypeCorrect, PTL DEF Spec
<1> QED
  BY <1>2, <1>4, <1>5, <1>6, PartsCorrect, EventsCorrect, PTL DEF ClioSpec
=============================================================================
