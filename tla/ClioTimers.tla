----------------------------- MODULE ClioTimers -----------------------------
(***************************************************************************)
(* The timers of CLIO: the clio_timer instances of rtl/clio.v, the chain   *)
(* that cascades them, and the control and slack registers the CPU writes. *)
(*                                                                         *)
(* One step is one rising edge of clk_25m.  The CPU's strobe is not gated  *)
(* by the acknowledge (core_3do.v), so a write is seen at one edge or at   *)
(* several in a row: any write may be on the bus at any edge.  The slack   *)
(* counters of all timers start together and count alike, so one stands    *)
(* for all.                                                                *)
(***************************************************************************)
EXTENDS Integers

CONSTANTS
  N,            \* the number of timers (16)
  Max,          \* the largest count (16'hFFFF)
  Counts,       \* what a CPU writes to a count or backup register
  Slacks,       \* what a CPU writes to the slack register
  ResetSlack,   \* the slack after a reset (64)
  CtrlMasks,    \* the control bits one CPU write names
  Resets        \* TRUE: the RESET button may be pressed

Timers == 0 .. N - 1
CtrlBits == Timers \X {"ena", "reload", "cas"}

ASSUME ClioTimersAssumption ==
  /\ N \in Nat /\ N >= 2
  /\ Max \in Nat \ {0}
  /\ Counts \subseteq 0 .. Max
  /\ Slacks \subseteq Nat
  /\ ResetSlack \in Nat
  /\ CtrlMasks \subseteq SUBSET CtrlBits
  /\ Resets \in BOOLEAN

VARIABLES
  tmr_cnt, tmr_cnt_prev, tmr_bkp,
  tmr_wrap, tmr_ena_clr,   \* one-clock pulses of a timer
  tmr_ctrl,                \* the bits that are set in tmr_ctrl_u, tmr_ctrl_l
  slack, slack_cnt,
  owed,      \* history: the timer went below zero and has not announced it
  faked,     \* history: a reset or a write made the count look like a wrap
  chained    \* history: timers 0 and 1 were started as a pair and left alone

counters == <<tmr_cnt, tmr_cnt_prev, tmr_bkp>>
pulses == <<tmr_wrap, tmr_ena_clr>>
history == <<owed, faked, chained>>
vars == <<counters, pulses, tmr_ctrl, slack, slack_cnt, history>>

ena(n) == <<n, "ena">> \in tmr_ctrl
reload(n) == <<n, "reload">> \in tmr_ctrl
cas(n) == <<n, "cas">> \in tmr_ctrl

Init ==
  /\ tmr_cnt = [n \in Timers |-> Max]
  /\ tmr_bkp = [n \in Timers |-> Max]
  /\ tmr_cnt_prev = [n \in Timers |-> 0]
  /\ tmr_wrap = [n \in Timers |-> FALSE]
  /\ tmr_ena_clr = [n \in Timers |-> FALSE]
  /\ tmr_ctrl = {}
  /\ slack = ResetSlack /\ slack_cnt = 0
  /\ owed = [n \in Timers |-> FALSE]
  /\ faked = [n \in Timers |-> TRUE]
  /\ chained = FALSE
-----------------------------------------------------------------------------
(* The timer finds, one clock later, that it went below zero.              *)
Due(n) == tmr_cnt[n] = Max /\ tmr_cnt_prev[n] = 0

(* Mutant: the chain is wired to the pulse of timers that end.             *)
tmr_cas_clk_FromEnd(n) == n = 0 \/ tmr_ena_clr[n - 1]

(* Timer 0 has no timer before it: its cascade input is tied high.         *)
tmr_cas_clk(n) == n = 0 \/ tmr_wrap[n - 1]

tmr_dec(n) == IF cas(n) THEN tmr_cas_clk(n) ELSE slack_cnt = 0

Decrements(n) == ena(n) /\ ~Due(n) /\ tmr_dec(n)

Underflows(n) == Decrements(n) /\ tmr_cnt[n] = 0

Pred(c) == (c - 1) % (Max + 1)

(* Mutant: an underflow is looked for in the counter alone.                *)
Counters_NoEdge(cnt, bkp) ==
  /\ tmr_cnt' = [n \in Timers |->
       IF ena(n) /\ Due(n) THEN IF reload(n) THEN tmr_bkp[n] ELSE cnt[n]
       ELSE IF Decrements(n) THEN Pred(tmr_cnt[n]) ELSE cnt[n]]
  /\ tmr_cnt_prev' = [n \in Timers |->
       IF ena(n) /\ ~Due(n) THEN tmr_cnt[n] ELSE tmr_cnt_prev[n]]
  /\ tmr_bkp' = bkp

(* cnt, bkp: the registers as a CPU write alone would leave them.  What    *)
(* the timer assigns after the write takes its place.                      *)
Counters(cnt, bkp) ==
  /\ tmr_cnt' = [n \in Timers |->
       IF ena(n) /\ Due(n) THEN IF reload(n) THEN tmr_bkp[n] ELSE cnt[n]
       ELSE IF Decrements(n) THEN Pred(tmr_cnt[n]) ELSE cnt[n]]
  /\ tmr_cnt_prev' = [n \in Timers |->
       IF ena(n) THEN tmr_cnt[n] ELSE tmr_cnt_prev[n]]
  /\ tmr_bkp' = bkp

Pulses ==
  /\ tmr_wrap' = [n \in Timers |-> ena(n) /\ Due(n)]
  /\ tmr_ena_clr' = [n \in Timers |-> ena(n) /\ Due(n) /\ ~reload(n)]

SlackCount == slack_cnt' = IF slack_cnt = 0 THEN slack \div 2 ELSE slack_cnt - 1

(* A timer that ends clears its enable bit, also against a CPU write.      *)
Control(ctrl) == tmr_ctrl' = {b \in ctrl : b[2] # "ena" \/ ~tmr_ena_clr[b[1]]}
-----------------------------------------------------------------------------
(* The history, for an edge at which the CPU writes v to the count of      *)
(* timer n when w = <<n, v>>.                                              *)

(* The largest count, written to a timer whose count was 0 when it last    *)
(* ran: what the timer takes for a wrap when it runs next.                 *)
Fakes(n, w) ==
  /\ w[1] = n /\ w[2] = Max
  /\ IF ena(n) THEN tmr_cnt[n] = 0 /\ ~Decrements(n) ELSE tmr_cnt_prev[n] = 0

Announce(w) ==
  /\ owed' = [n \in Timers |->
       \/ Underflows(n)
       \/ owed[n] /\ ~ena(n) /\ w[1] # n]
  /\ faked' = [n \in Timers |->
       \/ Fakes(n, w)
       \/ faked[n] /\ ~ena(n) /\ w[1] # n]

NoCount == <<N, 0>>

(* A pair that counts as one: both with reload, the upper one cascaded,    *)
(* their counts within their backups, and no underflow left over.          *)
PairReady ==
  /\ \A n \in {0, 1} :
       ena(n) /\ reload(n) /\ tmr_cnt[n] <= tmr_bkp[n] /\ ~Due(n)
  /\ cas(1)

(* touched: this edge writes a count or backup register.                   *)
Chain(touched) ==
  chained' = \/ chained /\ ~touched /\ tmr_ctrl' = tmr_ctrl
             \/ ~ena(0) /\ ~ena(1) /\ PairReady'
-----------------------------------------------------------------------------
Idle ==
  /\ Counters(tmr_cnt, tmr_bkp) /\ Pulses /\ SlackCount /\ Control(tmr_ctrl)
  /\ UNCHANGED slack
  /\ Announce(NoCount) /\ Chain(FALSE)

WriteCount(n, v) ==
  /\ Counters([tmr_cnt EXCEPT ![n] = v], tmr_bkp)
  /\ Pulses /\ SlackCount /\ Control(tmr_ctrl)
  /\ UNCHANGED slack
  /\ Announce(<<n, v>>) /\ Chain(TRUE)

WriteBackup(n, v) ==
  /\ Counters(tmr_cnt, [tmr_bkp EXCEPT ![n] = v])
  /\ Pulses /\ SlackCount /\ Control(tmr_ctrl)
  /\ UNCHANGED slack
  /\ Announce(NoCount) /\ Chain(TRUE)

SetControl(mask) ==
  /\ Counters(tmr_cnt, tmr_bkp) /\ Pulses /\ SlackCount
  /\ Control(tmr_ctrl \union mask)
  /\ UNCHANGED slack
  /\ Announce(NoCount) /\ Chain(FALSE)

ClearControl(mask) ==
  /\ Counters(tmr_cnt, tmr_bkp) /\ Pulses /\ SlackCount
  /\ Control(tmr_ctrl \ mask)
  /\ UNCHANGED slack
  /\ Announce(NoCount) /\ Chain(FALSE)

WriteSlack(v) ==
  /\ Counters(tmr_cnt, tmr_bkp) /\ Pulses /\ SlackCount /\ Control(tmr_ctrl)
  /\ slack' = v
  /\ Announce(NoCount) /\ Chain(FALSE)

(* The reset loads every register of a timer, but tmr_ctrl is not in it.   *)
Reset ==
  /\ Resets
  /\ tmr_cnt' = [n \in Timers |-> Max]
  /\ tmr_bkp' = [n \in Timers |-> Max]
  /\ tmr_cnt_prev' = [n \in Timers |-> 0]
  /\ tmr_wrap' = [n \in Timers |-> FALSE]
  /\ tmr_ena_clr' = [n \in Timers |-> FALSE]
  /\ slack' = ResetSlack /\ slack_cnt' = 0
  /\ UNCHANGED tmr_ctrl
  /\ owed' = [n \in Timers |-> FALSE]
  /\ faked' = [n \in Timers |-> TRUE]
  /\ chained' = FALSE

TimerWrite ==
  \/ \E n \in Timers, v \in Counts : WriteCount(n, v) \/ WriteBackup(n, v)
  \/ \E mask \in CtrlMasks : SetControl(mask) \/ ClearControl(mask)
  \/ \E v \in Slacks : WriteSlack(v)

Next == Idle \/ TimerWrite \/ Reset

Spec == Init /\ [][Next]_vars

(* The clock never stops.                                                  *)
LiveSpec == Spec /\ WF_vars(Next)
-----------------------------------------------------------------------------
(* The registers and the history keep their types.                         *)
TypeOK ==
  /\ tmr_cnt \in [Timers -> 0 .. Max]
  /\ tmr_cnt_prev \in [Timers -> 0 .. Max]
  /\ tmr_bkp \in [Timers -> 0 .. Max]
  /\ tmr_wrap \in [Timers -> BOOLEAN]
  /\ tmr_ena_clr \in [Timers -> BOOLEAN]
  /\ tmr_ctrl \subseteq CtrlBits
  /\ slack \in Nat /\ slack_cnt \in Nat
  /\ owed \in [Timers -> BOOLEAN]
  /\ faked \in [Timers -> BOOLEAN]
  /\ chained \in BOOLEAN

(* A wrap is a pulse of one clock: the next timer of the chain, which      *)
(* counts every clock in which it sees the wrap, never counts one twice.   *)
(* Holds for every order of starts, stops and writes.                      *)
WrapIsPulse == [][\A n \in Timers : ~(tmr_wrap[n] /\ tmr_wrap'[n])]_vars

(* What a timer is about to announce as a wrap is one of two things: it    *)
(* went below zero and has not said so yet, even if it was stopped in      *)
(* between; or a reset, or a write of the largest count over a count of 0, *)
(* has made it look so, and no other count was written since.  The first   *)
(* is always announced and so is, in this code, the second; nothing else   *)
(* is.                                                                     *)
WrapExact == \A n \in Timers : Due(n) <=> owed[n] \/ faked[n]

(* While a pair is left alone, a slack that runs out is counted: timer 0   *)
(* is not busy with its wrap in that clock.  Only when the slack ran out   *)
(* in the clock before, too (a slack of 0 or 1 makes every clock a tick),  *)
(* may it be busy and a tick be lost.                                      *)
TickCounted ==
  [][chained' /\ ~cas(0)' /\ slack_cnt' = 0 /\ slack_cnt # 0 => Decrements(0)']_vars

(* Two timers in cascade are one counter: no carry between them is lost or *)
(* counted twice, whatever the two reload values and the slack are.        *)
Low == IF Due(0) THEN tmr_bkp[0] ELSE tmr_cnt[0]
High == IF Due(1) THEN tmr_bkp[1] ELSE tmr_cnt[1]
Carry == IF Due(0) \/ tmr_wrap[0] THEN 1 ELSE 0

Period == (tmr_bkp[1] + 1) * (tmr_bkp[0] + 1)
Value ==
  (IF High >= Carry THEN High - Carry ELSE tmr_bkp[1]) * (tmr_bkp[0] + 1) + Low

Pair == INSTANCE WideCounter WITH
  running <- chained,
  value <- IF chained THEN Value ELSE 0,
  period <- IF chained THEN Period ELSE 1

PairSpec == Pair!Spec

(* A pair that is left alone interrupts again and again.                   *)
PairWraps == <>[]chained => []<>tmr_wrap[1]

(* A timer does not announce a wrap before it went below zero.  The code   *)
(* does not keep this: an observation of the README.                       *)
NoEarlyWrap == \A n \in Timers : ena(n) /\ Due(n) => owed[n]
=============================================================================
