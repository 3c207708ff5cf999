------------------------------ MODULE OperaClio ------------------------------
(***************************************************************************)
(* CLIO of the emulator (opera_clio.c): the two stages of pending and      *)
(* enabled interrupts and the 16 timers.  A step is one call: a poke of    *)
(* the CPU, an event that another part raises, or a tick of the timer      *)
(* clock, in which all timers are served in one loop with a carry.         *)
(***************************************************************************)
EXTENDS Integers

CONSTANTS
  N,          \* how many timers; 16 in the program
  Half,       \* from which on a timer has its flags in regs[0x208]; 8
  Top,        \* the largest value of a 32-bit register
  Counts,     \* what the CPU writes as count and as backup
  CtrlMasks,  \* what the CPU writes to set or clear flags: sets of <<timer, flag>>
  IrqMasks,   \* what the CPU writes to the first stage
  Irq1Masks   \* and to the second

Timers == 0 .. N - 1
Flags == {"decrement", "reload", "cascade"}

(* Bits of the first stage: 0 and 1 are the two video lines, 29 the end of *)
(* a DMA, 31 stands for the whole second stage; an odd timer has its own.  *)
TimerBit(t) == 10 - t \div 2
Summary == 31

ASSUME ClioAssumption ==
  /\ N \in 2 .. 16 /\ N % 2 = 0
  /\ Half \in Nat
  /\ Top \in Nat \ {0}
  /\ Counts \subseteq 0 .. Top
  /\ CtrlMasks \subseteq SUBSET (Timers \X Flags)
  /\ IrqMasks \subseteq SUBSET Nat
  /\ Irq1Masks \subseteq SUBSET Nat

VARIABLES
  irq0, irq1,    \* regs[0x40], regs[0x60]: pending
  mask0, mask1,  \* regs[0x48], regs[0x68]: enabled
  ctrl,          \* regs[0x200], regs[0x208]: the flags that are set
  count, backup, \* regs[0x100 + 8t], regs[0x104 + 8t]
  chained        \* history: timers 0 and 1 were started as a pair, with reload,
                 \* and have been left alone since

irqVars == <<irq0, irq1, mask0, mask1>>
timerVars == <<ctrl, count, backup, chained>>
clioVars == <<irqVars, timerVars>>

ClioInit ==
  /\ irq0 = {} /\ irq1 = {} /\ mask0 = {} /\ mask1 = {}
  /\ ctrl = {}
  /\ count = [t \in Timers |-> 0] /\ backup = [t \in Timers |-> 0]
  /\ chained = FALSE
-----------------------------------------------------------------------------
(* Events of both stages become pending; any of the second sets bit 31.    *)
FiqGenerate(reason0, reason1) ==
  /\ irq1' = irq1 \union reason1
  /\ irq0' = irq0 \union reason0 \union (IF irq1' # {} THEN {Summary} ELSE {})
  /\ UNCHANGED <<mask0, mask1>>

SetIrq0(mask) == FiqGenerate(mask, {}) /\ UNCHANGED timerVars
SetIrq1(mask) == FiqGenerate({}, mask) /\ UNCHANGED timerVars

ClearIrq0(mask) ==
  /\ irq0' = irq0 \ (mask \union (IF irq1 = {} THEN {Summary} ELSE {}))
  /\ UNCHANGED <<irq1, mask0, mask1, timerVars>>

(* Mutant: the summary stays when the second stage is empty.               *)
ClearIrq1_KeepsSummary(mask) ==
  irq1' = irq1 \ mask /\ UNCHANGED <<irq0, mask0, mask1, timerVars>>

ClearIrq1(mask) ==
  /\ irq1' = irq1 \ mask
  /\ irq0' = IF irq1' = {} THEN irq0 \ {Summary} ELSE irq0
  /\ UNCHANGED <<mask0, mask1, timerVars>>

SetMask0(mask) ==
  mask0' = mask0 \union mask /\ UNCHANGED <<irq0, irq1, mask1, timerVars>>

ClearMask0(mask) ==
  /\ mask0' = (mask0 \ mask) \union {Summary}
  /\ UNCHANGED <<irq0, irq1, mask1, timerVars>>

SetMask1(mask) ==
  mask1' = mask1 \union mask /\ UNCHANGED <<irq0, irq1, mask0, timerVars>>

ClearMask1(mask) ==
  mask1' = mask1 \ mask /\ UNCHANGED <<irq0, irq1, mask0, timerVars>>
-----------------------------------------------------------------------------
Has(t, flag) == <<t, flag>> \in ctrl
Runs(t) == Has(t, "decrement")

(* The carry that reaches timer t, if the timers in "wraps" wrap in this   *)
(* tick.  A timer that is stopped does not touch the carry, and for the    *)
(* first one that runs it is set.                                          *)
Carry(t, wraps) ==
  \A s \in Timers :
    s < t /\ Runs(s) /\ (\A u \in s + 1 .. t - 1 : ~Runs(u)) => s \in wraps

Clocked(t, wraps) == Has(t, "cascade") => Carry(t, wraps)

Decremented(t, wraps) ==
  IF Clocked(t, wraps) THEN (IF count[t] = 0 THEN Top ELSE count[t] - 1)
                       ELSE count[t]

(* Mutant: a timer wraps when it comes to zero.                            *)
Wraps_AtZero(t, wraps) == Runs(t) /\ Decremented(t, wraps) = 0

(* A timer wraps if all bits of its count are set afterwards.              *)
Wraps(t, wraps) == Runs(t) /\ Decremented(t, wraps) = Top

(* A timer without reload is stopped.  The flags of the timers from Half   *)
(* on are cleared with a shift by 32 or more, which C leaves undefined: a  *)
(* build may clear the right bit (a shift modulo 32) or none.              *)
Stopped(t, wraps, lost) ==
  t \in wraps /\ ~Has(t, "reload") /\ (t >= Half => t \notin lost)

Serve(wraps, lost) ==
  /\ count' = [t \in Timers |->
       IF ~Runs(t) THEN count[t]
       ELSE IF t \in wraps /\ Has(t, "reload") THEN backup[t]
       ELSE Decremented(t, wraps)]
  /\ ctrl' = ctrl \ {<<t, "decrement">> : t \in {s \in Timers : Stopped(s, wraps, lost)}}
  /\ UNCHANGED <<backup, chained>>

(* All timers in one pass; only the odd ones interrupt.                    *)
TimerExecute ==
  \E wraps \in SUBSET Timers, lost \in SUBSET Timers :
    /\ \A t \in Timers : t \in wraps <=> Wraps(t, wraps)
    /\ Serve(wraps, lost)
    /\ FiqGenerate({TimerBit(t) : t \in {s \in wraps : s % 2 = 1}}, {})
-----------------------------------------------------------------------------
(* The CPU's writes to the timers.  A write to one of the two timers of a  *)
(* pair, or to their flags, ends what "chained" says.                      *)
PairStarted ==
  /\ {<<0, "decrement">>, <<0, "reload">>} \subseteq ctrl'
  /\ {<<1, "decrement">>, <<1, "reload">>, <<1, "cascade">>} \subseteq ctrl'
  /\ <<0, "cascade">> \notin ctrl'
  /\ \A t \in {0, 1} : count[t] <= backup[t] /\ backup[t] < Top

PairFlags(flags) == {f \in flags : f[1] \in {0, 1}}

SetFlags(mask) ==
  /\ ctrl' = ctrl \union mask
  /\ chained' = IF chained THEN PairFlags(ctrl') = PairFlags(ctrl) ELSE PairStarted
  /\ UNCHANGED <<count, backup, irqVars>>

ClearFlags(mask) ==
  /\ ctrl' = ctrl \ mask
  /\ chained' = (chained /\ PairFlags(ctrl') = PairFlags(ctrl))
  /\ UNCHANGED <<count, backup, irqVars>>

WriteCount(t, v) ==
  /\ count' = [count EXCEPT ![t] = v]
  /\ chained' = (chained /\ t \notin {0, 1})
  /\ UNCHANGED <<ctrl, backup, irqVars>>

WriteBackup(t, v) ==
  /\ backup' = [backup EXCEPT ![t] = v]
  /\ chained' = (chained /\ t \notin {0, 1})
  /\ UNCHANGED <<ctrl, count, irqVars>>

(* opera_clio_init and opera_clio_reset clear all registers.               *)
ClioReset ==
  /\ irq0' = {} /\ irq1' = {} /\ mask0' = {} /\ mask1' = {}
  /\ ctrl' = {}
  /\ count' = [t \in Timers |-> 0] /\ backup' = [t \in Timers |-> 0]
  /\ chained' = FALSE

ClioPoke ==
  \/ \E mask \in IrqMasks :
       SetIrq0(mask) \/ ClearIrq0(mask) \/ SetMask0(mask) \/ ClearMask0(mask)
  \/ \E mask \in Irq1Masks :
       SetIrq1(mask) \/ ClearIrq1(mask) \/ SetMask1(mask) \/ ClearMask1(mask)
  \/ \E mask \in CtrlMasks : SetFlags(mask) \/ ClearFlags(mask)
  \/ \E t \in Timers, v \in Counts : WriteCount(t, v) \/ WriteBackup(t, v)

(* The end of a DMA; the video lines are raised by the frame loop.         *)
DmaDone == FiqGenerate({29}, {}) /\ UNCHANGED timerVars

ClioNext == ClioPoke \/ ClioReset \/ DmaDone \/ TimerExecute

ClioSpec == ClioInit /\ [][ClioNext]_clioVars
-----------------------------------------------------------------------------
ClioTypeOK ==
  /\ irq0 \subseteq Nat /\ irq1 \subseteq Nat
  /\ mask0 \subseteq Nat /\ mask1 \subseteq Nat
  /\ ctrl \subseteq Timers \X Flags
  /\ count \in [Timers -> 0 .. Top] /\ backup \in [Timers -> 0 .. Top]
  /\ chained \in BOOLEAN

(* Bit 31 of the first stage is set exactly while the second stage has an  *)
(* interrupt pending, whoever raised or cleared it, if the CPU does not    *)
(* write bit 31 itself (a clear of bit 31 alone takes it away from a       *)
(* second stage that is still pending).                                    *)
SummaryFaithful ==
  (\A mask \in IrqMasks : Summary \notin mask) => (Summary \in irq0 <=> irq1 # {})

(* Two timers in cascade with reload are one counter: one pass of the loop *)
(* carries from the lower to the upper one, none is lost or made twice.    *)
Pair == INSTANCE WideCounter WITH
  running <- chained,
  value <- IF chained THEN count[1] * (backup[0] + 1) + count[0] ELSE 0,
  period <- IF chained THEN (backup[1] + 1) * (backup[0] + 1) ELSE 1

PairSpec == Pair!Spec

(* The state of CLIO between two calls: the registers, and bit 31.         *)
ClioInv == ClioTypeOK /\ SummaryFaithful
=============================================================================
