------------------------------- MODULE ClioIrq -------------------------------
(***************************************************************************)
(* The interrupt registers of CLIO and the video counters that feed them   *)
(* (rtl/clio.v), with the events that come from outside: the wraps of the  *)
(* odd timers (ticks, a set of bits), and the interrupts that sim_main.cpp *)
(* writes into the registers from the C side.                              *)
(*                                                                         *)
(* An action is one rising edge of clk_25m, except DeviceIrq and PbusDone, *)
(* which the C side does between two edges.  At an edge every register is  *)
(* computed from the values before it; where the always block assigns a    *)
(* register more than once, the last assignment counts.                    *)
(***************************************************************************)
EXTENDS Integers

CONSTANTS
  TimerBits,     \* the irq0 bits of the odd timers (bits 3 to 10)
  DeviceBits,    \* the irq0 bits the C side sets: XBUS (2), XBUS DMA (29)
  Bits1,         \* the bits of irq1_pend
  Masks0, Masks1,\* the sets of bits one CPU write names
  HMax, VMax,    \* the last clock of a line, the last line of a frame
  Top,           \* the largest value of the registers hcnt and vcnt (32 bits)
  HWrites, VWrites,  \* what a CPU writes to hcnt and vcnt: any of their values
  Lines0, Lines1 \* what a CPU writes to the 11 bits of vint0 and of vint1

Lines == Lines0 \union Lines1
Bits0 == TimerBits \union DeviceBits \union {"vint0", "vint1", "irq1"}

ASSUME ClioIrqAssumption ==
  /\ TimerBits \intersect {"vint0", "vint1", "irq1"} = {}
  /\ DeviceBits \intersect {"vint0", "vint1", "irq1"} = {}
  /\ "pbus" \in Bits1
  /\ Masks0 \subseteq SUBSET Bits0 /\ Masks1 \subseteq SUBSET Bits1
  /\ HMax \in Nat \ {0} /\ VMax \in Nat
  /\ Top \in Nat /\ HMax < Top /\ VMax < Top
  /\ HWrites \subseteq 0 .. Top /\ VWrites \subseteq 0 .. Top
  /\ Lines \subseteq Nat

VARIABLES
  irq0_pend, irq0_enable, irq1_pend, irq1_enable,
  firq_n,
  hcnt, vcnt, field, vint0, vint1,
  raised,    \* history: bits of timers and devices that were raised and that
             \* no CPU write has cleared yet
  waits      \* history: edges, up to 2, that an irq1 interrupt has waited

irqRegs == <<irq0_pend, irq0_enable, irq1_pend, irq1_enable>>
video == <<hcnt, vcnt, field, vint0, vint1>>
irqHistory == <<raised, waits>>
irqVars == <<irqRegs, firq_n, video, irqHistory>>

(* The reset does not touch firq_n: it starts low, as every register of    *)
(* the simulation does, and goes up at the first edge.                     *)
IrqInit ==
  /\ irq0_pend = {} /\ irq0_enable = {}
  /\ irq1_pend = {} /\ irq1_enable = {}
  /\ firq_n = FALSE
  /\ hcnt = 0 /\ vcnt = 0 /\ field = 0 /\ vint0 = 0 /\ vint1 = 0
  /\ raised = {} /\ waits = 0
-----------------------------------------------------------------------------
irq0_trig == irq0_pend \intersect irq0_enable # {}
irq1_trig == irq1_pend \intersect irq1_enable # {}

(* The video lines that interrupt in this clock.                           *)
Vints == {b \in {"vint0", "vint1"} :
            hcnt = 0 /\ vcnt = (IF b = "vint0" THEN vint0 ELSE vint1)}

(* irq0_pend with bit 31, which sums up irq1.  When no irq1 interrupt is   *)
(* pending the bit keeps its value.                                        *)
Summary ==
  IF irq1_pend = {} THEN irq0_pend
  ELSE IF irq1_trig THEN irq0_pend \union {"irq1"}
  ELSE irq0_pend \ {"irq1"}

(* Mutant: the wraps come before the CPU's write instead of after it.      *)
Pend0_WriteWins(ticks, p, cleared) ==
  /\ irq0_pend' = (p \union ticks) \ cleared
  /\ raised' = (raised \ cleared) \union ticks

(* p: irq0_pend as the CPU's write, or else the hardware, assigns it; the  *)
(* bits of the timers that wrap, ticks, are added last.                    *)
Pend0(ticks, p, cleared) ==
  /\ irq0_pend' = p \union ticks
  /\ raised' = (raised \ cleared) \union ticks

Hardware(ticks) == Pend0(ticks, Summary \union Vints, {})

(* Mutant: bit 31 does not interrupt the CPU.                              *)
Firq_NoSummary == firq_n' = ((irq0_pend \ {"irq1"}) \intersect irq0_enable = {})

(* The fast interrupt line is a register: it shows the clock before.       *)
Firq == firq_n' = ~irq0_trig

(* An enabled irq1 interrupt waits while the CPU leaves irq0_pend alone.   *)
Wait ==
  waits' = IF irq1_trig /\ "irq1" \in irq0_enable
           THEN IF waits < 2 THEN waits + 1 ELSE 2
           ELSE 0

(* A count that the CPU has put behind the last one is not stopped there:  *)
(* it runs on to the end of its register.                                  *)
After(count, last) == IF count = last THEN 0 ELSE (count + 1) % (Top + 1)

Hcnt == hcnt' = After(hcnt, HMax)

(* Mutant: the last line of a frame is left out.                           *)
Vcnt_Short ==
  vcnt' = IF hcnt = HMax THEN After(vcnt, VMax - 1) ELSE vcnt

Vcnt == vcnt' = IF hcnt = HMax THEN After(vcnt, VMax) ELSE vcnt

Field == field' = IF hcnt = HMax /\ vcnt = VMax THEN 1 - field ELSE field

Beam == Hcnt /\ Vcnt /\ Field /\ UNCHANGED <<vint0, vint1>>
-----------------------------------------------------------------------------
IrqIdle(ticks) ==
  /\ Hardware(ticks) /\ Firq /\ Wait /\ Beam
  /\ UNCHANGED <<irq0_enable, irq1_pend, irq1_enable>>

(* A write to irq0_pend takes the place of what the hardware assigned.     *)
SetPend0(ticks, m) ==
  /\ Pend0(ticks, irq0_pend \union m, {})
  /\ Firq /\ Beam /\ waits' = 0
  /\ UNCHANGED <<irq0_enable, irq1_pend, irq1_enable>>

ClearPend0(ticks, m) ==
  /\ Pend0(ticks, irq0_pend \ m, m)
  /\ Firq /\ Beam /\ waits' = 0
  /\ UNCHANGED <<irq0_enable, irq1_pend, irq1_enable>>

SetEnable0(ticks, m) ==
  /\ irq0_enable' = irq0_enable \union m
  /\ Hardware(ticks) /\ Firq /\ Wait /\ Beam
  /\ UNCHANGED <<irq1_pend, irq1_enable>>

ClearEnable0(ticks, m) ==
  /\ irq0_enable' = irq0_enable \ m
  /\ Hardware(ticks) /\ Firq /\ Wait /\ Beam
  /\ UNCHANGED <<irq1_pend, irq1_enable>>

SetPend1(ticks, m) ==
  /\ irq1_pend' = irq1_pend \union m
  /\ Hardware(ticks) /\ Firq /\ Wait /\ Beam
  /\ UNCHANGED <<irq0_enable, irq1_enable>>

ClearPend1(ticks, m) ==
  /\ irq1_pend' = irq1_pend \ m
  /\ Hardware(ticks) /\ Firq /\ Wait /\ Beam
  /\ UNCHANGED <<irq0_enable, irq1_enable>>

SetEnable1(ticks, m) ==
  /\ irq1_enable' = irq1_enable \union m
  /\ Hardware(ticks) /\ Firq /\ Wait /\ Beam
  /\ UNCHANGED <<irq0_enable, irq1_pend>>

ClearEnable1(ticks, m) ==
  /\ irq1_enable' = irq1_enable \ m
  /\ Hardware(ticks) /\ Firq /\ Wait /\ Beam
  /\ UNCHANGED <<irq0_enable, irq1_pend>>

WriteHcnt(ticks, v) ==
  /\ hcnt' = v
  /\ Hardware(ticks) /\ Firq /\ Wait /\ Vcnt /\ Field
  /\ UNCHANGED <<irq0_enable, irq1_pend, irq1_enable, vint0, vint1>>

WriteVcnt(ticks, v) ==
  /\ vcnt' = v
  /\ Hardware(ticks) /\ Firq /\ Wait /\ Hcnt /\ Field
  /\ UNCHANGED <<irq0_enable, irq1_pend, irq1_enable, vint0, vint1>>

WriteVint(ticks, v) ==
  /\ \/ v \in Lines0 /\ vint0' = v /\ UNCHANGED vint1
     \/ v \in Lines1 /\ vint1' = v /\ UNCHANGED vint0
  /\ Hardware(ticks) /\ Firq /\ Wait /\ Hcnt /\ Vcnt /\ Field
  /\ UNCHANGED <<irq0_enable, irq1_pend, irq1_enable>>

(* The C side: a request of an XBUS device, or the end of an XBUS DMA.     *)
DeviceIrq(b) ==
  /\ irq0_pend' = irq0_pend \union {b}
  /\ raised' = raised \union {b}
  /\ UNCHANGED <<irq0_enable, irq1_pend, irq1_enable, firq_n, video, waits>>

(* The C side: the end of a player bus DMA.                                *)
PbusDone ==
  /\ irq1_pend' = irq1_pend \union {"pbus"}
  /\ UNCHANGED <<irq0_pend, irq0_enable, irq1_enable, firq_n, video, irqHistory>>

(* The reset leaves firq_n as it is until the next edge.                   *)
IrqReset ==
  /\ irq0_pend' = {} /\ irq0_enable' = {}
  /\ irq1_pend' = {} /\ irq1_enable' = {}
  /\ hcnt' = 0 /\ vcnt' = 0 /\ field' = 0 /\ vint0' = 0 /\ vint1' = 0
  /\ raised' = {} /\ waits' = 0
  /\ UNCHANGED firq_n

CpuWrite(ticks) ==
  \/ \E m \in Masks0 :
       \/ SetPend0(ticks, m) \/ ClearPend0(ticks, m)
       \/ SetEnable0(ticks, m) \/ ClearEnable0(ticks, m)
  \/ \E m \in Masks1 :
       \/ SetPend1(ticks, m) \/ ClearPend1(ticks, m)
       \/ SetEnable1(ticks, m) \/ ClearEnable1(ticks, m)
  \/ \E v \in HWrites : WriteHcnt(ticks, v)
  \/ \E v \in VWrites : WriteVcnt(ticks, v)
  \/ \E v \in Lines : WriteVint(ticks, v)

(* Which timers wrap is left open here; Clio has the timers.               *)
IrqNext ==
  \/ \E ticks \in SUBSET TimerBits : IrqIdle(ticks) \/ CpuWrite(ticks)
  \/ \E b \in DeviceBits : DeviceIrq(b)
  \/ PbusDone
  \/ IrqReset

IrqSpec == IrqInit /\ [][IrqNext]_irqVars
-----------------------------------------------------------------------------
(* The registers keep their types; the beam may be anywhere in them.       *)
IrqTypeOK ==
  /\ irq0_pend \subseteq Bits0 /\ irq0_enable \subseteq Bits0
  /\ irq1_pend \subseteq Bits1 /\ irq1_enable \subseteq Bits1
  /\ firq_n \in BOOLEAN
  /\ hcnt \in 0 .. Top /\ vcnt \in 0 .. Top /\ field \in {0, 1}
  /\ vint0 \in Nat /\ vint1 \in Nat
  /\ raised \subseteq Bits0 /\ waits \in 0 .. 2

(* An interrupt of a timer or of a C-side device stays pending until the   *)
(* CPU clears it, also when the CPU writes irq0_pend at the very edge.     *)
EventsKept == raised \intersect (TimerBits \union DeviceBits) \subseteq irq0_pend

(* An irq1 interrupt that is enabled in both stages pulls the fast         *)
(* interrupt line down after two edges, unless the CPU writes irq0_pend.   *)
Irq1Delivered == waits = 2 => ~firq_n

(* Once the beam is moved by the clock alone, wherever the CPU has left it *)
(* and as long as no write holds it in place, every line of the frame is   *)
(* reached again and again: a line that stays in vint0 goes on             *)
(* interrupting.  A beam put behind the last line or clock is not caught   *)
(* there but runs round its register first, and no line of the frame       *)
(* interrupts until it has.                                                *)
VintEachFrame ==
  <>[][Hcnt /\ Vcnt]_<<hcnt, vcnt>> /\ []<><<Hcnt>>_hcnt =>
    \A k \in 0 .. VMax : <>[](vint0 = k) => []<>("vint0" \in Vints)

(* A video interrupt that comes at an edge is pending after it.  The code  *)
(* does not keep this: an observation of the README.                       *)
VintKept == [][hcnt' # hcnt => Vints \subseteq irq0_pend']_irqVars

=============================================================================
