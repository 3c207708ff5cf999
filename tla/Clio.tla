-------------------------------- MODULE Clio ---------------------------------
(***************************************************************************)
(* CLIO's timers and its interrupt registers as they are wired together    *)
(* (rtl/clio.v): at each edge of the clock both go on, the bits of the odd *)
(* timers that wrap are set in irq0_pend, and the CPU writes at most one   *)
(* register of either.                                                     *)
(***************************************************************************)
EXTENDS ClioTimers, ClioIrq

CONSTANT IrqBit   \* the irq0 bit of each odd timer

OddTimers == {n \in Timers : n % 2 = 1}

ASSUME ClioAssumption == IrqBit \in [OddTimers -> TimerBits]

VARIABLE come   \* history: the places an underflow of a timer has come to

clioVars == <<vars, irqVars, come>>

ClioInit == Init /\ IrqInit /\ come = [n \in OddTimers |-> {}]
-----------------------------------------------------------------------------
Ticks == {IrqBit[n] : n \in {m \in OddTimers : tmr_wrap[m]}}

(* An underflow is announced at the next edge that finds the timer enabled;*)
(* its bit is set one edge later, and one more until the line is down, if  *)
(* the CPU has enabled the bit then.                                       *)
Reached(n) ==
  (IF owed[n] /\ ena(n) THEN {"wrap"} ELSE {})
    \union (IF "wrap" \in come[n] THEN {"pend"} ELSE {})
    \union (IF "pend" \in come[n] /\ IrqBit[n] \in irq0_enable THEN {"line"} ELSE {})

Arrive == come' = [n \in OddTimers |-> Reached(n)]

(* The CPU writes a register of the timers, one of the interrupts, or none.*)
ClioEdge ==
  \/ (Idle \/ TimerWrite) /\ IrqIdle(Ticks) /\ Arrive
  \/ Idle /\ CpuWrite(Ticks) /\ Arrive

ClioReset == Reset /\ IrqReset /\ come' = [n \in OddTimers |-> {}]

ClioNext ==
  \/ ClioEdge
  \/ ((\E b \in DeviceBits : DeviceIrq(b)) \/ PbusDone) /\ UNCHANGED <<vars, come>>
  \/ ClioReset

ClioSpec == ClioInit /\ [][ClioNext]_clioVars

(* The clock never stops, with a CPU write at an edge or without.          *)
ClioLiveSpec == ClioSpec /\ WF_clioVars(ClioEdge)
-----------------------------------------------------------------------------
(* No event is lost on its way to the CPU: an odd timer that went below    *)
(* zero pulls the fast interrupt line down three edges after it, if it and *)
(* its interrupt are enabled at the edges that look for it, whatever the   *)
(* CPU writes at these edges to the count, the pending bits or another     *)
(* register; and what is not taken at once stays pending.                  *)
EventsArrive ==
  /\ EventsKept
  /\ \A n \in OddTimers : "line" \in come[n] => ~firq_n
=============================================================================
