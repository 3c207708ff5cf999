----------------------------- MODULE OperaFrame ------------------------------
(***************************************************************************)
(* The emulator's frame loop (opera_3do.c, opera_tick of sim_main.cpp) and *)
(* its clocks (opera_clock.c), with CLIO, which they drive; the loop hands *)
(* each scanline to the display list processor (OperaVdlp).  A step is one *)
(* instruction of the ARM and what the loop does after it, or something    *)
(* the CPU or the front end does to a register.  Who calls the loop, and   *)
(* how often, is left open: sim_main.cpp has its calls commented out.      *)
(***************************************************************************)
EXTENDS OperaClio

CONSTANTS
  Cycles,       \* what one instruction may take
  Slice,        \* the loop acts when so many cycles have come together; 32
  PerLine,      \* cycles_per_scanline
  PerSample,    \* cycles_per_snd
  PerTimer,     \* cycles_per_timer, by what the CPU writes to regs[0x220]
  ResetDelay,   \* the delay the clock starts with
  AccMax,       \* the largest value of an accumulator, 2^31 - 1 in 16.16
  Scanlines,    \* opera_region_scanlines
  VintLines     \* what the CPU writes to regs[8] and regs[12]

Delays == DOMAIN PerTimer

(* What an instruction leaves over is below a slice, so no more than this  *)
(* is pushed at once.  opera_clock_cpu_set_freq keeps the frequency high   *)
(* enough for a line to be longer.                                         *)
MaxPush == 2 * Slice - 1

ASSUME FrameAssumption ==
  /\ Slice \in Nat \ {0} /\ Cycles # {} /\ Cycles \subseteq 1 .. Slice
  /\ PerLine \in Nat /\ PerSample \in Nat
  /\ MaxPush <= PerLine /\ MaxPush <= PerSample
  /\ \A d \in Delays : PerTimer[d] \in Nat \ {0}
  /\ \E d \in Delays : \A e \in Delays : PerTimer[e] <= PerTimer[d]
  /\ ResetDelay \in Delays /\ PerTimer[ResetDelay] >= MaxPush
  /\ AccMax \in Nat /\ PerLine + MaxPush <= AccMax /\ PerSample + MaxPush <= AccMax
  /\ \A d \in Delays : PerTimer[d] + MaxPush <= AccMax
  /\ Scanlines \in Nat \ {0} /\ VintLines \subseteq Nat

VARIABLES
  dsp_acc, vdl_acc, timer_acc, timer_delay,
  cnt, line, field,
  vint0, vint1,      \* regs[8], regs[12]
  hurried,           \* history: the timer clock was once set faster than the loop
  waited             \* history: lines since the last interrupt of vint0, or
                     \* since it was moved, counted up to Scanlines

clockVars == <<dsp_acc, vdl_acc, timer_acc, timer_delay>>
loopVars == <<cnt, line, field, vint0, vint1, hurried, waited>>
vars == <<clioVars, clockVars, loopVars>>

FrameInit ==
  /\ ClioInit
  /\ dsp_acc = 0 /\ vdl_acc = 0 /\ timer_acc = 0 /\ timer_delay = ResetDelay
  /\ cnt = 0 /\ line = 0 /\ field = 0
  /\ vint0 = 0 /\ vint1 = 0
  /\ hurried = FALSE /\ waited = 0
-----------------------------------------------------------------------------
(* The accumulators are signed and wrap around.                            *)
Wrap(acc) == IF acc > AccMax THEN acc - 2 * (AccMax + 1) ELSE acc
Push(acc, cycles) == Wrap(acc + cycles)

(* Mutant: a whole period is not enough.                                   *)
Queued_Strict(acc, period) == acc > period

Queued(acc, period) == acc >= period

Take(acc, period) == IF Queued(acc, period) THEN acc - period ELSE acc

(* Mutant: video interrupts in one field only.                             *)
Events_OneField(timer, scan) ==
  LET raised == {b \in {0, 1} : scan /\ field = 0 /\ line = (IF b = 0 THEN vint0 ELSE vint1)} IN
  /\ FiqGenerate(raised, {}) /\ UNCHANGED timerVars
  /\ waited' = IF ~scan THEN waited ELSE IF 0 \in raised THEN 0
              ELSE IF waited < Scanlines THEN waited + 1 ELSE waited

(* The timers and the line: one of each at most for every push.            *)
Events(timer, scan) ==
  LET raised == {b \in {0, 1} : scan /\ line = (IF b = 0 THEN vint0 ELSE vint1)} IN
  /\ IF timer
     THEN \E wraps \in SUBSET Timers, lost \in SUBSET Timers :
            /\ \A t \in Timers : t \in wraps <=> Wraps(t, wraps)
            /\ Serve(wraps, lost)
            /\ FiqGenerate({TimerBit(t) : t \in {s \in wraps : s % 2 = 1}} \union raised, {})
     ELSE FiqGenerate(raised, {}) /\ UNCHANGED timerVars
  /\ waited' = IF ~scan THEN waited ELSE IF 0 \in raised THEN 0
              ELSE IF waited < Scanlines THEN waited + 1 ELSE waited

(* Mutant: a field starts with its second line.                            *)
NextLine_FromOne(scan) ==
  LET next == IF scan THEN line + 1 ELSE line IN
  /\ line' = IF next = Scanlines THEN 1 ELSE next
  /\ field' = IF next = Scanlines THEN 1 - field ELSE field

NextLine(scan) ==
  LET next == IF scan THEN line + 1 ELSE line IN
  /\ line' = IF next = Scanlines THEN 0 ELSE next
  /\ field' = IF next = Scanlines THEN 1 - field ELSE field

(* One instruction took c cycles.  All that has come together is pushed,   *)
(* but only a slice is taken off, so what is left over is pushed again.    *)
Execute(c) ==
  LET sum == cnt + c
      act == sum >= Slice
      timer == act /\ Queued(Push(timer_acc, sum), PerTimer[timer_delay])
      scan == act /\ Queued(Push(vdl_acc, sum), PerLine)
  IN /\ cnt' = IF act THEN sum - Slice ELSE sum
     /\ timer_acc' = IF act THEN Take(Push(timer_acc, sum), PerTimer[timer_delay]) ELSE timer_acc
     /\ vdl_acc' = IF act THEN Take(Push(vdl_acc, sum), PerLine) ELSE vdl_acc
     /\ dsp_acc' = Take(IF act THEN Push(dsp_acc, sum) ELSE dsp_acc, PerSample)
     /\ Events(timer, scan)
     /\ NextLine(scan)
     /\ UNCHANGED <<timer_delay, vint0, vint1, hurried>>

Run == \E c \in Cycles : Execute(c)

(* The CPU's writes to regs[0x220], regs[8] and regs[12].                  *)
SetDelay(d) ==
  /\ timer_delay' = d
  /\ hurried' = (hurried \/ PerTimer[d] < MaxPush)
  /\ UNCHANGED <<clioVars, dsp_acc, vdl_acc, timer_acc,
                 cnt, line, field, vint0, vint1, waited>>

SetVint0(n) ==
  /\ vint0' = n /\ waited' = 0
  /\ UNCHANGED <<clioVars, clockVars, cnt, line, field, vint1, hurried>>

SetVint1(n) ==
  /\ vint1' = n
  /\ UNCHANGED <<clioVars, clockVars, cnt, line, field, vint0, hurried, waited>>

Poke ==
  \/ (ClioPoke \/ DmaDone) /\ UNCHANGED <<clockVars, loopVars>>
  \/ \E d \in Delays : SetDelay(d)
  \/ \E n \in VintLines : SetVint0(n) \/ SetVint1(n)

(* The simulator's RESET button: my_opera_init starts the clocks and CLIO  *)
(* anew.  What the loop itself keeps stays as it is.                       *)
Reset ==
  /\ ClioReset
  /\ dsp_acc' = 0 /\ vdl_acc' = 0 /\ timer_acc' = 0 /\ timer_delay' = ResetDelay
  /\ vint0' = 0 /\ vint1' = 0 /\ waited' = 0
  /\ hurried' = FALSE
  /\ UNCHANGED <<cnt, line, field>>

Next == Run \/ Poke \/ Reset

Spec == FrameInit /\ [][Next]_vars
-----------------------------------------------------------------------------
TypeOK ==
  /\ ClioTypeOK
  /\ dsp_acc \in Int /\ vdl_acc \in Int /\ timer_acc \in -(AccMax + 1) .. AccMax
  /\ timer_delay \in Delays
  /\ cnt \in 0 .. Slice - 1 /\ line \in 0 .. Scanlines - 1 /\ field \in {0, 1}
  /\ vint0 \in Nat /\ vint1 \in Nat
  /\ hurried \in BOOLEAN /\ waited \in 0 .. Scanlines

(* Nothing is queued between two instructions: though at most one line and *)
(* one sample are taken for a push, no line and no sample is ever late.    *)
NoBacklog == vdl_acc \in 0 .. PerLine - 1 /\ dsp_acc \in 0 .. PerSample - 1

(* Nor does the timer clock fall behind or wrap around, as long as the CPU *)
(* does not set it faster than the loop turns.                             *)
Longest == CHOOSE p \in {PerTimer[d] : d \in Delays} : \A d \in Delays : PerTimer[d] <= p
TimerInTime == ~hurried => timer_acc \in 0 .. Longest - 1

(* A video interrupt comes round: while the CPU leaves its line alone and  *)
(* the line exists, never more than a field of lines goes by without it.   *)
VintInTime == vint0 < Scanlines => waited < Scanlines

(* As long as the loop is called again and again and RESET is let alone,   *)
(* every line of the field comes round for ever, whatever the CPU sets.    *)
LinesForEver ==
  []<><<Run>>_vars /\ <>[][~Reset]_vars =>
    \A n \in 0 .. Scanlines - 1 : []<>(line = n)

(* The state of the loop between two instructions: the clocks are ahead of *)
(* nothing they should have handed out.                                    *)
Inv == TypeOK /\ NoBacklog /\ TimerInTime
=============================================================================
