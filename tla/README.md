# sim_3do: verification project

sim_3do runs a Verilog model of the 3DO console (an FPGA core in the making)
under Verilator.  The RTL is clocked by a C++ program that also plays every
part of the console that is not RTL yet: memories, the XBUS with its CD-ROM
drive, DMA, and, beside it, the C emulator libopera.  This directory holds
TLA+ models of the parts that carry state between clocks or calls, the TLC
runs that check them, and TLAPS proofs.

Contents: 1 the system, 2 inventory, 3 the modules, 4 the runs and their
bounds, 5 fairness, 6 the proofs, 7 finding and observations, 8 what is not
modelled, 9 what could come next.

## 1. The system

```
   ZAP ARM core (rtl/zap) --Wishbone--+
                                      |  cpu_stb/cpu_ack       irq0_pend, irq1_pend
   cel engine (rtl/madam.v) --dma_----+--> core_3do.v <------- CLIO (rtl/clio.v): interrupts,
        CCB fetch, arbiter                     |               16 timers, video counters, DMA regs
                                               | mem_addr, i_wb_dat, o_wb_dat
                                        verilate() in sim_main.cpp, once per clk_25m:
                                        memories, XBUS (sim_xbus.c), XBUS DMA,
                                        player bus, pokes RTL registers by name
                                               |
                                        sim_xbus.c -> opera_xbus_cdrom_plugin.c -> opera_cdrom.c
```

`verilate()` is the clock: it looks at the pins the RTL shows after the last
edge, performs what the C side does for them (it may also write RTL registers
such as `irq0_pend`), then evaluates the RTL with the clock low and high.  The
C side acts only in a clock in which an access is acknowledged, so it acts once
for each access.  The RTL's own register writes are not gated by the
acknowledge: they repeat at every edge at which the write is on the bus.

libopera is compiled in, but at this commit nothing runs its frame loop: the calls
of `opera_tick`, the only caller of `opera_3do_process_frame`, are commented out
(`sim_main.cpp:900`, `2084`).  Its models say what the loop does if it is called.

## 2. Inventory

| Component | State | Operations | Interacts with | Hard about it | Correct when |
|---|---|---|---|---|---|
| Bus arbiter and cel fetch machine (`rtl/madam.v`, `core_3do.v`) | grants `cpu_ack`, `dma_ack`; `state`, `fetch_idx`, `dma_addr`, the CCB registers | a write to SPRSTRT starts a fetch; 15 words, some groups left out; release | the CPU (same bus, same data wires), `verilate()` (overwrites `nextccb`) | two masters at every edge; a state without a branch | never both granted; every CCB register gets its own word; no start lost; both masters get the bus |
| CD-ROM drive (`opera_cdrom.c`) | poll register, status, command bytes, reply, block buffer, sector counter | command byte, status byte, data byte, poll mask, reset | the XBUS | any order of calls; a reset or a command in the middle of a transfer | the data are the sectors asked for, in order; what is announced is there |
| XBUS of the simulator (`sim_xbus.c`, `sim_clio_handle_dma`) | selector, device 15, FIQ request, DMA registers | the eight accesses, DMA | drive, CLIO's `irq0_pend`, MADAM's DMA registers, RAM | CPU reads and DMA share the FIFO; a word crosses blocks | every word in RAM is the next four bytes; every announcement interrupts |
| Timers of CLIO (`rtl/clio.v`) | 16 counters, backups, control bits, slack | one edge, CPU writes, reset | each other (cascade), interrupts | an underflow is seen a clock late, by comparing two counts; CPU writes at the same edge | a wrap is announced exactly when it happened; two timers make one |
| Interrupts and video counters of CLIO (`rtl/clio.v`) | pending and enable bits of two stages, `firq_n`, beam | one edge, CPU set/clear writes, pokes of the C side, reset | timers, XBUS, player bus, CPU | several writers of one register at one edge | no event lost; an enabled interrupt reaches the CPU; a line interrupts in every frame |
| CLIO of the emulator (`opera_clio.c`) | two interrupt stages, 16 timers, audio channels | pokes, raised interrupts, one timer pass, a sample in or out | clock, DSP, ARM | one loop serves all timers with a carry; buffers are announced while others play | bit 31 stands for the second stage; a cascade is one counter; every sample in order |
| Clock and frame loop (`opera_clock.c`, `opera_3do.c`) | three cycle accumulators, `cnt`, `line`, `field`, timer delay, line registers | one instruction and what it drives | everything in libopera | accumulators that are pushed more than is taken off | nothing handed out late; every line for ever; an interrupt in every field |
| VDLP (`opera_vdlp.c`) | the entry, its addresses, palette, configuration, output pointer | start of a frame, one line, configure | VRAM, front end | entries that outlast lines, optional commands, three renderers | the rows of bitmap and picture stay in step |
| DSP (`opera_dsp.c`) | N memory, registers, accumulator, flags, semaphore, operand state | one instruction, loads by the CPU, reset | CLIO's audio channels, ARM | reads and writes with side effects in the operand fetch; flags that outlive instructions | samples in order; branches mean what they say; the semaphore does not lie |
| ARM60 (`opera_arm.c`, `opera_swi_hle_*`) | 16 registers, 6 banks, status registers, memory | one instruction, traps, fast interrupt, matrix calls, reset | RAM, ROM, NVRAM, MADAM, CLIO | copies of registers at every mode change, write-back orders, stale carry | banks survive, interrupts return, the stack gives back what it got |
| MADAM of the emulator (`opera_madam.c`) | FSM, NEXTCCB, CCB registers, window, frame, matrices, player bus DMA | register writes, a list of cels, a matrix command, a transfer | ARM, frame loop, VRAM, player bus | three formats by three maps, inherited fields, results a command late | cels stay in the window and show what they hold; lists end |
| Cel unpacker (`rtl/unpacker.v`) | a 48-bit window on the packed data, packet type and count | one edge | the fetch machine | window refills while it shifts | the pixels of the row, once each |
| DMA stack, register file (`rtl/madam.v`) | about 150 registers | CPU reads and writes | C side | pokes from the C side | - |
| ZAP core (`rtl/zap`) | pipeline, caches, TLBs, bus merger | - | the bus | arbitration, fetch machines | - |
| Simulator (`sim_main.cpp`) | memories, BIOS map, player bus, VDL, diagnostics port | `verilate()`, RESET button | everything | order within a clock | - |
| libopera: player bus, SPORT, NVRAM, XBUS, helpers | buffers and images | copies | MADAM, ARM | - | - |

libopera is one thread: `opera_3do_process_frame` executes one ARM instruction
(cel engine first), pushes its cycles to the clocks, and lets CLIO's timers, the
DSP and the VDLP run as the clocks say.  What makes it hard is not concurrency
but long sequences of legal calls: state that one call leaves for another.

`PROJECT.json` lists every component with its sources, and the hazards with
their lines.

## 3. The modules

Each part has a module (state, one action per operation, properties), an `MC`
module with the values TLC runs it on, and, for some, a `_proofs` module.

### The RTL and the simulator

**MadamBus** (a step is one rising edge of `clk_25m`).  Next is a conjunction,
as the always block is: the CPU's pins (external: a request stays until it is
acknowledged, or is withdrawn), the write to `nextccb`, the arbiter, and exactly
one action of the fetch machine (`CelIdle` ... `CelNoState`), all computed from
the values before the edge.  Words of memory are addresses; a FLAGS word is
the set of its bits that matter.  One field of the CCB, any of them, is followed
(`watch`): `word` is what its register holds, the address that the word has in
memory, or `RegWord` if it is a word of CLIO's or MADAM's registers, because the
multiplexer (`core_3do.v:180`) goes by the CPU's address; `foreign` remembers that
the CPU's pins held such an address in the clock of the load.  `Clock` is an edge,
`Reset` the asynchronous reset of the RESET button, which leaves `dma_addr`, the
CCB registers and `dma_rd` alone.  `ForceNextCcb` is the line of `verilate()` that
clears `nextccb` before every clock.

**CdromDrive** (a step is one call of the drive's plugin).  All commands that
`opera_cdrom_do_cmd` has a branch for, each with its effect on tray, disc,
spin, error code, reply length and announcements.  A reply is represented by
its command and the status byte it ends with.  Its abstract specification is
**SectorStream**: after a request for n blocks from sector s, exactly the bytes
of s, s+1, ... come out.  The refinement maps the buffered block, the index and
the blocks still to read to `next` and `left`.  `HostDrains` says that the host
sends READ_DATA only between two blocks.

**Xbus** (a step is one acknowledged CPU access; a DMA takes one step for each
byte, with nothing in between).  It EXTENDS CdromDrive, whose actions its own use or leave
alone, with the
selector, device 15, the FIQ request and the DMA.  `ram` holds only the words
of the running DMA; `copied` what it was told to copy.

**ClioTimers** (a step is one rising edge with at most one CPU write).  All
counters, the comparison that finds an underflow, the cascade chain, control
and slack.  `owed` records underflows that are not announced yet, `faked` that a
reset, or a write of the largest count over a count of zero, made a count look
like an underflow, `chained` that timers 0 and 1 were started as a pair and left
alone.  Its abstract specification is
**WideCounter**: a pair with reload is one counter that goes down by one at a
time.  The refinement reads the pair as a two-digit number, with the carry that
is on its way from the lower to the upper digit.

**ClioIrq** (a step is one rising edge, or a poke of the C side between two).
The order of the assignments in the always block is kept: the video lines, the
summary bit 31, then the CPU's write, then the wraps of the timers, which are
open here (any subset at any edge).  The CPU may write any value up to `Top`, the
end of the registers, to the beam counters: behind the last clock or line they run on
to there.  TLC checks the module as a part of Clio.

**Clio** (a step is one rising edge of both) EXTENDS ClioTimers and ClioIrq and
wires the wraps of the odd timers to their bits of irq0_pend; the CPU writes one
register of either at an edge, and a reset takes both.  `come` follows each
underflow through the registers it passes: the wrap, the pending bit, the line.

### The emulator

**OperaClio** (a step is one call of `opera_clio.c`).  Both interrupt stages and
the timers.  A pass of the timer loop is `Serve(wraps, lost)`: `wraps` is the set
of timers that go below zero, which the loop computes from timer 0 up and the
model states as a fixed point; `lost` is the choice of the compiler where the
enable bit of a timer from 8 on is cleared with a shift by 32 or more (undefined
in C).  It is checked against the same **WideCounter** as the RTL.

**AudioFifo**: an audio channel as a record, and `opera_clio_fifo_ei`,
`opera_clio_fifo_eo` and the status and start writes as functions to the record
and what they return.  Its abstract specification is **PlayList**: the places of a
buffer in order, then those of the buffer announced.

**OperaFrame** EXTENDS OperaClio with the clocks and the loop: `Run` is one
instruction with everything it drives (accumulators, timer passes, lines, video
interrupts), in the order of the code; `Poke` is what the CPU and the front end
do; `Reset` is the RESET button, which starts clocks and CLIO anew and leaves the
loop's own counts.  How often the loop is called is open.  `waited` counts the lines since the last video interrupt 0 was due.

**OperaVdlp** (a step is a frame's start, a line, or a call of the front end).
Entries of the display list are records; `bitmap` addresses are numbers, so that
the rows can be compared; colours are codes.

**OperaDsp** (a step is one instruction of the DSP, or a call by the CPU between
two runs).  A word of program memory is kept as both that the DSP can take it for:
an instruction (`AluWords`, `MoveWords`, `ControlWords`) and an operand
(`OperandWords`).  The CPU loads them one at a time and in any order (`MemWrite`),
between any two runs; a jump into the operands of an instruction executes them.
`Operands` folds over the
operand words as `dsp_operand_load` does, with the side effects of every read;
`Read` and `Write` are the address maps; `HandOut` gives the operands to the
units.  It uses AudioFifo for the channels and **WordArith** and **WordBits** for
sums, flags and bits (powers of two are a recursive function).  `Noises` stands for
`fastrand()`, one value for each instruction.  The status of channels 13 and 14,
which there are not, is read behind an array: it is any status.

**OperaArm** (a step is one instruction, with the fast interrupt after it, or a
reset).  The machine is a record; a mode is a set of status bits, an instruction a
record of one of the formats (`Instructions`).  Modes and their registers are in
**RegisterBanks** (the copies between USER, CASH and the banks), the memory map
and the devices in **ArmBus**, operations, flags and shifts in **ArmAlu**, the
matrix calls done by the emulator in **FixedPoint**.  `Software` gives the
programs; a place of a program holds a set of instructions, one of which is met
at each visit.  One load is passed over if it is met under one status, as in the
code (`OddLoad`, `opera_arm.c:1628`); the other patches for single games are behind
FIXMODE, which nothing sets.

**OperaCel** (a step is one cel of a list, a register write, a matrix command or
a transfer; while `walking` nothing but the next cel happens).  **CelShape** says
which map draws a cel and clips it, **CelDraw** how the three formats are drawn
by the three maps, **CelPixels** is the decoder, processor and projector.
Positions keep their fractions; `One` is the number 1 with its fraction, 65536 in
the code.  Numbers have 32 bits and come round: -`Far` .. `Far` - 1 whole pixels.
Places are added up exactly and come round where the engine looks at one (`Int16`)
or keeps one (`Wrap`), which is the same.  A place can come round in the middle of a
texel: then the end of the texel may lie on the wrong side of its start, and the loops
at `opera_madam.c:2840` walk away from it (`lost`, after which only `Hang` follows),
or the corners of a quadrangle lie across the screen (`torn`).  `stuck` says that a
loop walked away from an end that had not come round.  Results of the matrix engine
are sums of 64 bits of which the low 32 are kept.  Memory is taken as decoded: numbers and pixels, control words of CCBs
and preambles, rows of literal cels as sequences of codes and rows of packed ones
as sequences of packets, each at its address (`IsMemory`); bits of the stream are
not counted.  A scene is such a memory with the registers, lists and commands the
software gives; memory is constant and apart from the frame (section 8).  One thing is assumed of it: a cel leaves out no more columns than
it has (`WideEnough`), because the code would compare its negative width unsigned.
`Junk` is what an uninitialised position may hold.

## 4. The runs

| Run | States | Bounds, and why they are enough |
|---|---|---|
| `madam_bus` | 404 000 | every CPU request and a RESET at every edge, to memory, SPRSTRT and NEXTCCB (another register of MADAM or CLIO is to the engine as NEXTCCB is: a word that is not memory's); two CCBs that do not overlap; FLAGS with all groups, none, one, and SKIP; every field of the CCB. The machine has one copy of every register, so no more of anything can interact. |
| `cdrom_drive` | 134 000 | commands of two bytes, blocks of two, four sectors, requests for one and two blocks at the first and the last sector: every boundary (end of block, end of transfer, wrap of the sector number, command in the middle of each) occurs. One command of every shape. |
| `xbus` | 1 600 000 | blocks of three bytes, which no word of four fits; DMAs of two words from the first or the second word of a RAM of two, so that one ends above it; transfers of six bytes, so that a DMA meets the end. |
| `clio_timers` | 155 000 | two timers that count to 2, writes of 0, 1 and 2 at every edge, slacks 0 and 2 and a reset's of 4, so that ticks follow each other and do not. A chain interacts only between neighbours. |
| `clio` | 200 000 | one odd timer that counts to 1, one bit of each other kind, a frame of two lines of two clocks, counters that the CPU can put one step behind it, two lines for vint0, every CPU write of interrupts, beam and timer control at every edge. Bits of one kind do not interact; writes to the counts are in `clio_timers`, and the proof is about both. |
| `opera_clio` | 297 000 | two timers with one on each side of `Half`, counts to 3; each flag of the pair written alone or together; one bit of each stage. A pass carries only from neighbour to neighbour. |
| `opera_frame` | 131 000 | a RESET at any time, instructions of one and two cycles, slices of 2, three lines, periods of 3, and a timer delay of 1 that the CPU may choose, shorter than a slice: accumulators meet their periods at every phase. |
| `opera_vdlp` | 1 251 | two lists of four entries (lasting one, two and nine lines, DMA on and off, absolute and relative links, palette and background), three formats, both resolutions, six lines. A line depends on nothing but the entry and the line. |
| `opera_dsp` | 218 000 | words of 12 bits; programs, loaded word by word, for copying, answering, comparing, all sixteen operations, shifts of every kind, one that jumps into an operand, and two that visit every control instruction and operand format; noise at the ends of both number ranges. Flags and shifts depend on the width only through the places of the top bits; 16 bits would make an accumulator that TLC cannot count with. |
| `opera_arm` | 42 000 | words of 28 bits (the memory map needs 27, a word has four bytes, and TLC counts to 31 bits); two main programs with handlers, a matrix program and one for shifts, interrupts after every instruction. |
| `opera_cel` | 6 400 | 481 scenes: single pixels in all eight turns at nine positions in three formats, scaled and slanted cels by both faces, inherited and relative fields, all formats of codes, blends and projections, texels and corners that come round the 32 bits; a window of three by three; `One = 4`, `Far = 2048`, so that the numbers are small enough for TLC to multiply; lists of up to five cels. Two junk values, on and off the screen. |

What they show (each property is stated above its definition):

* `madam_bus`: CPU and engine never hold the bus together; every CCB register
  holds memory's word of its place, whatever the CPU writes and whenever RESET is
  pressed, except that a register loaded while the CPU's pins hold the address of
  a register holds a word of that one; no acknowledged start is lost; unless a skipped cel hangs the engine (the finding), the CPU is
  served, and a fetch completes if the CPU leaves the bus idle now and then.
* `cdrom_drive`: the drive implements the sector stream under any interleaving
  with other commands, status reads, poll writes and resets; the poll register
  does not lie; a reply shows the present state; a transfer that is read on is
  taken off the poll register.
* `xbus`: a DMA stores exactly the next bytes of the stream, over the ends of
  blocks, with zeros behind the end; no announcement without a FIQ.
* `clio_timers`: what a timer is about to announce is an underflow it owes or one
  that a reset or a write faked, and both are always announced; of the ticks of the
  slack only one right after another can be lost; a cascaded pair is one counter and
  wraps for ever.
* `clio`: events of timers and devices survive a CPU write at their very edge; an
  underflow of an odd timer arrives at the fast interrupt line three edges later,
  if timer and interrupt are enabled when they are looked at; an enabled irq1
  interrupt is on the line after two edges; once the beam is left alone, the line of vint0 comes up in every frame, wherever
  a write had put the beam.
* `opera_clio`: bit 31 stands for the second stage under every order of writes;
  a pair is one counter, as in the RTL.
* `opera_frame`: between two instructions no line, sample or tick is owed; a
  video interrupt is never a field late; every line comes round for ever, if the loop
  is called again and again.
* `opera_vdlp`: each visible line shows the row of the bitmap that belongs to it;
  the picture has the width the configuration says; formats agree on colours.
* `opera_dsp`: the DSP hears every sample of its buffers once and in order and
  writes its own likewise (refinements of PlayList); the semaphore tells whose
  word it holds; branches after a subtraction compare; the program counter stays in
  program memory, also after jumps into operands.
* `opera_arm`: a register changes only if the instruction names it, as its mode
  sees it; a handler returns where it came from with the flags it found; what was
  pushed is there until it is popped (but a fast interrupt in the handler of another
  takes the r14 just popped there); conditions mean what they say after an interrupt;
  a matrix call on many vectors in place gives the products of the old ones.
* `opera_cel`: no cel writes outside the window; a cel of single pixels paints
  exactly its picture; of two faces one is drawn, unless a texel is torn; sums of colours
  saturate; results are the low 32 bits of the sums of the command before; no loop
  walks away from an end that has not come round; a list that ends comes to an end,
  unless a cel loses its end.

In the newer modules the type invariant is a conjunct of `Inv`, with the named
safety invariants; the `TypeOK` of the older modules are proved (section 6).

Each property of a passing run has a mutant: a definition of the module with a
plausible bug (`..._NoRefill`, `..._KeepsPoll`, ...) under which the same run
finds the property violated.

## 5. Fairness

* `MadamBus!FairSpec` (for `Clock`: a reset is no edge), `ClioTimers!LiveSpec`,
  `Clio!ClioLiveSpec`: the clock does not stop.  `verilate()` is called in a loop for as long as the simulation
  runs; a step is an edge with or without a CPU write.  Nothing is assumed of the
  CPU, except where a property says so in its premise (`FetchCompletes`: two
  idle clocks again and again).
* `CdromDrive!FairSpec`: the host goes on reading data while there is some to
  read.  This is what the firmware does; the premise of `TransferEnds` that it
  does not replace the transfer by another one is part of the property.
* `OperaFrame`: nothing.  The calls of its loop are commented out at this commit, so
  `LinesForEver` has as its premise that the loop turns again and again and that RESET
  is let alone from some time on; nothing is assumed of the CPU's pokes.
* `OperaCel!Spec`: the loop of `opera_madam_cel_handle` goes on (`Walk`, `Idle`, and
  the next cel while the list leads on), because it is one call.  The condition
  for the next cel is written out as `Leads`, which TLC evaluates faster than
  the ENABLED it stands for.

## 6. The proofs

Proved with TLAPS for every value of the constants, under the assumption named
in each module (`MadamBusAssumption`, `CdromAssumption`, ...).

**MadamBus_proofs.**  `GrantExclusive` and `CcbLayout` are not inductive by
themselves.  The invariant is `TypeOK /\ GrantExclusive /\ EngineInv /\ PlaceInv
/\ LoadedInv`: the engine requests the bus exactly outside Idle and holds it
once it has fetched; `dma_addr` is at the place of the word that `fetch_idx`
names (its offset depends on the groups the flags leave out); the register of the
followed field, if the machine is past it, holds memory's word of its place, or
a register's word exactly if `foreign`.  A reset goes back to Idle, where none of
this says anything (`ResetStep`).  `NoStartLost` follows from `EngineInv`: a
start that finds the engine busy is acknowledged only when the engine has
its request up.

**Xbus_proofs**, the drive.  `TypeOK`, `PollHonest`, `DiscConsistent` and
`ReplyCurrent` are inductive together (`DriveInv`), for every host.  That the bytes
to come stay in the block buffer (`NoOverrun`) is false for some hosts
(section 7); `OverrunNeedsRead` says, for every host, that only a READ_DATA in the
middle of a block ends it.  The refinement of SectorStream needs the host to drain its
blocks (`HostDrains`): then index and length
divide the block (`StreamInv`), and between two transfers the index is zero
(`IndexInv`).  The refinement has one lemma per operation: a read request maps to
`Start`, a byte to `Deliver`, a reset to `Cancel`, everything else to a stutter.

**Xbus_proofs**, the bus.  Every step of the bus is a step of the drive or leaves
it alone (`DriveCorrect`), so all of this holds of a drive on the bus.
`FiqCorrect`: only two operations of the drive can add to the poll register, and
the bus asks for the FIQ after both.  `DmaCorrect`: `DmaCopies` speaks of the end
of a DMA only; the invariant `DmaInv` says of every moment how many bytes were
taken (`Taken`), that the drive stands as many bytes behind the first one
(`DriveAhead`), and that the bytes in hand and in RAM are the ones owed
(`BytesOwed`).  The step from one byte to the next is `AheadNext`: division and
remainder of a position that goes up by one, over the end of a block.

**Clio_proofs**, the timers.  All actions but Reset are edges that differ in what the
CPU writes; a lemma (`StepKinds`) reduces them to one form.  `PulseInv` (a timer
in the clock of its wrap is not due) gives `WrapIsPulse`; `WrapExact` is
inductive with the types; `ChainInv` describes a pair that is left alone, and
`TickCorrect` follows from it for every slack: a timer is busy with its wrap only in the
clock after the tick that made it wrap.  `PairRefinement` reads the pair
as a number in mixed radix: the lower digit goes down with each tick; when it
wraps, the borrow is counted in `Carry` until the upper timer has taken it; the
multiplication facts are in the lemmas `Distribute`, `Monotone` and `Digits`.

**Clio_proofs**, the interrupts.  Every step is an edge with the hardware's assignment of
irq0_pend, an edge with a CPU write of it, a poke of the C side, a reset or
a stutter.  The types hold of all values that the CPU can write (`IrqTypeCorrect`).
`EventsKept` is inductive over these kinds; `Irq1Delivered` needs
`WaitInv`: after one edge bit 31 is set, after two the line is down.

**Clio_proofs**, both.  Every step of Clio is a step of the timers, or leaves them
alone, and likewise of the interrupt registers (`PartsCorrect`), so all of the
above holds of CLIO as a whole.  `ArriveCorrect` needs two more facts: an
underflow that is not announced yet still shows in the counts (`OwedDue`), and
each place in `come` is one the registers show (`Shows`).

**OperaFrame_proofs** (OperaClio and OperaFrame).  `ClioCorrect`: types and bit 31
are inductive together.  `PairCorrect`: while the pair is left alone its flags
stand and its counts stay below their backups (`PairInv`); `ServePair` evaluates
the fixed point of the timer loop at timers 0 and 1, so that a pass is a step of
the wide counter (`PairTick`), and everything else is a start, a stop or a
stutter of it.  `LoopCorrect`: before a push each accumulator is below its
period, a push adds at most `MaxPush` (a slice and what one instruction leaves
over), and one period is taken for it; the assumption that a line and a sample
are at least that long, which `opera_clock_cpu_set_freq` sees to, is what makes
`NoBacklog` inductive.  The timer period is the CPU's choice, so `hurried`
remembers a shorter one.  `VintCorrect`: the lines
`waited` for and the lines `Before` the one that interrupts add up to less than
a field (`WaitInv`).

**OperaVdlp_proofs.**  None of `BitmapRow`, `FormatsAgree` and the rest of `Inv`
is inductive.  `IInv` adds the types of everything a line reads, and states the
row's address for every moment between two lines (`RowKept`: row r lies at
`origin + (r div 2) * 4 * modulo + 2 * (r mod 2)`), that an entry which goes on
with a bitmap is as wide as the one before it (`NextFits`, from the assumption on
the list), and how `shown` and `line_cnt` share the lines of the entry
(`LinesLeft`).  `EntryGood` shows what one entry does to all of this; a line
processes at most two entries.  The optional commands of an entry are a recursive
function over their number: that it has the type it should is an induction,
which is done by the least element of the set of counterexamples (`Least`).

**OperaDsp_proofs.**  `DspCorrect` and `ConditionsMean` hold for every width from 11
bits on, every program in the formats of the model and every sound the host can
play, and programs loaded word by word.  `IInv`: the words in program memory are
decoded words at addresses below 1024 (`Loadable`), so an instruction and its
operands take the unchecked `pc` to 1028 at most, 1029 behind a sleep; a subroutine returns below 1025,
memory, registers and channels hold words, and the semaphore's status is the one
that its last writer and the acknowledgement left (`StatusOf`).  There is one
lemma for each address map (`ReadIn`, `WriteIn`), one for the loading of operands,
one for each kind of instruction (`AluIn`, `MoveIn`, `ControlIn`).  `BranchMeans` rests on
`Compared`: the flags are those of the two words last compared, until an
instruction changes them; `ComputeSays` shows that a subtraction establishes it.
`AdditionFlags`, `SubtractionFlags` and `ComparisonFlags` are the facts of arithmetic
below, for every width: carry and overflow, which both processors make from the
top bits of operands and result, are those of the exact sum or difference, and
the six comparisons made from the flags are those of the numbers, signed and
unsigned.

**OperaArm_proofs** (OperaArm, RegisterBanks, ArmBus, ArmAlu, FixedPoint, WordBits).
For every file of registers and every pair of modes, a change of mode leaves what
each mode sees of every register (`SwitchKeepsViews`); writes to the user's registers
from another mode reach the user and no one else (`UserWritesReachTheUser`).  The
other theorems are about all software, memories and devices, and every width of
words from the 27 bits that the memory map needs.

An instruction is a sequence of small changes to the machine.  Each part of the
argument has a relation between the machine before and after that composes, a lemma
for each small change, and one for each kind of instruction, made of them:
* *Banks* (`BanksSafe`).  `IInv` says that all register files have all their registers.
  `Only` and `Lands` say that the machines differ in some physical registers at most.
  The registers an instruction may write are those it names (`Targets`), so the
  theorem also says that no instruction touches another one of its own mode.
* *Words* (`TypesHold`).  `Fine` and `Ends` say that registers and memory hold words and
  how many cycles were spent; under them lie the bounds of the barrel shifter, the
  flags, the products of two's complement numbers and the matrix calls.
* *Flags and returns* (`ConditionsHold`, `FiqsReturn`).  `History` says of every
  moment that the operands last compared explain the flags, and, as long as a handler
  has left r14 and the saved status alone, that both still lead back to where the
  fast interrupt came (`Resumes`).  The model forgets the place of the interrupt
  (`left`) when the handler writes one of them, so nothing has to be assumed of handlers.
* *Matrix calls* (`ManyMultiplied`), by induction over the vectors done: vectors that lie
  apart from the matrix, and apart from the results or in their place, are
  read before they are written.
* *Stacks* (`StacksSafe`, `PopsReturn`).  `Spares` says which words of memory an instruction
  leaves; `Before` is the rank of a register in the list of a block transfer, which
  gives its place.  `StackHeld` is not inductive: `StackInv` adds that a stack
  pointer with something above it is aligned and that the stack ends inside RAM,
  since only then an address and its word in memory are the same.

Loops (registers of a block transfer, bits of a product, vectors of a matrix call) are
recursive functions of a number; that they exist, and what they leave, is shown for the
least number where it would fail (`Least`).

Two things no processor can see to, and the theorems have them as premises.  Each is a
statement about single instructions, which a program keeps or not:
* `GivesModes`: an MSR that may change the mode gives a status register the number of a mode.  The
  code would index its tables out of range otherwise (section 7).  The theorems
  assume `[]ModesValid`; `ModesStay` shows that it follows, so no exception
  and no return from one ever brings such a number.
* `KeepsStacks`: a store hits nothing that is pushed, on the stack of any mode;
  a stack pointer moves by pushes and pops, or is set anew, or has nothing above it; a push
  finds an aligned stack pointer and room below it in RAM.
The programs of the run `opera_arm` keep both in each of its states (checked with TLC as
action properties when the theorems were stated), so the premises are not empty.
`MachineSound` puts all of it together: from these two, `[]Inv` and the four action
properties of the run.

**OperaCel_proofs** (OperaCel, CelDraw, CelShape, CelPixels).  `WindowCorrect`,
`CelCorrect` and `ColoursSaturate` hold for every scene and every `One`, so for
16 bits of fraction too.  The invariant `CelInv` types the engine (`EngineOK`: fields
of PIXC in their ranges, palette and frame of 16-bit pixels, positions and steps
numbers of 32 bits, the window a pair of ten-bit numbers) and the other units, with
`~stuck` and `ResultsHeld`.  The argument for the frame goes from the inside out:
* a blended pixel is a pixel (`BlendIn`, `MixedSaturates`, `ShadedIn`), so `Plot` at a
  place of the window changes one place of the window to a pixel (`Only`);
* scaled pixels test each place; the spans of a quadrangle, whose crossings come in
  pairs, are cut at both sides of the window; the line map tests nothing, and its
  places lie in the window because `LineMap` has cut the rows and
  columns that `Centred` positions would take outside (`LineMapFits`, from the four
  combinations of the signs along each axis);
* the loops over lines, pixels, packets and rows are recursive functions of their
  count; what one turn keeps, all keep, by the least turn that would not (`UpTo`).
That no loop walks away from its end is `ScaleFits`: a scaled cel goes along the axes,
so the signs of the steps give the direction of `inc`, also between the rounded ends
of a pixel, unless the end came round the 32 bits.  `ResultsHeld` compares what the
operators compute in one expression, cut to 64 and then to 32 bits, with a sum over
the row (`ExactIsDot`).

`FacesAgree` is about one quadrangle, of any size, at any place: a line of the screen
meets the edges of a quadrangle that turns one way in pairs, also after rounding
(each meeting is rounded towards the upper end of its edge).  The edge that leads the
wanted way is on the left, or the pair bounds no place (`EdgesApart`,
`CrossingsPaired`, `SpanAgrees`); so the spans that are left out because their face is
not wanted are empty.  The premise `Unspoilt` is that no product on an edge comes round the 32
bits at that line.

Only model-checked:

* Liveness (`CpuServed`, `FetchCompletes`, `TransferEnds`, `PairWraps`,
  `VintEachFrame`, `LinesForEver`, `ListsEnd`), which is beyond TLAPS.
* `OperaCel!SinglePainted`: the reference painting is a fold over a set of places, so
  unfolding it is induction over data.
* `OperaCel!OneFace`: `FacesAgree` is its step for one quadrangle.  That all texels of
  an upright cel turn the same way, and that two engines which differ in the wanted
  faces stay alike through pixels, packets, rows and cels, is left to the run.
* The order of samples in the DSP's channels (the refinements of AudioFifo): a
  program may read a channel twice in one instruction, so it does not hold of all.

## 7. Finding and observations

The finding is the run `madam_skip`: a FLAGS word with SKIP set sends the engine
into a state that does not exist (`rtl/madam.v` has no branch for it), with the
bus granted: the CPU is never served again.

Six more statements of the repository are false of the code.  Each is a
definition of its module that no run checks; to get the counterexample, put it
into the module's `.cfg` as the only INVARIANT (`VintKept` as the only PROPERTY), with
the values given here.

| Definition | Values | What happens |
|---|---|---|
| `MadamBus!WordsFromMemory` | as they are (`MadamBus.cfg`) | the engine reads its words through a multiplexer that is set by the CPU's address (`core_3do.v:180`), so an address that the CPU's pins hold, if only from its last access, can put a register's value into a CCB |
| `CdromDrive!NoOverrun` | `HostDrains = FALSE` | READ_DATA during a transfer does not reset the buffer index (`opera_cdrom.c:394`): the new block is read from its middle and past its end |
| `CdromDrive!SectorAsked` | `Commands <- MCFewCommands`, `Msf <- MCLeadIn`, `SectorCount = 1000` | the test for an address before the first sector is made on an unsigned number and never holds (`opera_cdrom.c:75`) |
| `ClioTimers!NoEarlyWrap` | as they are | after a reset, or a stop at zero, the first clock of a timer is taken for a wrap (`clio.v:1182`) |
| `ClioIrq!VintKept` | as they are (`Clio.cfg`) | a CPU write of irq0_pend at the edge of a video interrupt takes the interrupt away (`clio.v:597`) |
| `Xbus!DmaByteOrder` | as they are | the XBUS DMA stores the bytes of each word in reverse (`sim_main.cpp:839`) |

Observed while modelling, with no text of the repository that says otherwise.
The models follow the code in all of them, or leave them out where said.

*RTL and simulator.*  A timer that ends clears its enable bit even when the CPU
sets it in the same clock; a one-shot timer counts once more in that clock; with
a slack of 0 or 1, which makes every clock or nearly every one a tick, a tick is lost in the clock of a wrap;
a beam counter written behind the frame runs on to the end of its 32 bits before the next frame begins; bit 31 of irq0_pend
outlives the irq1 interrupts; ABORT answers with the status from before it sets
RDY; device 15 never raises a FIQ and never shows its announcement; a reset
leaves the selector, device 15's command and the drive's command counter.

*CLIO of the emulator.*  The next buffer stays registered, so it plays again and
again; the sample that finds an output buffer full is dropped; writing the start
address keeps the position; an announced buffer of length 0 still gives one
sample; clearing the enable bit of timers 8 to 15 shifts by 32 or more.

*Clock and frame loop.*  All cycles are pushed but 32 are taken off the count; a
field of NTSC has 263 lines in one file and 262 in another; nothing calls the
region setters; saved states leave out `line`, `cnt` and `field`, and those of
clock and VDLP do nothing.

*VDLP.*  Set-up replaces the renderer that was configured; configuring returns -1
when it succeeds; the interpolation flag gives no renderer at all; a
high-resolution 0RGB1555 line without DMA moves on by the length of a low one; an entry of zero
lines counts to -1.

*DSP.*  The product meets the accumulator cut to an even number at one input and
before the cut at the other; a program without a sleep never returns; units
that get no operand take what the stack holds; the acknowledgement of the ARM is
not implemented; the status of channels 13 and 14 is read out of range.

*ARM60.*  Immediate operands leave the old carry; a mode that does not exist
indexes the saved status out of range; the encodings with bits 7 and 4 set that
are neither product nor swap fall through to a transfer; `rd = rm` in a product
gives 0; loading a state restores neither the ROM nor the carry; a CLIO write
skips the next instruction; reads reach further than writes in MADAM and CLIO; a
rotation by more than 32 is undefined; matrix call 0x5000D is missing; the square root
never moves its estimate.

*Cel engine.*  A list that leads back to itself keeps the emulator in
`opera_madam_cel_handle`; a row offset wider than the cel makes the width negative, and
it is compared unsigned; a line map without rows leaves the position undefined; cels that
leave the screen during set-up, and steps that change along the rows, change
what the next cel inherits; a texel thinner than a pixel can be turned over when its corners
are rounded, so that a cel that shows one face loses or gains parts; a texel whose end comes round the 32 bits is never finished (y = 5,
VDY = 0x7FFF0000, HDX = 1.5: the end is at -32764); a quadrangle of which a corner comes
round lies across the screen, turned over (HDX of 2032 pixels, 17 columns), so that it is drawn with
both faces wanted and not with one; sums above 127 turn black; a matrix result is a
command late, cut to its low 32 bits, and mul3x3 leaves the fourth one as it was.

*Player bus.*  Nothing adds a device or resets it; the first word of the
destination is never written.

## 8. What is not modelled, and why

* ZAP core: a CPU core taken in whole; MadamBus lets its bus interface do
  anything a request can do.
* Matrix engine and pixel data paths of the RTL: arithmetic without control; the
  unpacker of the RTL never runs in this version, since the states that start it
  are commented out.
* XBUS of the emulator: the same functions as `sim_xbus.c`.
* SPORT, NVRAM, BIOS tables, save states, diagnostics port, video output of the
  simulator: copies of data without control.
* Logging, tracing and the user interface do not feed back.
* Inside modelled parts: fixes for single games (FIXMODE, among them
  `opera_arm.c:845`, `860`, `1600`), HIRESMODE of the cel engine (nothing sets either),
  decoding of instruction words, bits of packed rows.
* Cels that draw over memory the engine reads.  Frame and memory are both in DRAM, so
  a cel can change its source, its palette or a later CCB while it is drawn
  (`opera_madam.c:1285` against `1270`); here memory is constant and apart from the frame.
* What a lost cel does: the loop goes round the 32 bits or for ever, drawing on; the
  model stops there.
* The test for the face of a cel multiplies in floating point
  (`QuadCCWTest`); it is exact here.  N of the matrix engine at its least value divided
  by -1 would stop the program and is left out.

## 9. What could come next

All modules planned for the console's own logic are written, and every invariant of
the runs is proved, and so is every property of them that is not about liveness or a
refinement of AudioFifo, but two.  `OneFace` needs the comparison of two whole drawings
on top of `FacesAgree`, with the texels that are torn kept apart.  `SinglePainted`
cannot be stated for every scene as it is.  The registers that give the base and the
length of the frame's rows are any numbers, and with some of them two places of the
window are one place in memory: then the order of painting shows, which a set of
places does not have.  A theorem needs a premise on these registers, and the fold
unfolded place by place.  The largest step beyond that would be one memory for cels
and frame.
