------------------------------ MODULE MadamBus ------------------------------
(***************************************************************************)
(* The memory bus of the 3DO core as MADAM drives it (rtl/madam.v): the    *)
(* arbiter that shares one bus between the ZAP CPU (a Wishbone master) and *)
(* the cel engine, and the cel engine's CCB fetch machine.  core_3do.v     *)
(* wires the data that both masters read (zap_din / mem_din), and          *)
(* sim_main.cpp's verilate() overwrites nextccb before every clock.        *)
(*                                                                         *)
(* One step is one rising edge of clk_25m, or the asynchronous reset that  *)
(* the RESET button pulls.  At an edge all registers are assigned from the *)
(* values they had before it, as the non-blocking assignments of the       *)
(* always block do.                                                        *)
(***************************************************************************)
EXTENDS Integers

CONSTANTS
  CpuTargets,    \* what the CPU addresses: a subset of Targets
  CcbAddrs,      \* the word addresses a CPU may write to nextccb
  PData,         \* the address that a SOURCEPTR word holds
  FlagWords,     \* the FLAGS words found in memory or in a MADAM register
  ForceNextCcb,  \* TRUE: verilate() clears nextccb before every clock
  Resets         \* TRUE: the RESET button may be pressed

(* "mem": every address whose data comes from the C side (memory and the   *)
(* XBUS); "clio", "madam": a register of either chip; "sprstrt",           *)
(* "nextccb": two MADAM registers whose writes matter to the cel engine.   *)
Targets == {"mem", "clio", "madam", "sprstrt", "nextccb"}
FlagBits == {"SKIP", "LDSIZE", "LDPRS", "LDPPMP"}

ASSUME MadamBusAssumption ==
  /\ CpuTargets \subseteq Targets /\ CpuTargets # {}
  /\ CcbAddrs \subseteq Nat
  /\ PData \in Nat
  /\ FlagWords \subseteq SUBSET FlagBits /\ FlagWords # {}
  /\ ForceNextCcb \in BOOLEAN
  /\ Resets \in BOOLEAN

(* The words of a CCB in fetch order (the values of fetch_idx).            *)
FLAGS == 0
SOURCEPTR == 2
YPOS == 5
HDX == 6
HDDX == 10
PIXC == 12
PRE1 == 14
CCBDONE == 15
Fields == FLAGS .. PRE1

(* The states of the fetch machine that the case statement names.          *)
Idle == 0
Fetch == 1
Release == 5

VARIABLES
  stb, we, adr,        \* the CPU's Wishbone pins o_wb_stb, o_wb_we, o_wb_adr
  cpu_ack, dma_ack,    \* the grants
  cel_dma_req, dma_rd,
  state, fetch_idx, dma_addr, nextccb,
  flags,               \* the flags register: the set of its bits
  watch,               \* the field that is followed, any of them
  word,                \* the word in its register: the address it has in
                       \* memory, or RegWord if it is none of memory's
  foreign,             \* history: it was loaded in a clock in which the CPU's
                       \* pins held the address of a register
  base                 \* history: the address this fetch started at

cpuPins == <<stb, we, adr>>
arbiter == <<cpu_ack, dma_ack>>
engine == <<cel_dma_req, dma_rd, state, fetch_idx, dma_addr, flags>>
history == <<watch, word, foreign, base>>
vars == <<cpuPins, arbiter, engine, nextccb, history>>

(* The word of a register that was never loaded, and a word that is not    *)
(* memory's.                                                               *)
NoWord == -1
RegWord == -2

Init ==
  /\ stb = FALSE /\ we = FALSE /\ adr = "mem"
  /\ cpu_ack = FALSE /\ dma_ack = FALSE
  /\ cel_dma_req = FALSE /\ dma_rd = FALSE
  /\ state = Idle /\ fetch_idx = 0 /\ dma_addr = 0 /\ nextccb = 0
  /\ flags = {}
  /\ watch \in Fields /\ word = NoWord /\ foreign = FALSE /\ base = 0
-----------------------------------------------------------------------------
(* The ZAP core, which is external: it may raise, hold or change a request *)
(* at any edge.  A request it has raised stays until it is acknowledged,   *)
(* or is withdrawn when the pipeline is flushed.                           *)
CpuPins ==
  /\ stb' \in BOOLEAN
  /\ IF stb /\ stb' /\ ~cpu_ack
     THEN UNCHANGED <<we, adr>>
     ELSE we' \in BOOLEAN /\ adr' \in CpuTargets

CpuWrite(target) == stb /\ we /\ adr = target

(* What the cel engine reads at nextccb in this clock.                     *)
NextCcbReg == IF ForceNextCcb THEN 0 ELSE nextccb

NextCcbWrite ==
  IF CpuWrite("nextccb")
  THEN nextccb' \in CcbAddrs
  ELSE nextccb' = NextCcbReg

(* Mutant: the grant does not look at the CPU's strobe.                    *)
Arbiter_GrantOverStrobe ==
  /\ dma_ack' = IF ~cpu_ack /\ cel_dma_req THEN TRUE
                ELSE IF ~cel_dma_req THEN FALSE
                ELSE dma_ack
  /\ cpu_ack' = IF cel_dma_req /\ dma_ack THEN FALSE ELSE stb

(* Mutant: the CPU is acknowledged while the engine owns the bus.          *)
Arbiter_AckDuringDma ==
  /\ dma_ack' = IF ~stb /\ ~cpu_ack /\ cel_dma_req THEN TRUE
                ELSE IF ~cel_dma_req THEN FALSE
                ELSE dma_ack
  /\ cpu_ack' = stb

(* The bus is granted to the engine only when the CPU neither asks for it  *)
(* nor is being acknowledged, and taken back when the engine drops its     *)
(* request; the CPU is acknowledged one clock after its strobe.            *)
Arbiter ==
  /\ dma_ack' = IF ~stb /\ ~cpu_ack /\ cel_dma_req THEN TRUE
                ELSE IF ~cel_dma_req THEN FALSE
                ELSE dma_ack
  /\ cpu_ack' = IF cel_dma_req /\ dma_ack THEN FALSE ELSE stb

(* core_3do.v selects mem_din by the CPU's address, whoever owns the bus.  *)
FromMemory == adr = "mem"
-----------------------------------------------------------------------------
(* The CCB fetch machine: exactly one of these happens at every edge.      *)

CelIdle ==
  /\ state = Idle /\ ~CpuWrite("sprstrt")
  /\ UNCHANGED <<engine, history>>

CelStart ==
  /\ state = Idle /\ CpuWrite("sprstrt")
  /\ dma_addr' = NextCcbReg
  /\ cel_dma_req' = TRUE
  /\ dma_rd' = TRUE
  /\ fetch_idx' = FLAGS
  /\ state' = Fetch
  /\ base' = NextCcbReg
  /\ UNCHANGED <<flags, watch, word, foreign>>

CelWait ==
  /\ state = Fetch /\ ~dma_ack
  /\ UNCHANGED <<engine, history>>

(* The word on mem_din: memory's at dma_addr, or a register's.             *)
MemDin == IF FromMemory THEN dma_addr ELSE RegWord

(* The word on mem_din goes into the register of field f.                  *)
Load(f) ==
  /\ IF f = watch
     THEN word' = MemDin /\ foreign' = (adr # "mem")
     ELSE UNCHANGED <<word, foreign>>
  /\ UNCHANGED <<watch, base>>

NextWord ==
  /\ dma_addr' = dma_addr + 1
  /\ fetch_idx' = fetch_idx + 1

FetchFlags ==
  /\ state = Fetch /\ dma_ack /\ fetch_idx = FLAGS
  /\ \E w \in FlagWords :
       IF "SKIP" \in w
       THEN state' = CCBDONE /\ UNCHANGED <<flags, history>>
       ELSE flags' = w /\ Load(FLAGS) /\ UNCHANGED state
  /\ NextWord
  /\ UNCHANGED <<cel_dma_req, dma_rd>>

(* HDX and HDDX are where a group of words may be left out.                *)
GroupAbsent ==
  \/ fetch_idx = HDX /\ "LDSIZE" \notin flags
  \/ fetch_idx = HDDX /\ "LDPRS" \notin flags

FetchWord ==
  /\ state = Fetch /\ dma_ack
  /\ fetch_idx \in Fields \ {FLAGS} /\ ~GroupAbsent
  /\ IF fetch_idx = PIXC /\ "LDPPMP" \notin flags
     THEN UNCHANGED history
     ELSE Load(fetch_idx)
  /\ NextWord
  /\ UNCHANGED <<cel_dma_req, dma_rd, state, flags>>

(* Mutant: leaving a group out still moves the address on.                 *)
SkipGroup_ConsumesWord ==
  /\ state = Fetch /\ dma_ack /\ GroupAbsent
  /\ fetch_idx' = IF fetch_idx = HDX THEN HDDX ELSE PIXC
  /\ dma_addr' = dma_addr + 1
  /\ UNCHANGED <<cel_dma_req, dma_rd, state, flags, history>>

(* Mutant: a missing size group sends the machine back to itself.          *)
SkipGroup_Stays ==
  /\ state = Fetch /\ dma_ack /\ GroupAbsent
  /\ fetch_idx' = IF fetch_idx = HDX THEN HDX ELSE PIXC
  /\ UNCHANGED <<cel_dma_req, dma_rd, state, dma_addr, flags, history>>

SkipGroup ==
  /\ state = Fetch /\ dma_ack /\ GroupAbsent
  /\ fetch_idx' = IF fetch_idx = HDX THEN HDDX ELSE PIXC
  /\ UNCHANGED <<cel_dma_req, dma_rd, state, dma_addr, flags, history>>

FetchDone ==
  /\ state = Fetch /\ dma_ack /\ fetch_idx = CCBDONE
  /\ dma_addr' = PData
  /\ fetch_idx' = fetch_idx + 1
  /\ state' = Release
  /\ UNCHANGED <<cel_dma_req, dma_rd, flags, history>>

(* Mutant: the request is not taken back.                                  *)
CelRelease_KeepsRequest ==
  /\ state = Release
  /\ state' = Idle
  /\ UNCHANGED <<cel_dma_req, dma_rd, fetch_idx, dma_addr, flags, history>>

CelRelease ==
  /\ state = Release
  /\ cel_dma_req' = FALSE
  /\ dma_rd' = FALSE
  /\ state' = Idle
  /\ UNCHANGED <<fetch_idx, dma_addr, flags, history>>

(* The default branch of the case statement.                               *)
CelNoState ==
  /\ state \notin {Idle, Fetch, Release}
  /\ UNCHANGED <<engine, history>>

CelEngine ==
  \/ CelIdle \/ CelStart \/ CelWait
  \/ FetchFlags \/ FetchWord \/ SkipGroup \/ FetchDone
  \/ CelRelease \/ CelNoState

Clock == CpuPins /\ NextCcbWrite /\ Arbiter /\ CelEngine

(* The RESET button: the ZAP core drops its strobe, the engine its request *)
(* and both grants go; the other registers are not in the reset.           *)
Reset ==
  /\ Resets
  /\ stb' = FALSE /\ we' = FALSE /\ adr' \in CpuTargets
  /\ cpu_ack' = FALSE /\ dma_ack' = FALSE
  /\ cel_dma_req' = FALSE /\ state' = Idle /\ fetch_idx' = 0
  /\ UNCHANGED <<dma_rd, dma_addr, flags, nextccb, history>>

Next == Clock \/ Reset

Spec == Init /\ [][Next]_vars

(* The clock never stops for good: verilate() goes on after a reset.       *)
FairSpec == Spec /\ WF_vars(Clock)
-----------------------------------------------------------------------------
(* Type invariant: the registers keep the values the Verilog gives them.   *)
TypeOK ==
  /\ stb \in BOOLEAN /\ we \in BOOLEAN /\ adr \in Targets
  /\ cpu_ack \in BOOLEAN /\ dma_ack \in BOOLEAN
  /\ cel_dma_req \in BOOLEAN /\ dma_rd \in BOOLEAN
  /\ state \in {Idle, Fetch, Release, CCBDONE}
  /\ fetch_idx \in 0 .. CCBDONE + 1
  /\ dma_addr \in Nat /\ nextccb \in Nat
  /\ flags \subseteq FlagBits
  /\ watch \in Fields /\ word \in Nat \union {NoWord, RegWord}
  /\ foreign \in BOOLEAN /\ base \in Nat

(* The bus never acknowledges the CPU while the cel engine's address is on *)
(* it: an acknowledged CPU access always reached the CPU's own address.    *)
GrantExclusive == ~(cpu_ack /\ dma_ack)

(* A write to SPRSTRT that the bus acknowledges leaves the engine with its *)
(* bus request up: no start is lost in the clocks in which the engine is   *)
(* finishing the cel before, or holding the bus.  Only the RESET button    *)
(* takes it back.                                                          *)
StartNeverLost ==
  [][CpuWrite("sprstrt") /\ cpu_ack => cel_dma_req' \/ Reset]_vars

(* Where a field of a CCB lies, behind the groups its flags leave out, and *)
(* whether the fetch loads it.                                             *)
Offset(f, fl) ==
  f - (IF f >= HDDX /\ "LDSIZE" \notin fl THEN HDDX - HDX ELSE 0)
    - (IF f >= PIXC /\ "LDPRS" \notin fl THEN PIXC - HDDX ELSE 0)

Loaded(f, fl) ==
  /\ f \in HDX .. HDDX - 1 => "LDSIZE" \in fl
  /\ f \in HDDX .. PIXC - 1 => "LDPRS" \in fl
  /\ f = PIXC => "LDPPMP" \in fl

(* When the fetch of a CCB is over, any register it loads holds memory's   *)
(* word at its field's place in the CCB the engine was started on,         *)
(* whatever the CPU did to nextccb and the reset to a fetch before; unless *)
(* the CPU's pins held the address of a register in the clock of the load: *)
(* then it holds a word of that register.                                  *)
CcbLayout ==
  state = Release /\ Loaded(watch, flags) =>
    word = IF foreign THEN RegWord ELSE base + Offset(watch, flags)

(* Unless the engine meets a cel with SKIP set, where it stays in a state  *)
(* that has no branch, a CPU request is eventually acknowledged (or        *)
(* withdrawn): the engine does not keep the bus for ever.                  *)
CpuServed == [](state # CCBDONE) => (stb ~> (cpu_ack \/ ~stb))

(* A cel that is not skipped is eventually fetched and the bus given back, *)
(* provided the CPU leaves the bus idle for two clocks again and again, as *)
(* the ZAP core does at every branch.                                      *)
FetchCompletes ==
  [](state # CCBDONE) /\ []<>(~stb /\ ~cpu_ack) => (cel_dma_req ~> ~cel_dma_req)

(* Every word of a fetched CCB came from memory ("Else, take input from    *)
(* the C code in the sim. (TESTING, for BIOS, DRAM, VRAM ...)").  The code *)
(* does not keep this: an observation of the README, not of a run.         *)
WordsFromMemory == state = Release /\ Loaded(watch, flags) => ~foreign

(* A skipped cel is stepped over like any other: the engine finishes with  *)
(* it and gives the bus back.                                              *)
SkippedCelReleasesBus == dma_ack ~> ~dma_ack
=============================================================================
