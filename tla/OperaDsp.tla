------------------------------ MODULE OperaDsp -------------------------------
(***************************************************************************)
(* The audio DSP of the emulator (opera_dsp.c) with the channels it reads  *)
(* and writes (AudioFifo).  For each sample its program runs from the start*)
(* to a sleep; the CPU acts only between two such runs.  An instruction is *)
(* a step.  A word of the program memory is kept as both that the DSP can  *)
(* take it for: an instruction, if the program counter comes to it, and an *)
(* operand, if an instruction takes it for one.                            *)
(***************************************************************************)
EXTENDS AudioFifo, WordBits, FiniteSets

CONSTANTS
  W,         \* bits of a word of data; 16.  The accumulator has twice as many.
  Hosts,     \* the software of the CPU: the words it loads as programs (pairs of
             \* an address and a word) and what else it does
  Noises,    \* what the noise generator may give
  Words,     \* what the CPU writes as data
  Addrs, Lens, OutAddrs  \* and as addresses and lengths of channels 0

Data == Word(Pow2[W - 1])
H == Pow2[2 * W - 1]
Ticks == 568
NMemSize == 2048
Units == {"mult1", "mult2", "alu1", "alu2", "bs"}
InChannels == 0 .. 12
OutChannels == 0 .. 3

ASSUME DspAssumption ==
  /\ W \in Nat /\ W >= 11 /\ Noises \subseteq Data /\ Words \subseteq Data
  /\ Addrs \subseteq Nat /\ OutAddrs \subseteq Nat /\ Lens \subseteq Nat

(* The words of a program: instructions with the fields of ITAG_t that     *)
(* they are decoded by, and operands.                                      *)
Targets == {a \in Nat : a < 1024}
Selections(n) == [1 .. n -> 0 .. 15]
Marks(n) == [1 .. n -> BOOLEAN]

AluWords ==
  [op : {"alu"}, numops : 0 .. 3, m2sel : 0 .. 1, muxa : 0 .. 3, muxb : 0 .. 3,
   alu : 0 .. 15, bs : 0 .. 15]
MoveWords == [op : {"move"}, a : Targets, di : BOOLEAN]
               \union [op : {"movereg"}, reg : 0 .. 15, di : BOOLEAN]
ControlWords ==
  [op : {"nop", "branch_acc", "rts", "sleep"}] \union [op : {"jump", "jsr"}, a : Targets]
    \union [op : {"rbase"}, n : 0 .. 63] \union [op : {"rmap"}, n : 0 .. 7]
    \union [op : {"op_mask"}, units : SUBSET Units]
    \union [op : {"branch"}, mode : 1 .. 3, sel : BOOLEAN, m1 : BOOLEAN, m0 : BOOLEAN,
            a : Targets]
OperandWords ==
  [op : {"addr"}, a : Targets, di : BOOLEAN, wb : BOOLEAN] \union [op : {"imm"}, val : Data]
    \union [op : {"reg2"}, two : BOOLEAN, r : Selections(2), di : Marks(2), wb : Marks(2)]
    \union [op : {"reg3"}, r : Selections(3), di : Marks(3)]

(* What an ALU word asks for.                                              *)
Needs(i) ==
  (IF 3 \in {i.muxa, i.muxb} THEN {"mult1"} \union (IF i.m2sel = 1 THEN {"mult2"} ELSE {}) ELSE {})
    \union (IF 1 \in {i.muxa, i.muxb} THEN {"alu1"} ELSE {})
    \union (IF 2 \in {i.muxa, i.muxb} THEN {"alu2"} ELSE {})
    \union (IF i.bs = 8 THEN {"bs"} ELSE {})
Requests(i) == IF i.numops # 0 THEN i.numops ELSE IF Needs(i) = {} THEN 0 ELSE 4

ProgramWords == [ins : AluWords \union MoveWords \union ControlWords, arg : OperandWords]

ASSUME ProgramAssumption == \A h \in Hosts : h.program \subseteq Targets \X ProgramWords

VARIABLES
  host,      \* the software of the CPU
  nmem,      \* the program
  core,      \* its registers: pc, accumulator, flags, operands, bases
  mem,       \* what its reads and writes reach: IMem, the CPU's words not yet
             \* read, the channels, the registers shared with the CPU; and as
             \* history what the last step raised and did to channels 0, and who
             \* wrote the semaphore last and if the DSP acknowledged it (sema_by)
  running, working,
  compared   \* history: the operands of a subtraction the flags still show

vars == <<host, nmem, core, mem, running, working, compared>>

NoFlags == [z |-> FALSE, n |-> FALSE, c |-> FALSE, v |-> FALSE, exact |-> FALSE]
NotCompared == <<>>

ResetCore(c) == [c EXCEPT !.pc = 0, !.rbase = 0, !.rmap = 0, !.masked = {}]

Init ==
  /\ host \in Hosts /\ nmem = <<>>
  /\ core = [pc |-> 0, y |-> 0, f |-> NoFlags, rbase |-> 0, rmap |-> 0, masked |-> {},
             ret |-> 0, in |-> [u \in Units |-> 0], pcnt |-> Ticks]
  /\ mem = [imem |-> <<>>, supply |-> {}, ei |-> [c \in InChannels |-> Stopped],
            eo |-> [c \in OutChannels |-> Stopped], audio_out |-> 0,
            sema_status |-> 0, sema_data |-> 0, int |-> 0, reload |-> Ticks,
            gen_fiq |-> FALSE, raised |-> {}, at_in |-> Nowhere, at_out |-> Nowhere,
            sema_by |-> <<"none", FALSE>>]
  /\ running = FALSE /\ working = FALSE /\ compared = NotCompared
-----------------------------------------------------------------------------
(* Cells of IMem that were never written hold zero.                        *)
Cell(imem, a) == IF a \in DOMAIN imem THEN imem[a] ELSE 0
Put(imem, a, v) == [x \in DOMAIN imem \union {a} |-> IF x = a THEN v ELSE Cell(imem, x)]

(* A sample in memory has a value that tells its place.                    *)
Sample(a) == IF a = Nowhere THEN 0 ELSE a % Pow2[W]

Got(m, val) == [mem |-> m, val |-> val]

(* dsp_read.  A read of an input channel gives the word the CPU supplied,  *)
(* or the next sample; at the channel's second address the supplied word   *)
(* is thrown away and noise is given.  Nothing else has an effect.  Two    *)
(* addresses ask for the status of channels 13 and 14, which there are     *)
(* not: what lies behind the array answers that they run or do not.        *)
ReadChannel(m, ch, noise) ==
  IF ch \in m.supply THEN Got([m EXCEPT !.supply = @ \ {ch}], noise)
  ELSE LET r == FifoEi(m.ei[ch]) IN
    Got([m EXCEPT !.ei[ch] = r.fifo,
                  !.raised = IF r.rang THEN @ \union {ch + 16} ELSE @,
                  !.at_in = IF ch = 0 THEN r.at ELSE @],
        Sample(r.at))

ReadSupplied(m, ch) ==
  IF ch \in m.supply THEN Got([m EXCEPT !.supply = @ \ {ch}], Cell(m.imem, 112 + ch))
  ELSE Got(m, Sample(Position(m.ei[ch])))

Read(c, m, a, noise) ==
  CASE a = 234 -> Got(m, noise)
    [] a = 235 -> Got(m, m.audio_out)
    [] a = 236 -> Got(m, m.sema_status)
    [] a = 237 -> Got(m, m.sema_data)
    [] a = 238 -> Got(m, c.pc)
    [] a = 239 -> Got(m, c.pcnt)
    [] a \in 240 .. 252 -> ReadChannel(m, a - 240, noise)
    [] a \in 112 .. 124 -> ReadSupplied(m, a - 112)
    [] a \in 208 .. 220 -> Got(m, IF a - 208 \in m.supply THEN 2 ELSE FifoEiStatus(m.ei[a - 208]))
    [] a \in 221 .. 222 -> Got(m, 2 * (noise % 2))
    [] a \in 224 .. 227 -> Got(m, FifoEoStatus(m.eo[a - 224]))
    [] a \in 256 .. 767 -> Got(m, Cell(m.imem, 256 + (a % 256)))
    [] OTHER -> Got(m, Cell(m.imem, a % 128))

(* dsp_write.                                                              *)
Write(m, addr, v) ==
  LET a == addr % 1024 IN
  CASE a = 1003 -> [m EXCEPT !.audio_out = v]
    [] a = 1004 -> [m EXCEPT !.sema_status = IF @ % 2 = 0 THEN @ + 1 ELSE @,
                           !.sema_by = <<@[1], TRUE>>]
    [] a = 1005 -> [m EXCEPT !.sema_data = v, !.sema_status = 4,
                           !.sema_by = <<"dsp", FALSE>>]
    [] a = 1006 -> [m EXCEPT !.int = v, !.gen_fiq = TRUE]
    [] a = 1007 -> [m EXCEPT !.reload = v]
    [] a \in 1008 .. 1011 ->
         LET ch == a - 1008 r == FifoEo(m.eo[ch]) IN
         [m EXCEPT !.eo[ch] = r.fifo,
                   !.raised = IF r.rang THEN @ \union {ch + 12} ELSE @,
                   !.at_out = IF ch = 0 THEN r.at ELSE @]
    [] a = 1021 \/ a < 256 -> m
    [] a \in 256 .. 767 -> [m EXCEPT !.imem = Put(@, 256 + (a % 256), v)]
    [] OTHER -> [m EXCEPT !.imem = Put(@, a, v)]
-----------------------------------------------------------------------------
(* Words that were never loaded hold a sleep, 0x8380.                      *)
Sleeping ==
  [ins |-> [op |-> "sleep"], arg |-> [op |-> "addr", a |-> 896, di |-> FALSE, wb |-> FALSE]]
Fetch(pc) == IF pc \in DOMAIN nmem THEN nmem[pc] ELSE Sleeping

(* A register's address: the map chooses the bank by two bits of its       *)
(* number, and the base flips bits of the rest (dsp_register_base).        *)
Bank(rmap, x, y) ==
  CASE rmap <= 3 -> x [] rmap = 4 -> y [] rmap = 5 -> 1 - y
    [] rmap = 6 -> x * y [] rmap = 7 -> IF x + y = 0 THEN 0 ELSE 1

RegAddr(c, reg) ==
  LET x == (reg \div 4) % 2
      y == reg \div 8
      flipped == IF x = 0 THEN c.rbase
                 ELSE IF c.rbase % 2 = 0 THEN c.rbase + 1 ELSE c.rbase - 1
  IN (reg % 4) + 4 * flipped + 256 * Bank(c.rmap, x, y) + 512 * y

(* An operand, and what it points to if it is indirect.                    *)
Follow(c, r, indirect, noise) == IF indirect THEN Read(c, r.mem, r.val, noise) ELSE r
Deref(c, m, a, indirect, noise) == Follow(c, Read(c, m, a, noise), indirect, noise)

(* dsp_operand_load reads operand words until it has enough.  It keeps the *)
(* address of the last one, and that of the last one marked to be written. *)
Pushed(s, r, a, mark) ==
  [s EXCEPT !.m = r.mem, !.ops = Append(@, r.val), !.wb = a,
            !.gwb = IF mark THEN a ELSE @]

Load(s, a, indirect, mark, noise) ==
  Pushed(s, Deref(s.c, s.m, a, indirect, noise), a, mark)

(* Two-register words look up the address first, if they are indirect.     *)
LoadFrom(s, p, mark, noise) == Load([s EXCEPT !.m = p.mem], p.val, FALSE, mark, noise)

LoadAt(s, a, indirect, mark, noise) ==
  LoadFrom(s, IF indirect THEN Read(s.c, s.m, a, noise) ELSE Got(s.m, a), mark, noise)

LoadWord(s, o, noise) ==
  CASE o.op = "reg3" ->
         Load(Load(Load(s, RegAddr(s.c, o.r[3]), o.di[3], FALSE, noise),
                   RegAddr(s.c, o.r[2]), o.di[2], FALSE, noise),
              RegAddr(s.c, o.r[1]), o.di[1], FALSE, noise)
    [] o.op = "addr" -> Load(s, o.a, o.di, o.wb, noise)
    [] o.op = "reg2" ->
         LoadAt(IF o.two THEN LoadAt(s, RegAddr(s.c, o.r[2]), o.di[2], o.wb[2], noise) ELSE s,
                RegAddr(s.c, o.r[1]), o.di[1], o.wb[1], noise)
    [] o.op = "imm" -> [s EXCEPT !.ops = Append(@, o.val), !.wb = o.val]

Operand(s, noise) == LoadWord([s EXCEPT !.c.pc = @ + 1], Fetch(s.c.pc).arg, noise)

Operands(c, m, requests, noise) ==
  LET more(s) == IF Len(s.ops) < requests THEN Operand(s, noise) ELSE s
  IN  more(more(more(more([c |-> c, m |-> m, ops |-> <<>>, wb |-> 0, gwb |-> 0]))))

(* Operands go to the units that ask for one, in the order of Turn; a unit *)
(* that is left without one gets whatever is on the stack.                 *)
Turn == [mult1 |-> 1, mult2 |-> 2, alu1 |-> 3, alu2 |-> 4, bs |-> 5]

HandOut(c, i, s, noise) ==
  LET asked == Needs(i) \ c.masked
      place(u) == Cardinality({v \in asked : Turn[v] <= Turn[u]})
      default == [c.in EXCEPT !["bs"] = i.bs + (IF i.alu >= 8 THEN 16 ELSE 0)]
  IN [in |-> [u \in Units |-> IF u \notin asked THEN default[u]
                              ELSE IF place(u) <= Len(s.ops) THEN s.ops[place(u)] ELSE noise],
      wb |-> IF Len(s.ops) # Cardinality(asked) /\ s.gwb = 0 THEN s.wb ELSE s.gwb]
-----------------------------------------------------------------------------
(* Words of the accumulator are 2W bits; the upper half is what a program  *)
(* sees, and four bits below it are kept as guard.                         *)
Mod(x) == x % (2 * H)
Hi(x) == Mod(x * Pow2[W])
S16(x) == Signed(Pow2[W - 1], x)
S32(x) == Signed(H, x)
One == Pow2[W - 4]

And(a, b) == AndWords(2 * W, a, b)
Or(a, b) == OrWords(2 * W, a, b)
Xor(a, b) == XorWords(2 * W, a, b)
Not(a) == Complement(H, a)

Product(c) == Mod(S16(c.in["mult1"]) * S16(c.in["mult2"]) * 2)
WithCarry(i) == i.alu \in {3, 5}

(* The two operands.  The product with the accumulator is cut to an even   *)
(* number before it is taken for A, afterwards for B.                      *)
MuxA(c, i) ==
  CASE i.muxa = 0 -> c.y
    [] i.muxa = 1 -> Hi(c.in["alu1"])
    [] i.muxa = 2 -> Hi(c.in["alu2"])
    [] i.muxa = 3 /\ i.m2sel = 1 -> Product(c)
    [] i.muxa = 3 /\ i.m2sel = 0 /\ WithCarry(i) ->
         IF c.f.c THEN Hi(c.in["mult1"]) ELSE 0
    [] i.muxa = 3 /\ i.m2sel = 0 /\ ~WithCarry(i) ->
         Mod(S16(c.in["mult1"]) * 2 * (S32(c.y) \div Pow2[W]))

MuxB(c, i) ==
  CASE WithCarry(i) -> IF c.f.c THEN Pow2[W] ELSE 0
    [] ~WithCarry(i) /\ i.muxb = 0 -> c.y
    [] ~WithCarry(i) /\ i.muxb = 1 -> Hi(c.in["alu1"])
    [] ~WithCarry(i) /\ i.muxb = 2 -> Hi(c.in["alu2"])
    [] ~WithCarry(i) /\ i.muxb = 3 /\ i.m2sel = 1 -> Product(c)
    [] ~WithCarry(i) /\ i.muxb = 3 /\ i.m2sel = 0 ->
         2 * (Mod(S16(c.in["mult1"]) * (S32(c.y) \div Pow2[W - 1])) \div 2)

(* What the ALU adds or subtracts, or the logic result.                    *)
Sums == {2, 3, 6}
Differences == {1, 4, 5, 7}
Left1(i, a) == IF i.alu = 1 THEN 0 ELSE a
Right1(i, b) == IF i.alu \in {6, 7} THEN One ELSE b

AluResult(i, a, b) ==
  CASE i.alu \in Sums -> Add(H, Left1(i, a), Right1(i, b), 0)
    [] i.alu \in Differences -> Sub(H, Left1(i, a), Right1(i, b), 1)
    [] i.alu \in {0, 8} -> a
    [] i.alu = 9 -> Not(a)
    [] i.alu = 10 -> And(a, b) [] i.alu = 11 -> Not(And(a, b))
    [] i.alu = 12 -> Or(a, b)  [] i.alu = 13 -> Not(Or(a, b))
    [] i.alu = 14 -> Xor(a, b) [] i.alu = 15 -> Not(Xor(a, b))

AluFlags(i, a, b, y) ==
  [z |-> y \div Pow2[W] = 0, n |-> TopSet(H, y),
   c |-> \/ i.alu \in Sums /\ AddCarry(H, Left1(i, a), Right1(i, b), y)
         \/ i.alu \in Differences /\ SubCarry(H, Left1(i, a), Right1(i, b), y),
   v |-> \/ i.alu \in Sums /\ AddOverflow(H, Left1(i, a), Right1(i, b), y)
         \/ i.alu \in Differences /\ SubOverflow(H, Left1(i, a), Right1(i, b), y),
   exact |-> (y \div One) % 16 = 0]

(* The shifter: left, right with and without sign, a clip of what did not  *)
(* fit, and a rotation of the upper half through the carry.                *)
LeftBy == <<1, 2, 3, 4, 5, 8>>
RightBy == <<W, 8, 5, 4, 3, 2, 1>>

Shift(bs, y, f) ==
  CASE bs \in 1 .. 6 \/ bs \in 17 .. 22 -> ShiftLeft(2 * W, y, LeftBy[bs % 16])
    [] bs \in 9 .. 15 -> Mod(S32(y) \div Pow2[RightBy[bs - 8]])
    [] bs \in 25 .. 31 -> y \div Pow2[RightBy[bs - 24]]
    [] bs \in {7, 23} -> IF ~f.v THEN y ELSE IF f.n THEN H - One ELSE H
    [] bs \in {8, 24} ->
         Pow2[W + 1] * (Mod(y * 2) \div Pow2[W + 1]) + (IF TopSet(H, y) THEN Pow2[W] ELSE 0)
           + One * ((y \div One) % 16)
    [] OTHER -> y

ShiftCarry(bs, y, f) == IF bs \in {8, 24} THEN TopSet(H, y) ELSE f.c
-----------------------------------------------------------------------------
(* Mutant: the conditions with a sign forget the overflow.                 *)
Taken_NoOverflow(b, f) ==
  IF b.mode = 3 THEN ~b.sel /\ ((f.n \/ (f.z /\ b.m0)) # b.m1)
  ELSE b.mode = 1 /\ ~b.m0 /\ ~b.m1 /\ (f.z /\ f.exact) = ~b.sel

(* BRCONDTAB: a branch says which flags it tests and how.                  *)
Taken(b, f) ==
  LET stat0 == IF b.sel THEN f.c ELSE f.n
      stat1 == IF b.sel THEN f.z ELSE f.v
      none == ~b.m0 /\ ~b.m1
      nv == (((f.n # f.v) \/ (f.z /\ b.m0)) # b.m1) /\ ~b.sel
      cz == ((f.c /\ ~f.z) # b.m0) /\ b.sel /\ ~b.m1
      exact == (f.exact # b.m0) /\ b.sel /\ b.m1
  IN \/ /\ b.mode \in {1, 2} /\ ~none
        /\ b.m1 => stat0 = (b.mode = 1)
        /\ b.m0 => stat1 = (b.mode = 1)
     \/ b.mode = 3 /\ (nv \/ cz \/ exact)
     \/ b.mode = 1 /\ none /\ (f.z /\ f.exact) = ~b.sel
-----------------------------------------------------------------------------
(* One instruction.  What it did to channels 0 and the interrupts it       *)
(* raised in CLIO are kept for one step.                                   *)
Quiet(m) == [m EXCEPT !.at_in = Nowhere, !.at_out = Nowhere, !.raised = {}]

Compute(i, c, a, b, bs, y, f) ==
  /\ core' = [c EXCEPT !.y = Shift(bs, y, f), !.f = [f EXCEPT !.c = ShiftCarry(bs, y, f)]]
  /\ compared' = IF i.alu = 4 /\ bs \notin {8, 24} /\ a % Pow2[W] = 0 /\ b % Pow2[W] = 0
                 THEN <<a \div Pow2[W], b \div Pow2[W]>> ELSE NotCompared

AluStep(i, noise) ==
  \E s \in {Operands([core EXCEPT !.pc = @ + 1], Quiet(mem), Requests(i), noise)} :
    \E h \in {HandOut(core, i, s, noise)} :
      \E c \in {[s.c EXCEPT !.in = h.in]} :
        \E a \in {MuxA(c, i)}, b \in {MuxB(c, i)} :
          \E y \in {AluResult(i, a, b)} :
            /\ Compute(i, c, a, b, h.in["bs"], y, AluFlags(i, a, b, y))
            /\ mem' = IF h.wb = 0 THEN s.m ELSE Write(s.m, h.wb, core'.y \div Pow2[W])
            /\ UNCHANGED working

(* MOVE and MOVEREG take one operand of any kind (dsp_operand_load1).      *)
LoadOne(c, o, noise) ==
  CASE o.op = "reg3" -> Deref(c, Quiet(mem), RegAddr(c, o.r[3]), o.di[3], noise)
    [] o.op = "addr" -> Deref(c, Quiet(mem), o.a, o.di, noise)
    [] o.op = "reg2" -> Deref(c, Quiet(mem), RegAddr(c, o.r[1]), o.di[1], noise)
    [] o.op = "imm" -> Got(Quiet(mem), o.val)

MoveStep(i, noise) ==
  LET to == IF i.op = "movereg" THEN RegAddr(core', i.reg) ELSE i.a IN
  /\ core' = [core EXCEPT !.pc = @ + 2]
  /\ \E r \in {LoadOne(core', Fetch(core.pc + 1).arg, noise)} :
       \E p \in {IF i.di THEN Read(core', r.mem, to, noise) ELSE Got(r.mem, to)} :
         mem' = Write(p.mem, p.val, r.val)
  /\ UNCHANGED <<working, compared>>

ControlOps == {"nop", "branch_acc", "rbase", "rmap", "rts", "op_mask", "jump", "jsr", "branch"}

ControlStep(i) ==
  LET c == [core EXCEPT !.pc = @ + 1] IN
  /\ core' =
       CASE i.op = "nop" -> c
         [] i.op = "branch_acc" -> [c EXCEPT !.pc = (core.y \div Pow2[W]) % 1024]
         [] i.op = "rbase" -> [c EXCEPT !.rbase = i.n]
         [] i.op = "rmap" -> [c EXCEPT !.rmap = i.n]
         [] i.op = "rts" -> [c EXCEPT !.pc = core.ret]
         [] i.op = "op_mask" -> [c EXCEPT !.masked = i.units]
         [] i.op = "jump" -> [c EXCEPT !.pc = i.a]
         [] i.op = "jsr" -> [c EXCEPT !.pc = i.a, !.ret = c.pc]
         [] i.op = "branch" -> IF Taken(i, core.f) THEN [c EXCEPT !.pc = i.a] ELSE c
  /\ mem' = Quiet(mem)
  /\ UNCHANGED <<working, compared>>

(* A sleep ends the run: the interrupt the program asked for is raised,    *)
(* and the tick counter goes on.                                           *)
Sleep ==
  /\ working' = FALSE
  /\ mem' = [Quiet(mem) EXCEPT !.gen_fiq = FALSE,
                !.raised = IF mem.gen_fiq THEN {11} ELSE {}]
  /\ core' = [core EXCEPT !.pc = @ + 1,
                !.pcnt = IF @ <= Ticks THEN @ - Ticks + mem.reload ELSE @ - Ticks]
  /\ UNCHANGED compared

Instruction ==
  /\ working
  /\ LET i == Fetch(core.pc).ins IN
     \/ i.op = "alu" /\ \E noise \in Noises : AluStep(i, noise)
     \/ i.op \in {"move", "movereg"} /\ \E noise \in Noises : MoveStep(i, noise)
     \/ i.op \in ControlOps /\ ControlStep(i)
     \/ i.op = "sleep" /\ Sleep
  /\ UNCHANGED <<host, nmem, running>>

(* opera_dsp_loop is called for every sample.                              *)
DspLoop ==
  /\ running /\ ~working /\ working' = TRUE
  /\ core' = [ResetCore(core) EXCEPT !.pcnt = mem.reload, !.y = 0, !.f = NoFlags, !.ret = 0]
  /\ mem' = Quiet(mem) /\ compared' = NotCompared
  /\ UNCHANGED <<host, nmem, running>>
-----------------------------------------------------------------------------
(* The CPU, through CLIO and MADAM, between two runs.                      *)
Poked(m) == mem' = m /\ UNCHANGED <<nmem, core, running, compared>>

MemWrite(a, w) ==
  /\ nmem' = [x \in DOMAIN nmem \union {a} |-> IF x = a THEN w ELSE nmem[x]]
  /\ mem' = Quiet(mem)
  /\ UNCHANGED <<core, running, compared>>

SetRunning(b) == running' = b /\ mem' = Quiet(mem) /\ UNCHANGED <<nmem, core, compared>>

Reset ==
  /\ core' = [ResetCore(core) EXCEPT !.pcnt = mem.reload]
  /\ mem' = Quiet(mem) /\ UNCHANGED <<nmem, running, compared>>

ImemWrite(a, v) ==
  LET stored == [Quiet(mem) EXCEPT !.imem = Put(@, a, v)] IN
  /\ a \in 0 .. 127
  /\ Poked(IF a \in 112 .. 124 THEN [stored EXCEPT !.supply = @ \union {a - 112}] ELSE stored)

(* Mutant: a new word keeps the acknowledgement of the old one.            *)
ArmSemaphoreWrite_KeepsAck(v) ==
  Poked([Quiet(mem) EXCEPT !.sema_data = v, !.sema_status = 8 + (@ % 2),
                           !.sema_by = <<"arm", FALSE>>])

ArmSemaphoreWrite(v) ==
  Poked([Quiet(mem) EXCEPT !.sema_data = v, !.sema_status = 8, !.sema_by = <<"arm", FALSE>>])

WriteChannel ==
  \/ \E reg \in {"addr", "next_addr"}, a \in Addrs \union {0} :
       Poked([Quiet(mem) EXCEPT !.ei[0] = WriteInput(@, reg, a)])
  \/ \E reg \in {"len", "next_len"}, len \in Lens :
       Poked([Quiet(mem) EXCEPT !.ei[0] = WriteInput(@, reg, len)])
  \/ \E reg \in {"addr", "next_addr"}, a \in OutAddrs \union {0} :
       Poked([Quiet(mem) EXCEPT !.eo[0] = WriteOutput(@, reg, a)])
  \/ \E reg \in {"len", "next_len"}, len \in Lens :
       Poked([Quiet(mem) EXCEPT !.eo[0] = WriteOutput(@, reg, len)])

ClearChannel ==
  \/ Poked([Quiet(mem) EXCEPT !.ei[0] = ClearInput(@)])
  \/ Poked([Quiet(mem) EXCEPT !.eo[0] = ClearOutput(@)])

Cpu ==
  /\ ~working /\ UNCHANGED <<host, working>>
  /\ \/ \E p \in host.program : MemWrite(p[1], p[2])
     \/ \E b \in BOOLEAN : SetRunning(b)
     \/ Reset
     \/ \E a \in host.cells, v \in Words : ImemWrite(a, v)
     \/ host.semaphore /\ \E v \in Words : ArmSemaphoreWrite(v)
     \/ host.channels /\ (WriteChannel \/ ClearChannel)

Next == Instruction \/ DspLoop \/ Cpu

Spec == Init /\ [][Next]_vars
-----------------------------------------------------------------------------
(* The program counter indexes the program memory without a check: a       *)
(* program that falls off its end must meet a sleep before the array ends. *)
TypeOK ==
  /\ core.pc \in 0 .. NMemSize - 1 /\ core.y \in 0 .. 2 * H - 1
  /\ core.rbase \in 0 .. 63 /\ core.rmap \in 0 .. 7 /\ core.masked \subseteq Units
  /\ mem.supply \subseteq InChannels
  /\ \A c \in InChannels : mem.ei[c] \in Fifo
  /\ \A c \in OutChannels : mem.eo[c] \in Fifo
  /\ mem.sema_status \in {0, 1, 4, 5, 8, 9} /\ mem.sema_data \in Data
  /\ running \in BOOLEAN /\ working \in BOOLEAN

(* The DSP hears every sample of the buffers the CPU gave channel 0, in    *)
(* order, and the next buffer from its first sample, whatever it does in   *)
(* between and however often it sleeps.                                    *)
PlayIn == INSTANCE PlayList WITH
  playing <- working, left <- Left(mem.ei[0]), loop <- Loop(mem.ei[0], TRUE),
  at <- mem.at_in, rang <- 16 \in mem.raised, Waits <- TRUE
ReadsInOrder == PlayIn!Spec

(* What it writes fills the buffers of output channel 0 place by place;    *)
(* the sample that meets the end of a buffer is lost.                      *)
PlayOut == INSTANCE PlayList WITH
  playing <- working, left <- Left(mem.eo[0]), loop <- Loop(mem.eo[0], FALSE),
  at <- mem.at_out, rang <- 12 \in mem.raised, Waits <- FALSE
WritesInOrder == PlayOut!Spec

(* The semaphore's status says whose word it holds, and that the DSP has   *)
(* acknowledged it only if it did so after the word was written.           *)
SemaphoreHonest ==
  mem.sema_status = (CASE mem.sema_by[1] = "none" -> 0 [] mem.sema_by[1] = "arm" -> 8
                       [] mem.sema_by[1] = "dsp" -> 4) + (IF mem.sema_by[2] THEN 1 ELSE 0)

(* A program that subtracts two words and branches compares them: every    *)
(* condition has its meaning, with and without sign, whatever instructions *)
(* that keep the flags lie between.                                        *)
Cond(mode, sel, m1, m0) == Taken([mode |-> mode, sel |-> sel, m1 |-> m1, m0 |-> m0], core.f)

BranchMeans ==
  compared # NotCompared =>
    LET a == compared[1] b == compared[2] IN
    /\ Cond(3, FALSE, FALSE, FALSE) <=> S16(a) < S16(b)
    /\ Cond(3, FALSE, TRUE, FALSE) <=> S16(a) >= S16(b)
    /\ Cond(3, FALSE, FALSE, TRUE) <=> S16(a) <= S16(b)
    /\ Cond(3, FALSE, TRUE, TRUE) <=> S16(a) > S16(b)
    /\ Cond(3, TRUE, FALSE, FALSE) <=> a > b
    /\ Cond(3, TRUE, FALSE, TRUE) <=> a <= b
    /\ Cond(1, TRUE, TRUE, FALSE) <=> a >= b
    /\ Cond(1, TRUE, FALSE, TRUE) <=> a = b
    /\ Cond(1, FALSE, FALSE, FALSE) <=> a = b

(* The samples of both channels 0, and the state between two instructions. *)
SamplesInOrder == ReadsInOrder /\ WritesInOrder

Inv == TypeOK /\ SemaphoreHonest
=============================================================================
