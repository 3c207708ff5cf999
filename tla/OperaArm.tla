------------------------------- MODULE OperaArm ------------------------------
(***************************************************************************)
(* The emulated ARM60 (opera_arm.c): one action is one call of             *)
(* opera_arm_execute, an instruction and the fast interrupt that may       *)
(* follow it.  Instructions are taken as decoded: software is a function   *)
(* from addresses to the instructions that may be found there.             *)
(***************************************************************************)
EXTENDS ArmBus, RegisterBanks, FiniteSets

CONSTANTS
  Software,      \* what may run: a function from names to records with the code,
                 \* which maps an address to a set of instructions, and hle, if
                 \* the emulator does the matrix calls itself
  DeviceWords    \* what devices may answer

(* Memory that was never written decodes to ANDEQ r0, r0, r0.              *)
Nothing == {[op |-> "alu", cond |-> 0, code |-> 0, s |-> FALSE, rd |-> 0, rn |-> 0,
             o2 |-> [kind |-> "reg", rm |-> 0, type |-> 0, n |-> 0]]}

(* The instructions, with the fields that they are decoded by.             *)
Operands ==
  [kind : {"imm"}, val : Data]
    \union [kind : {"reg"}, rm : Regs, type : 0 .. 3, n : 0 .. 31]
    \union [kind : {"by"}, rm : Regs, rs : Regs, type : 0 .. 3]

Conds == 0 .. 15
AluInsns == [op : {"alu"}, cond : Conds, code : 0 .. 15, s : BOOLEAN, rd : Regs, rn : Regs,
             o2 : Operands]
MulInsns == [op : {"mul"}, cond : Conds, acc : BOOLEAN, s : BOOLEAN, rd : Regs, rn : Regs,
             rs : Regs, rm : Regs]
SwapInsns == [op : {"swap"}, cond : Conds, byte : BOOLEAN, rn : Regs, rd : Regs, rm : Regs]
TransferInsns == [op : {"transfer"}, cond : Conds, load : BOOLEAN, byte : BOOLEAN, pre : BOOLEAN,
                  up : BOOLEAN, wb : BOOLEAN, rd : Regs, rn : Regs, o2 : Operands]
BlockInsns == [op : {"block"}, cond : Conds, load : BOOLEAN, pre : BOOLEAN, up : BOOLEAN,
               user : BOOLEAN, wb : BOOLEAN, rn : Regs, list : SUBSET Regs]
OtherInsns == [op : {"branch"}, cond : Conds, link : BOOLEAN, offset : Int]
                \union [op : {"swi"}, cond : Conds, number : Nat]
                \union [op : {"undefined", "coprocessor"}, cond : Conds]
Instructions ==
  AluInsns \union MulInsns \union SwapInsns \union TransferInsns \union BlockInsns
    \union OtherInsns

ASSUME ArmAssumption ==
  /\ W \in Nat /\ W >= 27    \* the memory map has addresses of 27 bits
  /\ DeviceWords \subseteq Data /\ DeviceWords # {} /\ \A a \in DOMAIN Rom : Rom[a] \in Data
  /\ \A x \in DOMAIN Software :
       /\ Software[x].hle \in BOOLEAN
       /\ \A a \in DOMAIN Software[x].code : Software[x].code[a] \subseteq Instructions

VARIABLES
  sw,        \* what runs
  s,         \* the machine: user, cash, bank (RegisterBanks), psr, spsr,
             \* carry_out, ram, nvram, cycles, io
  insn,      \* history: the instruction just executed
  left,      \* history: where the fast interrupt being handled came
  stack,     \* history: what is pushed, by mode
  compared   \* history: the operands of a comparison that the flags still show

vars == <<sw, s, insn, left, stack, compared>>

None == <<>>

(* A status register as a word, and back: the flags on top, then the masks *)
(* of the two interrupts and five bits for the mode.                       *)
ModeBits ==
  [user |-> {4}, fiq |-> {0, 4}, irq |-> {1, 4}, svc |-> {0, 1, 4}, abt |-> {0, 1, 2, 4},
   und |-> {0, 1, 3, 4}]
ModeOf(bits) == CHOOSE m \in Modes : ModeBits[m] = bits
Mode(t) == ModeOf(t.psr.mode)

PsrWord(p) ==
  NZCV(p) * Pow2[W - 4] + (IF p.i THEN 128 ELSE 0) + (IF p.f THEN 64 ELSE 0) + FromBits(5, p.mode)
Psr(w) == [n |-> Bit(w, W - 1) = 1, z |-> Bit(w, W - 2) = 1, c |-> Bit(w, W - 3) = 1,
           v |-> Bit(w, W - 4) = 1, i |-> Bit(w, 7) = 1, f |-> Bit(w, 6) = 1,
           mode |-> BitsOf(5, w)]

SetMode(t, bits) ==
  LET f == ChangeMode([user |-> t.user, cash |-> t.cash, bank |-> t.bank], Mode(t), ModeOf(bits))
  IN [t EXCEPT !.user = f.user, !.cash = f.cash, !.bank = f.bank, !.psr.mode = bits]

(* arm_cpsr_set: bit 4 is always set.                                      *)
CpsrSet(t, p) ==
  LET bits == p.mode \union {4} IN [SetMode(t, bits) EXCEPT !.psr = [p EXCEPT !.mode = bits]]

(* opera_arm_init and opera_arm_reset.                                     *)
Start(t) ==
  CpsrSet([t EXCEPT !.user = [n \in Regs |-> IF n = 15 THEN \h3000000 ELSE 0],
                    !.cash = [n \in 8 .. 14 |-> 0],
                    !.bank = [m \in Banked |-> [n \in Own(m) |-> 0]]],
          Psr(19))

PowerOn ==
  Start([user |-> <<>>, cash |-> <<>>, bank |-> <<>>, psr |-> Psr(16),
         spsr |-> [m \in Modes |-> Psr(0)], carry_out |-> FALSE, ram |-> <<>>,
         nvram |-> <<>>, cycles |-> 1, io |-> <<>>])
-----------------------------------------------------------------------------
Reg(t, n, ahead) == Wrap(t.user[n] + (IF n = 15 THEN ahead ELSE 0))
SetReg(t, n, v) == [t EXCEPT !.user[n] = v]
Spend(t, n) == [t EXCEPT !.cycles = @ + n]

(* An exception: the status is kept, the mode changed, and the program     *)
(* goes on at a vector.                                                    *)
Trap(t, m, back, vector) ==
  LET u == SetMode([t EXCEPT !.spsr[m] = t.psr, !.psr.i = TRUE], ModeBits[m])
  IN [u EXCEPT !.user[14] = back, !.user[15] = vector]

Undefined(t) == Spend(Trap(t, "und", t.user[15], 4), 5)

(* A shifted register.  The program counter is two instructions ahead, and *)
(* three if the amount is in a register.                                   *)
Ahead(o) == IF o.kind = "by" THEN 8 ELSE 4

Operand(t, o) ==
  IF o.kind = "imm" THEN Answer(t, o.val)
  ELSE LET x == Reg(t, o.rm, Ahead(o))
           sh == IF o.kind = "by" THEN [type |-> o.type, n |-> Reg(t, o.rs, 4) % 256]
                 ELSE ImmediateShift(o.type, o.n)
           r == Shifted(sh.type, x, sh.n, t.psr.c)
       IN Answer([t EXCEPT !.carry_out = r.carry], r.val)

Multiply(t, i) ==
  LET product == IF i.rd = i.rm THEN 0 ELSE LowProduct(W, t.user[i.rm], t.user[i.rs])
      y == IF i.acc THEN Add(H, product, Reg(t, i.rn, 8), 0) ELSE product
      u == IF i.s THEN [t EXCEPT !.psr = SetZN(@, y)] ELSE t
  IN SetReg(Spend(u, MulCycles(t.user[i.rs])), i.rd, y)

(* ARM_SWAP.                                                               *)
Fetch(t, byte, addr, v) == IF byte THEN Answer(t, ReadByte(t, addr)) ELSE ReadWord(t, addr, v)
StoreAt(t, byte, addr, v) == IF byte THEN WriteByte(t, addr, v) ELSE WriteWord(t, addr, v)
Turned(i, addr, val) == IF i.byte THEN val ELSE RotateRight(W, val, B * (addr % 4))

SwapAt(t, i, addr, r) ==
  SetReg(Spend(StoreAt(r.s, i.byte, addr, Reg(t, i.rm, 8)), 9), i.rd, Turned(i, addr, r.val))

SwapFrom(t, i, v, addr) == SwapAt(t, i, addr, Fetch(t, i.byte, addr, v))
Swap(t, i, v) == SwapFrom(t, i, v, Reg(t, i.rn, 4))

(* The comparisons without a result are the moves from and to the status   *)
(* registers.                                                              *)
MoveFromPsr(t, i) ==
  SetReg(t, i.rd, PsrWord(IF i.code = 10 THEN t.spsr[Mode(t)] ELSE t.psr))

FlagsOnly(p, q) == [p EXCEPT !.n = q.n, !.z = q.z, !.c = q.c, !.v = q.v]

MoveToPsr(t, i, val) ==
  LET q == Psr(val) m == Mode(t) IN
  IF i.rn % 2 = 0 \/ m = "user"
  THEN IF i.code = 11 THEN [t EXCEPT !.spsr[m] = FlagsOnly(@, q)]
       ELSE [t EXCEPT !.psr = FlagsOnly(@, q)]
  ELSE IF i.code = 11 THEN [t EXCEPT !.spsr[m] = q] ELSE CpsrSet(t, q)

Carried(i, u) ==
  IF i.s /\ i.code \in IsLogic THEN [u EXCEPT !.psr.c = u.carry_out] ELSE u
Flagged(i, u, a, b, y) == IF i.s THEN [u EXCEPT !.psr = Flags(@, i.code, a, b, y)] ELSE u
Restore(u) == CpsrSet(u, u.spsr[Mode(u)])

Settled(i, u, b, flagged, y) ==
  CASE i.code \in {8, 10} /\ ~i.s -> MoveFromPsr(u, i)
    [] i.code \in {9, 11} /\ ~i.s -> MoveToPsr(u, i, b)
    [] i.code \in IsCompare /\ i.s -> flagged
    [] i.code \notin IsCompare /\ i.rd # 15 -> SetReg(flagged, i.rd, y)
    [] i.code \notin IsCompare /\ i.rd = 15 ->
         Spend(IF i.s THEN Restore(SetReg(flagged, 15, y)) ELSE SetReg(flagged, 15, y), 5)

Computed(i, u, a, b, y) ==
  Spend(Settled(i, u, b, Flagged(i, u, a, b, y), y), IF i.o2.kind = "by" THEN 1 ELSE 0)

Combined(i, u, a, b) == Computed(i, u, a, b, Result(i.code, a, b, u.psr.c))
AluWith(t, i, o) == Combined(i, Carried(i, o.s), Reg(t, i.rn, Ahead(i.o2)), o.val)
Alu(t, i) == AluWith(t, i, Operand(t, i.o2))

(* A single transfer.  Indexing afterwards with the write-back bit reaches *)
(* for the user's register.                                                *)
AsUser(i) == i.wb /\ ~i.pre /\ i.rd # 15
Based(u, i, moved) == IF i.wb \/ ~i.pre THEN SetReg(u, i.rn, moved) ELSE u

LoadOne(t, i, u, val) ==
  Spend(IF AsUser(i) THEN LoadUser(u, Mode(t), i.rd, val) ELSE SetReg(u, i.rd, val),
        IF i.rd = 15 THEN 10 ELSE 5)

StoredOne(t, i) ==
  IF AsUser(i) THEN ReadUser(t, Mode(t), i.rd) ELSE Reg(t, i.rd, Ahead(i.o2))

LoadFrom(t, i, r, moved, addr) == LoadOne(t, i, Based(r.s, i, moved), Turned(i, addr, r.val))

TransferAt(t, i, v, u, moved, addr) ==
  IF i.load THEN LoadFrom(t, i, Fetch(u, i.byte, addr, v), moved, addr)
  ELSE Spend(Based(StoreAt(u, i.byte, addr, StoredOne(t, i)), i, moved), 7)

Moved(i, base, offset) == IF i.up THEN Add(H, base, offset, 0) ELSE Sub(H, base, offset, 1)

Indexed(t, i, v, u, base, moved) == TransferAt(t, i, v, u, moved, IF i.pre THEN moved ELSE base)
TransferBy(t, i, v, o, base) == Indexed(t, i, v, o.s, base, Moved(i, base, o.val))
Transfer(t, i, v) == TransferBy(t, i, v, Operand(t, i.o2), Reg(t, i.rn, Ahead(i.o2)))
-----------------------------------------------------------------------------
(* Block transfers.  The lowest register goes to the lowest address.       *)
Span(i) == 4 * Cardinality(i.list)

(* Mutant: a block above the base starts with the word after it.           *)
Lowest_After(i, base) ==
  CASE ~i.up /\ ~i.pre -> base - Span(i) + 4
    [] i.up -> base + 4
    [] ~i.up /\ i.pre -> base - Span(i)

(* Where the block starts, and what is written back to the base.           *)
Lowest(i, base) ==
  CASE ~i.up /\ ~i.pre -> base - Span(i) + 4
    [] i.up /\ ~i.pre -> base
    [] ~i.up /\ i.pre -> base - Span(i)
    [] i.up /\ i.pre -> base + 4
Beyond(i, base) == Wrap(IF i.up THEN base + Span(i) ELSE base - Span(i))

PutUser(t, n, v) == IF n = 15 THEN SetReg(t, 15, v) ELSE LoadUser(t, Mode(t), n, v)
GetUser(t, n) == ReadUser(t, Mode(t), n)

(* ldm_accur: the base is written first, so that a loaded base wins.  With *)
(* the S bit and without r15 all registers are the user's, with it the     *)
(* status is restored.                                                     *)
WordOf(i, base, n) ==
  Wrap(Lowest(i, base) + 4 * Cardinality({x \in i.list : x < n}))

ForUser(i) == i.user /\ 15 \notin i.list
Given(i, u, n, x) == IF ForUser(i) THEN PutUser(u, n, x) ELSE SetReg(u, n, x)
GivenWord(i, r, n) == Given(i, r.s, n, r.val)

RestoredBy(i, u) == IF i.user /\ 15 \in i.list /\ Mode(u) # "user" THEN Restore(u) ELSE u

LoadOf(i, u, base, n, v) ==
  IF n \in i.list THEN GivenWord(i, ReadWord(u, WordOf(i, base, n), v), n) ELSE u

LoadBlock(t, i, v) ==
  LET base == Reg(t, i.rn, 8)
      loaded[n \in 0 .. 16] ==
        IF n = 0 THEN IF i.wb THEN Given(i, t, i.rn, Beyond(i, base)) ELSE t
                 ELSE LoadOf(i, loaded[n - 1], base, n - 1, v)
  IN  Spend(RestoredBy(i, loaded[16]),
            Cardinality(i.list) + 4 + (IF 15 \in i.list THEN 5 ELSE 0))

(* stm_accur: unless it is the lowest of the list the base is written      *)
(* before it is stored, and in any case afterwards.                        *)
NewBase(i, u, x) ==
  IF ~i.wb THEN u ELSE IF i.user THEN PutUser(u, i.rn, x) ELSE SetReg(u, i.rn, x)

StoreOf(i, u, base, n) ==
  IF n \notin i.list THEN u
  ELSE WriteWord(u, WordOf(i, base, n), IF n = 15 THEN Wrap(u.user[15] + 8)
                                        ELSE IF i.user THEN GetUser(u, n) ELSE u.user[n])

\* r15 is stored after the base is written for the second time.
StoreBlock(t, i) ==
  LET base == Reg(t, i.rn, 8)
      start == IF \E n \in i.list : n < i.rn THEN NewBase(i, t, Beyond(i, base)) ELSE t
      stored[n \in 0 .. 15] ==
        IF n = 0 THEN start ELSE StoreOf(i, stored[n - 1], base, n - 1)
  IN  Spend(StoreOf(i, NewBase(i, stored[15], Beyond(i, base)), base, 15),
            Cardinality(i.list) + 6)

Branch(t, i) ==
  LET u == IF i.link THEN SetReg(t, 14, t.user[15]) ELSE t
  IN Spend(SetReg(u, 15, Wrap(t.user[15] + 4 + i.offset)), 5)

(* decode_swi: the matrix calls are done by the emulator if it may, all    *)
(* others enter the operating system.                                      *)
Swi(t, i) ==
  IF Software[sw].hle /\ i.number \in Hle
  THEN Spend([SetReg(t, 0, HleAnswer(t.ram, i.number, t.user)) EXCEPT
                !.ram = HleStore(t.ram, i.number, t.user)], 5)
  ELSE Spend(Trap(t, "svc", t.user[15], 8), 5)
-----------------------------------------------------------------------------
Perform(t, i, v) ==
  CASE i.op = "alu" -> Alu(t, i)
    [] i.op = "mul" -> Multiply(t, i)
    [] i.op = "swap" -> Swap(t, i, v)
    [] i.op = "transfer" -> Transfer(t, i, v)
    [] i.op = "block" /\ i.load -> LoadBlock(t, i, v)
    [] i.op = "block" /\ ~i.load -> StoreBlock(t, i)
    [] i.op = "branch" -> Branch(t, i)
    [] i.op = "swi" -> Swi(t, i)
    [] i.op \in {"undefined", "coprocessor"} -> Undefined(t)

Fetched(t) ==
  [t EXCEPT !.user[15] = Wrap(@ + 4), !.cycles = 1,
            !.io = <<>>]

(* The load E5101810 is passed over if the status is 80000093, in whatever *)
(* program; other fixes for single games have a flag that nothing sets.    *)
OddLoad ==
  [op |-> "transfer", cond |-> 14, load |-> TRUE, byte |-> FALSE, pre |-> TRUE, up |-> FALSE,
   wb |-> FALSE, rd |-> 1, rn |-> 0, o2 |-> [kind |-> "imm", val |-> 2064]]
OddStatus(p) == NZCV(p) = 8 /\ p.i /\ ~p.f /\ p.mode = {0, 1, 4}
IsRun(i, t) == Passes(i.cond, t.psr) /\ ~(i = OddLoad /\ OddStatus(t.psr))

Executed(t, i, v) == IF IsRun(i, t) THEN Perform(Fetched(t), i, v) ELSE Fetched(t)

(* Mutant: the address to return to is the next instruction.               *)
Fiq_Early(t) ==
  LET u == Trap(t, "fiq", t.user[15], \h1C) IN [u EXCEPT !.psr.f = TRUE]

(* The fast interrupt, if CLIO asks for it and it is not masked.           *)
Fiq(t) ==
  LET u == Trap(t, "fiq", Wrap(t.user[15] + 4), \h1C) IN [u EXCEPT !.psr.f = TRUE]

(* The registers that an instruction names to be written; an instruction   *)
(* that writes the saved status.                                           *)
Traps == {"swi", "undefined", "coprocessor"}
Done(i) == i.op = "swi" /\ Software[sw].hle /\ i.number \in Hle

Targets(i) ==
  CASE i.op = "alu" ->
         IF i.code \in IsCompare /\ (i.s \/ i.code \in {9, 11}) THEN {} ELSE {i.rd}
    [] i.op \in {"mul", "swap"} -> {i.rd}
    [] i.op = "transfer" ->
         (IF i.load THEN {i.rd} ELSE {}) \union (IF i.wb \/ ~i.pre THEN {i.rn} ELSE {})
    [] i.op = "block" -> (IF i.load THEN i.list ELSE {}) \union (IF i.wb THEN {i.rn} ELSE {})
    [] i.op = "branch" -> IF i.link THEN {14} ELSE {}
    [] i.op \in Traps -> IF Done(i) THEN {0} ELSE {}

Saves(i) == i.op = "alu" /\ i.code = 11 /\ ~i.s

(* What the history says after instruction i, which left machine t.        *)
Status(i) ==
  IF i.op = "alu" THEN i.s \/ i.code \in {9, 11}
  ELSE IF i.op = "mul" THEN i.s ELSE i.op = "block" /\ i.load /\ i.user

IsReturn(i) ==
  i.op = "alu" /\ i.code = 2 /\ i.s /\ i.rd = 15 /\ i.rn = 14 /\ i.o2.kind = "imm" /\ i.o2.val = 4

ComparedAfter(i) ==
  IF Mode(s) = "fiq" /\ left # None /\ IsReturn(i) THEN left.compared
  ELSE IF i.op = "alu" /\ i.code = 10 /\ i.s
  THEN <<Reg(Fetched(s), i.rn, Ahead(i.o2)), Operand(Fetched(s), i.o2).val>>
  ELSE IF Status(i) \/ i.op \in Traps THEN None ELSE compared

(* The handler of a fast interrupt has returned, or can no longer: it has  *)
(* written r14 or the saved status.                                        *)
Returned(i, t) ==
  /\ Mode(s) = "fiq"
  /\ (Mode(t) # "fiq" /\ i.op \notin Traps) \/ 14 \in Targets(i) \/ Saves(i)
LeftAfter(i, t) == IF Returned(i, t) THEN None ELSE left

IsPush(i) ==
  i.op = "block" /\ ~i.load /\ ~i.user /\ i.wb /\ i.pre /\ ~i.up /\ i.rn = 13 /\ 13 \notin i.list
IsPop(i) ==
  i.op = "block" /\ i.load /\ ~i.user /\ i.wb /\ ~i.pre /\ i.up /\ i.rn = 13 /\ 13 \notin i.list

Pushed(i) ==
  [k \in 1 .. Cardinality(i.list) |->
    LET n == CHOOSE n \in i.list : Cardinality({x \in i.list : x < n}) = k - 1
    IN IF n = 15 THEN Wrap(s.user[15] + 12) ELSE s.user[n]]

StackAfter(i) ==
  LET old == stack[Mode(s)] IN
  [stack EXCEPT ![Mode(s)] =
    IF IsPush(i) THEN Pushed(i) \o old
    ELSE IF IsPop(i) THEN SubSeq(old, Cardinality(i.list) + 1, Len(old))
    ELSE IF i.op = "alu" /\ i.rd = 13 THEN <<>> ELSE old]

(* opera_arm_execute.                                                      *)
Code ==
  LET code == Software[sw].code pc == s.user[15] IN
  IF pc \in DOMAIN code THEN code[pc] ELSE Nothing

Execute ==
  \E i \in Code, v \in DeviceWords, needed \in BOOLEAN :
    LET done == IsRun(i, s) IN
    \E t \in {Executed(s, i, v)} : \E fiq \in {needed /\ ~t.psr.f} :
      /\ s' = IF fiq THEN Fiq(t) ELSE t
      /\ insn' = IF done THEN i ELSE None
      /\ compared' = IF done THEN ComparedAfter(i) ELSE compared
      /\ stack' = IF done THEN StackAfter(i) ELSE stack
      /\ left' = IF fiq THEN [pc |-> t.user[15], psr |-> t.psr, compared |-> compared']
                 ELSE IF done THEN LeftAfter(i, t) ELSE left
      /\ UNCHANGED sw

Reset ==
  /\ s' = [Start(s) EXCEPT !.io = <<>>, !.cycles = 1]
  /\ insn' = None /\ left' = None /\ compared' = None
  /\ stack' = [m \in Modes |-> <<>>] /\ UNCHANGED sw

Init ==
  /\ sw \in DOMAIN Software /\ s = PowerOn /\ insn = None /\ left = None /\ compared = None
  /\ stack = [m \in Modes |-> <<>>]

Next == Execute \/ Reset

Spec == Init /\ [][Next]_vars
-----------------------------------------------------------------------------
(* The status names one of the six modes, and so does a saved one when it  *)
(* is restored: a program that sets another has no banks to go to.         *)
ModeNumbers == {ModeBits[m] : m \in Modes}
ModesValid ==
  /\ s.psr.mode \in ModeNumbers
  /\ \A m \in Modes : s.spsr[m].mode \union {4} \in ModeNumbers

(* The modes are valid, the registers are words, and an instruction takes  *)
(* from 1 to 26 cycles: the frame loop relies on it.                       *)
TypeOK ==
  /\ ModesValid
  /\ IsFile([user |-> s.user, cash |-> s.cash, bank |-> s.bank], Data)
  /\ s.cycles \in 1 .. 26

(* A register changes only if the instruction names it to be written, and  *)
(* it is the one that the mode found sees, or the user's if the            *)
(* instruction reaches for it; a trap or an interrupt gives r14 of the     *)
(* mode entered and no other, in whatever order they come.                 *)
Physical(m, n) == IF n \in Own(m) THEN <<m, n>> ELSE <<"user", n>>
ReachesUser(i) == \/ i.op = "block" /\ i.user
                  \/ i.op = "transfer" /\ i.wb /\ ~i.pre
Entered(i) == CASE i.op = "swi" -> "svc" [] i.op \in {"undefined", "coprocessor"} -> "und"

BanksKept ==
  [][insn' # None =>
      \A m \in Modes, n \in Regs \ {15} :
        View(s', Mode(s'), m, n) # View(s, Mode(s), m, n) =>
          \/ n \in Targets(insn') /\ Physical(m, n) = Physical(Mode(s), n)
          \/ n \in Targets(insn') /\ ReachesUser(insn') /\ Physical(m, n) = <<"user", n>>
          \/ insn'.op \in Traps /\ ~Done(insn') /\ Physical(m, n) = <<Entered(insn'), 14>>
          \/ s'.user[15] = \h1C /\ Physical(m, n) = <<"fiq", 14>>]_vars

(* A handler that leaves r14 and the saved status alone returns to where   *)
(* the fast interrupt came, with the flags it came with, even if it uses   *)
(* the stack or calls the operating system; or to the next interrupt,      *)
(* which then returns there.                                               *)
FiqReturns ==
  [][insn' # None /\ IsReturn(insn') /\ Mode(s) = "fiq" /\ left # None =>
      IF Mode(s') = "fiq" THEN left' = left ELSE s'.user[15] = left.pc /\ s'.psr = left.psr]_vars

(* After a comparison every condition has its meaning, even if a fast      *)
(* interrupt came between the comparison and the instruction that asks.    *)
ConditionsMean ==
  compared # None =>
    LET a == compared[1] b == compared[2] sa == Signed(H, a) sb == Signed(H, b) p == s.psr IN
    /\ (Passes(0, p) <=> a = b) /\ (Passes(1, p) <=> a # b)
    /\ (Passes(2, p) <=> a >= b) /\ (Passes(3, p) <=> a < b)
    /\ (Passes(8, p) <=> a > b) /\ (Passes(9, p) <=> a <= b)
    /\ (Passes(10, p) <=> sa >= sb) /\ (Passes(11, p) <=> sa < sb)
    /\ (Passes(12, p) <=> sa > sb) /\ (Passes(13, p) <=> sa <= sb)

(* What a mode has pushed lies above its stack pointer, in order, until it *)
(* is popped, whatever the other modes do on stacks of their own.          *)
StackHeld ==
  \A m \in Modes : \A k \in DOMAIN stack[m] :
    Cell(s.ram, View(s, Mode(s), m, 13) + 4 * (k - 1)) = stack[m][k]

(* A pop gives the registers back what was pushed, and a program counter   *)
(* popped is where the mode goes on, after the interrupt if one comes; but *)
(* a fast interrupt in the handler of another takes its r14.               *)
PopsWhatWasPushed ==
  [][insn' # None /\ IsPop(insn') =>
      \A n \in insn'.list :
        LET k == 1 + Cardinality({x \in insn'.list : x < n})
            word == stack[Mode(s)][k]
            interrupted == s'.user[15] = \h1C /\ left' # None
        IN k <= Len(stack[Mode(s)]) =>
             IF n = 15 THEN s'.user[15] = word \/ (interrupted /\ left'.pc = word)
             ELSE View(s', Mode(s'), Mode(s), n) = word
                    \/ (n = 14 /\ Mode(s) = "fiq" /\ interrupted)]_vars

(* A matrix call on many vectors gives for each the product of the vector  *)
(* that was there, also when it replaces the vectors by their products.    *)
Apart(a, b, size1, size2) == a + size1 <= b \/ b + size2 <= a

ManyInPlace ==
  [][insn' # None /\ insn'.op = "swi" /\ Software[sw].hle /\ insn'.number \in {2, 9} =>
      LET n == IF insn'.number = 2 THEN 3 ELSE 4
          dest == s.user[0] src == s.user[1] mat == s.user[2] count == Signed(H, s.user[3])
          size == 4 * n * count
          v(k, i) == Number(s.ram, src + 4 * (n * k + i))
          entry(i, j) == Number(s.ram, mat + 4 * (n * i + j))
      IN /\ dest = src \/ Apart(dest, src, size, size)
         /\ Apart(dest, mat, size, 4 * n * n)
         => \A k \in 0 .. count - 1, j \in 0 .. n - 1 :
              Number(s'.ram, dest + 4 * (n * k + j)) =
                Signed(H, Wrap(Sum([i \in 1 .. n |-> v(k, i - 1) * entry(i - 1, j)]) \div One))]_vars

(* The state between two instructions: stacks hold what was pushed, and    *)
(* the flags mean what a program tests them for.                           *)
Inv == TypeOK /\ StackHeld /\ ConditionsMean
=============================================================================
