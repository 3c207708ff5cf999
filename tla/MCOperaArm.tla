------------------------------ MODULE MCOperaArm -----------------------------
EXTENDS OperaArm, TLC

Imm(v) == [kind |-> "imm", val |-> v]
Plain(rm) == [kind |-> "reg", rm |-> rm, type |-> 0, n |-> 0]
AluOp(code, s1, rd, rn, o2) ==
  [op |-> "alu", cond |-> 14, code |-> code, s |-> s1, rd |-> rd, rn |-> rn, o2 |-> o2]
Mov(rd, v) == AluOp(13, FALSE, rd, 0, Imm(v))
Cmp(rn, o2) == AluOp(10, TRUE, 0, rn, o2)
Msr(v) == AluOp(9, FALSE, 0, 1, Imm(v))
ReturnFrom == AluOp(13, TRUE, 15, 0, Plain(14))
ReturnFiq == AluOp(2, TRUE, 15, 14, Imm(4))
Block(load, list) ==
  [op |-> "block", cond |-> 14, load |-> load, pre |-> ~load, up |-> load, user |-> FALSE,
   wb |-> TRUE, rn |-> 13, list |-> list]
Push(list) == Block(FALSE, list)
Pop(list) == Block(TRUE, list)
Copy(load, rn, list) == [Block(load, list) EXCEPT !.pre = FALSE, !.up = TRUE, !.rn = rn]
Jump(offset, link) == [op |-> "branch", cond |-> 14, link |-> link, offset |-> offset]
Call(n) == [op |-> "swi", cond |-> 14, number |-> n]
Move1(load, rd, rn, wb) ==
  [op |-> "transfer", cond |-> 14, load |-> load, byte |-> FALSE, pre |-> FALSE, up |-> TRUE,
   wb |-> wb, rd |-> rd, rn |-> rn, o2 |-> Imm(4)]

R == \h3000000
Program(base, s1) == [a \in {base + 4 * (k - 1) : k \in DOMAIN s1} |-> s1[1 + ((a - base) \div 4)]]

\* Main programs: the fast interrupt's stack is set up, then a loop pushes,
\* does something, and pops, as the operating system or as a user.
Main(mode, first, body) ==
  Program(R, <<{Msr(209)}, {Mov(13, 8192)}, mode, {Mov(13, 4096)},
               {first}, {Push({0, 8})}, body,
               {Pop({0, 8})}, {Jump(-24, FALSE)}, {}, {Push({8, 14})}, {Pop({8, 15})}>>)

\* Handlers: of undefined instructions, calls, and the fast interrupt.
Handlers(body) ==
  Program(4, <<{ReturnFrom}, {ReturnFrom}>>)
    @@ Program(\h1C, <<{Push({0, 8})}, body, {Pop({0, 8})}, {ReturnFiq}>>)

Users == [Block(TRUE, {8, 14}) EXCEPT !.user = TRUE, !.wb = FALSE]
Swp == [op |-> "swap", cond |-> 14, byte |-> TRUE, rn |-> 10, rd |-> 0, rm |-> 8]
Mla == [op |-> "mul", cond |-> 14, acc |-> TRUE, s |-> FALSE, rd |-> 8, rn |-> 0, rs |-> 9, rm |-> 0]

MCInterrupts ==
  [hle |-> FALSE,
   code |-> Main({Msr(16), Msr(147)}, Cmp(0, Imm(1)),
                 {Mov(8, H), Call(20), Jump(8, TRUE), Users, OddLoad})
              @@ Handlers({Cmp(8, Imm(H))})]
MCCalls ==
  [hle |-> FALSE,
   code |-> Main({Msr(19)}, Mov(0, 1), {Cmp(8, Plain(0)), [op |-> "undefined", cond |-> 11]})
              @@ Handlers({Call(21), Mov(8, H)})]

\* A matrix and two vectors are copied from the ROM and multiplied, in place
\* or not; a device is written to; the registers are loaded from the ROM.
MCMatrix ==
  [hle |-> TRUE,
   code |-> Program(R, <<{Msr(211)}, {Mov(9, R + 256)}, {Mov(10, 256)},
     {Copy(TRUE, 9, 1 .. 8)}, {Copy(FALSE, 10, 1 .. 8)},
     {Copy(TRUE, 9, 1 .. 8)}, {Copy(FALSE, 10, 1 .. 8)},
     {Mov(0, 292), Mov(0, 1024)}, {Mov(1, 292)}, {Mov(2, 256)}, {Mov(3, 2)}, {Call(2)},
     {Mov(0, 48)}, {Mov(1, \h3400028)}, {Move1(FALSE, 0, 1, FALSE)}, {Mov(4, 1)},
     {Move1(TRUE, 4, 1, TRUE)}, {Swp}, {Mla}, {Mov(9, R + 512)},
     {[Copy(TRUE, 9, Regs) EXCEPT !.wb = FALSE]}>>)]

Half == 2^(W \div 2 - 1)
MCRom == [a \in {256 + 4 * k : k \in 0 .. 14} |->
           Half * (IF (a \div 4) % 3 = 0 THEN 2^W \div Half - 1 ELSE (a \div 4) % 5)]
          @@ [a \in {512 + 4 * k : k \in 0 .. 15} |-> IF a = 572 THEN R ELSE 1]
\* Operations with shifted registers, and the saved status.
MCShifts ==
  [hle |-> FALSE,
   code |-> Program(R, <<{Msr(211)}, {Mov(0, v) : v \in {H, 2 * H - 1}},
     {Mov(1, n) : n \in {1, W, W + 1}},
     {AluOp(code, TRUE, 2, 0, [kind |-> "by", rm |-> 0, rs |-> 1, type |-> 1]) : code \in 0 .. 15}
       \union {AluOp(13, TRUE, 2, 0, [kind |-> "by", rm |-> 0, rs |-> 1, type |-> t]) : t \in 0 .. 3},
     {Cmp(2, [kind |-> "reg", rm |-> 0, type |-> 3, n |-> 0])},
     {AluOp(8, FALSE, 3, 0, Plain(0))}, {AluOp(11, FALSE, 0, 1, Plain(3))},
     {AluOp(10, FALSE, 4, 0, Plain(0))}, {[op |-> "coprocessor", cond |-> 14]}, {Jump(-8, FALSE)}>>)
              @@ Program(4, <<{ReturnFrom}>>)]

MCSoftware ==
  [interrupts |-> MCInterrupts, calls |-> MCCalls, matrix |-> MCMatrix, shifts |-> MCShifts]
=============================================================================
