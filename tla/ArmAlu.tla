-------------------------------- MODULE ArmAlu -------------------------------
(***************************************************************************)
(* What an instruction of the emulated ARM60 computes (opera_arm.c): its   *)
(* condition, its shifted operand, the result and flags of the sixteen ALU *)
(* operations, and the time a multiplication takes.                        *)
(***************************************************************************)
EXTENDS WordBits, Sequences

CONSTANT W    \* bits of a word; 32
H == Pow2[W - 1]
Data == Word(H)
Wrap(x) == x % (2 * H)

(* cond_flags_cross: for each condition, the bit of NZCV is set for which  *)
(* it holds.                                                               *)
CondFlagsCross ==
  <<\hf0f0, \h0f0f, \hcccc, \h3333, \hff00, \h00ff, \haaaa, \h5555,
    \h0c0c, \hf3f3, \haa55, \h55aa, \h0a05, \hf5fa, \hffff, \h0000>>

NZCV(p) == (IF p.n THEN 8 ELSE 0) + (IF p.z THEN 4 ELSE 0) + (IF p.c THEN 2 ELSE 0)
             + (IF p.v THEN 1 ELSE 0)
Passes(cond, p) == Bit(CondFlagsCross[cond + 1], NZCV(p)) = 1

(* ARM_SHIFT_NSC: left, logical and arithmetic right, rotate; and a rotate *)
(* through the carry.  carry is what the shift pushes out.                 *)
Shifted(type, x, n, c) ==
  LET sign == Bit(x, W - 1) IN
  CASE n = 0 /\ type # 4 -> [val |-> x, carry |-> c]
    [] n > 0 /\ type = 0 ->
         [val |-> IF n >= W THEN 0 ELSE ShiftLeft(W, x, n),
          carry |-> n <= W /\ Bit(x, W - n) = 1]
    [] n > 0 /\ type = 1 ->
         [val |-> IF n >= W THEN 0 ELSE x \div Pow2[n],
          carry |-> n <= W /\ Bit(x, n - 1) = 1]
    [] n > 0 /\ type = 2 ->
         [val |-> IF n >= W THEN sign * (2 * H - 1) ELSE ShiftSigned(W, x, n),
          carry |-> (IF n > W THEN sign ELSE Bit(x, n - 1)) = 1]
    [] n > 0 /\ type = 3 ->
         [val |-> RotateRight(W, x, n % W), carry |-> Bit(x, (n - 1) % W) = 1]
    [] type = 4 ->
         [val |-> (x \div 2) + (IF c THEN H ELSE 0), carry |-> x % 2 = 1]

(* In an instruction, a shift by zero stands for one by the width, or for  *)
(* the rotate through the carry.                                           *)
ImmediateShift(type, n) ==
  IF n # 0 \/ type = 0 THEN [type |-> type, n |-> n]
  ELSE IF type = 3 THEN [type |-> 4, n |-> 0] ELSE [type |-> type, n |-> W]

(* The ALU (ARM_ALU_Exec).                                                 *)
IsLogic == {0, 1, 8, 9, 12, 13, 14, 15}
IsCompare == {8, 9, 10, 11}
Carry(c) == IF c THEN 1 ELSE 0
And(a, b) == AndWords(W, a, b)

Result(code, a, b, c) ==
  CASE code \in {0, 8} -> And(a, b)
    [] code \in {1, 9} -> XorWords(W, a, b)
    [] code \in {2, 10} -> Sub(H, a, b, 1)
    [] code = 3 -> Sub(H, b, a, 1)
    [] code \in {4, 11} -> Add(H, a, b, 0)
    [] code = 5 -> Add(H, a, b, Carry(c))
    [] code = 6 -> Sub(H, a, b, Carry(c))
    [] code = 7 -> Sub(H, b, a, Carry(c))
    [] code = 12 -> OrWords(W, a, b)
    [] code = 13 -> b
    [] code = 14 -> And(a, Complement(H, b))
    [] code = 15 -> Complement(H, b)

SetZN(p, y) == [p EXCEPT !.z = y = 0, !.n = TopSet(H, y)]

(* Mutant: a comparison leaves the overflow flag alone.                    *)
Flags_NoOverflow(p, code, a, b, y) ==
  LET q == SetZN(p, y) IN
  IF code \in {2, 6, 10} THEN [q EXCEPT !.c = SubCarry(H, a, b, y)] ELSE q

Flags(p, code, a, b, y) ==
  LET q == SetZN(p, y) IN
  CASE code \in IsLogic -> q
    [] code \in {2, 6, 10} -> [q EXCEPT !.c = SubCarry(H, a, b, y), !.v = SubOverflow(H, a, b, y)]
    [] code \in {3, 7} -> [q EXCEPT !.c = SubCarry(H, b, a, y), !.v = SubOverflow(H, b, a, y)]
    [] code \in {4, 5, 11} -> [q EXCEPT !.c = AddCarry(H, a, b, y), !.v = AddOverflow(H, a, b, y)]

(* calcbits counts the bits of a number; a multiplication takes half of    *)
(* them, at most 16.                                                       *)
CalcBits(x) ==
  IF x = 0 THEN 1 ELSE 1 + (CHOOSE k \in 0 .. W - 1 : Pow2[k] <= x /\ x < Pow2[k + 1])

MulCycles(x) ==
  LET n == ((CalcBits(x) + 5) \div 2) - 1 IN IF n > 16 THEN 16 ELSE n
=============================================================================
