------------------------------ MODULE WordArith ------------------------------
(***************************************************************************)
(* Arithmetic on words as both processors of the emulator compute it, the  *)
(* ARM (opera_arm.c) and the DSP (opera_dsp.c): sums and differences wrap  *)
(* around, and carry and overflow are made from the top bits of the two    *)
(* operands and the result.  A word with the top bit h counts to 2h.       *)
(***************************************************************************)
EXTENDS Integers

Word(h) == 0 .. 2 * h - 1
TopSet(h, x) == x >= h
Complement(h, x) == 2 * h - 1 - x
Signed(h, x) == IF TopSet(h, x) THEN x - 2 * h ELSE x

(* A sum or difference of two words and a carry, cut to a word.            *)
Cut(h, x) == IF x >= 2 * h THEN x - 2 * h ELSE IF x < 0 THEN x + 2 * h ELSE x
Add(h, a, b, carry) == Cut(h, a + b + carry)
Sub(h, a, b, carry) == Cut(h, a - b - (1 - carry))

AddCarry(h, a, b, y) ==
  \/ TopSet(h, a) /\ TopSet(h, b)
  \/ ~TopSet(h, y) /\ (TopSet(h, a) \/ TopSet(h, b))

AddOverflow(h, a, b, y) ==
  \/ TopSet(h, a) /\ TopSet(h, b) /\ ~TopSet(h, y)
  \/ ~TopSet(h, a) /\ ~TopSet(h, b) /\ TopSet(h, y)

SubCarry(h, a, b, y) ==
  \/ TopSet(h, a) /\ ~TopSet(h, b)
  \/ ~TopSet(h, y) /\ (TopSet(h, a) \/ ~TopSet(h, b))

SubOverflow(h, a, b, y) ==
  \/ TopSet(h, a) /\ ~TopSet(h, b) /\ ~TopSet(h, y)
  \/ ~TopSet(h, a) /\ TopSet(h, b) /\ TopSet(h, y)
-----------------------------------------------------------------------------
(* What the flags mean: the result did not fit, as a number without sign   *)
(* (a carry, or no borrow) or with one.                                    *)
AddExact(h, a, b, carry) ==
  LET y == Add(h, a, b, carry) IN
  /\ AddCarry(h, a, b, y) <=> a + b + carry >= 2 * h
  /\ AddOverflow(h, a, b, y) <=>
       Signed(h, y) # Signed(h, a) + Signed(h, b) + carry

SubExact(h, a, b, carry) ==
  LET y == Sub(h, a, b, carry) IN
  /\ SubCarry(h, a, b, y) <=> a >= b + (1 - carry)
  /\ SubOverflow(h, a, b, y) <=>
       Signed(h, y) # Signed(h, a) - Signed(h, b) - (1 - carry)

(* How a program compares two words: it subtracts and looks at the flags.  *)
CompareExact(h, a, b) ==
  LET y == Sub(h, a, b, 1) IN
  /\ a >= b <=> SubCarry(h, a, b, y)
  /\ a > b <=> SubCarry(h, a, b, y) /\ y # 0
  /\ a = b <=> y = 0
  /\ Signed(h, a) < Signed(h, b) <=> ~(TopSet(h, y) <=> SubOverflow(h, a, b, y))
=============================================================================
