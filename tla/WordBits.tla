------------------------------ MODULE WordBits -------------------------------
(***************************************************************************)
(* The bits of words, for the logic operations and shifters of the two     *)
(* processors.  A word with the top bit h = 2^(w-1) has w bits.            *)
(***************************************************************************)
EXTENDS WordArith

(* The powers of two, as a function that proofs can unfold.                *)
Pow2[n \in Nat] == IF n = 0 THEN 1 ELSE 2 * Pow2[n - 1]

Bit(x, k) == (x \div Pow2[k]) % 2
BitsOf(w, x) == {k \in 0 .. w - 1 : Bit(x, k) = 1}

(* The word of w bits that has the bits in s.                              *)
FromBits(w, s) ==
  LET lower[n \in 0 .. w] ==
        IF n = 0 THEN 0
                 ELSE lower[n - 1] + (IF n - 1 \in s THEN Pow2[n - 1] ELSE 0)
  IN  lower[w]

AndWords(w, a, b) == FromBits(w, BitsOf(w, a) \intersect BitsOf(w, b))
OrWords(w, a, b) == FromBits(w, BitsOf(w, a) \union BitsOf(w, b))
XorWords(w, a, b) == FromBits(w, {k \in 0 .. w - 1 : Bit(a, k) # Bit(b, k)})

(* Shifts by less than the width.                                          *)
ShiftLeft(w, x, n) == (x % Pow2[w - n]) * Pow2[n]
ShiftSigned(w, x, n) == (Signed(Pow2[w - 1], x) \div Pow2[n]) % Pow2[w]
RotateRight(w, x, n) == (x \div Pow2[n]) + ShiftLeft(w, x % Pow2[n], (w - n) % w)

(* The low word of a product, added up bit by bit so that no intermediate  *)
(* value is wider than a word and its carry.                               *)
LowProduct(w, x, y) ==
  LET sum[n \in 0 .. w] ==
        IF n = 0 THEN 0
                 ELSE (sum[n - 1] + (IF Bit(y, n - 1) = 1 THEN ShiftLeft(w, x, n - 1) ELSE 0))
                        % Pow2[w]
  IN  sum[w]
=============================================================================
