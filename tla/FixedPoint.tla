------------------------------ MODULE FixedPoint -----------------------------
(***************************************************************************)
(* The matrix calls of the 3DO's operating system as the emulator does     *)
(* them itself (opera_swi_hle_0x5XXXX.h, opera_fixedpoint_math.c): vectors *)
(* and matrices of fixed-point numbers in memory, half of whose bits are   *)
(* the fraction.  Memory is a function from word addresses, zero where it  *)
(* was not written; every address given is a multiple of 4.                *)
(***************************************************************************)
EXTENDS ArmAlu

Cell(m, a) == IF a \in DOMAIN m THEN m[a] ELSE 0
Put(m, a, v) == [x \in DOMAIN m \union {a} |-> IF x = a THEN v ELSE Cell(m, x)]

(* A vector, a matrix of n rows, and what storing a vector leaves.         *)
Number(m, a) == Signed(H, Cell(m, a))
Vector(m, a, n) == [i \in 1 .. n |-> Number(m, a + 4 * (i - 1))]
Matrix(m, a, n) == [i \in 1 .. n |-> Vector(m, a + 4 * n * (i - 1), n)]

Store(m, a, v) ==
  [x \in DOMAIN m \union {a + 4 * (i - 1) : i \in DOMAIN v} |->
    IF \E i \in DOMAIN v : x = a + 4 * (i - 1) THEN v[1 + ((x - a) \div 4)] ELSE Cell(m, x)]

(* Products have twice the bits; half the fraction and what is too large   *)
(* are cut off.                                                            *)
F == W \div 2
One == Pow2[F]    \* the number 1
Frac(x) == Wrap(x \div One)
Sum(f) == f[1] + f[2] + f[3] + (IF 4 \in DOMAIN f THEN f[4] ELSE 0)
Dot(u, v) == Sum([i \in DOMAIN u |-> u[i] * v[i]])
Column(mat, j) == [i \in DOMAIN mat |-> mat[i][j]]
Row(v, mat) == [j \in DOMAIN v |-> Frac(Dot(v, Column(mat, j)))]

(* Mutant: each component is stored before the next is computed.           *)
MulVec_OneByOne(m, dest, src, mat, n) ==
  LET after[j \in 0 .. n] ==
        IF j = 0 THEN m
        ELSE Put(after[j - 1], dest + 4 * (j - 1),
                 Row(Vector(after[j - 1], src, n), Matrix(after[j - 1], mat, n))[j])
  IN  after[n]

(* MulVec3Mat33_F16, MulVec4Mat44_F16.  The result is complete before any  *)
(* of it is stored.                                                        *)
MulVec(m, dest, src, mat, n) == Store(m, dest, Row(Vector(m, src, n), Matrix(m, mat, n)))

(* MulMat33Mat33_F16, MulMat44Mat44_F16.                                   *)
MulMat(m, dest, src, mat, n) ==
  Store(m, dest, [k \in 1 .. n * n |->
    Row(Matrix(m, src, n)[1 + ((k - 1) \div n)], Matrix(m, mat, n))[1 + ((k - 1) % n)]])

(* Dot3_F16, Cross3_F16.                                                   *)
DotProduct(m, v1, v2, n) == Frac(Dot(Vector(m, v1, n), Vector(m, v2, n)))

Cross(m, dest, v1, v2) ==
  LET u == Vector(m, v1, 3) v == Vector(m, v2, 3)
      minor(i, j) == Frac(u[i] * v[j] - u[j] * v[i])
  IN Store(m, dest, <<minor(2, 3), minor(3, 1), minor(1, 2)>>)

(* sqrt_frac16 takes the bits of its argument half a word at a time, and   *)
(* its root never moves up.                                                *)
SqrtStep(s) ==
  LET low == s.lo \div One
      hi == IF low < 0 THEN low ELSE Signed(H, Wrap(s.hi * One)) + low
      test == 2 * s.root + 1
  IN [lo |-> Signed(H, Wrap(s.lo * One)),
      hi |-> IF hi >= test THEN hi - test ELSE hi,
      root |-> IF hi >= test THEN s.root + 1 ELSE s.root]

Sqrt(x) ==
  LET after[k \in 0 .. F + 1] ==
        IF k = 0 THEN [lo |-> Signed(H, x), hi |-> 0, root |-> 0] ELSE SqrtStep(after[k - 1])
  IN  after[F + 1].root

(* AbsVec3_F16, AbsVec4_F16.                                               *)
AbsVec(m, v, n) == Sqrt(DotProduct(m, v, v, n))

(* MulVec3Mat33DivZ_F16: the product, seen from a distance scaler: the     *)
(* first two coordinates are scaled by it over the third.  C's division    *)
(* cuts towards zero.                                                      *)
Size(x) == IF x < 0 THEN -x ELSE x
Quotient(x, y) == LET q == Size(x) \div Size(y) IN IF (x < 0) = (y < 0) THEN q ELSE -q

DivZ(m, dest, src, mat, scaler) ==
  LET p == MulVec(m, dest, src, mat, 3)
      z == Number(p, dest + 8)
      mul == Quotient(scaler * One, z)
  IN IF z = 0 THEN p
     ELSE Store(p, dest, [i \in 1 .. 2 |-> Frac(Number(p, dest + 4 * (i - 1)) * mul)])

(* Calls on many vectors or numbers (MulManyVec3Mat33_F16,                 *)
(* MulManyVec4Mat44_F16, MulManyF16, MulScalerF16,                         *)
(* MulManyVec3Mat33DivZ_F16) do one after the other, and read the matrix   *)
(* again for each; a negative count does nothing.  r holds the arguments.  *)
Each(m, call, r, k) ==
  CASE call = 2 -> MulVec(m, r[0] + 12 * k, r[1] + 12 * k, r[2], 3)
    [] call = 9 -> MulVec(m, r[0] + 16 * k, r[1] + 16 * k, r[2], 4)
    [] call = 5 -> Put(m, r[0] + 4 * k, Frac(Number(m, r[1] + 4 * k) * Number(m, r[2] + 4 * k)))
    [] call = 6 -> Put(m, r[0] + 4 * k, Frac(Number(m, r[1] + 4 * k) * Signed(H, r[2])))
    [] call = 18 -> DivZ(m, r[0] + 12 * k, r[1] + 12 * k, r[2], Signed(H, r[3]))

Many(m, call, r, count) ==
  LET after[k \in 0 .. (IF count < 0 THEN 0 ELSE count)] ==
        IF k = 0 THEN m ELSE Each(after[k - 1], call, r, k - 1)
  IN  after[IF count < 0 THEN 0 ELSE count]
-----------------------------------------------------------------------------
(* The calls, by the low byte of their number; r holds the registers.  A   *)
(* call that is not done here goes to the operating system.                *)
Hle == {0, 1, 2, 5, 6, 7, 8, 9, 12, 14, 15, 16, 17, 18}

(* Calls that store; the last one finds its arguments in memory.           *)
HleStore(m, call, r) ==
  CASE call = 0 -> MulVec(m, r[0], r[1], r[2], 3)
    [] call = 1 -> MulMat(m, r[0], r[1], r[2], 3)
    [] call \in {2, 5, 6, 9} -> Many(m, call, r, Signed(H, r[3]))
    [] call = 7 -> MulVec(m, r[0], r[1], r[2], 4)
    [] call = 8 -> MulMat(m, r[0], r[1], r[2], 4)
    [] call = 14 -> Cross(m, r[0], r[1], r[2])
    [] call = 17 -> DivZ(m, r[0], r[1], r[2], Signed(H, r[3]))
    [] call = 18 -> Many(m, call, [j \in 0 .. 3 |-> Cell(m, r[0] + 4 * j)], Cell(m, r[0] + 16))
    [] OTHER -> m

(* Calls that answer in r0.                                                *)
HleAnswer(m, call, r) ==
  CASE call = 12 -> DotProduct(m, r[0], r[1], 3)
    [] call = 15 -> AbsVec(m, r[0], 3)
    [] call = 16 -> AbsVec(m, r[0], 4)
    [] OTHER -> r[0]
=============================================================================
