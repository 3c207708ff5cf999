---- MODULE OperaDsp_proofs ----
EXTENDS OperaDsp, FiniteSetTheorems, WellFoundedInduction, TLAPS
-----------------------------------------------------------------------------
(* A set of natural numbers has a least element, which stands for          *)
(* induction below.                                                        *)
Below == {ss \in Nat \X Nat : ss[1] < ss[2]}

LEMMA BelowWellFounded == IsWellFoundedOn(Below, Nat)
  BY NatLessThanWellFounded, Zenon DEF OpToRel, Below

LEMMA Least ==
  ASSUME NEW S \in SUBSET Nat, S # {}
  PROVE  \E m \in S : \A n \in S : m <= n
<1>1. \A x, y \in Nat : x < y => <<x, y>> \in Below
  BY DEF Below
<1>2. PICK m \in S : \A y \in S : ~(<<y, m>> \in Below)
  BY BelowWellFounded, WFMin
<1>3. ASSUME NEW y \in S PROVE m <= y
  <2>1. m \in Nat /\ y \in Nat
    BY <1>2
  <2>2. ~(y < m)
    BY <1>1, <1>2, <2>1
  <2> QED
    BY <2>1, <2>2
<1> QED
  BY <1>3
-----------------------------------------------------------------------------
(* Pow2 and FromBits are recursive functions: for every n there is one     *)
(* that is right up to n, by taking one step more than for the n before.   *)
Powers(f, n) == f = [i \in 0 .. n |-> IF i = 0 THEN 1 ELSE 2 * f[i - 1]]

LEMMA PowersExist ==
  ASSUME NEW n \in Nat
  PROVE  \E f : Powers(f, n)
<1> DEFINE Missing == {k \in Nat : ~\E f : Powers(f, k)}
<1>1. SUFFICES ASSUME Missing # {} PROVE FALSE
  OBVIOUS
<1>2. PICK m \in Missing : \A k \in Missing : m <= k
  BY <1>1, Least
<1>3. m # 0
  <2>1. Powers([i \in 0 .. 0 |-> 1], 0)
    BY DEF Powers
  <2> QED
    BY <1>2, <2>1
<1>4. m - 1 \in Nat /\ m - 1 \notin Missing
  BY <1>2, <1>3
<1>5. PICK f : Powers(f, m - 1)
  BY <1>4
<1> DEFINE g == [i \in 0 .. m |-> IF i = m THEN 2 * f[m - 1] ELSE f[i]]
<1>6. ASSUME NEW i \in 0 .. m
      PROVE  g[i] = IF i = 0 THEN 1 ELSE 2 * g[i - 1]
  <2>1. CASE i = m
    <3>1. g[i] = 2 * f[m - 1] /\ g[i - 1] = f[m - 1]
      BY <1>2, <1>3, <2>1
    <3> QED
      BY <1>3, <2>1, <3>1
  <2>2. CASE i # m
    <3>1. i \in 0 .. m - 1 /\ g[i] = f[i]
      BY <1>2, <1>6, <2>2
    <3>2. f[i] = IF i = 0 THEN 1 ELSE 2 * f[i - 1]
      BY <1>5, <3>1 DEF Powers
    <3>3. i # 0 => g[i - 1] = f[i - 1]
      BY <1>2, <3>1
    <3> QED
      BY <3>1, <3>2, <3>3
  <2> QED
    BY <2>1, <2>2
<1>7. Powers(g, m)
  BY <1>6 DEF Powers
<1> QED
  BY <1>2, <1>7

LEMMA PowersAt ==
  ASSUME NEW f, NEW n \in Nat, Powers(f, n), NEW i \in Nat, i <= n
  PROVE  f[i] = IF i = 0 THEN 1 ELSE 2 * f[i - 1]
<1>1. i \in 0 .. n
  OBVIOUS
<1> QED
  BY <1>1 DEF Powers

(* Two of them agree where both are defined.                               *)
LEMMA PowersAgree ==
  ASSUME NEW f, NEW g, NEW n \in Nat, NEW k \in Nat, Powers(f, n), Powers(g, k),
         NEW i \in Nat, i <= n, i <= k
  PROVE  f[i] = g[i]
<1> DEFINE Apart == {j \in Nat : j <= n /\ j <= k /\ f[j] # g[j]}
<1>1. SUFFICES ASSUME Apart # {} PROVE FALSE
  OBVIOUS
<1>2. PICK m \in Apart : \A j \in Apart : m <= j
  BY <1>1, Least
<1>3. /\ f[m] = IF m = 0 THEN 1 ELSE 2 * f[m - 1]
      /\ g[m] = IF m = 0 THEN 1 ELSE 2 * g[m - 1]
  BY <1>2, PowersAt
<1>4. m # 0 => f[m - 1] = g[m - 1]
  <2>1. ASSUME m # 0 PROVE m - 1 \in Nat /\ m - 1 \notin Apart /\ m - 1 <= n /\ m - 1 <= k
    BY <1>2, <2>1
  <2> QED
    BY <2>1
<1> QED
  BY <1>2, <1>3, <1>4

LEMMA Pow2Unfolds == \A n \in Nat : Pow2[n] = IF n = 0 THEN 1 ELSE 2 * Pow2[n - 1]
<1> DEFINE fn(n) == CHOOSE f : Powers(f, n)
           all == [n \in Nat |-> fn(n)[n]]
           right(f) == f = [n \in Nat |-> IF n = 0 THEN 1 ELSE 2 * f[n - 1]]
<1>1. \A n \in Nat : Powers(fn(n), n)
  BY PowersExist
<1> HIDE DEF fn
<1>2. ASSUME NEW n \in Nat PROVE all[n] = IF n = 0 THEN 1 ELSE 2 * all[n - 1]
  <2>1. fn(n)[n] = IF n = 0 THEN 1 ELSE 2 * fn(n)[n - 1]
    BY <1>1, PowersAt
  <2>2. CASE n = 0
    BY <2>1, <2>2
  <2>3. CASE n # 0
    <3>1. n - 1 \in Nat /\ n - 1 <= n /\ n - 1 <= n - 1
      BY <2>3
    <3>2. fn(n)[n - 1] = fn(n - 1)[n - 1]
      BY <1>1, <3>1, PowersAgree
    <3> QED
      BY <2>1, <2>3, <3>1, <3>2
  <2> QED
    BY <2>2, <2>3
<1>3. right(all)
  BY <1>2
<1>4. Pow2 = CHOOSE f : right(f)
  BY DEF Pow2
<1> HIDE DEF all
<1>5. right(Pow2)
  BY <1>3, <1>4
<1> QED
  BY <1>5

LEMMA Pow2Positive == \A n \in Nat : Pow2[n] \in Nat \ {0}
<1> DEFINE Wrong == {n \in Nat : Pow2[n] \notin Nat \ {0}}
<1>1. SUFFICES ASSUME Wrong # {} PROVE FALSE
  OBVIOUS
<1>2. PICK m \in Wrong : \A n \in Wrong : m <= n
  BY <1>1, Least
<1>3. Pow2[m] = IF m = 0 THEN 1 ELSE 2 * Pow2[m - 1]
  BY <1>2, Pow2Unfolds
<1>4. m # 0 => m - 1 \in Nat /\ m - 1 \notin Wrong
  BY <1>2
<1> QED
  BY <1>2, <1>3, <1>4

LEMMA Pow2Next == \A n \in Nat : Pow2[n + 1] = 2 * Pow2[n]
<1>1. ASSUME NEW n \in Nat PROVE Pow2[n + 1] = 2 * Pow2[n]
  <2>1. n + 1 \in Nat /\ n + 1 # 0 /\ (n + 1) - 1 = n
    OBVIOUS
  <2> QED
    BY <2>1, Pow2Unfolds
<1> QED
  BY <1>1

LEMMA Doubled == ASSUME NEW a \in Nat, NEW b \in Nat, NEW c \in Nat, a = b * c
                 PROVE  2 * a = b * (2 * c)
  OBVIOUS

LEMMA Pow2Sum == \A m, n \in Nat : Pow2[m + n] = Pow2[m] * Pow2[n]
<1>1. ASSUME NEW m \in Nat PROVE \A n \in Nat : Pow2[m + n] = Pow2[m] * Pow2[n]
  <2> DEFINE Wrong == {n \in Nat : Pow2[m + n] # Pow2[m] * Pow2[n]}
  <2>1. SUFFICES ASSUME Wrong # {} PROVE FALSE
    OBVIOUS
  <2>2. PICK k \in Wrong : \A n \in Wrong : k <= n
    BY <2>1, Least
  <2>3. Pow2[m] \in Nat /\ Pow2[0] = 1 /\ m + 0 = m
    BY Pow2Unfolds, Pow2Positive
  <2>4. k # 0
    BY <2>2, <2>3
  <2>5. k - 1 \in Nat /\ k - 1 \notin Wrong
    BY <2>2, <2>4
  <2>6. Pow2[m + (k - 1)] = Pow2[m] * Pow2[k - 1]
    BY <2>5
  <2>7. /\ m + (k - 1) \in Nat /\ (m + (k - 1)) + 1 = m + k /\ (k - 1) + 1 = k
    BY <2>5
  <2>8. Pow2[m + k] = 2 * Pow2[m + (k - 1)] /\ Pow2[k] = 2 * Pow2[k - 1]
    BY <2>5, <2>7, Pow2Next
  <2>9. Pow2[m + (k - 1)] \in Nat /\ Pow2[k - 1] \in Nat
    BY <2>5, <2>7, Pow2Positive
  <2>10. 2 * Pow2[m + (k - 1)] = Pow2[m] * (2 * Pow2[k - 1])
    BY <2>3, <2>6, <2>9, Doubled
  <2> QED
    BY <2>2, <2>8, <2>10
<1> QED
  BY <1>1
-----------------------------------------------------------------------------
(* A word made of w bits is below 2^w.                                     *)
Lower(f, w, s) ==
  f = [n \in 0 .. w |-> IF n = 0 THEN 0
                        ELSE f[n - 1] + (IF n - 1 \in s THEN Pow2[n - 1] ELSE 0)]

LEMMA LowerExists ==
  ASSUME NEW s, NEW w \in Nat
  PROVE  \E f : Lower(f, w, s)
<1> DEFINE Missing == {k \in Nat : ~\E f : Lower(f, k, s)}
           part(k) == IF k \in s THEN Pow2[k] ELSE 0
<1>1. SUFFICES ASSUME Missing # {} PROVE FALSE
  OBVIOUS
<1>2. PICK m \in Missing : \A k \in Missing : m <= k
  BY <1>1, Least
<1>3. m # 0
  <2>1. Lower([i \in 0 .. 0 |-> 0], 0, s)
    BY DEF Lower
  <2> QED
    BY <1>2, <2>1
<1>4. m - 1 \in Nat /\ m - 1 \notin Missing
  BY <1>2, <1>3
<1>5. PICK f : Lower(f, m - 1, s)
  BY <1>4
<1> DEFINE g == [i \in 0 .. m |-> IF i = m THEN f[m - 1] + part(m - 1) ELSE f[i]]
<1>6. ASSUME NEW i \in 0 .. m
      PROVE  g[i] = IF i = 0 THEN 0 ELSE g[i - 1] + part(i - 1)
  <2>1. CASE i = m
    <3>1. g[i] = f[m - 1] + part(m - 1) /\ g[i - 1] = f[m - 1]
      BY <1>2, <1>3, <2>1
    <3> QED
      BY <1>3, <2>1, <3>1
  <2>2. CASE i # m
    <3>1. i \in 0 .. m - 1 /\ g[i] = f[i]
      BY <1>2, <1>6, <2>2
    <3>2. f[i] = IF i = 0 THEN 0 ELSE f[i - 1] + part(i - 1)
      BY <1>5, <3>1 DEF Lower
    <3>3. i # 0 => g[i - 1] = f[i - 1]
      BY <1>2, <3>1
    <3> HIDE DEF part, g
    <3> QED
      BY <3>1, <3>2, <3>3
  <2> QED
    BY <2>1, <2>2
<1>7. Lower(g, m, s)
  BY <1>6 DEF Lower
<1> QED
  BY <1>2, <1>7

LEMMA FromBitsBelow ==
  ASSUME NEW w \in Nat, NEW s
  PROVE  FromBits(w, s) \in Nat /\ FromBits(w, s) < Pow2[w]
<1> DEFINE f == CHOOSE f : Lower(f, w, s)
           part(k) == IF k \in s THEN Pow2[k] ELSE 0
<1>1. FromBits(w, s) = f[w]
  BY DEF FromBits, Lower
<1>2. Lower(f, w, s)
  BY LowerExists
<1> HIDE DEF f
<1> DEFINE Wrong == {n \in Nat : n <= w /\ ~(f[n] \in Nat /\ f[n] < Pow2[n])}
<1>3. Wrong = {}
  <2>1. SUFFICES ASSUME Wrong # {} PROVE FALSE
    OBVIOUS
  <2>2. PICK m \in Wrong : \A n \in Wrong : m <= n
    BY <2>1, Least
  <2>3. f[m] = IF m = 0 THEN 0 ELSE f[m - 1] + part(m - 1)
    <3>1. m \in 0 .. w
      BY <2>2
    <3> QED
      BY <1>2, <3>1 DEF Lower
  <2>4. CASE m = 0
    <3>1. Pow2[0] \in Nat \ {0} /\ f[0] = 0
      BY <2>3, <2>4, Pow2Positive
    <3> QED
      BY <2>2, <2>4, <3>1
  <2>5. CASE m # 0
    <3>1. m - 1 \in Nat /\ m - 1 <= w /\ m - 1 \notin Wrong /\ (m - 1) + 1 = m
      BY <2>2, <2>5
    <3>2. f[m - 1] \in Nat /\ f[m - 1] < Pow2[m - 1]
      BY <3>1
    <3>3. Pow2[m - 1] \in Nat /\ Pow2[m] = 2 * Pow2[m - 1]
      BY <3>1, Pow2Positive, Pow2Next
    <3>4. part(m - 1) \in Nat /\ part(m - 1) <= Pow2[m - 1]
      BY <3>3
    <3> HIDE DEF part
    <3>5. f[m] = f[m - 1] + part(m - 1)
      BY <2>3, <2>5
    <3>6. f[m] \in Nat /\ f[m] < Pow2[m]
      BY <3>2, <3>3, <3>4, <3>5
    <3> QED
      BY <2>2, <3>6
  <2> QED
    BY <2>4, <2>5
<1> QED
  BY <1>1, <1>3
-----------------------------------------------------------------------------
(* The widths: Data are words of W bits, the accumulator has 2W.           *)
Half == Pow2[W - 1]
Whole == Pow2[W]

LEMMA Widths ==
  /\ W - 4 \in Nat /\ W - 1 \in Nat /\ W + 1 \in Nat /\ 2 * W - 1 \in Nat
  /\ One \in Nat \ {0} /\ Half = 8 * One /\ Whole = 16 * One /\ Pow2[W + 1] = 32 * One
  /\ H = Half * Whole /\ 2 * H = Whole * Whole /\ 2 * H = Pow2[2 * W]
  /\ Whole >= 2048
<1>1. W \in Nat /\ W >= 11
  BY DspAssumption
<1>2. /\ W - 4 \in Nat /\ W - 3 \in Nat /\ W - 2 \in Nat /\ W - 1 \in Nat
      /\ W + 1 \in Nat /\ 2 * W - 1 \in Nat
  BY <1>1
<1>3. /\ (W - 4) + 1 = W - 3 /\ (W - 3) + 1 = W - 2 /\ (W - 2) + 1 = W - 1
      /\ (W - 1) + 1 = W /\ (2 * W - 1) + 1 = 2 * W /\ (W - 1) + W = 2 * W - 1 /\ W + W = 2 * W
  BY <1>1
<1>4. /\ Pow2[W - 3] = 2 * One /\ Pow2[W - 2] = 2 * Pow2[W - 3]
      /\ Half = 2 * Pow2[W - 2] /\ Whole = 2 * Half /\ Pow2[W + 1] = 2 * Whole
      /\ Pow2[2 * W] = 2 * H
  BY <1>1, <1>2, <1>3, Pow2Next DEF One, Half, Whole, H
<1>5. One \in Nat \ {0}
  BY <1>2, Pow2Positive DEF One
<1>6. H = Half * Whole /\ Pow2[2 * W] = Whole * Whole
  BY <1>1, <1>2, <1>3, Pow2Sum DEF H, Half, Whole
<1>7. Whole >= 2048
  <2> DEFINE Small == {n \in Nat : n >= 11 /\ Pow2[n] < 2048}
  <2>1. Pow2[11] = 2048
    <3>1. Pow2[0] = 1
      BY Pow2Unfolds
    <3>2. Pow2[1] = 2 /\ Pow2[2] = 4 /\ Pow2[3] = 8 /\ Pow2[4] = 16
      <4>1. 0 + 1 = 1 /\ 1 + 1 = 2 /\ 2 + 1 = 3 /\ 3 + 1 = 4
        OBVIOUS
      <4> QED
        BY <3>1, <4>1, Pow2Next
    <3>3. Pow2[8] = 256
      <4>1. Pow2[4 + 4] = Pow2[4] * Pow2[4]
        BY Pow2Sum
      <4>2. 4 + 4 = 8 /\ 16 * 16 = 256
        OBVIOUS
      <4> QED
        BY <3>2, <4>1, <4>2
    <3>4. Pow2[8 + 3] = Pow2[8] * Pow2[3]
      BY Pow2Sum
    <3>5. 8 + 3 = 11 /\ 256 * 8 = 2048
      OBVIOUS
    <3> QED
      BY <3>2, <3>3, <3>4, <3>5
  <2>2. SUFFICES ASSUME Small # {} PROVE FALSE
    BY <1>1, <1>4, <1>5 DEF Whole
  <2>3. Small \in SUBSET Nat
    OBVIOUS
  <2>4. PICK m \in Small : \A n \in Small : m <= n
    <3> HIDE DEF Small
    <3> QED
      BY <2>2, <2>3, Least
  <2>5. m # 11
    BY <2>1, <2>4
  <2>6. m - 1 \in Nat /\ m - 1 >= 11 /\ m - 1 \notin Small /\ (m - 1) + 1 = m
    BY <2>4, <2>5
  <2>7. Pow2[m - 1] \in Nat /\ Pow2[m] = 2 * Pow2[m - 1]
    BY <2>6, Pow2Next, Pow2Positive
  <2> QED
    BY <2>4, <2>6, <2>7
<1> QED
  BY <1>2, <1>4, <1>5, <1>6, <1>7
-----------------------------------------------------------------------------
(* What the ALU and the shifter leave is a word of the accumulator.        *)
Accu == Word(H)

LEMMA AccuIs == H \in Nat \ {0} /\ Accu = {x \in Nat : x < 2 * H}
  BY Widths DEF Accu, Word

LEMMA ModIn == ASSUME NEW x \in Int PROVE Mod(x) \in Accu
<1>1. 2 * H \in Nat \ {0}
  BY AccuIs
<1> HIDE DEF H
<1>2. x % (2 * H) \in Nat /\ x % (2 * H) < 2 * H
  BY <1>1
<1> QED
  BY <1>2, AccuIs DEF Mod

LEMMA HiIn == ASSUME NEW x \in Int PROVE Hi(x) \in Accu
<1>1. x * Pow2[W] \in Int
  BY Widths DEF Whole
<1> QED
  BY <1>1, ModIn DEF Hi

LEMMA SignedIn ==
  ASSUME NEW x \in Int
  PROVE  S16(x) \in Int /\ S32(x) \in Int
<1>1. Pow2[W - 1] \in Nat /\ H \in Nat
  BY Widths DEF Half
<1> QED
  BY <1>1 DEF S16, S32, Signed, TopSet

(* A machine's operands as the ALU finds them.                             *)
Flags == [z : BOOLEAN, n : BOOLEAN, c : BOOLEAN, v : BOOLEAN, exact : BOOLEAN]

LEMMA QuotientIn == ASSUME NEW x \in Int, NEW d \in Nat \ {0} PROVE x \div d \in Int
  OBVIOUS

LEMMA ProductIn ==
  ASSUME NEW x \in Int, NEW y \in Int
  PROVE  x * y \in Int
  OBVIOUS

LEMMA MuxAIn ==
  ASSUME NEW c, NEW i \in AluWords,
         c.y \in Accu, c.in \in [Units -> Int], c.f \in Flags
  PROVE  MuxA(c, i) \in Accu
<1>1. /\ c.in["mult1"] \in Int /\ c.in["mult2"] \in Int
      /\ c.in["alu1"] \in Int /\ c.in["alu2"] \in Int
  BY DEF Units
<1>2. c.y \in Int /\ 0 \in Accu
  BY AccuIs
<1>3. /\ Hi(c.in["alu1"]) \in Accu /\ Hi(c.in["alu2"]) \in Accu
      /\ Hi(c.in["mult1"]) \in Accu
  BY <1>1, HiIn
<1>4. Product(c) \in Accu
  <2>1. S16(c.in["mult1"]) * S16(c.in["mult2"]) * 2 \in Int
    BY <1>1, SignedIn
  <2> QED
    BY <2>1, ModIn DEF Product
<1>5. Mod(S16(c.in["mult1"]) * 2 * (S32(c.y) \div Pow2[W])) \in Accu
  <2>1. S32(c.y) \div Pow2[W] \in Int
    <3>1. Pow2[W] \in Nat \ {0}
      BY Widths DEF Whole
    <3> QED
      BY <1>2, <3>1, SignedIn, QuotientIn
  <2>2. S16(c.in["mult1"]) * 2 \in Int
    BY <1>1, SignedIn
  <2> QED
    BY <2>1, <2>2, ModIn, ProductIn
<1>6. i.muxa \in 0 .. 3 /\ i.m2sel \in 0 .. 1
  BY DEF AluWords
<1> HIDE DEF Accu
<1>7. CASE i.muxa = 0
  BY <1>7 DEF MuxA
<1>8. CASE i.muxa = 1
  BY <1>3, <1>8 DEF MuxA
<1>9. CASE i.muxa = 2
  BY <1>3, <1>9 DEF MuxA
<1>10. CASE i.muxa = 3 /\ i.m2sel = 1
  BY <1>4, <1>10 DEF MuxA
<1>11. CASE i.muxa = 3 /\ i.m2sel = 0 /\ WithCarry(i)
  <2>1. MuxA(c, i) = IF c.f.c THEN Hi(c.in["mult1"]) ELSE 0
    BY <1>11 DEF MuxA
  <2> QED
    BY <1>2, <1>3, <2>1
<1>12. CASE i.muxa = 3 /\ i.m2sel = 0 /\ ~WithCarry(i)
  BY <1>5, <1>12 DEF MuxA
<1> QED
  BY <1>6, <1>7, <1>8, <1>9, <1>10, <1>11, <1>12

LEMMA EvenIn == ASSUME NEW x \in Accu PROVE 2 * (x \div 2) \in Accu
<1>1. x \in Nat /\ x < 2 * H /\ H \in Nat
  BY AccuIs
<1>2. 2 * (x \div 2) \in Nat /\ 2 * (x \div 2) <= x
  BY <1>1
<1> QED
  BY <1>1, <1>2, AccuIs

LEMMA MuxBIn ==
  ASSUME NEW c, NEW i \in AluWords,
         c.y \in Accu, c.in \in [Units -> Int], c.f \in Flags
  PROVE  MuxB(c, i) \in Accu
<1>1. /\ c.in["mult1"] \in Int /\ c.in["mult2"] \in Int
      /\ c.in["alu1"] \in Int /\ c.in["alu2"] \in Int
  BY DEF Units
<1>2. c.y \in Int /\ 0 \in Accu
  BY AccuIs
<1>3. Hi(c.in["alu1"]) \in Accu /\ Hi(c.in["alu2"]) \in Accu
  BY <1>1, HiIn
<1>4. Product(c) \in Accu
  <2>1. S16(c.in["mult1"]) * S16(c.in["mult2"]) * 2 \in Int
    BY <1>1, SignedIn
  <2> QED
    BY <2>1, ModIn DEF Product
<1>5. 2 * (Mod(S16(c.in["mult1"]) * (S32(c.y) \div Pow2[W - 1])) \div 2) \in Accu
  <2>1. S32(c.y) \div Pow2[W - 1] \in Int
    <3>1. Pow2[W - 1] \in Nat \ {0}
      BY Widths DEF Half
    <3> QED
      BY <1>2, <3>1, SignedIn, QuotientIn
  <2>2. S16(c.in["mult1"]) \in Int
    BY <1>1, SignedIn
  <2>3. Mod(S16(c.in["mult1"]) * (S32(c.y) \div Pow2[W - 1])) \in Accu
    BY <2>1, <2>2, ModIn, ProductIn
  <2> QED
    BY <2>3, EvenIn
<1>6. i.muxb \in 0 .. 3 /\ i.m2sel \in 0 .. 1
  BY DEF AluWords
<1>7. Pow2[W] \in Accu
  <2>1. Whole \in Nat /\ 2048 <= Whole /\ 2 * H = Whole * Whole
    BY Widths
  <2>2. \A n \in Nat : n >= 2 => n < n * n
    OBVIOUS
  <2>3. Whole < Whole * Whole
    BY <2>1, <2>2
  <2> QED
    BY <2>1, <2>3, AccuIs DEF Whole
<1> HIDE DEF Accu
<1>8. CASE WithCarry(i)
  <2>1. MuxB(c, i) = IF c.f.c THEN Pow2[W] ELSE 0
    BY <1>8 DEF MuxB
  <2> QED
    BY <1>2, <1>7, <2>1
<1>9. CASE ~WithCarry(i) /\ i.muxb = 0
  BY <1>9 DEF MuxB
<1>10. CASE ~WithCarry(i) /\ i.muxb = 1
  BY <1>3, <1>10 DEF MuxB
<1>11. CASE ~WithCarry(i) /\ i.muxb = 2
  BY <1>3, <1>11 DEF MuxB
<1>12. CASE ~WithCarry(i) /\ i.muxb = 3 /\ i.m2sel = 1
  BY <1>4, <1>12 DEF MuxB
<1>13. CASE ~WithCarry(i) /\ i.muxb = 3 /\ i.m2sel = 0
  BY <1>5, <1>13 DEF MuxB
<1> QED
  BY <1>6, <1>8, <1>9, <1>10, <1>11, <1>12, <1>13

LEMMA SumIn ==
  ASSUME NEW h \in Nat \ {0}, NEW a \in Word(h), NEW b \in Word(h), NEW carry \in {0, 1}
  PROVE  Add(h, a, b, carry) \in Word(h) /\ Sub(h, a, b, carry) \in Word(h)
  BY DEF Add, Sub, Cut, Word

LEMMA ResultIn ==
  ASSUME NEW i \in AluWords, NEW a \in Accu, NEW b \in Accu
  PROVE  AluResult(i, a, b) \in Accu
<1>1. H \in Nat \ {0} /\ 0 \in Accu /\ One \in Accu
  <2>1. One \in Nat /\ One <= Whole /\ Whole <= Whole * Whole
    <3>1. One \in Nat /\ Whole = 16 * One /\ Whole \in Nat /\ Whole >= 2048
      BY Widths
    <3>2. \A n \in Nat : n >= 2 => n < n * n
      OBVIOUS
    <3> QED
      BY <3>1, <3>2
  <2>2. One \in Nat /\ One < 2 * H
    BY <2>1, Widths
  <2> QED
    BY <2>2, AccuIs
<1>2. \A x \in Accu : Not(x) \in Accu
  BY <1>1 DEF Not, Complement, Accu, Word
<1>3. \A s : FromBits(2 * W, s) \in Accu
  <2>1. 2 * W \in Nat /\ Pow2[2 * W] = 2 * H
    BY Widths, DspAssumption
  <2> QED
    BY <2>1, FromBitsBelow, AccuIs
<1>4. And(a, b) \in Accu /\ Or(a, b) \in Accu /\ Xor(a, b) \in Accu
  BY <1>3 DEF And, Or, Xor, AndWords, OrWords, XorWords
<1>5. Left1(i, a) \in Accu /\ Right1(i, b) \in Accu
  BY <1>1 DEF Left1, Right1
<1>6. /\ Add(H, Left1(i, a), Right1(i, b), 0) \in Accu
      /\ Sub(H, Left1(i, a), Right1(i, b), 1) \in Accu
  BY <1>1, <1>5, SumIn DEF Accu
<1>7. i.alu \in 0 .. 15
  BY DEF AluWords
<1> HIDE DEF Accu
<1> DEFINE sum == Add(H, Left1(i, a), Right1(i, b), 0)
           difference == Sub(H, Left1(i, a), Right1(i, b), 1)
<1>8. /\ i.alu \in Sums => AluResult(i, a, b) = sum
      /\ i.alu \in Differences => AluResult(i, a, b) = difference
  <2> HIDE DEF sum, difference
  <2>1. i.alu \in Sums => AluResult(i, a, b) = sum
    BY DEF AluResult, Sums, Differences, sum, difference
  <2>2. i.alu \in Differences => AluResult(i, a, b) = difference
    BY DEF AluResult, Sums, Differences, sum, difference
  <2> QED
    BY <2>1, <2>2
<1>9. CASE i.alu \in Sums
  BY <1>6, <1>9, <1>8
<1>10. CASE i.alu \in Differences
  BY <1>6, <1>10, <1>8
<1>11. CASE i.alu \in {0, 8}
  BY <1>11 DEF AluResult, Sums, Differences
<1>12. CASE i.alu = 9
  BY <1>2, <1>12 DEF AluResult, Sums, Differences
<1>13. CASE i.alu \in {10, 11}
  BY <1>2, <1>4, <1>13 DEF AluResult, Sums, Differences
<1>14. CASE i.alu \in {12, 13}
  BY <1>2, <1>4, <1>14 DEF AluResult, Sums, Differences
<1>15. CASE i.alu \in {14, 15}
  BY <1>2, <1>4, <1>15 DEF AluResult, Sums, Differences
<1>16. \/ i.alu \in Sums \/ i.alu \in Differences \/ i.alu \in {0, 8} \/ i.alu = 9
       \/ i.alu \in {10, 11} \/ i.alu \in {12, 13} \/ i.alu \in {14, 15}
  BY <1>7 DEF Sums, Differences
<1> QED
  BY <1>9, <1>10, <1>11, <1>12, <1>13, <1>14, <1>15, <1>16

LEMMA Monotonic ==
  ASSUME NEW a \in Nat, NEW b \in Nat, NEW c \in Nat
  PROVE  /\ a <= b => a * c <= b * c /\ c * a <= c * b
         /\ a < b /\ c > 0 => a * c < b * c
<1>1. CASE a <= b
  <2>1. PICK d \in Nat : b = a + d
    <3>1. b - a \in Nat /\ b = a + (b - a)
      BY <1>1
    <3> QED
      BY <3>1
  <2>2. b * c = a * c + d * c /\ d * c \in Nat /\ a * c \in Nat
    BY <2>1
  <2>3. c * a = a * c /\ c * b = b * c
    OBVIOUS
  <2>4. a < b /\ c > 0 => d * c > 0
    BY <2>1
  <2> QED
    BY <2>2, <2>3, <2>4
<1> QED
  BY <1>1

(* The shifter.  What it takes apart is put together below 2^2W again.     *)
LEMMA LeftIn ==
  ASSUME NEW y \in Accu, NEW n \in Nat, n <= W
  PROVE  ShiftLeft(2 * W, y, n) \in Accu
<1>1. 2 * W - n \in Nat /\ (2 * W - n) + n = 2 * W /\ y \in Nat
  BY DspAssumption, AccuIs
<1>2. /\ Pow2[2 * W - n] \in Nat \ {0} /\ Pow2[n] \in Nat \ {0}
      /\ Pow2[2 * W - n] * Pow2[n] = 2 * H
  <2>1. Pow2[(2 * W - n) + n] = Pow2[2 * W - n] * Pow2[n]
    BY <1>1, Pow2Sum
  <2> QED
    BY <1>1, <2>1, Pow2Positive, Widths
<1>3. \A x \in Nat, p, q \in Nat \ {0} : (x % p) * q \in Nat /\ (x % p) * q < p * q
  <2>1. ASSUME NEW x \in Nat, NEW p \in Nat \ {0}, NEW q \in Nat \ {0}
        PROVE  (x % p) * q \in Nat /\ (x % p) * q < p * q
    <3>1. x % p \in Nat /\ x % p < p
      OBVIOUS
    <3>2. \A r \in Nat : r < p => r * q \in Nat /\ r * q < p * q
      BY Monotonic
    <3> QED
      BY <3>1, <3>2
  <2> QED
    BY <2>1
<1>4. (y % Pow2[2 * W - n]) * Pow2[n] \in Nat /\ (y % Pow2[2 * W - n]) * Pow2[n] < 2 * H
  BY <1>1, <1>2, <1>3
<1> QED
  BY <1>4, AccuIs DEF ShiftLeft

LEMMA QuotientBelow ==
  ASSUME NEW x \in Nat, NEW d \in Nat \ {0}
  PROVE  x \div d \in Nat /\ x \div d <= x
  OBVIOUS

(* A rotation through the carry: 32 ones make a guard of 16 and a carry.   *)
LEMMA Rotated ==
  ASSUME NEW p \in Nat \ {0}, NEW z \in Nat, z < 16 * p * (16 * p), NEW g \in 0 .. 15,
         NEW top \in {0, 16 * p}
  PROVE  LET x == 32 * p * (z \div (32 * p)) + top + p * g
         IN  x \in Nat /\ x < 16 * p * (16 * p)
<1> DEFINE q == z \div (32 * p)
<1>1. q \in Nat /\ 32 * p * q <= z
  <2>1. 32 * p \in Nat \ {0}
    OBVIOUS
  <2>2. \A d \in Nat \ {0} : z \div d \in Nat /\ d * (z \div d) <= z
    OBVIOUS
  <2> QED
    BY <2>1, <2>2
<1> HIDE DEF q
<1>2. p * q \in Nat /\ p * p \in Nat /\ p * g \in Nat /\ p * g <= 15 * p
  BY <1>1, Monotonic
<1>3. q < 8 * p
  <2>1. SUFFICES ASSUME q >= 8 * p PROVE FALSE
    BY <1>1
  <2>2. p * q >= p * (8 * p)
    BY <1>1, <2>1, Monotonic
  <2>3. p * (8 * p) = 8 * (p * p)
    OBVIOUS
  <2>4. 16 * p * (16 * p) = 256 * (p * p) /\ 32 * p * q = 32 * (p * q)
    BY <1>1
  <2> QED
    BY <1>1, <1>2, <2>2, <2>3, <2>4
<1>4. p * q <= p * (8 * p - 1)
  BY <1>1, <1>3, Monotonic
<1>5. p * (8 * p - 1) = 8 * (p * p) - p
  OBVIOUS
<1>6. 16 * p * (16 * p) = 256 * (p * p) /\ 32 * p * q = 32 * (p * q)
  BY <1>1
<1>7. 32 * (p * q) + top + p * g \in Nat /\ 32 * (p * q) + top + p * g < 256 * (p * p)
  BY <1>2, <1>4, <1>5
<1> QED
  BY <1>6, <1>7 DEF q

LEMMA Amounts ==
  /\ \A k \in 1 .. 6 : LeftBy[k] \in Nat /\ LeftBy[k] <= W
  /\ \A k \in 1 .. 7 : RightBy[k] \in Nat
  BY DspAssumption DEF LeftBy, RightBy

LEMMA ShiftIn ==
  ASSUME NEW bs \in Int, NEW y \in Accu, NEW f
  PROVE  Shift(bs, y, f) \in Accu
<1>1. y \in Nat /\ y < 2 * H /\ H \in Nat \ {0}
  BY AccuIs
<1>2. ASSUME NEW n \in 1 .. 6 PROVE ShiftLeft(2 * W, y, LeftBy[n]) \in Accu
  BY Amounts, LeftIn
<1>3. ASSUME NEW n \in 1 .. 7
      PROVE  Mod(S32(y) \div Pow2[RightBy[n]]) \in Accu /\ y \div Pow2[RightBy[n]] \in Accu
  <2>1. RightBy[n] \in Nat
    BY Amounts
  <2>2. Pow2[RightBy[n]] \in Nat \ {0}
    BY <2>1, Pow2Positive
  <2>3. S32(y) \div Pow2[RightBy[n]] \in Int
    BY <1>1, <2>2, SignedIn, QuotientIn
  <2>4. y \div Pow2[RightBy[n]] \in Nat /\ y \div Pow2[RightBy[n]] <= y
    BY <1>1, <2>2, QuotientBelow
  <2>5. y \div Pow2[RightBy[n]] < 2 * H
    BY <1>1, <2>4
  <2> QED
    BY <2>3, <2>4, <2>5, ModIn, AccuIs
<1>4. H - One \in Accu /\ H \in Accu
  <2>1. One \in Nat \ {0} /\ Half = 8 * One /\ Whole \in Nat /\ Whole >= 2048 /\ H = Half * Whole
    BY Widths
  <2>2. Half \in Nat /\ Half * 1 <= Half * Whole
    BY <2>1, Monotonic
  <2>3. H - One \in Nat /\ H - One < 2 * H
    BY <1>1, <2>1, <2>2
  <2> QED
    BY <1>1, <2>3, AccuIs
<1>5. Pow2[W + 1] * (Mod(y * 2) \div Pow2[W + 1]) + (IF TopSet(H, y) THEN Pow2[W] ELSE 0)
        + One * ((y \div One) % 16) \in Accu
  <2>1. /\ One \in Nat \ {0} /\ Whole = 16 * One /\ 2 * H = Whole * Whole
        /\ Pow2[W] = 16 * One /\ Pow2[W + 1] = 32 * One
    <3>1. Pow2[W + 1] = 2 * Pow2[W]
      BY DspAssumption, Pow2Next
    <3> QED
      BY <3>1, Widths DEF Whole
  <2>2. y * 2 \in Int
    BY <1>1
  <2>3. Mod(y * 2) \in Nat /\ Mod(y * 2) < 16 * One * (16 * One)
    BY <2>1, <2>2, ModIn, AccuIs
  <2>4. (y \div One) % 16 \in 0 .. 15
    <3>1. y \div One \in Nat
      BY <1>1, <2>1, QuotientBelow
    <3> QED
      BY <3>1
  <2>5. (IF TopSet(H, y) THEN Pow2[W] ELSE 0) \in {0, 16 * One}
    BY <2>1
  <2> DEFINE x == 32 * One * (Mod(y * 2) \div (32 * One)) + (IF TopSet(H, y) THEN Pow2[W] ELSE 0)
                    + One * ((y \div One) % 16)
  <2>6. x \in Nat /\ x < 16 * One * (16 * One)
    BY <2>1, <2>3, <2>4, <2>5, Rotated
  <2>7. x < 2 * H
    BY <2>1, <2>6
  <2>8. x \in Accu
    BY <2>6, <2>7, AccuIs
  <2> QED
    BY <2>1, <2>8
<1> HIDE DEF Accu
<1>6. CASE bs \in 1 .. 6 \/ bs \in 17 .. 22
  <2>1. bs % 16 \in 1 .. 6
    BY <1>6
  <2>2. Shift(bs, y, f) = ShiftLeft(2 * W, y, LeftBy[bs % 16])
    BY <1>6 DEF Shift
  <2> QED
    BY <1>2, <2>1, <2>2
<1>7. CASE bs \in 9 .. 15
  <2>1. bs - 8 \in 1 .. 7
    BY <1>7
  <2>2. Shift(bs, y, f) = Mod(S32(y) \div Pow2[RightBy[bs - 8]])
    BY <1>7 DEF Shift
  <2> QED
    BY <1>3, <2>1, <2>2
<1>8. CASE bs \in 25 .. 31
  <2>1. bs - 24 \in 1 .. 7
    BY <1>8
  <2>2. Shift(bs, y, f) = y \div Pow2[RightBy[bs - 24]]
    BY <1>8 DEF Shift
  <2> QED
    BY <1>3, <2>1, <2>2
<1>9. CASE bs \in {7, 23}
  <2>1. Shift(bs, y, f) = IF ~f.v THEN y ELSE IF f.n THEN H - One ELSE H
    BY <1>9 DEF Shift
  <2> QED
    BY <1>4, <2>1
<1>10. CASE bs \in {8, 24}
  <2>1. Shift(bs, y, f) =
          Pow2[W + 1] * (Mod(y * 2) \div Pow2[W + 1]) + (IF TopSet(H, y) THEN Pow2[W] ELSE 0)
            + One * ((y \div One) % 16)
    BY <1>10 DEF Shift
  <2> QED
    BY <1>5, <2>1
<1>11. CASE ~\/ bs \in 1 .. 6 \/ bs \in 17 .. 22 \/ bs \in 9 .. 15 \/ bs \in 25 .. 31
             \/ bs \in {7, 23} \/ bs \in {8, 24}
  BY <1>11 DEF Shift
<1> QED
  BY <1>6, <1>7, <1>8, <1>9, <1>10, <1>11
-----------------------------------------------------------------------------
(* The channels and the memory that reads and writes reach.                *)
LEMMA ChangedIn ==
  ASSUME NEW f \in Fifo, NEW n \in Nat
  PROVE  /\ [f EXCEPT !.idx = n] \in Fifo /\ [f EXCEPT !.addr = n] \in Fifo
         /\ [f EXCEPT !.next_addr = n] \in Fifo /\ [f EXCEPT !.addr = n, !.next_addr = 0] \in Fifo
  BY DEF Fifo

LEMMA LengthIn ==
  ASSUME NEW f \in Fifo, NEW k \in Int
  PROVE  /\ [f EXCEPT !.len = k] \in Fifo /\ [f EXCEPT !.next_len = k] \in Fifo
         /\ [f EXCEPT !.len = k, !.next_len = 0] \in Fifo
         /\ [f EXCEPT !.next_len = k, !.idx = 0] \in Fifo
<1>1. [f EXCEPT !.len = k] \in Fifo /\ [f EXCEPT !.next_len = k] \in Fifo
  BY DEF Fifo
<1>2. \A j \in Int : [f EXCEPT !.len = k, !.next_len = j] \in Fifo
  BY DEF Fifo
<1>3. [f EXCEPT !.next_len = k, !.idx = 0] \in Fifo
  BY DEF Fifo
<1>4. 0 \in Int
  OBVIOUS
<1> QED
  BY <1>1, <1>2, <1>3, <1>4

LEMMA ReloadIn == ASSUME NEW f \in Fifo PROVE Reload(f) \in Fifo
<1>1. \A a \in Nat, k \in Int : [f EXCEPT !.idx = 0, !.addr = a, !.len = k] \in Fifo
  BY DEF Fifo
<1>2. Reload(f) = [f EXCEPT !.idx = 0, !.addr = f.next_addr,
                            !.len = IF f.next_addr # 0 THEN f.next_len ELSE f.len]
  BY DEF Reload, Fifo
<1>3. f.next_addr \in Nat /\ (IF f.next_addr # 0 THEN f.next_len ELSE f.len) \in Int
  BY DEF Fifo
<1> QED
  BY <1>1, <1>2, <1>3

LEMMA FifoEiIn ==
  ASSUME NEW f \in Fifo
  PROVE  FifoEi(f).fifo \in Fifo /\ FifoEi(f).at \in Int
<1>1. f.idx + 2 \in Nat /\ f.addr + f.idx \in Int
  BY DEF Fifo
<1>2. [f EXCEPT !.idx = @ + 2] \in Fifo
  BY <1>1, ChangedIn
<1>3. Reload(f) \in Fifo
  BY ReloadIn
<1>4. [Reload(f) EXCEPT !.idx = 2] \in Fifo /\ Reload(f).addr \in Int
  <2>1. \A g \in Fifo : [g EXCEPT !.idx = 2] \in Fifo /\ g.addr \in Int
    BY DEF Fifo
  <2> QED
    BY <1>3, <2>1
<1>5. Nowhere \in Int
  BY DEF Nowhere
<1> HIDE DEF Fifo
<1> QED
  BY <1>1, <1>2, <1>3, <1>4, <1>5 DEF FifoEi, Result

LEMMA FifoEoIn ==
  ASSUME NEW f \in Fifo
  PROVE  FifoEo(f).fifo \in Fifo /\ FifoEo(f).at \in Int
<1>1. f.idx + 2 \in Nat /\ f.addr + f.idx \in Int
  BY DEF Fifo
<1>2. [f EXCEPT !.idx = @ + 2] \in Fifo /\ Reload(f) \in Fifo
  BY <1>1, ChangedIn, ReloadIn
<1>3. Nowhere \in Int
  BY DEF Nowhere
<1> HIDE DEF Fifo
<1> QED
  BY <1>1, <1>2, <1>3 DEF FifoEo, Result

Registers == {"addr", "len", "next_addr", "next_len"}

LEMMA RegistersIn ==
  ASSUME NEW f \in Fifo
  PROVE  /\ \A reg \in Registers, val \in Nat :
              WriteInput(f, reg, val) \in Fifo /\ WriteOutput(f, reg, val) \in Fifo
         /\ ClearInput(f) \in Fifo /\ ClearOutput(f) \in Fifo
<1>1. ASSUME NEW g \in Fifo, NEW v \in Nat, NEW reg \in Registers
      PROVE  WriteInput(g, reg, v) \in Fifo /\ WriteOutput(g, reg, v) \in Fifo
  <2>1. InLen(v) \in Int /\ OutLen(v) \in Int
    BY DEF InLen, OutLen
  <2>2. CASE reg = "addr"
    BY <2>2, ChangedIn DEF WriteInput, WriteOutput
  <2>3. CASE reg = "len"
    BY <2>1, <2>3, LengthIn DEF WriteInput, WriteOutput
  <2>4. CASE reg = "next_addr"
    BY <2>4, ChangedIn DEF WriteInput, WriteOutput
  <2>5. CASE reg = "next_len"
    BY <2>1, <2>5, LengthIn DEF WriteInput, WriteOutput
  <2> QED
    BY <2>2, <2>3, <2>4, <2>5 DEF Registers
<1>2. ClearInput(f) \in Fifo
  <2>1. WriteInput(WriteInput(f, "addr", 0), "len", 0) \in Fifo
    BY <1>1 DEF Registers
  <2>2. InLen(0) \in Int
    BY DEF InLen
  <2> QED
    BY <2>1, <2>2, LengthIn DEF ClearInput
<1>3. ClearOutput(f) \in Fifo
  BY DEF ClearOutput, Fifo, OutLen
<1> QED
  BY <1>1, <1>2, <1>3

LEMMA DataIs == Data = {x \in Nat : x < Whole} /\ Whole \in Nat /\ Whole >= 2048
<1>1. Data = 0 .. 2 * Half - 1 /\ 2 * Half = Whole /\ Whole \in Nat /\ Whole >= 2048
  BY Widths DEF Data, Word, Half
<1> QED
  BY <1>1

LEMMA SmallIn == \A x \in Nat : x < 2048 => x \in Data
  BY DataIs

Images == UNION {[D -> Data] : D \in SUBSET Int}

LEMMA CellIn ==
  ASSUME NEW f \in Images, NEW a
  PROVE  Cell(f, a) \in Data
<1>1. PICK D \in SUBSET Int : f \in [D -> Data]
  BY DEF Images
<1>2. 0 \in Data
  BY SmallIn
<1> QED
  BY <1>1, <1>2 DEF Cell

LEMMA PutIn ==
  ASSUME NEW f \in Images, NEW a \in Int, NEW v \in Data
  PROVE  Put(f, a, v) \in Images
<1>1. DOMAIN f \in SUBSET Int
  BY DEF Images
<1>2. Put(f, a, v) \in [DOMAIN f \union {a} -> Data]
  BY CellIn DEF Put
<1>3. DOMAIN f \union {a} \in SUBSET Int
  BY <1>1
<1> QED
  BY <1>2, <1>3 DEF Images

Sides == {"none", "arm", "dsp"}

Mems ==
  [imem : Images, supply : SUBSET InChannels, ei : [InChannels -> Fifo],
   eo : [OutChannels -> Fifo], audio_out : Data, sema_status : Int, sema_data : Data,
   int : Data, reload : Data, gen_fiq : BOOLEAN, raised : SUBSET Int, at_in : Int,
   at_out : Int, sema_by : Sides \X BOOLEAN]

(* The semaphore's status as its writers should have left it.              *)
StatusOf(by) ==
  (CASE by[1] = "none" -> 0 [] by[1] = "arm" -> 8 [] by[1] = "dsp" -> 4)
    + (IF by[2] THEN 1 ELSE 0)

Sound(m) == m \in Mems /\ m.sema_status = StatusOf(m.sema_by)

SoundGot(r) == Sound(r.mem) /\ r.val \in Data

LEMMA StatusIn == \A by \in Sides \X BOOLEAN : StatusOf(by) \in {0, 1, 4, 5, 8, 9}
  BY DEF StatusOf, Sides

LEMMA SampleIn == \A a \in Int : Sample(a) \in Data
<1>1. ASSUME NEW a \in Int PROVE a % Whole \in Data
  BY DataIs
<1> QED
  BY <1>1, SmallIn DEF Sample, Whole

LEMMA ReadChannelIn ==
  ASSUME NEW m, Sound(m), NEW ch \in InChannels, NEW noise \in Data
  PROVE  SoundGot(ReadChannel(m, ch, noise))
<1>1. \A n, v : Sound(n) /\ v \in Data => SoundGot(Got(n, v))
  BY DEF SoundGot, Got
<1>2. CASE ch \in m.supply
  <2> DEFINE n == [m EXCEPT !.supply = @ \ {ch}]
  <2>1. ReadChannel(m, ch, noise) = Got(n, noise)
    BY <1>2 DEF ReadChannel
  <2>2. n \in Mems /\ n.sema_status = m.sema_status /\ n.sema_by = m.sema_by
    BY DEF Sound, Mems
  <2>3. Sound(n)
    BY <2>2 DEF Sound
  <2> HIDE DEF n
  <2> QED
    BY <1>1, <2>1, <2>3
<1>3. CASE ch \notin m.supply
  <2> DEFINE r == FifoEi(m.ei[ch])
             n == [m EXCEPT !.ei[ch] = r.fifo,
                            !.raised = IF r.rang THEN @ \union {ch + 16} ELSE @,
                            !.at_in = IF ch = 0 THEN r.at ELSE @]
  <2>1. ReadChannel(m, ch, noise) = Got(n, Sample(r.at))
    BY <1>3 DEF ReadChannel
  <2>2. r.fifo \in Fifo /\ r.at \in Int
    BY FifoEiIn DEF Sound, Mems
  <2> HIDE DEF r
  <2>3. ch + 16 \in Int
    BY DEF InChannels
  <2>4. n \in Mems /\ n.sema_status = m.sema_status /\ n.sema_by = m.sema_by
    BY <2>2, <2>3 DEF Sound, Mems
  <2>5. Sound(n)
    BY <2>4 DEF Sound
  <2> HIDE DEF n
  <2> QED
    BY <1>1, <2>1, <2>2, <2>5, SampleIn
<1> QED
  BY <1>2, <1>3

LEMMA ReadSuppliedIn ==
  ASSUME NEW m, Sound(m), NEW ch \in InChannels
  PROVE  SoundGot(ReadSupplied(m, ch))
<1>1. \A n, v : Sound(n) /\ v \in Data => SoundGot(Got(n, v))
  BY DEF SoundGot, Got
<1>2. m.imem \in Images /\ m.ei[ch] \in Fifo
  BY DEF Sound, Mems
<1>3. CASE ch \in m.supply
  <2> DEFINE n == [m EXCEPT !.supply = @ \ {ch}]
  <2>1. ReadSupplied(m, ch) = Got(n, Cell(m.imem, 112 + ch))
    BY <1>3 DEF ReadSupplied
  <2>2. n \in Mems /\ n.sema_status = m.sema_status /\ n.sema_by = m.sema_by
    BY DEF Sound, Mems
  <2>3. Sound(n)
    BY <2>2 DEF Sound
  <2> HIDE DEF n
  <2> QED
    BY <1>2, <1>1, <2>1, <2>3, CellIn
<1>4. CASE ch \notin m.supply
  <2>1. Position(m.ei[ch]) \in Int
    BY <1>2 DEF Position, Fifo
  <2>2. ReadSupplied(m, ch) = Got(m, Sample(Position(m.ei[ch])))
    BY <1>4 DEF ReadSupplied
  <2> QED
    BY <1>1, <2>1, <2>2, SampleIn
<1> QED
  BY <1>3, <1>4

(* The machine as its reads see it.                                        *)
Cores ==
  [pc : Nat, y : Accu, f : Flags, rbase : 0 .. 63, rmap : 0 .. 7, masked : SUBSET Units,
   ret : Nat, in : [Units -> Int], pcnt : Int]

Able(c) == c \in Cores /\ c.pc < 2048 /\ c.pcnt \in Data

LEMMA ReadIn ==
  ASSUME NEW c, Able(c), NEW m, Sound(m), NEW a \in Int, NEW noise \in Data
  PROVE  SoundGot(Read(c, m, a, noise))
<1>1. m.imem \in Images
  BY DEF Sound, Mems
<1>2. /\ m.audio_out \in Data /\ m.sema_data \in Data /\ c.pc \in Data /\ c.pcnt \in Data
      /\ m.sema_status \in Data /\ 0 \in Data /\ 1 \in Data /\ 2 \in Data
  <2>1. m.sema_status \in {0, 1, 4, 5, 8, 9}
    BY StatusIn DEF Sound, Mems
  <2>2. m.sema_status \in Data
    BY <2>1, SmallIn
  <2>3. c.pc \in Data
    BY SmallIn DEF Able, Cores
  <2> QED
    BY <2>2, <2>3, SmallIn DEF Sound, Mems, Able
<1>3. \A v \in Data : SoundGot(Got(m, v))
  BY DEF SoundGot, Got
<1>4. \A b \in Int : SoundGot(Got(m, Cell(m.imem, b)))
  BY <1>1, <1>3, CellIn
<1>5. \A ch \in InChannels : SoundGot(ReadChannel(m, ch, noise)) /\ SoundGot(ReadSupplied(m, ch))
  BY ReadChannelIn, ReadSuppliedIn
<1>6. /\ \A ch \in InChannels : FifoEiStatus(m.ei[ch]) \in Data
      /\ \A ch \in OutChannels : FifoEoStatus(m.eo[ch]) \in Data
  BY <1>2 DEF FifoEiStatus, FifoEoStatus
<1>7. 256 + (a % 256) \in Int /\ a % 128 \in Int
  OBVIOUS
<1>8. CASE a = 234
  BY <1>3, <1>8 DEF Read
<1>9. CASE a = 235
  BY <1>2, <1>3, <1>9 DEF Read
<1>10. CASE a = 236
  BY <1>2, <1>3, <1>10 DEF Read
<1>11. CASE a = 237
  BY <1>2, <1>3, <1>11 DEF Read
<1>12. CASE a = 238
  BY <1>2, <1>3, <1>12 DEF Read
<1>13. CASE a = 239
  BY <1>2, <1>3, <1>13 DEF Read
<1>14. CASE a \in 240 .. 252
  <2>1. a - 240 \in InChannels
    BY <1>14 DEF InChannels
  <2>2. Read(c, m, a, noise) = ReadChannel(m, a - 240, noise)
    BY <1>14 DEF Read
  <2> QED
    BY <1>5, <2>1, <2>2
<1>15. CASE a \in 112 .. 124
  <2>1. a - 112 \in InChannels
    BY <1>15 DEF InChannels
  <2>2. a \notin 234 .. 239 /\ a \notin 240 .. 252 /\ a \in Int
    BY <1>15
  <2>3. a # 234 /\ a # 235 /\ a # 236 /\ a # 237 /\ a # 238 /\ a # 239
    BY <1>15
  <2>4. Read(c, m, a, noise) = ReadSupplied(m, a - 112)
    BY <1>15, <2>2, <2>3, SMTT(40) DEF Read
  <2> QED
    BY <1>5, <2>1, <2>4
<1>16. CASE a \in 208 .. 220
  <2>1. a - 208 \in InChannels
    BY <1>16 DEF InChannels
  <2>2. Read(c, m, a, noise) =
          Got(m, IF a - 208 \in m.supply THEN 2 ELSE FifoEiStatus(m.ei[a - 208]))
    BY <1>16 DEF Read
  <2>3. (IF a - 208 \in m.supply THEN 2 ELSE FifoEiStatus(m.ei[a - 208])) \in Data
    BY <1>2, <1>6, <2>1
  <2> QED
    BY <1>3, <2>2, <2>3
<1>17. CASE a \in 224 .. 227
  <2>1. a - 224 \in OutChannels
    BY <1>17 DEF OutChannels
  <2>2. Read(c, m, a, noise) = Got(m, FifoEoStatus(m.eo[a - 224]))
    BY <1>17 DEF Read
  <2> QED
    BY <1>3, <1>6, <2>1, <2>2
<1>18. CASE a \in 256 .. 767
  BY <1>4, <1>7, <1>18 DEF Read
<1>21. CASE a \in 221 .. 222
  <2>1. 2 * (noise % 2) \in {0, 2}
    BY DataIs
  <2>2. Read(c, m, a, noise) = Got(m, 2 * (noise % 2))
    BY <1>21 DEF Read
  <2> QED
    BY <1>2, <1>3, <2>1, <2>2
<1>19. CASE ~\/ a \in 234 .. 239 \/ a \in 240 .. 252 \/ a \in 112 .. 124 \/ a \in 208 .. 220
             \/ a \in 221 .. 222 \/ a \in 224 .. 227 \/ a \in 256 .. 767
  <2>1. Read(c, m, a, noise) = Got(m, Cell(m.imem, a % 128))
    BY <1>19 DEF Read
  <2> QED
    BY <1>4, <1>7, <2>1
<1>20. a \in 234 .. 239 => a \in {234, 235, 236, 237, 238, 239}
  OBVIOUS
<1> QED
  BY <1>8, <1>9, <1>10, <1>11, <1>12, <1>13, <1>14, <1>15, <1>16, <1>17, <1>18, <1>19, <1>20, <1>21

(* A word stored in one place of the memory, with what goes with it.       *)
LEMMA StoredIn ==
  ASSUME NEW m, Sound(m), NEW v \in Data
  PROVE  /\ Sound([m EXCEPT !.audio_out = v]) /\ Sound([m EXCEPT !.reload = v])
         /\ Sound([m EXCEPT !.int = v, !.gen_fiq = TRUE])
<1>1. [m EXCEPT !.audio_out = v] \in Mems /\ [m EXCEPT !.reload = v] \in Mems
  BY DEF Sound, Mems
<1>2. [m EXCEPT !.int = v, !.gen_fiq = TRUE] \in Mems
  BY DEF Sound, Mems
<1>3. \A n \in Mems : n.sema_status = m.sema_status /\ n.sema_by = m.sema_by => Sound(n)
  BY DEF Sound
<1>4. /\ [m EXCEPT !.audio_out = v].sema_status = m.sema_status
      /\ [m EXCEPT !.audio_out = v].sema_by = m.sema_by
      /\ [m EXCEPT !.reload = v].sema_status = m.sema_status
      /\ [m EXCEPT !.reload = v].sema_by = m.sema_by
      /\ [m EXCEPT !.int = v, !.gen_fiq = TRUE].sema_status = m.sema_status
      /\ [m EXCEPT !.int = v, !.gen_fiq = TRUE].sema_by = m.sema_by
  BY DEF Sound, Mems
<1> QED
  BY <1>1, <1>2, <1>3, <1>4

LEMMA ImageIn ==
  ASSUME NEW m, Sound(m), NEW v \in Data, NEW a \in Int
  PROVE  Sound([m EXCEPT !.imem = Put(@, a, v)])
<1>1. m.imem \in Images
  BY DEF Sound, Mems
<1>2. \A image \in Images : Sound([m EXCEPT !.imem = image])
  BY DEF Sound, Mems
<1>3. Put(m.imem, a, v) \in Images
  BY <1>1, PutIn
<1> QED
  BY <1>2, <1>3

(* The semaphore: an acknowledgement, and a new word of either side.       *)
Acknowledged(m) ==
  [m EXCEPT !.sema_status = IF @ % 2 = 0 THEN @ + 1 ELSE @, !.sema_by = <<@[1], TRUE>>]

Posted(m, v, status, side) ==
  [m EXCEPT !.sema_data = v, !.sema_status = status, !.sema_by = <<side, FALSE>>]

LEMMA SemaphoreIn ==
  ASSUME NEW m, Sound(m), NEW v \in Data
  PROVE  /\ Sound(Acknowledged(m))
         /\ Sound(Posted(m, v, 4, "dsp")) /\ Sound(Posted(m, v, 8, "arm"))
<1>1. ASSUME NEW s \in Int, NEW side \in Sides, NEW b \in BOOLEAN, s = StatusOf(<<side, b>>)
      PROVE  /\ Sound([m EXCEPT !.sema_status = s, !.sema_by = <<side, b>>])
             /\ Sound([m EXCEPT !.sema_data = v, !.sema_status = s, !.sema_by = <<side, b>>])
  <2> DEFINE by == <<side, b>>
  <2>1. by \in Sides \X BOOLEAN
    OBVIOUS
  <2> HIDE DEF by
  <2>2. /\ Sound([m EXCEPT !.sema_status = s, !.sema_by = by])
        /\ Sound([m EXCEPT !.sema_data = v, !.sema_status = s, !.sema_by = by])
    BY <1>1, <2>1 DEF Sound, Mems, by
  <2> QED
    BY <2>2 DEF by
<1>2. PICK side \in Sides, acked \in BOOLEAN : m.sema_by = <<side, acked>>
  BY DEF Sound, Mems
<1>3. /\ m.sema_status \in Int /\ m.sema_status = StatusOf(<<side, acked>>)
      /\ m.sema_by[1] = side
  BY <1>2 DEF Sound, Mems
<1> DEFINE s == IF m.sema_status % 2 = 0 THEN m.sema_status + 1 ELSE m.sema_status
<1>4. s = StatusOf(<<side, TRUE>>) /\ s \in Int
  <2>1. CASE acked
    <3>1. m.sema_status \in {1, 9, 5}
      BY <1>3, <2>1 DEF StatusOf, Sides
    <3>2. s = m.sema_status
      BY <3>1
    <3> QED
      BY <1>3, <2>1, <3>2
  <2>2. CASE ~acked
    <3>1. m.sema_status \in {0, 8, 4} /\ StatusOf(<<side, TRUE>>) = m.sema_status + 1
      BY <1>3, <2>2 DEF StatusOf, Sides
    <3>2. s = m.sema_status + 1
      BY <3>1
    <3> QED
      BY <1>3, <3>1, <3>2
  <2> QED
    BY <2>1, <2>2
<1>5. Acknowledged(m) = [m EXCEPT !.sema_status = s, !.sema_by = <<side, TRUE>>]
  BY <1>3 DEF Acknowledged
<1> HIDE DEF s
<1>6. TRUE \in BOOLEAN /\ FALSE \in BOOLEAN /\ "dsp" \in Sides /\ "arm" \in Sides
  BY DEF Sides
<1>7. 4 = StatusOf(<<"dsp", FALSE>>) /\ 8 = StatusOf(<<"arm", FALSE>>) /\ 4 \in Int /\ 8 \in Int
  BY DEF StatusOf
<1>8. Sound(Acknowledged(m))
  BY <1>1, <1>4, <1>5, <1>6
<1>9. Sound(Posted(m, v, 4, "dsp"))
  BY <1>1, <1>6, <1>7 DEF Posted
<1>10. Sound(Posted(m, v, 8, "arm"))
  BY <1>1, <1>6, <1>7 DEF Posted
<1> QED
  BY <1>8, <1>9, <1>10

LEMMA WriteIn ==
  ASSUME NEW m, Sound(m), NEW addr \in Int, NEW v \in Data
  PROVE  Sound(Write(m, addr, v))
<1> DEFINE a == addr % 1024
<1>1. a \in Int /\ 256 + (a % 256) \in Int
  OBVIOUS
<1> HIDE DEF a
<1>11. Sound([m EXCEPT !.audio_out = v]) /\ Sound([m EXCEPT !.reload = v])
  BY StoredIn
<1>12. Sound([m EXCEPT !.int = v, !.gen_fiq = TRUE])
  BY StoredIn
<1>2. CASE a = 1003
  <2>1. Write(m, addr, v) = [m EXCEPT !.audio_out = v]
    BY <1>2 DEF Write, a
  <2> QED
    BY <1>11, <2>1
<1>3. CASE a = 1004
  <2>1. Write(m, addr, v) = Acknowledged(m)
    BY <1>3 DEF Write, Acknowledged, a
  <2> QED
    BY <2>1, SemaphoreIn
<1>4. CASE a = 1005
  <2>1. Write(m, addr, v) = Posted(m, v, 4, "dsp")
    BY <1>4 DEF Write, Posted, a
  <2> QED
    BY <2>1, SemaphoreIn
<1>5. CASE a = 1006
  <2>1. Write(m, addr, v) = [m EXCEPT !.int = v, !.gen_fiq = TRUE]
    BY <1>5 DEF Write, a
  <2> QED
    BY <1>12, <2>1
<1>6. CASE a = 1007
  <2>1. Write(m, addr, v) = [m EXCEPT !.reload = v]
    BY <1>6 DEF Write, a
  <2> QED
    BY <1>11, <2>1
<1>7. CASE a \in 1008 .. 1011
  <2> DEFINE ch == a - 1008
             r == FifoEo(m.eo[ch])
             n == [m EXCEPT !.eo[ch] = r.fifo,
                            !.raised = IF r.rang THEN @ \union {ch + 12} ELSE @,
                            !.at_out = IF ch = 0 THEN r.at ELSE @]
  <2>1. ch \in OutChannels /\ ch + 12 \in Int
    BY <1>7 DEF OutChannels
  <2>2. Write(m, addr, v) = n
    BY <1>7 DEF Write, a
  <2> HIDE DEF ch
  <2>3. r.fifo \in Fifo /\ r.at \in Int
    BY <2>1, FifoEoIn DEF Sound, Mems
  <2> HIDE DEF r
  <2>4. n \in Mems /\ n.sema_status = m.sema_status /\ n.sema_by = m.sema_by
    BY <2>1, <2>3 DEF Sound, Mems
  <2>5. Sound(n)
    BY <2>4 DEF Sound
  <2> QED
    BY <2>2, <2>5
<1>8. CASE a = 1021 \/ a < 256
  BY <1>8 DEF Write, a
<1>9. CASE a \in 256 .. 767
  <2>1. Write(m, addr, v) = [m EXCEPT !.imem = Put(m.imem, 256 + (a % 256), v)]
    BY <1>9 DEF Write, a
  <2> QED
    BY <1>1, <2>1, ImageIn
<1>10. CASE ~\/ a \in {1003, 1004, 1005, 1006, 1007} \/ a \in 1008 .. 1011
             \/ a = 1021 \/ a < 256 \/ a \in 256 .. 767
  <2>1. Write(m, addr, v) = [m EXCEPT !.imem = Put(m.imem, a, v)]
    BY <1>10 DEF Write, a
  <2> QED
    BY <1>1, <2>1, ImageIn
<1> QED
  BY <1>2, <1>3, <1>4, <1>5, <1>6, <1>7, <1>8, <1>9, <1>10
-----------------------------------------------------------------------------
(* Operands: while they are read, what was fetched is words and the        *)
(* machine but for the program counter stays as it is.                     *)
LEMMA RegAddrIn ==
  ASSUME NEW c \in Cores, NEW reg \in 0 .. 15
  PROVE  RegAddr(c, reg) \in Int
<1>1. (reg \div 4) % 2 \in 0 .. 1 /\ reg \div 8 \in 0 .. 1 /\ reg % 4 \in Int
  OBVIOUS
<1>2. c.rbase \in 0 .. 63 /\ c.rmap \in 0 .. 7
  BY DEF Cores
<1>3. ASSUME NEW x \in 0 .. 1, NEW y \in 0 .. 1, NEW r \in 0 .. 7
      PROVE  Bank(r, x, y) \in Int
  <2>1. r <= 3 \/ r = 4 \/ r = 5 \/ r = 6 \/ r = 7
    OBVIOUS
  <2>2. x \in Int /\ y \in Int /\ 1 - y \in Int /\ x * y \in Int
    OBVIOUS
  <2> QED
    BY <2>1, <2>2 DEF Bank
<1>4. Bank(c.rmap, (reg \div 4) % 2, reg \div 8) \in Int
  BY <1>1, <1>2, <1>3
<1> DEFINE b == Bank(c.rmap, (reg \div 4) % 2, reg \div 8)
<1>5. b \in Int
  BY <1>4
<1> HIDE DEF b
<1>6. RegAddr(c, reg) =
        (reg % 4) + 4 * (IF (reg \div 4) % 2 = 0 THEN c.rbase
                         ELSE IF c.rbase % 2 = 0 THEN c.rbase + 1 ELSE c.rbase - 1)
          + 256 * b + 512 * (reg \div 8)
  BY DEF RegAddr, b
<1> QED
  BY <1>1, <1>2, <1>5, <1>6

LEMMA DerefIn ==
  ASSUME NEW c, Able(c), NEW m, Sound(m), NEW a \in Int, NEW indirect, NEW noise \in Data
  PROVE  SoundGot(Deref(c, m, a, indirect, noise))
<1>1. SoundGot(Read(c, m, a, noise))
  BY ReadIn
<1>2. \A r : SoundGot(r) => SoundGot(Follow(c, r, indirect, noise))
  <2>1. ASSUME NEW r, SoundGot(r) PROVE SoundGot(Follow(c, r, indirect, noise))
    <3>1. Sound(r.mem) /\ r.val \in Int
      BY <2>1, DataIs DEF SoundGot
    <3>2. SoundGot(Read(c, r.mem, r.val, noise))
      BY <3>1, ReadIn
    <3> QED
      BY <2>1, <3>2 DEF Follow
  <2> QED
    BY <2>1
<1> QED
  BY <1>1, <1>2 DEF Deref

Loads == [c : Cores, m : Mems, ops : Seq(Data), wb : Int, gwb : Int]
Loading(s) == s \in Loads /\ Able(s.c) /\ Sound(s.m)
Loaded(s, t, n) == Loading(t) /\ t.c = s.c /\ Len(t.ops) = Len(s.ops) + n

LEMMA LoadedTwice ==
  ASSUME NEW s, Loading(s), NEW t, NEW u, NEW m \in Nat, NEW n \in Nat,
         Loaded(s, t, m), Loaded(t, u, n)
  PROVE  Loaded(s, u, m + n)
<1>1. Len(s.ops) \in Nat
  BY DEF Loading, Loads
<1>2. Len(u.ops) = Len(s.ops) + m + n
  BY <1>1 DEF Loaded
<1>3. Len(u.ops) = Len(s.ops) + (m + n)
  <2>1. \A a, b, c \in Nat : a + b + c = a + (b + c)
    OBVIOUS
  <2> QED
    BY <1>1, <1>2, <2>1
<1>4. Loading(u) /\ u.c = s.c
  BY DEF Loaded
<1> QED
  BY <1>3, <1>4 DEF Loaded

LEMMA PushedIn ==
  ASSUME NEW s, Loading(s), NEW r, SoundGot(r), NEW a \in Int, NEW mark
  PROVE  Loaded(s, Pushed(s, r, a, mark), 1)
<1> DEFINE ops == Append(s.ops, r.val)
           gwb == IF mark THEN a ELSE s.gwb
           t == [s EXCEPT !.m = r.mem, !.ops = ops, !.wb = a, !.gwb = gwb]
<1>1. s \in Loads /\ r.mem \in Mems /\ r.val \in Data
  BY DEF Loading, SoundGot, Sound
<1>2. ops \in Seq(Data) /\ Len(ops) = Len(s.ops) + 1 /\ gwb \in Int
  BY <1>1 DEF Loads
<1>3. Pushed(s, r, a, mark) = t
  BY DEF Pushed
<1> HIDE DEF ops, gwb
<1>4. t \in Loads /\ t.c = s.c /\ t.m = r.mem /\ t.ops = ops
  BY <1>1, <1>2 DEF Loads
<1> HIDE DEF t
<1>5. Loaded(s, t, 1)
  BY <1>2, <1>4 DEF Loaded, Loading, SoundGot
<1> QED
  BY <1>3, <1>5

LEMMA LoadIn ==
  ASSUME NEW s, Loading(s), NEW a \in Int, NEW indirect, NEW mark, NEW noise \in Data
  PROVE  Loaded(s, Load(s, a, indirect, mark, noise), 1)
<1>1. SoundGot(Deref(s.c, s.m, a, indirect, noise))
  BY DerefIn DEF Loading
<1> QED
  BY <1>1, PushedIn DEF Load

LEMMA LoadAtIn ==
  ASSUME NEW s, Loading(s), NEW a \in Int, NEW indirect, NEW mark, NEW noise \in Data
  PROVE  Loaded(s, LoadAt(s, a, indirect, mark, noise), 1)
<1> DEFINE p == IF indirect THEN Read(s.c, s.m, a, noise) ELSE Got(s.m, a)
           t == [s EXCEPT !.m = p.mem]
<1>1. Sound(p.mem) /\ p.val \in Int
  <2>1. SoundGot(Read(s.c, s.m, a, noise))
    BY ReadIn DEF Loading
  <2>2. Sound(Read(s.c, s.m, a, noise).mem) /\ Read(s.c, s.m, a, noise).val \in Int
    BY <2>1, DataIs DEF SoundGot
  <2>3. Sound(Got(s.m, a).mem) /\ Got(s.m, a).val \in Int
    BY DEF Got, Loading
  <2> QED
    BY <2>2, <2>3
<1> HIDE DEF p
<1>2. Loaded(s, t, 0)
  <2>1. s \in Loads /\ p.mem \in Mems
    BY <1>1 DEF Loading, Sound
  <2>2. t = [c |-> s.c, m |-> p.mem, ops |-> s.ops, wb |-> s.wb, gwb |-> s.gwb]
    BY <2>1 DEF Loads
  <2>3. t \in Loads /\ t.c = s.c /\ t.m = p.mem /\ t.ops = s.ops /\ Len(s.ops) \in Nat
    BY <2>1, <2>2 DEF Loads
  <2> HIDE DEF t
  <2> QED
    BY <1>1, <2>3 DEF Loaded, Loading
<1> HIDE DEF t
<1>3. Loaded(t, Load(t, p.val, FALSE, mark, noise), 1)
  <2>1. Loading(t)
    BY <1>2 DEF Loaded
  <2> QED
    BY <1>1, <2>1, LoadIn, Zenon
<1>4. Loaded(s, Load(t, p.val, FALSE, mark, noise), 0 + 1)
  BY <1>2, <1>3, LoadedTwice
<1>5. LoadAt(s, a, indirect, mark, noise) = Load(t, p.val, FALSE, mark, noise)
  BY DEF LoadAt, LoadFrom, t, p
<1>6. 0 + 1 = 1
  OBVIOUS
<1> QED
  BY <1>4, <1>5, <1>6

(* How many operands a word gives.                                         *)
Gives(o) == CASE o.op = "reg3" -> 3 [] o.op = "reg2" -> IF o.two THEN 2 ELSE 1 [] OTHER -> 1

LEMMA LoadWordIn ==
  ASSUME NEW s, Loading(s), NEW o \in OperandWords, NEW noise \in Data
  PROVE  Loaded(s, LoadWord(s, o, noise), Gives(o))
<1>1. s.c \in Cores
  BY DEF Loading, Loads
<1>2. CASE o \in [op : {"reg3"}, r : Selections(3), di : Marks(3)]
  <2> DEFINE t == Load(s, RegAddr(s.c, o.r[3]), o.di[3], FALSE, noise)
             u == Load(t, RegAddr(s.c, o.r[2]), o.di[2], FALSE, noise)
             v == Load(u, RegAddr(s.c, o.r[1]), o.di[1], FALSE, noise)
  <2>1. o.op = "reg3" /\ o.r[1] \in 0 .. 15 /\ o.r[2] \in 0 .. 15 /\ o.r[3] \in 0 .. 15
    BY <1>2 DEF Selections
  <2>2. /\ RegAddr(s.c, o.r[1]) \in Int /\ RegAddr(s.c, o.r[2]) \in Int
        /\ RegAddr(s.c, o.r[3]) \in Int
    BY <1>1, <2>1, RegAddrIn
  <2>3. LoadWord(s, o, noise) = v /\ Gives(o) = 3
    BY <2>1 DEF LoadWord, Gives
  <2>4. Loaded(s, t, 1)
    BY <2>2, LoadIn
  <2> HIDE DEF t
  <2>5. Loading(t)
    BY <2>4 DEF Loaded
  <2>6. Loaded(t, u, 1)
    BY <2>2, <2>5, LoadIn
  <2> HIDE DEF u
  <2>7. Loading(u)
    BY <2>6 DEF Loaded
  <2>8. Loaded(u, v, 1)
    BY <2>2, <2>7, LoadIn
  <2> HIDE DEF v
  <2>9. Loaded(s, u, 1 + 1)
    BY <2>4, <2>6, LoadedTwice
  <2>10. Loaded(s, v, 1 + 1 + 1)
    BY <2>8, <2>9, LoadedTwice
  <2> QED
    BY <2>3, <2>10
<1>3. CASE o \in [op : {"addr"}, a : Targets, di : BOOLEAN, wb : BOOLEAN]
  <2>1. o.op = "addr" /\ o.a \in Int
    BY <1>3 DEF Targets
  <2>2. LoadWord(s, o, noise) = Load(s, o.a, o.di, o.wb, noise) /\ Gives(o) = 1
    BY <2>1 DEF LoadWord, Gives
  <2> QED
    BY <2>1, <2>2, LoadIn
<1>4. CASE o \in [op : {"imm"}, val : Data]
  <2> DEFINE ops == Append(s.ops, o.val)
             t == [s EXCEPT !.ops = ops, !.wb = o.val]
  <2>1. o.op = "imm" /\ o.val \in Data /\ o.val \in Int
    BY <1>4, DataIs
  <2>2. LoadWord(s, o, noise) = t /\ Gives(o) = 1
    BY <2>1 DEF LoadWord, Gives
  <2>3. ops \in Seq(Data) /\ Len(ops) = Len(s.ops) + 1
    BY <2>1 DEF Loading, Loads
  <2> HIDE DEF ops
  <2>4. t \in Loads /\ t.c = s.c /\ t.m = s.m /\ t.ops = ops
    BY <2>1, <2>3 DEF Loading, Loads
  <2> HIDE DEF t
  <2>5. Loaded(s, t, 1)
    BY <2>3, <2>4 DEF Loaded, Loading
  <2> QED
    BY <2>2, <2>5
<1>5. CASE o \in [op : {"reg2"}, two : BOOLEAN, r : Selections(2), di : Marks(2), wb : Marks(2)]
  <2> DEFINE t == LoadAt(s, RegAddr(s.c, o.r[2]), o.di[2], o.wb[2], noise)
             v(u) == LoadAt(u, RegAddr(s.c, o.r[1]), o.di[1], o.wb[1], noise)
  <2>1. o.op = "reg2" /\ o.r[1] \in 0 .. 15 /\ o.r[2] \in 0 .. 15
    BY <1>5 DEF Selections
  <2>2. RegAddr(s.c, o.r[1]) \in Int /\ RegAddr(s.c, o.r[2]) \in Int
    BY <1>1, <2>1, RegAddrIn
  <2>3. /\ LoadWord(s, o, noise) = IF o.two THEN v(t) ELSE v(s)
        /\ Gives(o) = IF o.two THEN 2 ELSE 1
    BY <2>1 DEF LoadWord, Gives
  <2>4. Loaded(s, t, 1)
    BY <2>2, LoadAtIn
  <2> HIDE DEF t
  <2>5. Loaded(t, v(t), 1) /\ Loaded(s, v(s), 1)
    BY <2>2, <2>4, LoadAtIn DEF Loaded
  <2> HIDE DEF v
  <2>6. Loaded(s, v(t), 1 + 1)
    BY <2>4, <2>5, LoadedTwice
  <2>7. 1 + 1 = 2
    OBVIOUS
  <2> QED
    BY <2>3, <2>5, <2>6, <2>7
<1> QED
  BY <1>2, <1>3, <1>4, <1>5 DEF OperandWords

(* One operand word: the program counter passes it.                        *)
Passed(s, t, n) ==
  /\ Loading(t) /\ t.c.pc = s.c.pc + 1 /\ t.c.ret = s.c.ret /\ Len(t.ops) = Len(s.ops) + n

LEMMA OperandIn ==
  ASSUME NEW s, Loading(s), s.c.pc + 1 < 2048, Fetch(s.c.pc).arg \in OperandWords,
         NEW noise \in Data
  PROVE  Passed(s, Operand(s, noise), Gives(Fetch(s.c.pc).arg))
<1> DEFINE c == [s.c EXCEPT !.pc = @ + 1]
           t == [s EXCEPT !.c = c]
<1>1. c \in Cores /\ c.pc = s.c.pc + 1 /\ c.pcnt = s.c.pcnt /\ c.ret = s.c.ret
  <2>1. \A d \in Cores, n \in Nat :
          LET e == [d EXCEPT !.pc = n]
          IN  e \in Cores /\ e.pc = n /\ e.pcnt = d.pcnt /\ e.ret = d.ret
    BY DEF Cores
  <2>2. s.c \in Cores /\ s.c.pc \in Nat
    BY DEF Loading, Loads, Cores
  <2>3. s.c.pc + 1 \in Nat
    BY <2>2
  <2>4. c = [s.c EXCEPT !.pc = s.c.pc + 1]
    OBVIOUS
  <2> QED
    BY <2>1, <2>2, <2>3, <2>4
<1>2. Able(c)
  BY <1>1 DEF Able, Loading
<1>3. Operand(s, noise) = LoadWord(t, Fetch(s.c.pc).arg, noise)
  BY DEF Operand, Loading, Loads
<1> HIDE DEF c
<1>4. t \in Loads /\ t.c = c /\ t.m = s.m /\ t.ops = s.ops
  BY <1>1 DEF Loading, Loads
<1> HIDE DEF t
<1>5. Loading(t)
  BY <1>2, <1>4 DEF Loading
<1>6. Loaded(t, Operand(s, noise), Gives(Fetch(s.c.pc).arg))
  BY <1>3, <1>5, LoadWordIn
<1> QED
  BY <1>1, <1>4, <1>6 DEF Passed, Loaded

(* The operands of an ALU word lie in at most four words, whatever these   *)
(* are.                                                                    *)
Fetched(c, s) == Loading(s) /\ s.c.pc <= c.pc + 4 /\ s.c.ret = c.ret

LEMMA OperandsIn ==
  ASSUME NEW c, Able(c), c.pc + 4 < 2048, NEW m, Sound(m), NEW noise \in Data,
         NEW requests, \A pc \in Nat : Fetch(pc).arg \in OperandWords
  PROVE  Fetched(c, Operands(c, m, requests, noise))
<1> DEFINE more(s) == IF Len(s.ops) < requests THEN Operand(s, noise) ELSE s
           at(s, n) == Loading(s) /\ s.c.pc <= c.pc + n /\ s.c.ret = c.ret
           s0 == [c |-> c, m |-> m, ops |-> <<>>, wb |-> 0, gwb |-> 0]
           s1 == more(s0)
           s2 == more(s1)
           s3 == more(s2)
           s4 == more(s3)
<1>1. Operands(c, m, requests, noise) = s4
  BY DEF Operands
<1>2. c \in Cores /\ c.pc \in Nat
  BY DEF Able, Cores
<1>3. ASSUME NEW s, NEW n \in 0 .. 3, at(s, n)
      PROVE  at(more(s), n + 1)
  <2>1. s.c.pc \in Nat /\ s.c.pc + 1 < 2048
    BY <1>2, <1>3 DEF Loading, Loads, Cores
  <2>2. Passed(s, Operand(s, noise), Gives(Fetch(s.c.pc).arg))
    BY <1>3, <2>1, OperandIn
  <2>3. at(Operand(s, noise), n + 1)
    BY <1>2, <1>3, <2>1, <2>2 DEF Passed
  <2>4. at(s, n + 1)
    BY <1>2, <1>3, <2>1
  <2> QED
    BY <2>3, <2>4
<1>4. at(s0, 0)
  <2>1. s0 \in Loads
    BY <1>2 DEF Loads, Sound
  <2> QED
    BY <1>2, <2>1 DEF Loading
<1> HIDE DEF more, s0
<1>5. 0 + 1 = 1 /\ 1 + 1 = 2 /\ 2 + 1 = 3 /\ 3 + 1 = 4
  OBVIOUS
<1>6. at(s1, 1)
  BY <1>3, <1>4, <1>5
<1>7. at(s2, 2)
  BY <1>3, <1>5, <1>6
<1>8. at(s3, 3)
  BY <1>3, <1>5, <1>7
<1>9. at(s4, 4)
  BY <1>3, <1>5, <1>8
<1> QED
  BY <1>1, <1>9 DEF Fetched
-----------------------------------------------------------------------------
(* What the units get are numbers: an operand, what is on the stack, or    *)
(* what they had before.                                                   *)
LEMMA FewUnits == ASSUME NEW U \in SUBSET Units PROVE IsFiniteSet(U)
<1>1. IsFiniteSet({}) /\ \A S, x : IsFiniteSet(S) => IsFiniteSet(S \union {x})
  BY FS_EmptySet, FS_AddElement
<1>2. IsFiniteSet(((({} \union {"mult1"}) \union {"mult2"}) \union {"alu1"}) \union {"alu2"})
  BY <1>1
<1>3. Units = (((({} \union {"mult1"}) \union {"mult2"}) \union {"alu1"}) \union {"alu2"})
                 \union {"bs"}
  BY DEF Units
<1>4. IsFiniteSet(Units)
  BY <1>1, <1>2, <1>3
<1> QED
  BY <1>4, FS_Subset

LEMMA HandOutIn ==
  ASSUME NEW c \in Cores, NEW i \in AluWords, NEW s \in Loads, NEW noise \in Data
  PROVE  HandOut(c, i, s, noise).in \in [Units -> Int] /\ HandOut(c, i, s, noise).wb \in Int
<1> DEFINE asked == Needs(i) \ c.masked
           place(u) == Cardinality({v \in asked : Turn[v] <= Turn[u]})
           default == [c.in EXCEPT !["bs"] = i.bs + (IF i.alu >= 8 THEN 16 ELSE 0)]
           in == [u \in Units |-> IF u \notin asked THEN default[u]
                                  ELSE IF place(u) <= Len(s.ops) THEN s.ops[place(u)] ELSE noise]
           wb == IF Len(s.ops) # Cardinality(asked) /\ s.gwb = 0 THEN s.wb ELSE s.gwb
<1>1. HandOut(c, i, s, noise).in = in /\ HandOut(c, i, s, noise).wb = wb
  BY DEF HandOut
<1>2. s.ops \in Seq(Data) /\ Len(s.ops) \in Nat /\ s.wb \in Int /\ s.gwb \in Int
  BY DEF Loads
<1>3. wb \in Int
  BY <1>2
<1>4. default \in [Units -> Int]
  <2>1. i.bs + (IF i.alu >= 8 THEN 16 ELSE 0) \in Int
    BY DEF AluWords
  <2>2. c.in \in [Units -> Int]
    BY DEF Cores
  <2> QED
    BY <2>1, <2>2
<1>5. asked \in SUBSET Units
  BY DEF Needs, Units
<1>6. \A u \in Units : Turn[u] \in Int
  BY DEF Units, Turn
<1> HIDE DEF asked, default
<1>7. ASSUME NEW u \in asked PROVE place(u) \in Nat /\ place(u) >= 1
  <2> DEFINE before == {v \in asked : Turn[v] <= Turn[u]}
  <2>1. before \in SUBSET Units
    BY <1>5
  <2>2. IsFiniteSet(before)
    BY <2>1, FewUnits
  <2>3. u \in before
    BY <1>5, <1>6
  <2> HIDE DEF before
  <2>4. Cardinality(before) \in Nat /\ Cardinality(before) # 0
    BY <2>2, <2>3, FS_CardinalityType, FS_EmptySet
  <2> QED
    BY <2>4 DEF before
<1> HIDE DEF place
<1>8. ASSUME NEW u \in Units
      PROVE  (IF u \notin asked THEN default[u]
              ELSE IF place(u) <= Len(s.ops) THEN s.ops[place(u)] ELSE noise) \in Int
  <2>1. CASE u \notin asked
    BY <1>4, <2>1
  <2>2. CASE u \in asked /\ place(u) <= Len(s.ops)
    <3>1. place(u) \in 1 .. Len(s.ops)
      BY <1>2, <1>7, <2>2
    <3>2. s.ops[place(u)] \in Data
      BY <1>2, <3>1
    <3> QED
      BY <2>2, <3>2, DataIs
  <2>3. CASE u \in asked /\ ~(place(u) <= Len(s.ops))
    BY <2>3, DataIs
  <2> QED
    BY <2>1, <2>2, <2>3
<1>9. in \in [Units -> Int]
  BY <1>8
<1> QED
  BY <1>1, <1>3, <1>9
-----------------------------------------------------------------------------
(* Each word of the program memory that was ever written.                  *)
Loadable(f) == DOMAIN f \subseteq Targets /\ \A a \in DOMAIN f : f[a] \in ProgramWords

(* The state between two instructions.                                     *)
IInv ==
  /\ host \in Hosts /\ Loadable(nmem)
  /\ core \in Cores /\ core.ret <= 1024 /\ core.pc <= (IF working THEN 1028 ELSE 1029)
  /\ working => core.pcnt \in Data
  /\ Sound(mem) /\ running \in BOOLEAN /\ working \in BOOLEAN

LEMMA UpperIn == ASSUME NEW y \in Accu PROVE y \div Pow2[W] \in Data
<1>1. y \in Nat /\ Whole \in Nat \ {0} /\ y < Whole * Whole
  BY AccuIs, Widths
<1>2. y \div Whole \in Nat /\ Whole * (y \div Whole) <= y
  <2>1. \A x \in Nat, d \in Nat \ {0} : x \div d \in Nat /\ d * (x \div d) <= x
    OBVIOUS
  <2> QED
    BY <1>1, <2>1
<1>3. y \div Whole < Whole
  <2> DEFINE q == y \div Whole
  <2>1. SUFFICES ASSUME q >= Whole PROVE FALSE
    BY <1>1, <1>2
  <2> HIDE DEF q
  <2>2. q \in Nat /\ Whole * q <= y
    BY <1>2 DEF q
  <2>3. Whole * Whole <= Whole * q
    BY <1>1, <2>1, <2>2, Monotonic
  <2> QED
    BY <1>1, <2>2, <2>3
<1> QED
  BY <1>2, <1>3, DataIs DEF Whole

LEMMA QuietIn == ASSUME NEW m, Sound(m) PROVE Sound(Quiet(m))
<1>1. Quiet(m) \in Mems
  <2>1. Nowhere \in Int
    BY DEF Nowhere
  <2> QED
    BY <2>1 DEF Quiet, Sound, Mems
<1>2. Quiet(m).sema_status = m.sema_status /\ Quiet(m).sema_by = m.sema_by
  BY DEF Quiet, Sound, Mems
<1> QED
  BY <1>1, <1>2 DEF Sound

(* Every word is an instruction and an operand, and those that are not a   *)
(* sleep lie where programs do.                                            *)
LEMMA FetchIn ==
  ASSUME IInv, NEW pc \in Nat
  PROVE  /\ Fetch(pc).arg \in OperandWords
         /\ \/ Fetch(pc).ins = [op |-> "sleep"]
            \/ pc < 1024 /\ Fetch(pc).ins \in AluWords \union MoveWords \union ControlWords
<1>1. CASE pc \notin DOMAIN nmem
  <2>1. Fetch(pc) = Sleeping
    BY <1>1 DEF Fetch
  <2>2. 896 \in Targets
    BY DEF Targets
  <2> QED
    BY <2>1, <2>2 DEF Sleeping, OperandWords
<1>2. CASE pc \in DOMAIN nmem
  BY <1>2 DEF IInv, Loadable, Fetch, ProgramWords, Targets
<1> QED
  BY <1>1, <1>2

LEMMA WriteLoadable ==
  ASSUME Loadable(nmem), NEW a \in Targets, NEW w \in ProgramWords, MemWrite(a, w)
  PROVE  Loadable(nmem')
  BY DEF Loadable, MemWrite

LEMMA Kinds ==
  ASSUME NEW i \in AluWords \union MoveWords \union ControlWords
  PROVE  /\ i.op = "alu" => i \in AluWords
         /\ i.op \in {"move", "movereg"} => i \in MoveWords
         /\ i.op \in ControlOps => i \in ControlWords
  BY DEF AluWords, MoveWords, ControlWords, ControlOps

(* The flags of an operation and of the shift after it.                    *)
LEMMA FlagsIn ==
  ASSUME NEW i, NEW a, NEW b, NEW y, NEW bs
  PROVE  /\ AluFlags(i, a, b, y) \in Flags
         /\ \A f \in Flags : [f EXCEPT !.c = ShiftCarry(bs, y, f)] \in Flags
<1>1. AluFlags(i, a, b, y) \in Flags
  <2>1. \A p, q, r, s, t \in BOOLEAN : [z |-> p, n |-> q, c |-> r, v |-> s, exact |-> t] \in Flags
    BY DEF Flags
  <2>2. TopSet(H, y) \in BOOLEAN
    BY DEF TopSet
  <2>3. /\ (y \div Pow2[W] = 0) \in BOOLEAN
        /\ ((y \div One) % 16 = 0) \in BOOLEAN
    OBVIOUS
  <2>4. (\/ i.alu \in Sums /\ AddCarry(H, Left1(i, a), Right1(i, b), y)
         \/ i.alu \in Differences /\ SubCarry(H, Left1(i, a), Right1(i, b), y)) \in BOOLEAN
    OBVIOUS
  <2>5. (\/ i.alu \in Sums /\ AddOverflow(H, Left1(i, a), Right1(i, b), y)
         \/ i.alu \in Differences /\ SubOverflow(H, Left1(i, a), Right1(i, b), y)) \in BOOLEAN
    OBVIOUS
  <2> QED
    BY <2>1, <2>2, <2>3, <2>4, <2>5, Zenon DEF AluFlags
<1>2. ASSUME NEW f \in Flags PROVE [f EXCEPT !.c = ShiftCarry(bs, y, f)] \in Flags
  <2>1. ShiftCarry(bs, y, f) \in BOOLEAN
    <3>1. TopSet(H, y) \in BOOLEAN /\ f.c \in BOOLEAN
      BY DEF TopSet, Flags
    <3> QED
      BY <3>1, Zenon DEF ShiftCarry
  <2>2. \A p \in BOOLEAN : [f EXCEPT !.c = p] \in Flags
    BY DEF Flags
  <2> QED
    BY <2>1, <2>2, Zenon
<1> QED
  BY <1>1, <1>2, Zenon
-----------------------------------------------------------------------------
(* The flags mean what they should for words of every width.               *)

(* After an addition, carry and overflow say that the sum without sign and *)
(* the one with sign do not fit (ARM_SET_CV, ADD_CFLAG, ADD_VFLAG).        *)
THEOREM AdditionFlags ==
  ASSUME NEW h \in Nat \ {0}, NEW a \in Word(h), NEW b \in Word(h),
         NEW carry \in {0, 1}
  PROVE  AddExact(h, a, b, carry)
BY SMT DEF AddExact, Add, Cut, AddCarry, AddOverflow, Signed, TopSet, Word

(* After a subtraction carry says that nothing was borrowed, overflow that *)
(* the difference with sign does not fit (ARM_SET_CV_sub, SUB_CFLAG,       *)
(* SUB_VFLAG).                                                             *)
THEOREM SubtractionFlags ==
  ASSUME NEW h \in Nat \ {0}, NEW a \in Word(h), NEW b \in Word(h),
         NEW carry \in {0, 1}
  PROVE  SubExact(h, a, b, carry)
BY SMT DEF SubExact, Sub, Cut, SubCarry, SubOverflow, Signed, TopSet, Word

(* The conditions a program tests after a comparison decide the order of   *)
(* the two words, with and without sign.                                   *)
THEOREM ComparisonFlags ==
  ASSUME NEW h \in Nat \ {0}, NEW a \in Word(h), NEW b \in Word(h)
  PROVE  CompareExact(h, a, b)
BY SMT DEF CompareExact, Sub, Cut, SubCarry, SubOverflow, Signed, TopSet, Word

(* The DSP compares words in the upper half of the accumulator.            *)
LEMMA Multiples ==
  ASSUME NEW m \in Nat \ {0}, NEW x \in Int, NEW y \in Int
  PROVE  /\ x * m < y * m <=> x < y
         /\ x * m = y * m <=> x = y
<1>1. ASSUME NEW u \in Int, NEW v \in Int, u < v PROVE u * m < v * m
  <2>1. v - u \in Nat /\ v - u >= 1 /\ m >= 1
    BY <1>1
  <2>2. (v - u) * m >= 1 * m
    BY <2>1, Monotonic
  <2>3. (v - u) * m = v * m - u * m /\ u * m \in Int /\ v * m \in Int
    OBVIOUS
  <2> QED
    BY <2>1, <2>2, <2>3
<1>2. x < y => x * m < y * m
  BY <1>1
<1>3. y < x => y * m < x * m
  BY <1>1
<1>4. x * m \in Int /\ y * m \in Int
  OBVIOUS
<1> QED
  BY <1>2, <1>3, <1>4

LEMMA Scaled ==
  ASSUME NEW x \in Data
  PROVE  /\ x * Whole \in Word(H)
         /\ Signed(H, x * Whole) = Signed(Half, x) * Whole
<1>1. /\ x \in Nat /\ x < Whole /\ Whole \in Nat \ {0} /\ Half \in Nat /\ H = Half * Whole
      /\ 2 * H = Whole * Whole
  BY DataIs, Widths
<1>2. x * Whole \in Nat /\ x * Whole < Whole * Whole
  BY <1>1, Multiples
<1>3. x * Whole \in Word(H)
  BY <1>1, <1>2, AccuIs DEF Accu
<1>4. x * Whole < Half * Whole <=> x < Half
  BY <1>1, Multiples
<1>5. TopSet(H, x * Whole) <=> TopSet(Half, x)
  BY <1>1, <1>2, <1>4 DEF TopSet
<1>6. (x - 2 * Half) * Whole = x * Whole - 2 * H
  BY <1>1
<1> QED
  BY <1>3, <1>5, <1>6, <1>1 DEF Signed, Half

(* What the flags say of two words.                                        *)
Says(f, x, y) ==
  /\ f.z <=> x = y
  /\ f.exact
  /\ f.c <=> x >= y
  /\ ~(f.n <=> f.v) <=> S16(x) < S16(y)

LEMMA Quotient ==
  ASSUME NEW q \in Int, NEW m \in Nat \ {0}, NEW k \in Nat \ {0}
  PROVE  (q * (k * m)) \div m = q * k
<1>1. q * (k * m) = (q * k) * m /\ q * k \in Int
  OBVIOUS
<1>2. \A p \in Int : (p * m) \div m = p
  OBVIOUS
<1> QED
  BY <1>1, <1>2

LEMMA SubtractionSays ==
  ASSUME NEW i, i.alu = 4, NEW x \in Data, NEW y \in Data
  PROVE  Says(AluFlags(i, x * Whole, y * Whole, AluResult(i, x * Whole, y * Whole)), x, y)
<1> DEFINE a == x * Whole
           b == y * Whole
           r == Sub(H, a, b, 1)
<1>1. a \in Word(H) /\ b \in Word(H) /\ H \in Nat \ {0}
  <2>1. x * Whole \in Word(H) /\ y * Whole \in Word(H)
    BY Scaled
  <2> QED
    BY <2>1, AccuIs
<1>2. CompareExact(H, a, b)
  BY <1>1, ComparisonFlags
<1>3. AluResult(i, a, b) = r
  BY DEF AluResult, Sums, Differences, Left1, Right1
<1>4. x \in Nat /\ y \in Nat /\ Whole \in Nat \ {0} /\ One \in Nat \ {0} /\ Whole = 16 * One
  BY DataIs, Widths
<1>5. /\ a >= b <=> x >= y
      /\ a = b <=> x = y
  BY <1>1, <1>4, Multiples DEF Word
<1>6. PICK q \in Int : r = q * Whole
  <2>1. a - b = (x - y) * Whole /\ a - b + 2 * H = (x - y + Whole) * Whole
    <3>1. 2 * H = Whole * Whole
      BY Widths
    <3>2. (x - y + Whole) * Whole = x * Whole - y * Whole + Whole * Whole
      BY <1>4
    <3>3. (x - y) * Whole = x * Whole - y * Whole
      BY <1>4
    <3> QED
      BY <3>1, <3>2, <3>3
  <2>2. r = a - b \/ r = a - b + 2 * H
    BY <1>1 DEF Sub, Cut, Word
  <2>3. x - y \in Int /\ x - y + Whole \in Int
    BY <1>4
  <2> QED
    BY <2>1, <2>2, <2>3
<1> HIDE DEF a, b, r
<1>7. r \div Pow2[W] = q
  <2>1. \A p \in Int, m \in Nat \ {0} : (p * m) \div m = p
    OBVIOUS
  <2> QED
    BY <1>4, <1>6, <2>1 DEF Whole
<1>8. q = 0 <=> r = 0
  BY <1>4, <1>6, Multiples
<1>9. (r \div One) % 16 = 0
  <2>1. r \div One = q * 16
    BY <1>4, <1>6, Quotient
  <2>2. \A p \in Int : (p * 16) % 16 = 0
    OBVIOUS
  <2> QED
    BY <2>1, <2>2
<1> DEFINE f == AluFlags(i, a, b, r)
<1>10. /\ f.z <=> q = 0
       /\ f.n <=> TopSet(H, r)
       /\ f.c <=> SubCarry(H, a, b, r)
       /\ f.v <=> SubOverflow(H, a, b, r)
       /\ f.exact
  <2>1. /\ i.alu \notin Sums /\ i.alu \in Differences /\ Left1(i, a) = a /\ Right1(i, b) = b
    BY DEF Sums, Differences, Left1, Right1
  <2>2. f.z <=> r \div Pow2[W] = 0
    BY Zenon DEF AluFlags
  <2>3. f.n <=> TopSet(H, r)
    BY Zenon DEF AluFlags
  <2>4. f.c <=> SubCarry(H, a, b, r)
    BY <2>1, Zenon DEF AluFlags
  <2>5. f.v <=> SubOverflow(H, a, b, r)
    BY <2>1, Zenon DEF AluFlags
  <2>6. f.exact <=> (r \div One) % 16 = 0
    BY Zenon DEF AluFlags
  <2> QED
    BY <1>7, <1>9, <2>2, <2>3, <2>4, <2>5, <2>6
<1> HIDE DEF f
<1>11. f.z <=> x = y
  BY <1>2, <1>5, <1>8, <1>10 DEF CompareExact, r
<1>12. f.c <=> x >= y
  BY <1>2, <1>5, <1>10 DEF CompareExact, r
<1>13. ~(f.n <=> f.v) <=> S16(x) < S16(y)
  <2>1. ~(f.n <=> f.v) <=> Signed(H, a) < Signed(H, b)
    BY <1>2, <1>10 DEF CompareExact, r
  <2>2. Signed(H, a) = S16(x) * Whole /\ Signed(H, b) = S16(y) * Whole
    BY Scaled DEF a, b, S16, Half
  <2>3. S16(x) \in Int /\ S16(y) \in Int
    BY <1>4, SignedIn
  <2>4. Signed(H, a) < Signed(H, b) <=> S16(x) < S16(y)
    BY <1>4, <2>2, <2>3, Multiples
  <2> QED
    BY <2>1, <2>4
<1>14. Says(f, x, y)
  BY <1>10, <1>11, <1>12, <1>13 DEF Says
<1> QED
  BY <1>3, <1>14 DEF a, b, f

(* What a branch tests, on the flags of such a subtraction.                *)
LEMMA Truths ==
  ASSUME NEW n \in BOOLEAN, NEW v \in BOOLEAN, NEW z \in BOOLEAN, NEW c \in BOOLEAN
  PROVE  /\ (((n # v) \/ (z /\ FALSE)) # FALSE) <=> ~(n <=> v)
         /\ (((n # v) \/ (z /\ FALSE)) # TRUE) <=> (n <=> v)
         /\ (((n # v) \/ (z /\ TRUE)) # FALSE) <=> (~(n <=> v) \/ z)
         /\ (((n # v) \/ (z /\ TRUE)) # TRUE) <=> ((n <=> v) /\ ~z)
         /\ ((c /\ ~z) # FALSE) <=> (c /\ ~z)
         /\ ((c /\ ~z) # TRUE) <=> (~c \/ z)
<1>1. ((n # v) <=> ~(n <=> v)) /\ (n # v) \in BOOLEAN
  BY Zenon
<1>2. \A p \in BOOLEAN : ((p # FALSE) <=> p) /\ ((p # TRUE) <=> ~p)
  BY Zenon
<1>3. ((n # v) \/ (z /\ FALSE)) \in BOOLEAN /\ ((n # v) \/ (z /\ TRUE)) \in BOOLEAN
      /\ (c /\ ~z) \in BOOLEAN
  BY <1>1, Zenon
<1>4. (((n # v) \/ (z /\ FALSE)) # FALSE) <=> ~(n <=> v)
  BY <1>1, <1>2, <1>3, Zenon
<1>5. (((n # v) \/ (z /\ FALSE)) # TRUE) <=> (n <=> v)
  BY <1>1, <1>2, <1>3, Zenon
<1>6. (((n # v) \/ (z /\ TRUE)) # FALSE) <=> (~(n <=> v) \/ z)
  BY <1>1, <1>2, <1>3, Zenon
<1>7. (((n # v) \/ (z /\ TRUE)) # TRUE) <=> ((n <=> v) /\ ~z)
  BY <1>1, <1>2, <1>3, Zenon
<1>8. ((c /\ ~z) # FALSE) <=> (c /\ ~z)
  BY <1>1, <1>2, <1>3, Zenon
<1>9. ((c /\ ~z) # TRUE) <=> (~c \/ z)
  BY <1>1, <1>2, <1>3, Zenon
<1> QED
  BY <1>4, <1>5, <1>6, <1>7, <1>8, <1>9

LEMMA Tests ==
  ASSUME NEW f \in Flags
  PROVE  LET taken(mode, sel, m1, m0) ==
               Taken([mode |-> mode, sel |-> sel, m1 |-> m1, m0 |-> m0], f)
         IN  /\ taken(3, FALSE, FALSE, FALSE) <=> ~(f.n <=> f.v)
             /\ taken(3, FALSE, TRUE, FALSE) <=> (f.n <=> f.v)
             /\ taken(3, FALSE, FALSE, TRUE) <=> (~(f.n <=> f.v) \/ f.z)
             /\ taken(3, FALSE, TRUE, TRUE) <=> ((f.n <=> f.v) /\ ~f.z)
             /\ taken(3, TRUE, FALSE, FALSE) <=> (f.c /\ ~f.z)
             /\ taken(3, TRUE, FALSE, TRUE) <=> (~f.c \/ f.z)
             /\ taken(1, TRUE, TRUE, FALSE) <=> f.c
             /\ taken(1, TRUE, FALSE, TRUE) <=> f.z
             /\ taken(1, FALSE, FALSE, FALSE) <=> (f.z /\ f.exact)
<1> DEFINE taken(mode, sel, m1, m0) ==
             Taken([mode |-> mode, sel |-> sel, m1 |-> m1, m0 |-> m0], f)
<1>1. /\ f.z \in BOOLEAN /\ f.n \in BOOLEAN /\ f.c \in BOOLEAN /\ f.v \in BOOLEAN
      /\ f.exact \in BOOLEAN
  BY DEF Flags
<1>2. 3 # 1 /\ 3 # 2
  OBVIOUS
<1>3. ASSUME NEW m1 \in BOOLEAN, NEW m0 \in BOOLEAN
      PROVE  taken(3, FALSE, m1, m0) <=> (((f.n # f.v) \/ (f.z /\ m0)) # m1)
  BY <1>2, Zenon DEF Taken
<1>4. ASSUME NEW m0 \in BOOLEAN
      PROVE  taken(3, TRUE, FALSE, m0) <=> ((f.c /\ ~f.z) # m0)
  BY <1>2, Zenon DEF Taken
<1>5. taken(1, TRUE, TRUE, FALSE) <=> f.c
  BY <1>1 DEF Taken
<1>6. taken(1, TRUE, FALSE, TRUE) <=> f.z
  BY <1>1 DEF Taken
<1>7. taken(1, FALSE, FALSE, FALSE) <=> (f.z /\ f.exact)
  BY <1>1 DEF Taken
<1> HIDE DEF taken
<1>8. /\ (((f.n # f.v) \/ (f.z /\ FALSE)) # FALSE) <=> ~(f.n <=> f.v)
      /\ (((f.n # f.v) \/ (f.z /\ FALSE)) # TRUE) <=> (f.n <=> f.v)
      /\ (((f.n # f.v) \/ (f.z /\ TRUE)) # FALSE) <=> (~(f.n <=> f.v) \/ f.z)
      /\ (((f.n # f.v) \/ (f.z /\ TRUE)) # TRUE) <=> ((f.n <=> f.v) /\ ~f.z)
      /\ ((f.c /\ ~f.z) # FALSE) <=> (f.c /\ ~f.z)
      /\ ((f.c /\ ~f.z) # TRUE) <=> (~f.c \/ f.z)
  BY <1>1, Truths, Zenon
<1>9. taken(3, FALSE, FALSE, FALSE) <=> ~(f.n <=> f.v)
  BY <1>3, <1>8, Zenon
<1>10. taken(3, FALSE, TRUE, FALSE) <=> (f.n <=> f.v)
  BY <1>3, <1>8, Zenon
<1>11. taken(3, FALSE, FALSE, TRUE) <=> (~(f.n <=> f.v) \/ f.z)
  BY <1>3, <1>8, Zenon
<1>12. taken(3, FALSE, TRUE, TRUE) <=> ((f.n <=> f.v) /\ ~f.z)
  BY <1>3, <1>8, Zenon
<1>13. taken(3, TRUE, FALSE, FALSE) <=> (f.c /\ ~f.z)
  BY <1>4, <1>8, Zenon
<1>14. taken(3, TRUE, FALSE, TRUE) <=> (~f.c \/ f.z)
  BY <1>4, <1>8, Zenon
<1> QED
  BY <1>5, <1>6, <1>7, <1>9, <1>10, <1>11, <1>12, <1>13, <1>14, Zenon DEF taken

(* What the flags say of the words that were compared, until an            *)
(* instruction changes them.                                               *)
Compared ==
  compared = NotCompared \/ \E x, y \in Data : compared = <<x, y>> /\ Says(core.f, x, y)

LEMMA ComputeSays ==
  ASSUME NEW i, NEW c \in Cores, NEW a \in Accu, NEW b \in Accu, NEW bs,
         Compute(i, c, a, b, bs, AluResult(i, a, b), AluFlags(i, a, b, AluResult(i, a, b)))
  PROVE  Compared'
<1> DEFINE y == AluResult(i, a, b)
           f == AluFlags(i, a, b, y)
           x1 == a \div Pow2[W]
           x2 == b \div Pow2[W]
           plain == i.alu = 4 /\ bs \notin {8, 24} /\ a % Pow2[W] = 0 /\ b % Pow2[W] = 0
<1>1. /\ core' = [c EXCEPT !.y = Shift(bs, y, f), !.f = [f EXCEPT !.c = ShiftCarry(bs, y, f)]]
      /\ compared' = IF plain THEN <<x1, x2>> ELSE NotCompared
  BY DEF Compute
<1>2. CASE ~plain
  BY <1>1, <1>2 DEF Compared
<1>3. CASE plain
  <2>1. x1 \in Data /\ x2 \in Data
    BY UpperIn
  <2>2. a = x1 * Whole /\ b = x2 * Whole
    <3>1. \A u \in Nat, m \in Nat \ {0} : u % m = 0 => u = (u \div m) * m
      OBVIOUS
    <3>2. a \in Nat /\ b \in Nat /\ Pow2[W] \in Nat \ {0}
      BY AccuIs, Widths DEF Whole
    <3> QED
      BY <1>3, <3>1, <3>2 DEF Whole
  <2>3. Says(f, x1, x2)
    <3> HIDE DEF x1, x2
    <3>1. Says(AluFlags(i, x1 * Whole, x2 * Whole, AluResult(i, x1 * Whole, x2 * Whole)), x1, x2)
      BY <1>3, <2>1, SubtractionSays
    <3> QED
      BY <2>2, <3>1
  <2>4. f \in Flags
    BY FlagsIn
  <2>5. ShiftCarry(bs, y, f) = f.c
    BY <1>3 DEF ShiftCarry
  <2> HIDE DEF f, x1, x2
  <2>6. core'.f = [f EXCEPT !.c = f.c]
    BY <1>1, <2>5 DEF Cores
  <2>7. core'.f = f
    BY <2>4, <2>6 DEF Flags
  <2> QED
    BY <1>1, <1>3, <2>1, <2>3, <2>7 DEF Compared
<1> QED
  BY <1>2, <1>3
-----------------------------------------------------------------------------
LEMMA AluIn ==
  ASSUME IInv, working, NEW i \in AluWords,
         core.pc \in Nat, core.pc < 1024, NEW noise \in Noises, AluStep(i, noise)
  PROVE  /\ core' \in Cores /\ core'.ret <= 1024 /\ core'.pc <= 1028 /\ core'.pcnt \in Data
         /\ Sound(mem') /\ working' /\ Compared'
<1> DEFINE c0 == [core EXCEPT !.pc = core.pc + 1]
<1>1. noise \in Data /\ i \in AluWords /\ core \in Cores /\ core.ret <= 1024
  BY DspAssumption DEF IInv
<1>2. c0 \in Cores /\ c0.pc = core.pc + 1 /\ c0.ret = core.ret /\ c0.pcnt = core.pcnt
  BY <1>1 DEF Cores
<1>3. Able(c0)
  BY <1>2 DEF Able, IInv
<1>4. Sound(Quiet(mem))
  BY QuietIn DEF IInv
<1> HIDE DEF c0
<1>5. Fetched(c0, Operands(c0, Quiet(mem), Requests(i), noise))
  BY <1>1, <1>2, <1>3, <1>4, OperandsIn, FetchIn
<1>6. PICK s \in {Operands(c0, Quiet(mem), Requests(i), noise)} :
        \E h \in {HandOut(core, i, s, noise)} :
          \E c \in {[s.c EXCEPT !.in = h.in]} :
            \E a \in {MuxA(c, i)}, b \in {MuxB(c, i)} :
              \E y \in {AluResult(i, a, b)} :
                /\ Compute(i, c, a, b, h.in["bs"], y, AluFlags(i, a, b, y))
                /\ mem' = IF h.wb = 0 THEN s.m ELSE Write(s.m, h.wb, core'.y \div Pow2[W])
                /\ UNCHANGED working
  BY Zenon DEF AluStep, c0
<1>7. Loading(s) /\ s.c.pc <= core.pc + 5 /\ s.c.ret = core.ret
  <2>1. Fetched(c0, s)
    BY <1>5, <1>6
  <2>2. s.c.pc \in Nat
    BY <2>1 DEF Fetched, Loading, Loads, Cores
  <2> QED
    BY <1>1, <1>2, <2>1, <2>2 DEF Fetched
<1> DEFINE h == HandOut(core, i, s, noise)
           c == [s.c EXCEPT !.in = h.in]
           a == MuxA(c, i)
           b == MuxB(c, i)
           y == AluResult(i, a, b)
           f == AluFlags(i, a, b, y)
<1>8. /\ Compute(i, c, a, b, h.in["bs"], y, f)
      /\ mem' = IF h.wb = 0 THEN s.m ELSE Write(s.m, h.wb, core'.y \div Pow2[W])
      /\ working' = working
  BY <1>6
<1>9. s \in Loads /\ s.c \in Cores /\ s.c.pcnt \in Data /\ Sound(s.m)
  BY <1>7 DEF Loading, Loads, Able
<1>10. h.in \in [Units -> Int] /\ h.wb \in Int
  BY <1>1, <1>9, HandOutIn
<1> HIDE DEF h
<1>11. /\ c \in Cores /\ c.pc = s.c.pc /\ c.ret = s.c.ret /\ c.pcnt = s.c.pcnt
       /\ c.y \in Accu /\ c.f \in Flags /\ c.in \in [Units -> Int]
  BY <1>9, <1>10 DEF Cores
<1> HIDE DEF c
<1>12. a \in Accu /\ b \in Accu
  BY <1>1, <1>11, MuxAIn, MuxBIn
<1> HIDE DEF a, b
<1>13. Compared'
  BY <1>8, <1>11, <1>12, ComputeSays
<1>14. y \in Accu /\ f \in Flags
  BY <1>1, <1>12, ResultIn, FlagsIn
<1> HIDE DEF y, f
<1> DEFINE z == Shift(h.in["bs"], y, f)
           g == [f EXCEPT !.c = ShiftCarry(h.in["bs"], y, f)]
<1>15. core' = [c EXCEPT !.y = z, !.f = g]
  BY <1>8 DEF Compute
<1>16. z \in Accu /\ g \in Flags
  <2>1. h.in["bs"] \in Int
    BY <1>10 DEF Units
  <2> QED
    BY <1>14, <2>1, ShiftIn, FlagsIn
<1> HIDE DEF z, g
<1>17. /\ core' \in Cores /\ core'.pc = c.pc /\ core'.ret = c.ret /\ core'.pcnt = c.pcnt
       /\ core'.y = z
  BY <1>11, <1>15, <1>16 DEF Cores
<1>18. core'.ret <= 1024 /\ core'.pc <= 1028 /\ core'.pcnt \in Data
  <2>1. c.pc \in Nat
    BY <1>11 DEF Cores
  <2> QED
    BY <1>1, <1>7, <1>9, <1>11, <1>17, <2>1
<1>19. Sound(mem')
  <2>1. core'.y \div Pow2[W] \in Data
    BY <1>16, <1>17, UpperIn
  <2>2. CASE h.wb = 0
    BY <1>8, <1>9, <2>2
  <2>3. CASE h.wb # 0
    <3>1. mem' = Write(s.m, h.wb, core'.y \div Pow2[W])
      BY <1>8, <2>3
    <3> QED
      BY <1>9, <1>10, <2>1, <3>1, WriteIn
  <2> QED
    BY <2>2, <2>3
<1> QED
  BY <1>8, <1>17, <1>18, <1>19, <1>13

LEMMA MoveIn ==
  ASSUME IInv, working, NEW i \in MoveWords,
         core.pc \in Nat, core.pc < 1024, NEW noise \in Noises, MoveStep(i, noise)
  PROVE  /\ core' \in Cores /\ core'.ret <= 1024 /\ core'.pc <= 1028 /\ core'.pcnt \in Data
         /\ Sound(mem') /\ working' /\ core'.f = core.f
<1> DEFINE o == Fetch(core.pc + 1).arg
           c == [core EXCEPT !.pc = core.pc + 2]
<1>1. noise \in Data /\ i \in MoveWords /\ core \in Cores /\ core.ret <= 1024
  BY DspAssumption DEF IInv
<1>2. /\ core' = c /\ c \in Cores /\ c.pc = core.pc + 2 /\ c.ret = core.ret
      /\ c.pcnt = core.pcnt /\ c.f = core.f
  BY <1>1 DEF MoveStep, Cores
<1>3. Able(c)
  BY <1>2 DEF Able, IInv
<1>4. Sound(Quiet(mem))
  BY QuietIn DEF IInv
<1>5. o \in OperandWords
  BY FetchIn
<1> HIDE DEF c
<1>6. PICK r \in {LoadOne(c, o, noise)} :
        \E p \in {IF i.di THEN Read(c, r.mem, IF i.op = "movereg" THEN RegAddr(c, i.reg) ELSE i.a,
                                    noise)
                  ELSE Got(r.mem, IF i.op = "movereg" THEN RegAddr(c, i.reg) ELSE i.a)} :
          mem' = Write(p.mem, p.val, r.val)
  BY <1>2, Zenon DEF MoveStep, o
<1> DEFINE to == IF i.op = "movereg" THEN RegAddr(c, i.reg) ELSE i.a
           p == IF i.di THEN Read(c, r.mem, to, noise) ELSE Got(r.mem, to)
<1>7. mem' = Write(p.mem, p.val, r.val)
  BY <1>6
<1>8. to \in Int
  <2>1. CASE i.op = "movereg"
    <3>1. i.reg \in 0 .. 15
      BY <1>1, <2>1 DEF MoveWords
    <3> QED
      BY <1>2, <2>1, <3>1, RegAddrIn
  <2>2. CASE i.op # "movereg"
    BY <1>1, <2>2 DEF MoveWords, Targets
  <2> QED
    BY <2>1, <2>2
<1> HIDE DEF to
<1>9. SoundGot(r)
  <2> HIDE DEF o
  <2>1. CASE o \in [op : {"reg3"}, r : Selections(3), di : Marks(3)]
    <3>1. o.op = "reg3" /\ o.r[3] \in 0 .. 15
      BY <2>1 DEF Selections
    <3>2. r = Deref(c, Quiet(mem), RegAddr(c, o.r[3]), o.di[3], noise)
      BY <1>6, <3>1 DEF LoadOne
    <3>3. RegAddr(c, o.r[3]) \in Int
      BY <1>2, <3>1, RegAddrIn
    <3> QED
      BY <1>1, <1>3, <1>4, <3>2, <3>3, DerefIn
  <2>2. CASE o \in [op : {"addr"}, a : Targets, di : BOOLEAN, wb : BOOLEAN]
    <3>1. o.op = "addr" /\ o.a \in Int
      BY <2>2 DEF Targets
    <3>2. r = Deref(c, Quiet(mem), o.a, o.di, noise)
      BY <1>6, <3>1 DEF LoadOne
    <3> QED
      BY <1>1, <1>3, <1>4, <3>1, <3>2, DerefIn
  <2>3. CASE o \in [op : {"reg2"}, two : BOOLEAN, r : Selections(2), di : Marks(2),
                    wb : Marks(2)]
    <3>1. o.op = "reg2" /\ o.r[1] \in 0 .. 15
      BY <2>3 DEF Selections
    <3>2. r = Deref(c, Quiet(mem), RegAddr(c, o.r[1]), o.di[1], noise)
      BY <1>6, <3>1 DEF LoadOne
    <3>3. RegAddr(c, o.r[1]) \in Int
      BY <1>2, <3>1, RegAddrIn
    <3> QED
      BY <1>1, <1>3, <1>4, <3>2, <3>3, DerefIn
  <2>4. CASE o \in [op : {"imm"}, val : Data]
    <3>1. o.op = "imm" /\ o.val \in Data
      BY <2>4
    <3>2. r = Got(Quiet(mem), o.val)
      BY <1>6, <3>1 DEF LoadOne
    <3> QED
      BY <1>4, <3>1, <3>2 DEF SoundGot, Got
  <2> QED
    BY <1>5, <2>1, <2>2, <2>3, <2>4 DEF OperandWords
<1>10. Sound(p.mem) /\ p.val \in Int
  <2>1. Sound(r.mem)
    BY <1>9 DEF SoundGot
  <2>2. SoundGot(Read(c, r.mem, to, noise))
    BY <1>1, <1>3, <1>8, <2>1, ReadIn
  <2>3. Sound(Read(c, r.mem, to, noise).mem) /\ Read(c, r.mem, to, noise).val \in Int
    BY <2>2, DataIs DEF SoundGot
  <2>4. Sound(Got(r.mem, to).mem) /\ Got(r.mem, to).val \in Int
    BY <1>8, <2>1 DEF Got
  <2> QED
    BY <2>3, <2>4
<1> HIDE DEF p
<1>11. Sound(mem')
  <2>1. r.val \in Data
    BY <1>9 DEF SoundGot
  <2> QED
    BY <1>7, <1>10, <2>1, WriteIn
<1>12. working'
  BY DEF MoveStep
<1>13. core'.ret <= 1024 /\ core'.pc <= 1028 /\ core'.pcnt \in Data
  BY <1>1, <1>2 DEF IInv
<1> QED
  BY <1>2, <1>11, <1>12, <1>13

LEMMA ControlIn ==
  ASSUME IInv, working, NEW i \in ControlWords, i.op \in ControlOps,
         core.pc \in Nat, core.pc < 1024, ControlStep(i)
  PROVE  /\ core' \in Cores /\ core'.ret <= 1024 /\ core'.pc <= 1028 /\ core'.pcnt \in Data
         /\ Sound(mem') /\ working' /\ core'.f = core.f
<1> DEFINE c == [core EXCEPT !.pc = core.pc + 1]
           next(d, n, r) == /\ d \in Cores /\ d.pc = n /\ d.ret = r
                            /\ d.pcnt = core.pcnt /\ d.f = core.f
<1>1. core \in Cores /\ core.ret <= 1024 /\ core.ret \in Nat /\ core.pcnt \in Data
  BY DEF IInv, Cores
<1>2. next(c, core.pc + 1, core.ret)
  BY <1>1 DEF Cores
<1>3. working' /\ Sound(mem')
  BY QuietIn DEF IInv, ControlStep
<1>4. c.pc = core.pc + 1
  BY <1>1 DEF Cores
<1>5. core' =
        CASE i.op = "nop" -> c
          [] i.op = "branch_acc" -> [c EXCEPT !.pc = (core.y \div Pow2[W]) % 1024]
          [] i.op = "rbase" -> [c EXCEPT !.rbase = i.n]
          [] i.op = "rmap" -> [c EXCEPT !.rmap = i.n]
          [] i.op = "rts" -> [c EXCEPT !.pc = core.ret]
          [] i.op = "op_mask" -> [c EXCEPT !.masked = i.units]
          [] i.op = "jump" -> [c EXCEPT !.pc = i.a]
          [] i.op = "jsr" -> [c EXCEPT !.pc = i.a, !.ret = c.pc]
          [] i.op = "branch" -> IF Taken(i, core.f) THEN [c EXCEPT !.pc = i.a] ELSE c
  BY DEF ControlStep
<1>6. i \in ControlWords /\ i.op \in ControlOps
  OBVIOUS
<1> HIDE DEF c
<1>7. \A n \in Nat : next([c EXCEPT !.pc = n], n, core.ret)
  BY <1>1, <1>2 DEF Cores
<1>8. \A n \in Nat, r \in Nat : next([c EXCEPT !.pc = n, !.ret = r], n, r)
  BY <1>1, <1>2, ZenonT(60) DEF Cores
<1>9. \A n \in 0 .. 63 : next([c EXCEPT !.rbase = n], core.pc + 1, core.ret)
  BY <1>1, <1>2 DEF Cores
<1>10. \A n \in 0 .. 7 : next([c EXCEPT !.rmap = n], core.pc + 1, core.ret)
  BY <1>1, <1>2 DEF Cores
<1>11. \A U \in SUBSET Units : next([c EXCEPT !.masked = U], core.pc + 1, core.ret)
  BY <1>1, <1>2 DEF Cores
<1>12. (core.y \div Pow2[W]) % 1024 \in Nat /\ (core.y \div Pow2[W]) % 1024 < 1024
  <2>1. core.y \div Pow2[W] \in Nat
    BY <1>1, UpperIn, DataIs DEF Cores
  <2> QED
    BY <2>1
<1> DEFINE fits == \E n, r \in Nat : next(core', n, r) /\ n <= 1024 /\ r <= 1024
<1>13. \A d : \A n, r \in Nat : core' = d /\ next(d, n, r) /\ n <= 1024 /\ r <= 1024 => fits
  OBVIOUS
<1>14. SUFFICES fits
  BY <1>1, <1>3
<1> HIDE DEF next
<1>15. core.pc + 1 \in Nat /\ core.pc + 1 <= 1024
  OBVIOUS
<1> HIDE DEF fits
<1>16. CASE i.op = "nop"
  BY <1>1, <1>2, <1>5, <1>13, <1>15, <1>16
<1>17. CASE i.op = "branch_acc"
  <2>1. core' = [c EXCEPT !.pc = (core.y \div Pow2[W]) % 1024]
    BY <1>5, <1>17
  <2> QED
    BY <1>1, <1>7, <1>12, <1>13, <2>1
<1>18. CASE i.op = "rbase"
  <2>1. core' = [c EXCEPT !.rbase = i.n] /\ i.n \in 0 .. 63
    BY <1>5, <1>6, <1>18 DEF ControlWords
  <2> QED
    BY <1>1, <1>9, <1>13, <1>15, <2>1
<1>19. CASE i.op = "rmap"
  <2>1. core' = [c EXCEPT !.rmap = i.n] /\ i.n \in 0 .. 7
    BY <1>5, <1>6, <1>19 DEF ControlWords
  <2> QED
    BY <1>1, <1>10, <1>13, <1>15, <2>1
<1>20. CASE i.op = "rts"
  <2>1. core' = [c EXCEPT !.pc = core.ret]
    BY <1>5, <1>20
  <2> QED
    BY <1>1, <1>7, <1>13, <2>1
<1>21. CASE i.op = "op_mask"
  <2>1. core' = [c EXCEPT !.masked = i.units] /\ i.units \in SUBSET Units
    BY <1>5, <1>6, <1>21 DEF ControlWords
  <2> QED
    BY <1>1, <1>11, <1>13, <1>15, <2>1
<1>22. i.op \in {"jump", "jsr", "branch"} => i.a \in Nat /\ i.a <= 1024
  BY <1>6 DEF ControlWords, Targets
<1>23. CASE i.op = "jump"
  <2>1. core' = [c EXCEPT !.pc = i.a]
    BY <1>5, <1>23
  <2> QED
    BY <1>1, <1>7, <1>13, <1>22, <1>23, <2>1
<1>24. CASE i.op = "jsr"
  <2>1. core' = [c EXCEPT !.pc = i.a, !.ret = core.pc + 1]
    BY <1>4, <1>5, <1>24
  <2>2. next(core', i.a, core.pc + 1)
    <3>1. i.a \in Nat /\ core.pc + 1 \in Nat
      BY <1>15, <1>22, <1>24
    <3>2. next([c EXCEPT !.pc = i.a, !.ret = core.pc + 1], i.a, core.pc + 1)
      BY <1>8, <3>1
    <3> QED
      BY <2>1, <3>2
  <2> QED
    BY <1>13, <1>15, <1>22, <1>24, <2>2
<1>25. CASE i.op = "branch"
  <2>1. core' = [c EXCEPT !.pc = i.a] \/ core' = c
    BY <1>5, <1>25
  <2>2. CASE core' = [c EXCEPT !.pc = i.a]
    BY <1>1, <1>7, <1>13, <1>22, <1>25, <2>2
  <2>3. CASE core' = c
    BY <1>1, <1>2, <1>13, <1>15, <2>3
  <2> QED
    BY <2>1, <2>2, <2>3
<1> QED
  BY <1>6, <1>16, <1>17, <1>18, <1>19, <1>20, <1>21, <1>23, <1>24, <1>25 DEF ControlOps

LEMMA InstructionIn ==
  ASSUME IInv, Instruction
  PROVE  IInv'
<1> DEFINE i == Fetch(core.pc).ins
<1>1. /\ working /\ host' = host /\ nmem' = nmem /\ running' = running
  BY DEF Instruction
<1>2. /\ host' \in Hosts /\ Loadable(nmem') /\ running' \in BOOLEAN
  BY <1>1 DEF IInv
<1>3. \/ i.op = "alu" /\ \E noise \in Noises : AluStep(i, noise)
      \/ i.op \in {"move", "movereg"} /\ \E noise \in Noises : MoveStep(i, noise)
      \/ i.op \in ControlOps /\ ControlStep(i)
      \/ i.op = "sleep" /\ Sleep
  BY Zenon DEF Instruction
<1>4. CASE i.op = "sleep" /\ Sleep
  <2> DEFINE k == IF core.pcnt <= Ticks THEN core.pcnt - Ticks + mem.reload ELSE core.pcnt - Ticks
             m == [Quiet(mem) EXCEPT !.gen_fiq = FALSE,
                                     !.raised = IF mem.gen_fiq THEN {11} ELSE {}]
  <2>1. core \in Cores /\ core.pcnt \in Int /\ mem.reload \in Int
    BY DataIs DEF IInv, Cores, Sound, Mems
  <2>2. k \in Int
    BY <2>1 DEF Ticks
  <2>3. core' = [core EXCEPT !.pc = core.pc + 1, !.pcnt = k]
    BY <1>4 DEF Sleep
  <2> HIDE DEF k
  <2>4. core' \in Cores /\ core'.pc = core.pc + 1 /\ core'.ret = core.ret
    <3>1. \A n \in Nat, l \in Int : LET d == [core EXCEPT !.pc = n, !.pcnt = l]
                                 IN  d \in Cores /\ d.pc = n /\ d.ret = core.ret
      BY <2>1 DEF Cores
    <3>2. core.pc + 1 \in Nat
      BY <2>1 DEF Cores
    <3> QED
      BY <2>2, <2>3, <3>1, <3>2
  <2>5. Sound(m)
    <3>1. Sound(Quiet(mem))
      BY QuietIn DEF IInv
    <3>2. \A n, R : Sound(n) /\ R \in SUBSET Int =>
                      Sound([n EXCEPT !.gen_fiq = FALSE, !.raised = R])
      BY DEF Sound, Mems
    <3>3. (IF mem.gen_fiq THEN {11} ELSE {}) \in SUBSET Int
      OBVIOUS
    <3> QED
      BY <3>1, <3>2, <3>3
  <2>6. working' = FALSE /\ mem' = m
    BY <1>4 DEF Sleep
  <2>7. core.pc \in Nat /\ core.pc <= 1028 /\ core.ret <= 1024
    BY <1>1 DEF IInv, Cores
  <2> HIDE DEF m
  <2>8. core'.pc <= 1029 /\ core'.ret <= 1024
    BY <2>4, <2>7
  <2>9. Sound(mem') /\ working' \in BOOLEAN /\ ~working'
    BY <2>5, <2>6
  <2> QED
    BY <1>2, <2>4, <2>8, <2>9 DEF IInv
<1>5. CASE i = [op |-> "sleep"]
  <2>1. i.op = "sleep"
    BY <1>5
  <2> HIDE DEF i
  <2>2. i.op # "alu" /\ i.op \notin {"move", "movereg"} /\ i.op \notin ControlOps
    BY <2>1 DEF ControlOps
  <2>3. Sleep
    BY <1>3, <2>2, Zenon
  <2> QED
    BY <1>4, <2>1, <2>3
<1>6. CASE i # [op |-> "sleep"]
  <2>0. core.pc \in Nat
    BY DEF IInv, Cores
  <2>1. core.pc \in Nat /\ core.pc < 1024 /\ i \in AluWords \union MoveWords \union ControlWords
    BY <1>6, <2>0, FetchIn
  <2> HIDE DEF i
  <2> DEFINE stays == /\ core' \in Cores /\ core'.ret <= 1024 /\ core'.pc <= 1028
                      /\ core'.pcnt \in Data /\ Sound(mem') /\ working'
  <2>2. stays => IInv'
    BY <1>1, <1>2 DEF IInv
  <2>3. CASE i.op = "alu" /\ \E noise \in Noises : AluStep(i, noise)
    <3>1. PICK noise \in Noises : AluStep(i, noise)
      BY <2>1, <2>3
    <3>2. i \in AluWords
      BY <2>1, <2>3, Kinds
    <3>3. stays
      BY <1>1, <2>1, <3>1, <3>2, AluIn
    <3> QED
      BY <2>2, <3>3
  <2>4. CASE i.op \in {"move", "movereg"} /\ \E noise \in Noises : MoveStep(i, noise)
    <3>1. PICK noise \in Noises : MoveStep(i, noise)
      BY <2>1, <2>4
    <3>2. i \in MoveWords
      BY <2>1, <2>4, Kinds
    <3>3. stays
      BY <1>1, <2>1, <3>1, <3>2, MoveIn
    <3> QED
      BY <2>2, <3>3
  <2>5. CASE i.op \in ControlOps /\ ControlStep(i)
    <3>1. i \in ControlWords
      BY <2>1, <2>5, Kinds
    <3>2. ControlStep(i) /\ i.op \in ControlOps
      BY <2>1, <2>5
    <3>3. stays
      BY <1>1, <2>1, <3>1, <3>2, ControlIn
    <3> QED
      BY <2>2, <3>3
  <2> QED
    BY <1>3, <1>4, <2>3, <2>4, <2>5 DEF i
<1> QED
  BY <1>5, <1>6

(* The CPU's writes between two runs.                                      *)
LEMMA CpuMemIn ==
  ASSUME NEW m, Sound(m)
  PROVE  /\ \A f \in Fifo : Sound([m EXCEPT !.ei[0] = f]) /\ Sound([m EXCEPT !.eo[0] = f])
         /\ \A U \in SUBSET InChannels : Sound([m EXCEPT !.supply = U])
  BY DEF Sound, Mems, InChannels, OutChannels

LEMMA InputsIn ==
  ASSUME IInv
  PROVE  /\ (\E a \in host.cells, v \in Words : ImemWrite(a, v))
              => Sound(mem') /\ UNCHANGED <<nmem, core, running>>
         /\ (\E v \in Words : ArmSemaphoreWrite(v))
              => Sound(mem') /\ UNCHANGED <<nmem, core, running>>
         /\ WriteChannel => Sound(mem') /\ UNCHANGED <<nmem, core, running>>
         /\ ClearChannel => Sound(mem') /\ UNCHANGED <<nmem, core, running>>
<1> DEFINE m == Quiet(mem)
<1>1. Sound(m)
  BY QuietIn DEF IInv
<1>2. 0 \in InChannels /\ 0 \in OutChannels /\ m.ei[0] \in Fifo /\ m.eo[0] \in Fifo
      /\ m.supply \in SUBSET InChannels
  BY <1>1 DEF InChannels, OutChannels, Sound, Mems
<1> HIDE DEF m
<1>3. ASSUME \E a \in host.cells, v \in Words : ImemWrite(a, v)
      PROVE  Sound(mem') /\ UNCHANGED <<nmem, core, running>>
  <2>1. PICK a \in host.cells, v \in Words : ImemWrite(a, v)
    BY <1>3
  <2> DEFINE stored == [m EXCEPT !.imem = Put(@, a, v)]
  <2>2. a \in Int /\ v \in Data
    <3>1. a \in 0 .. 127
      BY <2>1 DEF ImemWrite
    <3> QED
      BY <3>1, DspAssumption
  <2>3. Sound(stored)
    BY <1>1, <2>2, ImageIn
  <2>4. UNCHANGED <<nmem, core, running>>
    BY <2>1 DEF ImemWrite, Poked
  <2>5. mem' = IF a \in 112 .. 124 THEN [stored EXCEPT !.supply = @ \union {a - 112}] ELSE stored
    BY <2>1 DEF ImemWrite, Poked, m
  <2> HIDE DEF stored
  <2>6. CASE a \in 112 .. 124
    <3>1. stored.supply \union {a - 112} \in SUBSET InChannels
      BY <2>3, <2>6 DEF Sound, Mems, InChannels
    <3> QED
      BY <1>2, <2>3, <2>4, <2>5, <2>6, <3>1, CpuMemIn
  <2>7. CASE a \notin 112 .. 124
    BY <2>3, <2>4, <2>5, <2>7
  <2> QED
    BY <2>6, <2>7
<1>4. ASSUME \E v \in Words : ArmSemaphoreWrite(v)
      PROVE  Sound(mem') /\ UNCHANGED <<nmem, core, running>>
  <2>1. PICK v \in Words : ArmSemaphoreWrite(v)
    BY <1>4
  <2>2. mem' = Posted(m, v, 8, "arm") /\ UNCHANGED <<nmem, core, running>>
    BY <2>1 DEF ArmSemaphoreWrite, Poked, Posted, m
  <2>3. v \in Data
    BY DspAssumption
  <2> QED
    BY <1>1, <2>2, <2>3, SemaphoreIn
<1>5. ASSUME WriteChannel
      PROVE  Sound(mem') /\ UNCHANGED <<nmem, core, running>>
  <2>1. UNCHANGED <<nmem, core, running>>
    BY <1>5 DEF WriteChannel, Poked
  <2>2. \/ \E reg \in Registers, val \in Nat :
             mem' = [m EXCEPT !.ei[0] = WriteInput(m.ei[0], reg, val)]
        \/ \E reg \in Registers, val \in Nat :
             mem' = [m EXCEPT !.eo[0] = WriteOutput(m.eo[0], reg, val)]
    <3>1. Addrs \union {0} \subseteq Nat /\ OutAddrs \union {0} \subseteq Nat /\ Lens \subseteq Nat
      BY DspAssumption
    <3>2. CASE \E reg \in {"addr", "next_addr"}, a \in Addrs \union {0} :
                 mem' = [m EXCEPT !.ei[0] = WriteInput(@, reg, a)]
      BY <3>1, <3>2 DEF Registers
    <3>3. CASE \E reg \in {"len", "next_len"}, len \in Lens :
                 mem' = [m EXCEPT !.ei[0] = WriteInput(@, reg, len)]
      BY <3>1, <3>3 DEF Registers
    <3>4. CASE \E reg \in {"addr", "next_addr"}, a \in OutAddrs \union {0} :
                 mem' = [m EXCEPT !.eo[0] = WriteOutput(@, reg, a)]
      BY <3>1, <3>4 DEF Registers
    <3>5. CASE \E reg \in {"len", "next_len"}, len \in Lens :
                 mem' = [m EXCEPT !.eo[0] = WriteOutput(@, reg, len)]
      BY <3>1, <3>5 DEF Registers
    <3> QED
      BY <1>5, <3>2, <3>3, <3>4, <3>5, Zenon DEF WriteChannel, Poked, m
  <2>3. CASE \E reg \in Registers, val \in Nat :
               mem' = [m EXCEPT !.ei[0] = WriteInput(m.ei[0], reg, val)]
    <3>1. PICK f \in Fifo : mem' = [m EXCEPT !.ei[0] = f]
      BY <1>2, <2>3, RegistersIn
    <3> QED
      BY <1>1, <1>2, <2>1, <3>1, CpuMemIn
  <2>4. CASE \E reg \in Registers, val \in Nat :
               mem' = [m EXCEPT !.eo[0] = WriteOutput(m.eo[0], reg, val)]
    <3>1. PICK f \in Fifo : mem' = [m EXCEPT !.eo[0] = f]
      BY <1>2, <2>4, RegistersIn
    <3> QED
      BY <1>1, <1>2, <2>1, <3>1, CpuMemIn
  <2> QED
    BY <2>2, <2>3, <2>4
<1>6. ASSUME ClearChannel
      PROVE  Sound(mem') /\ UNCHANGED <<nmem, core, running>>
  <2>1. UNCHANGED <<nmem, core, running>>
    BY <1>6 DEF ClearChannel, Poked
  <2>2. \/ mem' = [m EXCEPT !.ei[0] = ClearInput(m.ei[0])]
        \/ mem' = [m EXCEPT !.eo[0] = ClearOutput(m.eo[0])]
    BY <1>6, Zenon DEF ClearChannel, Poked, m
  <2>3. CASE mem' = [m EXCEPT !.ei[0] = ClearInput(m.ei[0])]
    <3>1. PICK f \in Fifo : mem' = [m EXCEPT !.ei[0] = f]
      BY <1>2, <2>3, RegistersIn
    <3> QED
      BY <1>1, <1>2, <2>1, <3>1, CpuMemIn
  <2>4. CASE mem' = [m EXCEPT !.eo[0] = ClearOutput(m.eo[0])]
    <3>1. PICK f \in Fifo : mem' = [m EXCEPT !.eo[0] = f]
      BY <1>2, <2>4, RegistersIn
    <3> QED
      BY <1>1, <1>2, <2>1, <3>1, CpuMemIn
  <2> QED
    BY <2>2, <2>3, <2>4
<1> QED
  BY <1>3, <1>4, <1>5, <1>6

LEMMA StepIn ==
  ASSUME IInv, [Next]_vars
  PROVE  IInv'
<1>1. CASE Instruction
  BY <1>1, InstructionIn
<1>2. Sound(Quiet(mem)) /\ core \in Cores /\ mem.reload \in Data /\ mem.reload \in Int
  <2>1. Sound(mem) /\ core \in Cores
    BY DEF IInv
  <2>2. mem.reload \in Data
    BY <2>1 DEF Sound, Mems
  <2> QED
    BY <2>1, <2>2, QuietIn, DataIs
<1>3. 0 \in Accu /\ NoFlags \in Flags /\ 0 \in Nat /\ 0 \in 0 .. 63 /\ 0 \in 0 .. 7
  BY AccuIs DEF NoFlags, Flags
<1>4. ResetCore(core) \in Cores /\ ResetCore(core).pc = 0 /\ ResetCore(core).ret = core.ret
  BY <1>2, <1>3 DEF ResetCore, Cores
<1>5. CASE DspLoop
  <2>1. core' = [ResetCore(core) EXCEPT !.pcnt = mem.reload, !.y = 0, !.f = NoFlags, !.ret = 0]
    BY <1>5 DEF DspLoop
  <2>2. \A c \in Cores, k \in Int :
          LET d == [c EXCEPT !.pcnt = k, !.y = 0, !.f = NoFlags, !.ret = 0]
          IN  d \in Cores /\ d.pc = c.pc /\ d.ret = 0 /\ d.pcnt = k
    <3> SUFFICES ASSUME NEW c \in Cores, NEW k \in Int
                 PROVE  LET d == [c EXCEPT !.pcnt = k, !.y = 0, !.f = NoFlags, !.ret = 0]
                        IN  d \in Cores /\ d.pc = c.pc /\ d.ret = 0 /\ d.pcnt = k
      OBVIOUS
    <3>1. [c EXCEPT !.pcnt = k, !.y = 0, !.f = NoFlags, !.ret = 0] \in Cores
      BY <1>3 DEF Cores
    <3>2. /\ [c EXCEPT !.pcnt = k, !.y = 0, !.f = NoFlags, !.ret = 0].pc = c.pc
          /\ [c EXCEPT !.pcnt = k, !.y = 0, !.f = NoFlags, !.ret = 0].ret = 0
          /\ [c EXCEPT !.pcnt = k, !.y = 0, !.f = NoFlags, !.ret = 0].pcnt = k
      BY DEF Cores
    <3> QED
      BY <3>1, <3>2
  <2>3. core' \in Cores /\ core'.pc = 0 /\ core'.ret = 0 /\ core'.pcnt = mem.reload
    <3> DEFINE c == ResetCore(core)
               k == mem.reload
    <3>1. c \in Cores /\ c.pc = 0 /\ k \in Int
      BY <1>2, <1>4
    <3>2. core' = [c EXCEPT !.pcnt = k, !.y = 0, !.f = NoFlags, !.ret = 0]
      BY <2>1
    <3> HIDE DEF c, k
    <3>3. LET d == [c EXCEPT !.pcnt = k, !.y = 0, !.f = NoFlags, !.ret = 0]
          IN  d \in Cores /\ d.pc = c.pc /\ d.ret = 0 /\ d.pcnt = k
      BY <1>3, <2>2, <3>1
    <3> QED
      BY <3>1, <3>2, <3>3 DEF k
  <2>4. Sound(mem') /\ UNCHANGED <<host, nmem, running>> /\ working' = TRUE
    BY <1>2, <1>5 DEF DspLoop
  <2> QED
    BY <1>2, <2>3, <2>4 DEF IInv
<1>6. CASE Cpu
  <2>1. ~working /\ working' = working /\ host' = host
    BY <1>6 DEF Cpu
  <2>2. \/ \E p \in host.program : MemWrite(p[1], p[2])
        \/ \E b \in BOOLEAN : SetRunning(b)
        \/ Reset
        \/ \E a \in host.cells, v \in Words : ImemWrite(a, v)
        \/ \E v \in Words : ArmSemaphoreWrite(v)
        \/ WriteChannel \/ ClearChannel
    BY <1>6, Zenon DEF Cpu
  <2>3. CASE \E p \in host.program : MemWrite(p[1], p[2])
    <3>1. PICK p \in host.program : MemWrite(p[1], p[2])
      BY <2>3
    <3>2. p[1] \in Targets /\ p[2] \in ProgramWords
      BY <3>1, ProgramAssumption DEF IInv
    <3>3. Loadable(nmem')
      BY <3>1, <3>2, WriteLoadable DEF IInv
    <3>4. mem' = Quiet(mem) /\ UNCHANGED <<core, running>>
      BY <3>1 DEF MemWrite
    <3> QED
      BY <1>2, <2>1, <3>3, <3>4 DEF IInv
  <2>4. CASE \E b \in BOOLEAN : SetRunning(b)
    <3>1. running' \in BOOLEAN /\ mem' = Quiet(mem) /\ UNCHANGED <<nmem, core>>
      BY <2>4 DEF SetRunning
    <3> QED
      BY <1>2, <2>1, <3>1 DEF IInv
  <2>5. CASE Reset
    <3>1. core' = [ResetCore(core) EXCEPT !.pcnt = mem.reload]
      BY <2>5 DEF Reset
    <3>2. \A c \in Cores, k \in Int : LET d == [c EXCEPT !.pcnt = k]
                                      IN  d \in Cores /\ d.pc = c.pc /\ d.ret = c.ret
      BY DEF Cores
    <3>3. core' \in Cores /\ core'.pc = 0 /\ core'.ret = core.ret
      BY <1>2, <1>4, <3>1, <3>2
    <3>4. Sound(mem') /\ UNCHANGED <<nmem, running>>
      BY <1>2, <2>5 DEF Reset
    <3> QED
      BY <2>1, <3>3, <3>4 DEF IInv
  <2>6. Sound(mem') /\ UNCHANGED <<nmem, core, running>> => IInv'
    BY <2>1 DEF IInv
  <2> QED
    BY <2>2, <2>3, <2>4, <2>5, <2>6, InputsIn
<1>7. CASE UNCHANGED vars
  BY <1>7 DEF vars, IInv
<1> QED
  BY <1>1, <1>5, <1>6, <1>7 DEF Next

LEMMA InitIn == Init => IInv
<1> SUFFICES ASSUME Init PROVE IInv
  OBVIOUS
<1>1. 0 \in Accu /\ NoFlags \in Flags /\ 0 \in Data /\ Ticks \in Data
  BY AccuIs, SmallIn DEF NoFlags, Flags, Ticks
<1>2. Stopped \in Fifo
  <2>1. \A n \in Nat, k \in Int :
          [addr |-> n, len |-> k, next_addr |-> n, next_len |-> k, idx |-> n] \in Fifo
    BY DEF Fifo
  <2>2. 0 \in Nat /\ 0 \in Int
    OBVIOUS
  <2> QED
    BY <2>1, <2>2 DEF Stopped
<1>3. <<>> \in Images
  <2>1. <<>> \in [{} -> Data]
    OBVIOUS
  <2> QED
    BY <2>1 DEF Images
<1>4. [u \in Units |-> 0] \in [Units -> Int]
  OBVIOUS
<1>5. core \in Cores /\ core.ret = 0 /\ core.pc = 0
  BY <1>1, <1>4 DEF Init, Cores, Ticks
<1>6. mem \in Mems
  <2>1. {} \in SUBSET InChannels /\ {} \in SUBSET Int /\ FALSE \in BOOLEAN /\ 0 \in Int
    OBVIOUS
  <2>2. <<"none", FALSE>> \in Sides \X BOOLEAN
    BY DEF Sides
  <2>3. Nowhere \in Int
    BY DEF Nowhere
  <2>4. /\ [c \in InChannels |-> Stopped] \in [InChannels -> Fifo]
        /\ [c \in OutChannels |-> Stopped] \in [OutChannels -> Fifo]
    BY <1>2
  <2> QED
    BY <1>1, <1>3, <2>1, <2>2, <2>3, <2>4 DEF Init, Mems
<1>7. mem.sema_status = StatusOf(mem.sema_by)
  BY DEF Init, StatusOf
<1>8. /\ host \in Hosts /\ Loadable(nmem) /\ ~working /\ working \in BOOLEAN
      /\ running \in BOOLEAN
  <2>1. DOMAIN <<>> = {}
    OBVIOUS
  <2>2. Loadable(nmem)
    BY <2>1 DEF Init, Loadable
  <2> QED
    BY <2>2 DEF Init
<1>9. core.ret <= 1024 /\ core.pc <= (IF working THEN 1028 ELSE 1029)
  BY <1>5
<1> QED
  BY <1>5, <1>6, <1>7, <1>8, <1>9 DEF IInv, Sound

LEMMA Implied == IInv => Inv
<1> SUFFICES ASSUME IInv PROVE Inv
  OBVIOUS
<1>1. core \in Cores /\ mem \in Mems /\ mem.sema_status = StatusOf(mem.sema_by)
  BY DEF IInv, Sound
<1>2. core.pc \in 0 .. NMemSize - 1
  <2>1. core.pc \in Nat /\ core.pc <= 1029
    BY <1>1 DEF IInv, Cores
  <2>2. NMemSize \in Nat /\ 1029 <= NMemSize - 1
    BY DEF NMemSize
  <2> HIDE DEF NMemSize
  <2> QED
    BY <2>1, <2>2
<1>3. core.y \in 0 .. 2 * H - 1
  BY <1>1 DEF Cores, Accu, Word
<1>4. mem.sema_status \in {0, 1, 4, 5, 8, 9}
  BY <1>1, StatusIn DEF Mems
<1>5. TypeOK
  BY <1>1, <1>2, <1>3, <1>4 DEF TypeOK, IInv, Cores, Mems
<1>6. SemaphoreHonest
  BY <1>1 DEF SemaphoreHonest, StatusOf
<1> QED
  BY <1>5, <1>6 DEF Inv

(* The program counter stays inside the program memory although nothing    *)
(* checks it, whatever words the CPU loads, between any two runs, and      *)
(* wherever the program jumps, an operand included: the words above those  *)
(* the CPU can reach hold a sleep (dsp_operand_load, opera_dsp_loop).  And *)
(* the semaphore tells whose word it holds and that the DSP acknowledged   *)
(* this word, for all words and any interleaving of the two sides          *)
(* (opera_dsp_arm_semaphore_write).                                        *)
THEOREM DspCorrect == Spec => []Inv
<1>1. Init => IInv
  BY InitIn
<1>2. IInv /\ [Next]_vars => IInv'
  BY StepIn
<1>3. IInv => Inv
  BY Implied
<1> QED
  BY <1>1, <1>2, <1>3, PTL DEF Spec

LEMMA ComparedStep ==
  ASSUME IInv, Compared, [Next]_vars
  PROVE  Compared'
<1> DEFINE kept == core'.f = core.f /\ compared' = compared
<1>1. kept => Compared'
  BY DEF Compared
<1> HIDE DEF kept
<1>2. core \in Cores
  BY DEF IInv
<1>3. CASE Instruction
  <2> DEFINE i == Fetch(core.pc).ins
  <2>1. working
    BY <1>3 DEF Instruction
  <2>2. \/ i.op = "alu" /\ \E noise \in Noises : AluStep(i, noise)
        \/ i.op \in {"move", "movereg"} /\ \E noise \in Noises : MoveStep(i, noise)
        \/ i.op \in ControlOps /\ ControlStep(i)
        \/ i.op = "sleep" /\ Sleep
    BY <1>3, Zenon DEF Instruction
  <2>3. CASE i.op = "sleep" /\ Sleep
    <3>1. kept
      BY <1>2, <2>3 DEF Sleep, Cores, kept
    <3> QED
      BY <1>1, <3>1
  <2>4. CASE i = [op |-> "sleep"]
    <3>1. i.op = "sleep"
      BY <2>4
    <3> HIDE DEF i
    <3>2. i.op # "alu" /\ i.op \notin {"move", "movereg"} /\ i.op \notin ControlOps
      BY <3>1 DEF ControlOps
    <3>3. Sleep
      BY <2>2, <3>2, Zenon
    <3> QED
      BY <2>3, <3>1, <3>3
  <2>5. CASE i # [op |-> "sleep"]
    <3>0. core.pc \in Nat
      BY DEF IInv, Cores
    <3>1. /\ core.pc \in Nat /\ core.pc < 1024
          /\ i \in AluWords \union MoveWords \union ControlWords
      BY <2>5, <3>0, FetchIn
    <3> HIDE DEF i
    <3>2. CASE i.op = "alu" /\ \E noise \in Noises : AluStep(i, noise)
      <4>1. PICK noise \in Noises : AluStep(i, noise)
        BY <3>1, <3>2
      <4>2. i \in AluWords
        BY <3>1, <3>2, Kinds
      <4> QED
        BY <2>1, <3>1, <4>1, <4>2, AluIn
    <3>3. CASE i.op \in {"move", "movereg"} /\ \E noise \in Noises : MoveStep(i, noise)
      <4>1. PICK noise \in Noises : MoveStep(i, noise)
        BY <3>1, <3>3
      <4>2. i \in MoveWords
        BY <3>1, <3>3, Kinds
      <4>3. compared' = compared
        BY <4>1 DEF MoveStep
      <4>4. core'.f = core.f
        BY <2>1, <3>1, <4>1, <4>2, MoveIn
      <4> QED
        BY <1>1, <4>3, <4>4 DEF kept
    <3>4. CASE i.op \in ControlOps /\ ControlStep(i)
      <4>1. i \in ControlWords
        BY <3>1, <3>4, Kinds
      <4>2. ControlStep(i) /\ i.op \in ControlOps
        BY <3>1, <3>4
      <4>3. compared' = compared
        BY <4>2 DEF ControlStep
      <4>4. core'.f = core.f
        BY <2>1, <3>1, <4>1, <4>2, ControlIn
      <4> QED
        BY <1>1, <4>3, <4>4 DEF kept
    <3> QED
      BY <2>2, <2>3, <3>2, <3>3, <3>4 DEF i
  <2> QED
    BY <2>4, <2>5
<1>4. CASE DspLoop
  BY <1>4 DEF DspLoop, Compared
<1>5. CASE Cpu
  <2>1. UNCHANGED <<core, compared>> => kept
    BY DEF kept
  <2>2. \/ \E p \in host.program : MemWrite(p[1], p[2])
        \/ \E b \in BOOLEAN : SetRunning(b)
        \/ Reset
        \/ \E a \in host.cells, v \in Words : ImemWrite(a, v)
        \/ \E v \in Words : ArmSemaphoreWrite(v)
        \/ WriteChannel \/ ClearChannel
    BY <1>5, Zenon DEF Cpu
  <2>3. CASE Reset
    <3>1. core' = [ResetCore(core) EXCEPT !.pcnt = mem.reload] /\ compared' = compared
      BY <2>3 DEF Reset
    <3>2. core'.f = core.f
      BY <1>2, <3>1 DEF ResetCore, Cores
    <3> QED
      BY <1>1, <3>1, <3>2 DEF kept
  <2>4. CASE \E p \in host.program : MemWrite(p[1], p[2])
    BY <1>1, <2>1, <2>4 DEF MemWrite
  <2>5. CASE \E b \in BOOLEAN : SetRunning(b)
    BY <1>1, <2>1, <2>5 DEF SetRunning
  <2>6. CASE \E a \in host.cells, v \in Words : ImemWrite(a, v)
    BY <1>1, <2>1, <2>6 DEF ImemWrite, Poked
  <2>7. CASE \E v \in Words : ArmSemaphoreWrite(v)
    BY <1>1, <2>1, <2>7 DEF ArmSemaphoreWrite, Poked
  <2>8. CASE WriteChannel \/ ClearChannel
    BY <1>1, <2>1, <2>8 DEF WriteChannel, ClearChannel, Poked
  <2> QED
    BY <2>2, <2>3, <2>4, <2>5, <2>6, <2>7, <2>8
<1>6. CASE UNCHANGED vars
  BY <1>1, <1>6 DEF vars, kept
<1> QED
  BY <1>3, <1>4, <1>5, <1>6 DEF Next

LEMMA Meanings == IInv /\ Compared => BranchMeans
<1> SUFFICES ASSUME IInv, Compared, compared # NotCompared
             PROVE  LET a == compared[1] b == compared[2] IN
                    /\ Cond(3, FALSE, FALSE, FALSE) <=> S16(a) < S16(b)
                    /\ Cond(3, FALSE, TRUE, FALSE) <=> S16(a) >= S16(b)
                    /\ Cond(3, FALSE, FALSE, TRUE) <=> S16(a) <= S16(b)
                    /\ Cond(3, FALSE, TRUE, TRUE) <=> S16(a) > S16(b)
                    /\ Cond(3, TRUE, FALSE, FALSE) <=> a > b
                    /\ Cond(3, TRUE, FALSE, TRUE) <=> a <= b
                    /\ Cond(1, TRUE, TRUE, FALSE) <=> a >= b
                    /\ Cond(1, TRUE, FALSE, TRUE) <=> a = b
                    /\ Cond(1, FALSE, FALSE, FALSE) <=> a = b
  BY Zenon DEF BranchMeans
<1>1. PICK a \in Data, b \in Data : compared = <<a, b>> /\ Says(core.f, a, b)
  BY DEF Compared
<1> DEFINE f == core.f
<1>2. f \in Flags
  BY DEF IInv, Cores
<1> HIDE DEF f
<1>3. /\ f.z <=> a = b
      /\ f.exact
      /\ f.c <=> a >= b
      /\ ~(f.n <=> f.v) <=> S16(a) < S16(b)
  BY <1>1 DEF Says, f
<1>4. a \in Nat /\ b \in Nat /\ S16(a) \in Int /\ S16(b) \in Int /\ (S16(a) = S16(b) <=> a = b)
  <2>1. a \in Nat /\ b \in Nat /\ a < 2 * Half /\ b < 2 * Half /\ Half \in Nat
    BY Widths DEF Data, Word, Half
  <2>2. S16(a) = S16(b) <=> a = b
    BY <2>1 DEF S16, Signed, TopSet, Half
  <2> QED
    BY <2>1, <2>2, SignedIn
<1>5. /\ Cond(3, FALSE, FALSE, FALSE) <=> ~(f.n <=> f.v)
      /\ Cond(3, FALSE, TRUE, FALSE) <=> (f.n <=> f.v)
      /\ Cond(3, FALSE, FALSE, TRUE) <=> (~(f.n <=> f.v) \/ f.z)
      /\ Cond(3, FALSE, TRUE, TRUE) <=> ((f.n <=> f.v) /\ ~f.z)
      /\ Cond(3, TRUE, FALSE, FALSE) <=> (f.c /\ ~f.z)
      /\ Cond(3, TRUE, FALSE, TRUE) <=> (~f.c \/ f.z)
      /\ Cond(1, TRUE, TRUE, FALSE) <=> f.c
      /\ Cond(1, TRUE, FALSE, TRUE) <=> f.z
      /\ Cond(1, FALSE, FALSE, FALSE) <=> (f.z /\ f.exact)
  BY <1>2, Tests, Zenon DEF Cond, f
<1>6. /\ S16(a) >= S16(b) <=> ~(S16(a) < S16(b))
      /\ S16(a) <= S16(b) <=> S16(a) < S16(b) \/ a = b
      /\ S16(a) > S16(b) <=> ~(S16(a) < S16(b)) /\ ~(a = b)
      /\ a > b <=> a >= b /\ ~(a = b)
      /\ a <= b <=> ~(a >= b) \/ a = b
  BY <1>4
<1>7. /\ Cond(3, FALSE, FALSE, FALSE) <=> S16(a) < S16(b)
      /\ Cond(3, FALSE, TRUE, FALSE) <=> S16(a) >= S16(b)
      /\ Cond(3, FALSE, FALSE, TRUE) <=> S16(a) <= S16(b)
      /\ Cond(3, FALSE, TRUE, TRUE) <=> S16(a) > S16(b)
      /\ Cond(3, TRUE, FALSE, FALSE) <=> a > b
      /\ Cond(3, TRUE, FALSE, TRUE) <=> a <= b
      /\ Cond(1, TRUE, TRUE, FALSE) <=> a >= b
      /\ Cond(1, TRUE, FALSE, TRUE) <=> a = b
      /\ Cond(1, FALSE, FALSE, FALSE) <=> a = b
  BY <1>3, <1>5, <1>6, Zenon
<1>8. compared[1] = a /\ compared[2] = b
  BY <1>1
<1> QED
  BY <1>7, <1>8

(* A subtraction and a branch compare two words: every condition of the    *)
(* branch has its meaning, with and without sign, for all words of every   *)
(* width and any instructions between that keep the flags (BRCONDTAB,      *)
(* dsp_branch, SUB_CFLAG and SUB_VFLAG of opera_dsp.c).                    *)
THEOREM ConditionsMean == Spec => []BranchMeans
<1>1. Init => IInv /\ Compared
  BY InitIn DEF Init, Compared
<1>2. IInv /\ Compared /\ [Next]_vars => (IInv /\ Compared)'
  BY StepIn, ComparedStep
<1>3. IInv /\ Compared => BranchMeans
  BY Meanings
<1> QED
  BY <1>1, <1>2, <1>3, PTL DEF Spec
=============================================================================
