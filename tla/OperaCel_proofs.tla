---------------------------- MODULE OperaCel_proofs ---------------------------
(***************************************************************************)
(* The cel engine, for all scenes, i.e. all memories, registers and lists: *)
(* no cel draws outside the window and none hangs the engine, every pixel  *)
(* drawn has 16 bits, colours saturate, and the results of the matrix      *)
(* engine are those of the command before.                                 *)
(*                                                                         *)
(* "Only" says what drawing may do to an engine: it changes a few of its   *)
(* registers, and of the frame only places in the window, where it puts    *)
(* pixels.  It holds of one pixel and is handed up, to texels, packets,    *)
(* rows and cels.  That the line map, which does not test its pixels,      *)
(* stays in the window, is a fact about the rows and columns that its      *)
(* initialisation leaves.                                                  *)
(*                                                                         *)
(* A quadrangle of which one face shows is drawn as if both were wanted:   *)
(* if it turns one way its edges are in order along every line of the      *)
(* screen, so of the two pairs of edges that a line meets only those that  *)
(* face the wanted way bound a span with places in it.                     *)
(***************************************************************************)
EXTENDS OperaCel, WellFoundedInduction, SequenceTheorems, TLAPS

-----------------------------------------------------------------------------
(* A set of natural numbers has a least element, which stands for          *)
(* induction below.                                                        *)
LessThan == {ss \in Nat \X Nat : ss[1] < ss[2]}

LEMMA LessWellFounded == IsWellFoundedOn(LessThan, Nat)
  BY NatLessThanWellFounded, Zenon DEF OpToRel, LessThan

LEMMA Least ==
  ASSUME NEW S \in SUBSET Nat, S # {}
  PROVE  \E m \in S : \A n \in S : m <= n
<1>1. \A x, y \in Nat : x < y => <<x, y>> \in LessThan
  BY DEF LessThan
<1>2. PICK m \in S : \A y \in S : ~(<<y, m>> \in LessThan)
  BY LessWellFounded, WFMin
<1>3. ASSUME NEW y \in S PROVE m <= y
  <2>1. m \in Nat /\ y \in Nat
    BY <1>2
  <2>2. ~(y < m)
    BY <1>1, <1>2, <2>1
  <2> QED
    BY <2>1, <2>2
<1> QED
  BY <1>3

LEMMA UpTo ==
  ASSUME NEW n \in Nat, NEW S, 0 \in S, \A k \in 1 .. n : k - 1 \in S => k \in S
  PROVE  n \in S
<1> DEFINE Missing == {k \in Nat : k <= n /\ k \notin S}
<1>1. SUFFICES ASSUME Missing # {} PROVE FALSE
  OBVIOUS
<1>2. PICK m \in Missing : \A k \in Missing : m <= k
  BY <1>1, Least
<1>3. m \in 1 .. n /\ m - 1 \in Nat /\ m - 1 <= n
  BY <1>2
<1>4. m - 1 \in S
  BY <1>2, <1>3
<1> QED
  BY <1>2, <1>3, <1>4

(* The loops of the drawing code: what job j leaves of s after turn k.     *)
Turn(j, s, k) ==
  CASE j.does = "plot" -> PlotAt(s, j.places[k], j.p, j.tested)
    [] j.does = "lines" -> Line(s, j.p, j.c, Top(j.c) + k - 1)
    [] j.does = "put" -> PutNext(s, j.m, j.codes[k])
    [] j.does = "take" -> Packet(s, j.m, j.packets[k])
    [] j.does = "rows" -> NextRow(j.f, j.m, s, FirstRow(j.f, j.m) + k - 1)
    [] j.does = "sum" -> s + j.o.m[j.i][k] * j.o.v[k]

Loop(g, j, x, n) == g = [k \in 0 .. n |-> IF k = 0 THEN x ELSE Turn(j, g[k - 1], k)]

LEMMA LoopExists ==
  ASSUME NEW j, NEW x, NEW n \in Nat
  PROVE  \E g : Loop(g, j, x, n)
<1> DEFINE Missing == {k \in Nat : ~\E g : Loop(g, j, x, k)}
<1>1. SUFFICES ASSUME Missing # {} PROVE FALSE
  OBVIOUS
<1>2. PICK m \in Missing : \A k \in Missing : m <= k
  BY <1>1, Least
<1>3. m # 0
  <2>1. Loop([k \in 0 .. 0 |-> x], j, x, 0)
    BY DEF Loop
  <2> QED
    BY <1>2, <2>1
<1>4. m - 1 \in Nat /\ m - 1 \notin Missing
  BY <1>2, <1>3
<1>5. PICK f : Loop(f, j, x, m - 1)
  BY <1>4
<1> DEFINE g == [k \in 0 .. m |-> IF k = m THEN Turn(j, f[m - 1], m) ELSE f[k]]
<1>6. ASSUME NEW k \in 0 .. m
      PROVE  g[k] = IF k = 0 THEN x ELSE Turn(j, g[k - 1], k)
  <2>1. CASE k = m
    <3>1. g[k] = Turn(j, f[m - 1], m) /\ g[k - 1] = f[m - 1]
      BY <1>2, <1>3, <2>1
    <3> QED
      BY <1>3, <2>1, <3>1
  <2>2. CASE k # m
    <3>1. k \in 0 .. m - 1 /\ g[k] = f[k]
      BY <1>2, <1>6, <2>2
    <3>2. f[k] = IF k = 0 THEN x ELSE Turn(j, f[k - 1], k)
      BY <1>5, <3>1 DEF Loop
    <3>3. k # 0 => g[k - 1] = f[k - 1]
      BY <1>2, <3>1
    <3> HIDE DEF g
    <3> QED
      BY <3>1, <3>2, <3>3
  <2> QED
    BY <2>1, <2>2
<1>7. Loop(g, j, x, m)
  BY <1>6 DEF Loop
<1> QED
  BY <1>2, <1>7
-----------------------------------------------------------------------------
(* Pixels: what the decoder, the processor and the projector make are      *)
(* pixels, and the sums of colours stay small.                             *)
Inked(p) == p.pixel \in Pixels /\ \A c \in Colours : p.amv[c] \in 0 .. 7
Paletted(f) == \A k \in 0 .. 31 : f.plut[k] \in Pixels

Paints(f) ==
  /\ Maps(f.vram, Pixels) /\ f.pixc \in Pixcs /\ Paletted(f) /\ f.pluta \in 0 .. 15
  /\ f.origin[1] \in 0 .. 1 /\ f.origin[2] \in 0 .. 1

LEMMA PixelIs ==
  /\ \A p \in Pixels : p \in Int /\ 0 <= p /\ p < 65536
  /\ \A p \in Int : 0 <= p /\ p < 65536 => p \in Pixels
<1>1. \A p \in Pixels : p \in Int /\ 0 <= p /\ p < 65536
  BY DEF Pixels
<1>2. \A p \in Int : 0 <= p /\ p < 65536 => p \in Pixels
  BY DEF Pixels
<1> QED
  BY <1>1, <1>2

LEMMA ColourIn == ASSUME NEW p \in Int, NEW c \in Colours PROVE Colour(p, c) \in 0 .. 31
<1>1. Place(c) \in {1024, 32, 1}
  BY DEF Place, Colours
<1> QED
  BY <1>1 DEF Colour

LEMMA TwoToIs == \A n \in 0 .. 4 : TwoTo(n) \in {1, 2, 4, 8, 16} /\ (n # 0 => TwoTo(n) >= 2)
  BY DEF TwoTo

LEMMA ScalarIn ==
  ASSUME NEW times \in 0 .. 7, NEW by \in 0 .. 3, NEW x \in 0 .. 31
  PROVE  Scalar(times, by, x) \in 0 .. 124
<1> DEFINE d == TwoTo(IF by = 0 THEN 4 ELSE by)
           product == x * (times + 1)
<1>1. d \in {2, 4, 8, 16}
  BY DEF TwoTo
<1> HIDE DEF d
<1>2. product \in 0 .. 248
  <2>1. \A t \in 0 .. 7 : t = 0 \/ t = 1 \/ t = 2 \/ t = 3 \/ t = 4 \/ t = 5 \/ t = 6 \/ t = 7
    OBVIOUS
  <2> QED
    BY <2>1
<1> HIDE DEF product
<1>3. product \div d \in 0 .. 124
  BY <1>1, <1>2
<1> QED
  BY <1>3 DEF Scalar, d, product

LEMMA PrimaryIn ==
  ASSUME NEW half \in Halves, NEW c \in Colours, NEW pixel \in Int, NEW input \in Int,
         NEW amv, amv[c] \in 0 .. 7
  PROVE  Primary(half, c, pixel, input, amv) \in 0 .. 124
<1> DEFINE own == Colour(pixel, c)
           in == Colour(input, c)
<1>1. own \in 0 .. 31 /\ in \in 0 .. 31
  BY ColourIn
<1> HIDE DEF own, in
<1>2. /\ half.ms \in 0 .. 3 /\ half.mxf \in 0 .. 7 /\ half.dv1 \in 0 .. 3
  BY DEF Halves
<1>3. own \div 4 \in 0 .. 7 /\ own % 4 \in 0 .. 3 /\ 4 \in 0 .. 7
  BY <1>1
<1> DEFINE s0 == Scalar(half.mxf, half.dv1, in)
           s1 == Scalar(amv[c], half.dv1, in)
           s2 == Scalar(own \div 4, own % 4, in)
           s3 == Scalar(4, half.dv1, in)
<1>4. s0 \in 0 .. 124
  BY <1>1, <1>2, ScalarIn
<1>5. s1 \in 0 .. 124
  BY <1>1, <1>2, ScalarIn
<1>6. s2 \in 0 .. 124
  BY <1>1, <1>3, ScalarIn
<1>7. s3 \in 0 .. 124
  BY <1>1, <1>2, <1>3, ScalarIn
<1>8. Primary(half, c, pixel, input, amv) =
        CASE half.ms = 0 -> s0 [] half.ms = 1 -> s1 [] half.ms = 2 -> s2 [] half.ms = 3 -> s3
  BY DEF Primary, own, in
<1> HIDE DEF s0, s1, s2, s3
<1>9. half.ms = 0 \/ half.ms = 1 \/ half.ms = 2 \/ half.ms = 3
  BY <1>2
<1> QED
  BY <1>4, <1>5, <1>6, <1>7, <1>8, <1>9

LEMMA SecondaryIn ==
  ASSUME NEW half \in Halves, NEW c \in Colours, NEW pixel \in Int, NEW frame \in Int, NEW dv3 \in 0 .. 3
  PROVE  Secondary(half, c, pixel, frame, dv3) \in 0 .. 31
<1> DEFINE d == TwoTo(dv3)
           own == Colour(pixel, c)
           of == Colour(frame, c)
<1>1. d \in {1, 2, 4, 8, 16}
  BY TwoToIs
<1>2. own \in 0 .. 31 /\ of \in 0 .. 31 /\ half.av \in 0 .. 31 /\ half.s2 \in 0 .. 3
  BY ColourIn DEF Halves
<1>3. Secondary(half, c, pixel, frame, dv3) =
        CASE half.s2 = 0 -> 0 [] half.s2 = 1 -> half.av \div d
          [] half.s2 = 2 -> of \div d [] half.s2 = 3 -> own \div d
  BY DEF Secondary
<1> HIDE DEF d, own, of
<1>4. half.av \div d \in 0 .. 31 /\ of \div d \in 0 .. 31 /\ own \div d \in 0 .. 31
  BY <1>1, <1>2
<1>5. half.s2 = 0 \/ half.s2 = 1 \/ half.s2 = 2 \/ half.s2 = 3
  BY <1>2
<1> QED
  BY <1>3, <1>4, <1>5

LEMMA AddedIn ==
  ASSUME NEW f, NEW neg \in 0 .. 1, NEW first \in 0 .. 124, NEW second \in 0 .. 31
  PROVE  Added(f, neg, first, second) \in -128 .. 255
<1> DEFINE xor == Xor(second, first % 32)
           inverted == "PXOR" \in f.flags
<1>1. xor \in 0 .. 31
  BY DEF Xor
<1> HIDE DEF xor
<1>2. Added(f, neg, first, second) =
        (IF inverted THEN 0 ELSE first)
          + (IF neg = 1 THEN -1 - second ELSE IF inverted THEN xor ELSE second) + neg
  BY DEF Added, xor
<1> HIDE DEF inverted
<1> QED
  BY <1>1, <1>2

LEMMA OverriddenIn ==
  ASSUME NEW f, NEW p \in Pixels
  PROVE  Overridden(f, p) \in Pixels /\ TopBit(Overridden(f, p)) \in 0 .. 1
<1>1. p \in Int /\ 0 <= p /\ p < 65536
  BY PixelIs
<1> DEFINE r == Rest(p)
<1>2. r \in Int /\ 0 <= r /\ r < 32768
  BY <1>1 DEF Rest
<1>3. Overridden(f, p) \in {32768 + r, r, p}
  BY DEF Overridden
<1> HIDE DEF r
<1> DEFINE o == Overridden(f, p)
<1> HIDE DEF o
<1>4. o \in {32768 + r, r, p}
  BY <1>3 DEF o
<1>5. o \in Int /\ 0 <= o /\ o < 65536
  BY <1>1, <1>2, <1>4
<1>6. TopBit(o) \in 0 .. 1
  BY <1>5 DEF TopBit
<1> QED
  BY <1>5, <1>6, PixelIs DEF o

LEMMA SignalsIn ==
  ASSUME NEW f, NEW half \in Halves
  PROVE  /\ Signals(f, half).neg \in 0 .. 1 /\ Signals(f, half).dv3 \in 0 .. 3
         /\ Signals(f, half).clip \in BOOLEAN
<1> DEFINE negated == half.av % 2
           clipped == (half.av \div 4) % 2 = 0
           divided == half.av \div 8
<1>1. half.av \in 0 .. 31
  BY DEF Halves
<1>2. negated \in 0 .. 1 /\ divided \in 0 .. 3
  BY <1>1
<1>3. clipped \in BOOLEAN
  OBVIOUS
<1>4. Signals(f, half) = IF "USEAV" \in f.flags THEN [neg |-> negated, clip |-> clipped, dv3 |-> divided]
                         ELSE [neg |-> 0, clip |-> TRUE, dv3 |-> 0]
  BY DEF Signals
<1> HIDE DEF negated, clipped, divided
<1>5. /\ Signals(f, half).neg = (IF "USEAV" \in f.flags THEN negated ELSE 0)
      /\ Signals(f, half).dv3 = (IF "USEAV" \in f.flags THEN divided ELSE 0)
  BY <1>4
<1> DEFINE s == Signals(f, half)
<1>6. s.clip \in BOOLEAN
  <2>1. CASE "USEAV" \in f.flags
    <3>1. s = [neg |-> negated, clip |-> clipped, dv3 |-> divided]
      BY <1>4, <2>1
    <3> HIDE DEF s
    <3>2. s.clip = clipped
      BY <3>1, Zenon
    <3> QED
      BY <1>3, <3>2, Zenon
  <2>2. CASE "USEAV" \notin f.flags
    <3>1. s = [neg |-> 0, clip |-> TRUE, dv3 |-> 0]
      BY <1>4, <2>2
    <3> HIDE DEF s
    <3>2. s.clip = TRUE
      BY <3>1, Zenon
    <3> QED
      BY <3>2, Zenon
  <2> QED
    BY <2>1, <2>2
<1> QED
  BY <1>2, <1>5, <1>6

LEMMA BlendIn ==
  ASSUME NEW f, f.pixc \in Pixcs, NEW c \in Colours, NEW decoded \in Pixels, NEW frame \in Pixels,
         NEW amv, amv[c] \in 0 .. 7
  PROVE  LET b == Blend(f, c, decoded, frame, amv)
         IN b.sum \in -128 .. 255 /\ b.by \in {1, 2} /\ b.clip \in BOOLEAN
<1> DEFINE pixel == Overridden(f, decoded)
           half == f.pixc[TopBit(pixel)]
           av == Signals(f, half)
           input == IF half.s1 = 0 THEN pixel ELSE frame
           first == Primary(half, c, pixel, input, amv)
           second == Secondary(half, c, pixel, frame, av.dv3)
           sum == Added(f, av.neg, first, second)
           by == TwoTo(half.dv2)
           b == Blend(f, c, decoded, frame, amv)
<1>1. pixel \in Pixels /\ TopBit(pixel) \in 0 .. 1
  BY OverriddenIn
<1> HIDE DEF pixel
<1>2. pixel \in Int /\ frame \in Int
  BY <1>1, PixelIs
<1>3. half \in Halves
  BY <1>1 DEF Pixcs
<1> HIDE DEF half
<1>4. av.neg \in 0 .. 1 /\ av.dv3 \in 0 .. 3 /\ av.clip \in BOOLEAN
  BY <1>3, SignalsIn
<1>5. input \in Int
  BY <1>2
<1> HIDE DEF av, input
<1>6. first \in 0 .. 124
  BY <1>2, <1>3, <1>5, PrimaryIn
<1>7. second \in 0 .. 31
  BY <1>2, <1>3, <1>4, SecondaryIn
<1> HIDE DEF first, second
<1>8. sum \in -128 .. 255
  BY <1>4, <1>6, <1>7, AddedIn
<1>9. by \in {1, 2}
  <2>1. half.dv2 \in 0 .. 1
    BY <1>3 DEF Halves
  <2> QED
    BY <2>1 DEF TwoTo
<1>10. b = [sum |-> sum, by |-> by, clip |-> av.clip]
  BY DEF Blend, sum, by, first, second, input, av, half, pixel
<1> HIDE DEF sum, by, b
<1>11. b.sum = sum /\ b.by = by
  BY <1>10
<1>12. b.clip = av.clip
  BY <1>10, Zenon
<1>13. b.clip \in BOOLEAN
  BY <1>4, <1>12, Zenon
<1> QED
  BY <1>8, <1>9, <1>11, <1>13 DEF b

LEMMA MixedIn ==
  ASSUME NEW f, f.pixc \in Pixcs, NEW c \in Colours, NEW decoded \in Pixels, NEW frame \in Pixels,
         NEW amv, amv[c] \in 0 .. 7
  PROVE  Mixed(f, c, decoded, frame, amv) \in 0 .. 31
<1> DEFINE b == Blend(f, c, decoded, frame, amv)
           x == b.sum \div b.by
           clamped == IF b.clip THEN Clamped(Byte(x)) ELSE Byte(x)
<1>1. b.sum \in -128 .. 255 /\ b.by \in {1, 2}
  BY BlendIn
<1>2. x \in Int
  BY <1>1
<1> HIDE DEF x
<1>3. Byte(x) \in Int
  BY <1>2 DEF Byte, Signed, TopSet
<1>4. clamped \in Int
  BY <1>3 DEF Clamped
<1>5. Mixed(f, c, decoded, frame, amv) = clamped % 32
  BY DEF Mixed, Quotients, Divided, x
<1> HIDE DEF clamped
<1> QED
  BY <1>4, <1>5

LEMMA ProcessedIn ==
  ASSUME NEW f, f.pixc \in Pixcs, NEW decoded \in Pixels, NEW frame \in Pixels,
         NEW amv, \A c \in Colours : amv[c] \in 0 .. 7
  PROVE  Processed(f, decoded, frame, amv) \in Int
<1> DEFINE mixed == [c \in Colours |-> Mixed(f, c, decoded, frame, amv)]
<1>1. ASSUME NEW c \in Colours PROVE mixed[c] \in 0 .. 31
  BY MixedIn
<1>2. Processed(f, decoded, frame, amv) = NotBlack(f, Rgb(mixed))
  BY DEF Processed
<1> HIDE DEF mixed
<1>3. Rgb(mixed) \in Int
  <2>1. "r" \in Colours /\ "g" \in Colours /\ "b" \in Colours
    BY DEF Colours
  <2>2. mixed["r"] \in Int /\ mixed["g"] \in Int /\ mixed["b"] \in Int
    BY <1>1, <2>1
  <2> QED
    BY <2>2 DEF Rgb
<1> QED
  BY <1>2, <1>3 DEF NotBlack

LEMMA PixelMade ==
  ASSUME NEW v \in 0 .. 1, NEW h \in 0 .. 1, NEW out \in Int
  PROVE  32768 * v + Rest(out) - LowBit(out) + h \in Pixels
<1> DEFINE rest == out % 32768
           low == out % 2
           half == out \div 2
<1>1. out = 2 * half + low /\ low \in 0 .. 1 /\ half \in Int
  OBVIOUS
<1>2. rest \in Int /\ 0 <= rest /\ rest < 32768
  OBVIOUS
<1>3. rest % 2 = low
  OBVIOUS
<1>4. 0 <= rest - low /\ rest - low <= 32766
  BY <1>1, <1>2, <1>3
<1> DEFINE p == 32768 * v + rest - low + h
<1>5. p \in Int /\ 0 <= p /\ p < 65536
  BY <1>1, <1>2, <1>4
<1> HIDE DEF p
<1>6. p \in Pixels
  BY <1>5, PixelIs
<1> QED
  BY <1>6 DEF p, Rest, LowBit

LEMMA ProjectedIn ==
  ASSUME NEW f, f.origin[1] \in 0 .. 1, f.origin[2] \in 0 .. 1, NEW decoded \in Pixels, NEW out \in Int
  PROVE  Projected(f, decoded, out) \in Pixels
<1> DEFINE from == IF "PLUTPOS" \in f.flags THEN <<TopBit(decoded), LowBit(decoded)>> ELSE f.origin
           vh == IF f.ccbctl0.swaphv /\ ~f.pre1.noswap THEN <<from[2], from[1]>> ELSE from
           v == CASE f.ccbctl0.b15pos = "0" -> 0 [] f.ccbctl0.b15pos = "1" -> 1 [] OTHER -> vh[1]
           low == LowBit(out)
           h == CASE f.ccbctl0.b0pos = "0" -> 0 [] f.ccbctl0.b0pos = "1" -> 1
                  [] f.ccbctl0.b0pos = "ppmp" -> low [] OTHER -> vh[2]
<1>1. from[1] \in 0 .. 1 /\ from[2] \in 0 .. 1
  <2>1. decoded \in Int /\ 0 <= decoded /\ decoded < 65536
    BY PixelIs
  <2>2. TopBit(decoded) \in 0 .. 1 /\ LowBit(decoded) \in 0 .. 1
    BY <2>1 DEF TopBit, LowBit
  <2> QED
    BY <2>2
<1> HIDE DEF from
<1>2. vh[1] \in 0 .. 1 /\ vh[2] \in 0 .. 1
  BY <1>1
<1> HIDE DEF vh
<1>3. v \in 0 .. 1
  BY <1>2
<1>4. low \in 0 .. 1
  BY DEF LowBit
<1> HIDE DEF v, low
<1>5. h \in 0 .. 1
  BY <1>2, <1>4
<1>6. Projected(f, decoded, out) = 32768 * v + Rest(out) - LowBit(out) + h
  BY DEF Projected, h, v, low, vh, from
<1> HIDE DEF h
<1> QED
  BY <1>3, <1>5, <1>6, PixelMade

LEMMA ShadedIn ==
  ASSUME NEW f, Paints(f), NEW p, Inked(p), NEW a
  PROVE  Shaded(f, p, Stored(f.vram, a)) \in Pixels
<1> DEFINE frame == Stored(f.vram, a)
           out == Processed(f, p.pixel, frame, p.amv)
<1>1. frame \in Pixels
  <2>1. 0 \in Pixels
    BY DEF Pixels
  <2> QED
    BY <2>1 DEF Stored, Held, Paints, Maps
<1> HIDE DEF frame
<1>2. out \in Int
  BY <1>1, ProcessedIn DEF Paints, Inked
<1> HIDE DEF out
<1>3. Projected(f, p.pixel, out) \in Pixels
  BY <1>2, ProjectedIn DEF Paints, Inked
<1> QED
  BY <1>3 DEF Shaded, out, frame

(* The palette has a colour for every code, and so has the direct way.     *)
LEMMA PlutIndex ==
  ASSUME NEW f, f.pluta \in 0 .. 15, NEW x \in Int
  PROVE  PlutBase(f) + (x % Mask(f.pre0.bpp)) \in 0 .. 31
<1> DEFINE bpp == f.pre0.bpp
           n == f.pluta
           base == PlutBase(f)
           mask == Mask(bpp)
<1>1. base = 2 * CASE bpp = 1 -> n [] bpp = 2 -> n - (n % 2) [] OTHER -> n - (n % 8)
  BY DEF PlutBase
<1>2. mask = CASE bpp = 1 -> 2 [] bpp = 2 -> 4 [] OTHER -> 16
  BY DEF Mask
<1>3. n \in 0 .. 15
  OBVIOUS
<1> HIDE DEF bpp, n, base, mask
<1>4. x % 2 \in 0 .. 1 /\ x % 4 \in 0 .. 3 /\ x % 16 \in 0 .. 15
  OBVIOUS
<1>5. n - (n % 2) \in 0 .. 14 /\ n - (n % 8) \in 0 .. 8
  BY <1>3
<1>6. CASE bpp = 1
  <2>1. base = 2 * n /\ mask = 2
    BY <1>1, <1>2, <1>6
  <2>2. base + (x % mask) \in 0 .. 31
    BY <1>3, <1>4, <2>1
  <2> QED
    BY <2>2 DEF base, mask, bpp
<1>7. CASE bpp = 2
  <2>1. base = 2 * (n - (n % 2)) /\ mask = 4
    BY <1>1, <1>2, <1>7
  <2>2. n - (n % 2) \in 0 .. 14 /\ (n - (n % 2)) % 2 = 0
    BY <1>3
  <2>3. base + (x % mask) \in 0 .. 31
    BY <1>4, <2>1, <2>2
  <2> QED
    BY <2>3 DEF base, mask, bpp
<1>8. CASE bpp # 1 /\ bpp # 2
  <2>1. base = 2 * (n - (n % 8)) /\ mask = 16
    BY <1>1, <1>2, <1>8
  <2>2. base + (x % mask) \in 0 .. 31
    BY <1>4, <1>5, <2>1
  <2> QED
    BY <2>2 DEF base, mask, bpp
<1> QED
  BY <1>6, <1>7, <1>8

LEMMA Uncoded8In == ASSUME NEW x \in 0 .. 255 PROVE Uncoded8(x) \in Pixels
<1> DEFINE a == (x \div 32) % 8
           b == (x \div 4) % 8
           c == x % 4
           r == 4 * a + a \div 2
           g == 4 * b + b \div 2
           blue == 10 * c + c \div 2
<1>1. a \in 0 .. 7 /\ b \in 0 .. 7 /\ c \in 0 .. 3
  OBVIOUS
<1>2. Uncoded8(x) = Rgb([r |-> r, g |-> g, b |-> blue])
  BY DEF Uncoded8
<1> HIDE DEF a, b, c
<1>3. r \in 0 .. 31 /\ g \in 0 .. 31 /\ blue \in 0 .. 31
  BY <1>1
<1> HIDE DEF r, g, blue
<1>4. Uncoded8(x) = r * 1024 + g * 32 + blue
  BY <1>2 DEF Rgb
<1> DEFINE p == Uncoded8(x)
<1> HIDE DEF p
<1>5. p \in Int /\ 0 <= p /\ p < 65536
  BY <1>3, <1>4 DEF p
<1> QED
  BY <1>5, PixelIs DEF p

LEMMA RestAnd ==
  ASSUME NEW p \in Pixels, NEW v \in 0 .. 1
  PROVE  Rest(p) + 32768 * v \in Pixels
<1> DEFINE q == Rest(p) + 32768 * v
<1>1. Rest(p) \in Int /\ 0 <= Rest(p) /\ Rest(p) < 32768
  <2>1. p \in Int
    BY PixelIs
  <2> QED
    BY <2>1 DEF Rest
<1>2. q \in Int /\ 0 <= q /\ q < 65536
  BY <1>1
<1> HIDE DEF q
<1> QED
  BY <1>2, PixelIs DEF q

LEMMA InkedIs ==
  ASSUME NEW d, NEW p \in Pixels, NEW m, \A c \in Colours : m[c] \in 0 .. 7, d = [pixel |-> p, amv |-> m]
  PROVE  Inked(d)
<1>1. d.pixel = p /\ d.amv = m
  OBVIOUS
<1> QED
  BY <1>1 DEF Inked

LEMMA DecodedIn ==
  ASSUME NEW f, Paletted(f), f.pluta \in 0 .. 15, NEW x \in Pixels
  PROVE  Inked(Decoded(f, x))
<1> DEFINE bpp == f.pre0.bpp
           linear == f.pre0.linear
           d == Decoded(f, x)
           p1 == f.plut[PlutBase(f) + (x % Mask(bpp))]
           p2 == f.plut[x % 32]
           p3 == Rest(p2) + 32768 * ((x \div 32) % 2)
           p4 == Uncoded8(x % 256)
           p5 == Rest(p2) + 32768 * TopBit(x)
           once == Same(1)
           short == Same(2 * ((x \div 64) % 4) + ((x \div 32) % 2))
           long == [r |-> (x \div 2048) % 8, g |-> (x \div 256) % 8, b |-> (x \div 32) % 8]
<1>1. x \in Int /\ 0 <= x /\ x < 65536
  BY PixelIs
<1>2. \A c \in Colours : once[c] \in 0 .. 7
  BY DEF Same
<1>3. \A c \in Colours : short[c] \in 0 .. 7
  <2>1. (x \div 64) % 4 \in 0 .. 3 /\ (x \div 32) % 2 \in 0 .. 1
    BY <1>1
  <2>2. 2 * ((x \div 64) % 4) + ((x \div 32) % 2) \in 0 .. 7
    BY <2>1
  <2> QED
    BY <2>2 DEF Same
<1>4. \A c \in Colours : long[c] \in 0 .. 7
  <2>1. (x \div 2048) % 8 \in 0 .. 7 /\ (x \div 256) % 8 \in 0 .. 7 /\ (x \div 32) % 8 \in 0 .. 7
    BY <1>1
  <2> QED
    BY <2>1 DEF Colours
<1>5. p1 \in Pixels
  BY <1>1, PlutIndex DEF Paletted
<1>6. p2 \in Pixels
  <2>1. x % 32 \in 0 .. 31
    BY <1>1
  <2> QED
    BY <2>1 DEF Paletted
<1> HIDE DEF p1, p2
<1>7. p3 \in Pixels
  <2>1. (x \div 32) % 2 \in 0 .. 1
    BY <1>1
  <2> QED
    BY <1>6, <2>1, RestAnd
<1>8. p4 \in Pixels
  <2>1. x % 256 \in 0 .. 255
    BY <1>1
  <2> QED
    BY <2>1, Uncoded8In
<1>9. p5 \in Pixels
  <2>1. TopBit(x) \in 0 .. 1
    BY <1>1 DEF TopBit
  <2> QED
    BY <1>6, <2>1, RestAnd
<1>10. d = CASE bpp \notin {4, 5, 6} -> [pixel |-> p1, amv |-> once]
             [] bpp = 4 -> [pixel |-> p3, amv |-> once]
             [] bpp = 5 /\ linear -> [pixel |-> p4, amv |-> once]
             [] bpp = 5 /\ ~linear -> [pixel |-> p2, amv |-> short]
             [] bpp = 6 /\ linear -> [pixel |-> x, amv |-> once]
             [] bpp = 6 /\ ~linear -> [pixel |-> p5, amv |-> long]
  BY DEF Decoded, p1, p2
<1> HIDE DEF p3, p4, p5, once, short, long, bpp, linear, d
<1>11. \/ d = [pixel |-> p1, amv |-> once]
       \/ d = [pixel |-> p3, amv |-> once]
       \/ d = [pixel |-> p4, amv |-> once]
       \/ d = [pixel |-> p2, amv |-> short]
       \/ d = [pixel |-> x, amv |-> once]
       \/ d = [pixel |-> p5, amv |-> long]
  BY <1>10
<1>12. Inked(d)
  BY <1>2, <1>3, <1>4, <1>5, <1>6, <1>7, <1>8, <1>9, <1>11, InkedIs
<1> QED
  BY <1>12 DEF d

(* A sum is never so large or small that the byte it is kept in would give *)
(* it a wrong colour, except for black above 127.                          *)
LEMMA DividedIs ==
  ASSUME NEW sum \in -128 .. 255, NEW by \in {1, 2}
  PROVE  LET x == sum \div by
         IN Divided(sum, by, TRUE) = IF x > 127 THEN 0 ELSE Greater(Lesser(x, 31), 0)
<1> DEFINE x == sum \div by
           byte == Byte(x)
<1>1. x \in -128 .. 255
  OBVIOUS
<1> DEFINE out == Divided(sum, by, TRUE)
<1>2. out = Clamped(byte) % 32
  BY DEF Divided
<1> HIDE DEF x, out
<1>3. CASE x > 127
  <2>1. x % 256 = x
    BY <1>1, <1>3
  <2>2. byte = x - 256
    BY <1>1, <1>3, <2>1 DEF Byte, Signed, TopSet
  <2>3. Clamped(byte) = 0
    BY <1>1, <2>2 DEF Clamped
  <2> HIDE DEF byte
  <2>4. out = 0
    BY <1>2, <2>3
  <2> QED
    BY <1>3, <2>4 DEF x, out
<1>4. CASE ~(x > 127)
  <2>1. x % 256 = IF x >= 0 THEN x ELSE x + 256
    BY <1>1, <1>4
  <2>2. byte = x
    BY <1>1, <1>4, <2>1 DEF Byte, Signed, TopSet
  <2> HIDE DEF byte
  <2>3. Clamped(byte) = Greater(Lesser(x, 31), 0) /\ Clamped(byte) \in 0 .. 31
    BY <1>1, <2>2 DEF Clamped, Greater, Lesser
  <2>4. Clamped(byte) % 32 = Clamped(byte)
    BY <2>3
  <2>5. out = Greater(Lesser(x, 31), 0)
    BY <1>2, <2>3, <2>4
  <2> QED
    BY <1>4, <2>5 DEF x, out
<1> QED
  BY <1>3, <1>4

LEMMA MixedSaturates ==
  ASSUME NEW f, f.pixc \in Pixcs, NEW c \in Colours, NEW decoded \in Pixels, NEW frame \in Pixels
  PROVE  LET b == Blend(f, c, decoded, frame, Same(1)) sum == b.sum \div b.by
         IN b.clip => Mixed(f, c, decoded, frame, Same(1)) =
                        IF sum > 127 THEN 0 ELSE Greater(Lesser(sum, 31), 0)
<1> DEFINE b == Blend(f, c, decoded, frame, Same(1))
<1>1. Same(1)[c] \in 0 .. 7
  BY DEF Same
<1>2. b.sum \in -128 .. 255 /\ b.by \in {1, 2}
  BY <1>1, BlendIn
<1>3. Mixed(f, c, decoded, frame, Same(1)) = Quotients(b)
  BY DEF Mixed
<1> HIDE DEF b
<1>4. ASSUME b.clip PROVE Quotients(b) = Divided(b.sum, b.by, TRUE)
  BY <1>4 DEF Quotients, Divided
<1>5. b.clip => Quotients(b) = IF b.sum \div b.by > 127 THEN 0
                               ELSE Greater(Lesser(b.sum \div b.by, 31), 0)
  <2>1. Divided(b.sum, b.by, TRUE) = IF b.sum \div b.by > 127 THEN 0
                                     ELSE Greater(Lesser(b.sum \div b.by, 31), 0)
    BY <1>2, DividedIs
  <2> QED
    BY <1>4, <2>1
<1> QED
  BY <1>3, <1>5 DEF b
-----------------------------------------------------------------------------
(* Engines.  Only(f, g, K): from f to g no register but those of K has     *)
(* changed, and of the frame no pixel outside the window; what was drawn   *)
(* are pixels.                                                             *)
EngineFields ==
  {"flags", "pover", "pluta", "pixc", "pre0", "pre1", "plut", "origin", "pos", "hd", "vd", "hdd",
   "sprwi", "sprhi", "pdata", "mem", "vram", "junk", "stuck", "clip", "rmod", "wmod", "regctl2",
   "regctl3", "ccbctl0", "lost", "torn"}
Marks == {"vram", "lost", "torn"}
Drawable == Marks \union {"hd", "pos", "pdata"}

Inside(f, g) ==
  \A a \in DOMAIN g.vram : (a \in Window(f) /\ g.vram[a] \in Pixels)
                            \/ (a \in DOMAIN f.vram /\ g.vram[a] = f.vram[a])

Only(f, g, K) ==
  /\ DOMAIN g = EngineFields /\ (\A k \in EngineFields \ K : g[k] = f[k])
  /\ Inside(f, g) /\ (f.torn => g.torn)

LEMMA OnlySelf == ASSUME NEW f, DOMAIN f = EngineFields, NEW K PROVE Only(f, f, K)
  BY DEF Only, Inside

Inks == {"vram", "pixc", "plut", "pluta", "origin"}

LEMMA StillPaints ==
  ASSUME NEW f, Paints(f), NEW g, \A k \in Inks \ {"vram"} : g[k] = f[k], g.vram = f.vram \/ Inside(f, g)
  PROVE  Paints(g)
<1>1. g.pixc = f.pixc /\ g.plut = f.plut /\ g.pluta = f.pluta /\ g.origin = f.origin
  BY DEF Inks
<1>2. Maps(g.vram, Pixels)
  BY DEF Paints, Maps, Inside
<1> QED
  BY <1>1, <1>2 DEF Paints, Paletted

LEMMA OnlyKeeps ==
  ASSUME NEW f, NEW g, NEW K \in SUBSET Drawable, Only(f, g, K)
  PROVE  /\ g.clip = f.clip /\ g.vd = f.vd /\ g.hdd = f.hdd /\ g.flags = f.flags
         /\ g.pre0 = f.pre0 /\ g.pre1 = f.pre1 /\ g.mem = f.mem /\ g.stuck = f.stuck
         /\ g.sprwi = f.sprwi /\ g.sprhi = f.sprhi /\ g.junk = f.junk
         /\ g.regctl3 = f.regctl3 /\ g.wmod = f.wmod /\ Window(g) = Window(f)
         /\ ("hd" \notin K => g.hd = f.hd) /\ (Paints(f) => Paints(g))
<1>1. \A k \in EngineFields \ Drawable : g[k] = f[k]
  BY DEF Only
<1>2. /\ g.clip = f.clip /\ g.vd = f.vd /\ g.hdd = f.hdd /\ g.flags = f.flags
      /\ g.pre0 = f.pre0 /\ g.pre1 = f.pre1 /\ g.mem = f.mem /\ g.stuck = f.stuck
      /\ g.sprwi = f.sprwi /\ g.sprhi = f.sprhi /\ g.junk = f.junk
      /\ g.regctl3 = f.regctl3 /\ g.wmod = f.wmod
  BY <1>1 DEF EngineFields, Drawable, Marks
<1>3. "hd" \notin K => g.hd = f.hd
  BY DEF Only, EngineFields
<1>4. ASSUME Paints(f) PROVE Paints(g)
  <2>1. Inks \ {"vram"} \subseteq EngineFields \ Drawable
    BY DEF Inks, EngineFields, Drawable, Marks
  <2> QED
    BY <1>1, <1>4, <2>1, StillPaints DEF Only
<1> QED
  BY <1>2, <1>3, <1>4 DEF Window

LEMMA OnlyThen ==
  ASSUME NEW f, NEW g, NEW h, NEW K \in SUBSET Drawable, Only(f, g, K), Only(g, h, K)
  PROVE  Only(f, h, K)
<1>1. Window(g) = Window(f)
  BY OnlyKeeps
<1> QED
  BY <1>1 DEF Only, Inside

LEMMA OnlyWider ==
  ASSUME NEW f, NEW g, NEW K, NEW L, K \subseteq L, Only(f, g, K)
  PROVE  Only(f, g, L)
  BY DEF Only

LEMMA PlotOnly ==
  ASSUME NEW f, DOMAIN f = EngineFields, Paints(f), NEW x, NEW y, InWindow(f, x, y), NEW p, Inked(p)
  PROVE  Only(f, Plot(f, x, y, p), Marks)
<1> DEFINE a == f.regctl3 + XY2OFF(x, y, f.wmod)
           out == Shaded(f, p, Stored(f.vram, f.regctl2 + XY2OFF(x, y, f.rmod)))
           g == Plot(f, x, y, p)
<1>1. a \in Window(f) /\ out \in Pixels
  BY ShadedIn DEF Window, InWindow
<1> HIDE DEF a, out
<1>2. g = [f EXCEPT !.vram = Store(f.vram, a, out)]
  BY DEF Plot, a, out
<1> HIDE DEF g
<1>3. DOMAIN g = EngineFields /\ (\A k \in EngineFields \ Marks : g[k] = f[k])
      /\ g.vram = Store(f.vram, a, out) /\ g.torn = f.torn
  BY <1>2 DEF EngineFields, Marks
<1>4. Inside(f, g)
  BY <1>1, <1>3 DEF Inside, Store
<1>5. f.torn => g.torn
  BY <1>3
<1> QED
  BY <1>3, <1>4, <1>5 DEF Only, g

LEMMA PlottedOnly ==
  ASSUME NEW f, DOMAIN f = EngineFields, Paints(f), NEW places, NEW p, Inked(p), NEW tested, Len(places) \in Nat,
         \A k \in 1 .. Len(places) : tested \/ InWindow(f, places[k][1], places[k][2])
  PROVE  Only(f, Plotted(f, places, p, tested), Marks)
<1> DEFINE n == Len(places)
           j == [does |-> "plot", places |-> places, p |-> p, tested |-> tested]
           P(g) == g = [k \in 0 .. n |-> IF k = 0 THEN f ELSE PlotAt(g[k - 1], places[k], p, tested)]
           h == CHOOSE g : P(g)
           Wrong == {k \in Nat : k <= n /\ ~Only(f, h[k], Marks)}
<1>1. \A s, k : Turn(j, s, k) = PlotAt(s, places[k], p, tested)
  BY DEF Turn
<1> HIDE DEF j
<1>2. P(h)
  <2>1. PICK g : Loop(g, j, f, n)
    BY LoopExists
  <2>2. P(g)
    BY <1>1, <2>1 DEF Loop
  <2> QED
    BY <2>2
<1>3. Plotted(f, places, p, tested) = h[n]
  BY DEF Plotted
<1> HIDE DEF h
<1>4. SUFFICES ASSUME Wrong # {} PROVE FALSE
  BY <1>3
<1>5. PICK k \in Wrong : \A i \in Wrong : k <= i
  BY <1>4, Least
<1>6. k \in 0 .. n /\ h[k] = IF k = 0 THEN f ELSE PlotAt(h[k - 1], places[k], p, tested)
  BY <1>2, <1>5
<1>7. k # 0
  BY <1>5, <1>6, OnlySelf
<1>8. k - 1 \in Nat /\ k - 1 <= n /\ k - 1 \notin Wrong
  BY <1>5, <1>7
<1>9. Only(f, h[k - 1], Marks)
  BY <1>8
<1> DEFINE g == h[k - 1]
<1>10. DOMAIN g = EngineFields /\ Paints(g) /\ g.clip = f.clip
  <2>1. Marks \in SUBSET Drawable /\ DOMAIN g = EngineFields
    BY <1>9 DEF Drawable, Marks, Only
  <2> QED
    BY <1>9, <2>1, OnlyKeeps
<1>11. CASE tested => InWindow(g, places[k][1], places[k][2])
  <2>1. InWindow(g, places[k][1], places[k][2])
    BY <1>6, <1>7, <1>10, <1>11 DEF InWindow
  <2>2. h[k] = Plot(g, places[k][1], places[k][2], p)
    BY <1>6, <1>7, <1>11 DEF PlotAt
  <2>3. Only(g, h[k], Marks)
    BY <1>10, <2>1, <2>2, PlotOnly
  <2>4. Only(f, h[k], Marks)
    BY <1>9, <2>3, OnlyThen DEF Drawable, Marks
  <2> QED
    BY <1>5, <2>4
<1>12. CASE ~(tested => InWindow(g, places[k][1], places[k][2]))
  <2>1. h[k] = g
    BY <1>6, <1>7, <1>12 DEF PlotAt
  <2> QED
    BY <1>5, <1>9, <2>1
<1> QED
  BY <1>11, <1>12
-----------------------------------------------------------------------------
(* Fractions cut off, and sequences made by a function.                    *)
LEMMA WholeOf ==
  ASSUME NEW one \in Nat \ {0}, NEW y \in Int, NEW c \in Int, c * one <= y, y < c * one + one
  PROVE  y \div one = c /\ y % one = y - c * one
<1> DEFINE d == y \div one
           r == y % one
<1>1. one \in Nat /\ one > 0
  OBVIOUS
<1>2. d \in Int /\ r \in Int /\ 0 <= r /\ r < one /\ y = one * d + r
  BY <1>1
<1> HIDE DEF d, r
<1>3. ASSUME d < c PROVE FALSE
  <2>1. c * one = one * d + one * (c - d)
    BY <1>1, <1>2
  <2>2. one * (c - d) >= one
    <3>1. c - d - 1 \in Nat
      BY <1>2, <1>3
    <3>2. one * (c - d) = one + one * (c - d - 1)
      BY <1>1, <1>2
    <3>3. one * (c - d - 1) >= 0
      BY <1>1, <3>1
    <3> QED
      BY <1>1, <3>1, <3>2, <3>3
  <2> QED
    BY <1>1, <1>2, <2>1, <2>2
<1>4. ASSUME d > c PROVE FALSE
  <2>1. one * d = c * one + one * (d - c)
    BY <1>1, <1>2
  <2>2. one * (d - c) >= one
    <3>1. d - c - 1 \in Nat
      BY <1>2, <1>4
    <3>2. one * (d - c) = one + one * (d - c - 1)
      BY <1>1, <1>2
    <3>3. one * (d - c - 1) >= 0
      BY <1>1, <3>1
    <3> QED
      BY <1>1, <3>1, <3>2, <3>3
  <2> QED
    BY <1>1, <1>2, <2>1, <2>2
<1>5. d = c
  BY <1>2, <1>3, <1>4
<1>6. one * d = c * one
  BY <1>5
<1>7. r = y - c * one
  <2>1. one * d \in Int /\ c * one \in Int
    BY <1>1, <1>2
  <2> QED
    BY <1>2, <1>6, <2>1
<1> QED
  BY <1>5, <1>7 DEF d, r

LEMMA QuotientIs ==
  ASSUME NEW y \in Int, NEW c \in Int, c * One <= y, y < c * One + One
  PROVE  y \div One = c
<1>1. One \in Nat \ {0}
  BY OneAssumption
<1> QED
  BY <1>1, WholeOf

(* Numbers that come round: every other one of 2 * h.                      *)
LEMMA AroundIs ==
  ASSUME NEW h \in Nat \ {0}, NEW z \in Int
  PROVE  /\ Around(h, z) \in -h .. h - 1
         /\ z \in -h .. h - 1 => Around(h, z) = z
<1> DEFINE m == 2 * h
           x == z % m
<1>1. m \in Nat \ {0}
  OBVIOUS
<1>2. x \in 0 .. m - 1
  <2>1. \A i \in Int, k \in Nat \ {0} : i % k \in 0 .. k - 1
    OBVIOUS
  <2> HIDE DEF m
  <2> QED
    BY <1>1, <2>1
<1>3. ASSUME 0 <= z, z < h PROVE x = z
  <2>1. 0 * m <= z /\ z < 0 * m + m /\ z - 0 * m = z
    BY <1>1, <1>3
  <2> HIDE DEF m
  <2> QED
    BY <1>1, <2>1, WholeOf
<1>4. ASSUME -h <= z, z < 0 PROVE x = z + m
  <2>1. PICK c \in Int : c = -1
    OBVIOUS
  <2>2. c * m <= z /\ z < c * m + m /\ z - c * m = z + m
    BY <1>1, <1>4, <2>1
  <2> HIDE DEF m
  <2> QED
    BY <1>1, <2>2, WholeOf
<1>5. Around(h, z) = IF x >= h THEN x - m ELSE x
  BY DEF Around, Signed, TopSet
<1> HIDE DEF x
<1> QED
  <2>1. x \in Int /\ 0 <= x /\ x < 2 * h
    BY <1>1, <1>2
  <2>2. CASE 0 <= z
    BY <1>3, <1>5, <2>1, <2>2
  <2>3. CASE z < 0
    BY <1>4, <1>5, <2>1, <2>3
  <2> QED
    BY <2>2, <2>3

Cell(x) == x \div One

LEMMA WholePart ==
  ASSUME NEW x \in Int
  PROVE  Cell(x) \in Int /\ One * Cell(x) <= x /\ x < One * Cell(x) + One
  BY OneAssumption DEF Cell

LEMMA WholeSteps ==
  ASSUME NEW x \in Int, NEW k \in Int
  PROVE  Cell(x + k * One) = Cell(x) + k
<1> DEFINE c == Cell(x) + k
<1>1. One \in Nat /\ Cell(x) \in Int
  BY WholePart, OneAssumption
<1>2. c * One = One * Cell(x) + k * One
  BY <1>1
<1>3. c \in Int /\ x + k * One \in Int
  BY <1>1
<1>4. c * One <= x + k * One /\ x + k * One < c * One + One
  <2>1. One * Cell(x) <= x /\ x < One * Cell(x) + One
    BY WholePart
  <2>2. k * One \in Int /\ One * Cell(x) \in Int
    BY <1>1
  <2> HIDE DEF c
  <2> QED
    BY <1>1, <1>2, <2>1, <2>2
<1> HIDE DEF c
<1>5. (x + k * One) \div One = c
  BY <1>3, <1>4, QuotientIs
<1> QED
  BY <1>5 DEF Cell, c

LEMMA WholeGrows ==
  ASSUME NEW x \in Int, NEW y \in Int, x <= y
  PROVE  Cell(x) <= Cell(y)
<1> DEFINE c == Cell(x)
           d == Cell(y)
<1>1. One \in Nat /\ One > 0
  BY OneAssumption
<1>2. c \in Int /\ d \in Int /\ One * c <= x /\ y < One * d + One
  BY WholePart
<1> HIDE DEF c, d
<1>3. ASSUME d < c PROVE FALSE
  <2>1. c - d - 1 \in Nat
    BY <1>2, <1>3
  <2>2. One * c = One * d + One + One * (c - d - 1)
    BY <1>1, <1>2
  <2>3. One * (c - d - 1) >= 0
    BY <1>1, <2>1
  <2>4. One * c \in Int /\ One * d \in Int /\ One * (c - d - 1) \in Int
    BY <1>1, <1>2
  <2> QED
    BY <1>1, <1>2, <2>2, <2>3, <2>4
<1> QED
  BY <1>2, <1>3 DEF c, d


Reach == Far * One

LEMMA ReachIs == Reach \in Nat \ {0} /\ Number = -Reach .. Reach - 1 /\ Number \subseteq Int
<1>1. \A i, k \in Nat \ {0} : i * k \in Nat \ {0}
  OBVIOUS
<1>2. Far \in Nat \ {0} /\ One \in Nat \ {0}
  BY OneAssumption, FarAssumption
<1>3. Reach \in Nat \ {0}
  BY <1>1, <1>2 DEF Reach
<1>4. Number = -Reach .. Reach - 1
  BY DEF Number, Reach
<1> QED
  BY <1>3, <1>4

LEMMA WrapIs ==
  ASSUME NEW z \in Int
  PROVE  /\ Wrap(z) \in Number /\ Wrap(z) \in Int
         /\ z \in Number => Wrap(z) = z
<1>1. Wrap(z) = Around(Reach, z)
  BY DEF Wrap, Reach
<1> QED
  BY <1>1, ReachIs, AroundIs

(* Pixels of the window are within reach.                                  *)
LEMMA CellWithin ==
  ASSUME NEW x \in Int, Cell(x) \in Coordinates
  PROVE  x \in Number /\ Int16(x) = Cell(x)
<1> DEFINE c == Cell(x)
           more == One * (Far - 1 - c)
<1>1. One * c <= x /\ x < One * c + One /\ One \in Nat \ {0} /\ Far \in Nat /\ Far > 1024
  BY WholePart, OneAssumption, FarAssumption
<1>2. c \in Nat /\ Far - 1 - c \in Nat
  <2>1. c \in Coordinates
    OBVIOUS
  <2> HIDE DEF c
  <2> QED
    BY <2>1, FarAssumption, SMTT(30) DEF Coordinates
<1> HIDE DEF c
<1>3. more \in Nat /\ One * c \in Nat
  BY <1>1, <1>2
<1>4. Reach = One * c + One + more
  BY <1>1, <1>2 DEF Reach
<1> HIDE DEF more
<1>5. x \in Number
  BY <1>1, <1>3, <1>4, ReachIs
<1> QED
  BY <1>5, WrapIs DEF Int16, Cell

LEMMA Int16In == ASSUME NEW x \in Int PROVE Int16(x) \in Int
<1>1. \A z \in Int : z \div One \in Int
  BY OneAssumption
<1> QED
  BY <1>1, WrapIs DEF Int16

LEMMA Int16Is == ASSUME NEW x \in Number PROVE Int16(x) = Cell(x) /\ Wrap(x) = x
  BY WrapIs, ReachIs DEF Int16, Cell

(* Small numbers, whose cells are 0, 1 or -1 and their neighbours.         *)
LEMMA UnitsIn == {0, One, -One} \subseteq Number
<1>1. One \in Nat \ {0} /\ Far \in Nat /\ Far > 1024
  BY OneAssumption, FarAssumption
<1>2. Reach = One + One * (Far - 1) /\ One * (Far - 1) \in Nat /\ One * (Far - 1) > 0
  BY <1>1 DEF Reach
<1> HIDE DEF Reach
<1> QED
  BY <1>1, <1>2, ReachIs

LEMMA NarrowIn == ASSUME NEW z \in Int PROVE Narrow(z) \in Int
<1>1. \A i, k \in Nat \ {0} : i * k \in Nat \ {0}
  OBVIOUS
<1>2. 2 * Far * Far \in Nat \ {0}
  BY <1>1, FarAssumption
<1> QED
  BY <1>2, AroundIs DEF Narrow

LEMMA Listed ==
  ASSUME NEW n \in Nat, NEW g, g = [k \in 1 .. n |-> g[k]]
  PROVE  Len(g) = n
<1> DEFINE S == {g[k] : k \in 1 .. n}
<1>1. g \in [1 .. n -> S]
  OBVIOUS
<1>2. g \in Seq(S)
  BY <1>1, SeqDef
<1>3. DOMAIN g = 1 .. Len(g) /\ Len(g) \in Nat
  BY <1>2, LenProperties
<1>4. 1 .. n = 1 .. Len(g)
  BY <1>1, <1>3
<1> QED
  BY <1>3, <1>4
-----------------------------------------------------------------------------
(* Texels.  A rectangle is tested pixel by pixel; its loops end where they *)
(* should if no side leads away from its end.                              *)
IntPair(v) == \A a \in Axes : v[a] \in Int

LEMMA DrawnIs == ASSUME NEW f, NEW b PROVE Drawn(f, b).e = f /\ Drawn(f, b).stop = b
  BY DEF Drawn

(* Loops go where they should, or the end of those that do not has come    *)
(* round.                                                                  *)
SidesFit(inc, from, to, round) ==
  /\ IntPair(from) /\ IntPair(to)
  /\ \A a \in Axes : inc[a] \in {-1, 1} /\ ((to[a] - from[a]) * inc[a] < 0 => a \in round)

LEMMA ScaleTexelOnly ==
  ASSUME NEW f, DOMAIN f = EngineFields, Paints(f), NEW p, Inked(p), NEW inc, NEW from, NEW to, NEW round,
         SidesFit(inc, from, to, round)
  PROVE  Only(f, ScaleTexel(f, p, inc, from, to, round).e, Marks)
<1> DEFINE wide == Side(from, to, "x")
           high == Side(from, to, "y")
           places == Rectangle(from, inc, wide, high)
           away == Away(inc, from, to)
           g == Plotted(f, places, p, TRUE)
           d == ScaleTexel(f, p, inc, from, to, round)
<1>1. away \subseteq round
  BY DEF Away, SidesFit
<1>2. Astray(f, away, round) = [f EXCEPT !.lost = TRUE]
  BY <1>1 DEF Astray
<1>3. d \in {Drawn(f, TRUE), Drawn(g, FALSE), Drawn(f, FALSE), Drawn(Astray(f, away, round), FALSE)}
  BY DEF ScaleTexel
<1> HIDE DEF d, away, g
<1>4. d.e \in {f, g, Astray(f, away, round)}
  <2>1. Drawn(f, TRUE).e = f /\ Drawn(f, FALSE).e = f /\ Drawn(g, FALSE).e = g
          /\ Drawn(Astray(f, away, round), FALSE).e = Astray(f, away, round)
    BY DrawnIs
  <2> QED
    BY <1>3, <2>1
<1> USE DEF g
<1>5. Only(f, g, Marks)
  <2>1. wide \in Nat /\ high \in Nat
    BY DEF Side, SidesFit, IntPair, Axes, Abs
  <2> HIDE DEF wide, high
  <2>2. wide * high \in Nat
    BY <2>1
  <2>3. places = [k \in 1 .. wide * high |-> places[k]]
    BY DEF Rectangle
  <2>4. Len(places) = wide * high
    BY <2>2, <2>3, Listed
  <2> HIDE DEF places
  <2> QED
    BY <2>2, <2>4, PlottedOnly
<1>6. Only(f, f, Marks)
  BY OnlySelf
<1>7. Only(f, [f EXCEPT !.lost = TRUE], Marks)
  <2> DEFINE h == [f EXCEPT !.lost = TRUE]
  <2>1. DOMAIN h = EngineFields /\ (\A k \in EngineFields \ Marks : h[k] = f[k])
          /\ h.vram = f.vram /\ h.torn = f.torn
    BY DEF EngineFields, Marks
  <2> HIDE DEF h
  <2>2. Only(f, h, Marks)
    BY <2>1 DEF Only, Inside
  <2> QED
    BY <2>2 DEF h
<1> HIDE DEF g
<1> QED
  BY <1>2, <1>4, <1>5, <1>6, <1>7 DEF d

(* A line of pixels drawn at once lies in the window if each pixel does.   *)
LEMMA LineTexelOnly ==
  ASSUME NEW r, NEW m, m.kind = "line", NEW p, Inked(p), NEW n \in Nat, NEW f, DOMAIN f = EngineFields,
         Paints(f), NEW cur,
         \A k \in 1 .. n : InWindow(f, cur["x"] + (k - 1) * Int16(f.hd["x"]),
                                       cur["y"] + (k - 1) * Int16(f.hd["y"]))
  PROVE  /\ Only(f, Texel(r, m, p, n, f, cur).e, Marks)
         /\ Texel(r, m, p, n, f, cur).stop = FALSE
<1> DEFINE places == [k \in 1 .. n |-> <<cur["x"] + (k - 1) * Int16(f.hd["x"]),
                                         cur["y"] + (k - 1) * Int16(f.hd["y"])>>]
<1>1. Len(places) = n
  BY Listed
<1>2. \A k \in 1 .. n : InWindow(f, places[k][1], places[k][2])
  OBVIOUS
<1> HIDE DEF places
<1>3. Only(f, Plotted(f, places, p, FALSE), Marks)
  BY <1>1, <1>2, PlottedOnly
<1>4. Texel(r, m, p, n, f, cur) = Drawn(Plotted(f, places, p, FALSE), FALSE)
  BY DEF Texel, places
<1> QED
  <2> DEFINE g == Plotted(f, places, p, FALSE)
             d == Texel(r, m, p, n, f, cur)
  <2> HIDE DEF g, d
  <2>1. d = Drawn(g, FALSE)
    BY <1>4 DEF d, g
  <2>2. d.e = g
    BY <2>1, DrawnIs
  <2>3. d.stop = FALSE
    BY <2>1, Zenon DEF Drawn
  <2> QED
    BY <1>3, <2>2, <2>3 DEF d, g
-----------------------------------------------------------------------------
(* Quadrangles.  A line of the screen meets the four edges an even number  *)
(* of times.                                                               *)
Meetings == [x : Int, down : BOOLEAN]

LEMMA MeetsIn ==
  ASSUME NEW u, NEW v, NEW y \in Int, IntPair(u), IntPair(v), v["y"] # u["y"]
  PROVE  Meets(u, v, y) \in Int
<1> DEFINE num == Narrow(Rise(u, v, y))
           den == v["y"] - u["y"]
<1>1. num \in Int /\ den \in Int /\ den # 0
  <2>1. u["x"] \in Int /\ v["x"] \in Int /\ u["y"] \in Int /\ v["y"] \in Int
    BY DEF IntPair, Axes
  <2>2. \A i, k \in Int : i * k \in Int
    OBVIOUS
  <2>3. v["x"] - u["x"] \in Int /\ y - u["y"] \in Int /\ v["y"] - u["y"] # 0
    BY <2>1
  <2>4. Rise(u, v, y) \in Int
    BY <2>1, <2>2, <2>3 DEF Rise
  <2> QED
    BY <2>1, <2>3, <2>4, NarrowIn
<1> HIDE DEF num, den
<1>2. Abs(num) \in Nat /\ Abs(den) \in Nat \ {0}
  BY <1>1 DEF Abs
<1>3. Abs(num) \div Abs(den) \in Int
  BY <1>2
<1>4. Quotient(num, den) \in Int
  BY <1>1, <1>3 DEF Quotient
<1> QED
  BY <1>4 DEF Meets, num, den, IntPair, Axes

Upper(y, v) == v["y"] <= y

LEMMA CrossingIn ==
  ASSUME NEW u, NEW v, NEW y \in Int, IntPair(u), IntPair(v)
  PROVE  \/ (Upper(y, u) <=> Upper(y, v)) /\ Crossing(y, u, v) = <<>>
         \/ ~(Upper(y, u) <=> Upper(y, v)) /\ \E x \in Meetings : Crossing(y, u, v) = <<x>>
<1>1. u["y"] \in Int /\ v["y"] \in Int
  BY DEF IntPair, Axes
<1>2. CASE u["y"] <= y /\ y < v["y"]
  <2>1. Meets(u, v, y) \in Int
    BY <1>1, <1>2, MeetsIn
  <2>2. Crossing(y, u, v) = <<[x |-> Meets(u, v, y), down |-> TRUE]>>
    BY <1>2 DEF Crossing
  <2>3. [x |-> Meets(u, v, y), down |-> TRUE] \in Meetings
    BY <2>1 DEF Meetings
  <2>4. ~(Upper(y, u) <=> Upper(y, v))
    BY <1>1, <1>2 DEF Upper
  <2> QED
    BY <2>2, <2>3, <2>4
<1>3. CASE v["y"] <= y /\ y < u["y"]
  <2>1. Meets(v, u, y) \in Int
    BY <1>1, <1>3, MeetsIn
  <2>2. ~(u["y"] <= y /\ y < v["y"])
    BY <1>1, <1>3
  <2>3. Crossing(y, u, v) = <<[x |-> Meets(v, u, y), down |-> FALSE]>>
    BY <1>3, <2>2 DEF Crossing
  <2>4. [x |-> Meets(v, u, y), down |-> FALSE] \in Meetings
    BY <2>1 DEF Meetings
  <2>5. ~(Upper(y, u) <=> Upper(y, v))
    BY <1>1, <1>3 DEF Upper
  <2> QED
    BY <2>3, <2>4, <2>5
<1>4. CASE ~(u["y"] <= y /\ y < v["y"]) /\ ~(v["y"] <= y /\ y < u["y"])
  BY <1>1, <1>4 DEF Crossing, Upper
<1> QED
  BY <1>2, <1>3, <1>4

Meeting(y, s, u, v) ==
  s \in Seq(Meetings) /\ Len(s) = IF Upper(y, u) <=> Upper(y, v) THEN 0 ELSE 1

LEMMA CrossingMeets ==
  ASSUME NEW u, NEW v, NEW y \in Int, IntPair(u), IntPair(v)
  PROVE  Meeting(y, Crossing(y, u, v), u, v)
<1>1. <<>> \in Seq(Meetings) /\ Len(<<>>) = 0
  BY EmptySeq
<1>2. ASSUME NEW x \in Meetings PROVE <<x>> \in Seq(Meetings) /\ Len(<<x>>) = 1
  OBVIOUS
<1>3. CASE Upper(y, u) <=> Upper(y, v)
  BY <1>1, <1>3, CrossingIn DEF Meeting
<1>4. CASE ~(Upper(y, u) <=> Upper(y, v))
  <2>1. PICK x \in Meetings : Crossing(y, u, v) = <<x>>
    BY <1>4, CrossingIn
  <2> QED
    BY <1>2, <1>4, <2>1 DEF Meeting
<1> QED
  BY <1>3, <1>4

LEMMA ClosedIn ==
  ASSUME NEW y \in Int, NEW c, \A i \in 1 .. 4 : IntPair(c[i])
  PROVE  LET all == Closed(Crossing(y, c[1], c[2]) \o Crossing(y, c[2], c[3]) \o Crossing(y, c[3], c[4]),
                           Crossing(y, c[4], c[1]))
         IN all \in Seq(Meetings) /\ Len(all) \in {0, 2, 4}
<1> DEFINE p == Crossing(y, c[1], c[2])
           q == Crossing(y, c[2], c[3])
           r == Crossing(y, c[3], c[4])
           t == Crossing(y, c[4], c[1])
<1>1. /\ Meeting(y, p, c[1], c[2]) /\ Meeting(y, q, c[2], c[3])
      /\ Meeting(y, r, c[3], c[4]) /\ Meeting(y, t, c[4], c[1])
  BY CrossingMeets
<1> HIDE DEF p, q, r, t
<1>2. /\ p \in Seq(Meetings) /\ Len(p) = IF Upper(y, c[1]) <=> Upper(y, c[2]) THEN 0 ELSE 1
      /\ q \in Seq(Meetings) /\ Len(q) = IF Upper(y, c[2]) <=> Upper(y, c[3]) THEN 0 ELSE 1
      /\ r \in Seq(Meetings) /\ Len(r) = IF Upper(y, c[3]) <=> Upper(y, c[4]) THEN 0 ELSE 1
      /\ t \in Seq(Meetings) /\ Len(t) = IF Upper(y, c[4]) <=> Upper(y, c[1]) THEN 0 ELSE 1
  BY <1>1 DEF Meeting
<1>3. p \o q \in Seq(Meetings) /\ Len(p \o q) = Len(p) + Len(q)
  BY <1>2, ConcatProperties
<1> DEFINE two == p \o q
<1> HIDE DEF two
<1>4. two \o r \in Seq(Meetings) /\ Len(two \o r) = Len(p) + Len(q) + Len(r)
  <2>1. two \in Seq(Meetings) /\ Len(two) = Len(p) + Len(q)
    BY <1>3 DEF two
  <2> QED
    <3>1. two \o r \in Seq(Meetings) /\ Len(two \o r) = Len(two) + Len(r)
      BY <1>2, <2>1, ConcatProperties
    <3> QED
      BY <2>1, <3>1
<1> DEFINE three == two \o r
           last == IF Len(three) % 2 = 1 THEN t ELSE <<>>
<1>5. three \in Seq(Meetings) /\ Len(three) = Len(p) + Len(q) + Len(r)
  BY <1>4
<1> HIDE DEF three
<1>6. last \in Seq(Meetings) /\ Len(last) = IF Len(three) % 2 = 1 THEN Len(t) ELSE 0
  <2>1. <<>> \in Seq(Meetings) /\ Len(<<>>) = 0
    BY EmptySeq
  <2>2. CASE Len(three) % 2 = 1
    BY <1>2, <2>2
  <2>3. CASE Len(three) % 2 # 1
    BY <2>1, <2>3
  <2> QED
    BY <2>2, <2>3
<1> HIDE DEF last
<1>7. Closed(three, t) = three \o last
  BY DEF Closed, last
<1>8. three \o last \in Seq(Meetings) /\ Len(three \o last) = Len(three) + Len(last)
  BY <1>5, <1>6, ConcatProperties
<1>9. Len(three) + Len(last) \in {0, 2, 4}
  <2>1. /\ Len(p) \in {0, 1} /\ Len(q) \in {0, 1} /\ Len(r) \in {0, 1} /\ Len(t) \in {0, 1}
        /\ (Len(p) + Len(q) + Len(r)) % 2 = 1 <=> Len(t) = 1
    <3> DEFINE up(i) == Upper(y, c[i])
    <3> HIDE DEF up
    <3>1. /\ Len(p) = IF up(1) <=> up(2) THEN 0 ELSE 1
          /\ Len(q) = IF up(2) <=> up(3) THEN 0 ELSE 1
          /\ Len(r) = IF up(3) <=> up(4) THEN 0 ELSE 1
          /\ Len(t) = IF up(4) <=> up(1) THEN 0 ELSE 1
      BY <1>2 DEF up
    <3>2. CASE up(1) <=> up(2)
      BY <3>1, <3>2
    <3>3. CASE ~(up(1) <=> up(2))
      BY <3>1, <3>3
    <3> QED
      BY <3>2, <3>3
  <2>2. Len(three) = Len(p) + Len(q) + Len(r)
    BY <1>5
  <2>3. Len(last) = IF Len(three) % 2 = 1 THEN Len(t) ELSE 0
    BY <1>6
  <2>4. \A i, j, k, l \in {0, 1} :
          ((i + j + k) % 2 = 1 <=> l = 1)
            => (i + j + k) + (IF (i + j + k) % 2 = 1 THEN l ELSE 0) \in {0, 2, 4}
    OBVIOUS
  <2> HIDE DEF last
  <2> QED
    BY <2>1, <2>2, <2>3, <2>4
<1>10. Closed(three, t) \in Seq(Meetings) /\ Len(Closed(three, t)) \in {0, 2, 4}
  BY <1>7, <1>8, <1>9
<1> QED
  BY <1>10 DEF three, two, p, q, r, t
LEMMA CrossingsIn ==
  ASSUME NEW y \in Int, NEW c, \A i \in 1 .. 4 : IntPair(c[i])
  PROVE  Crossings(y, c) \in Seq(Meetings) /\ Len(Crossings(y, c)) \in {0, 2, 4}
<1> DEFINE all == Closed(Crossing(y, c[1], c[2]) \o Crossing(y, c[2], c[3]) \o Crossing(y, c[3], c[4]),
                         Crossing(y, c[4], c[1]))
<1>1. all \in Seq(Meetings) /\ Len(all) \in {0, 2, 4}
  BY ClosedIn
<1>2. Crossings(y, c) = Ordered(all)
  BY DEF Crossings
<1> HIDE DEF all
<1>3. CASE Len(all) >= 2 /\ all[1].x > all[2].x
  <2> DEFINE one == [all EXCEPT ![1] = all[2]]
  <2>1. 1 \in 1 .. Len(all) /\ 2 \in 1 .. Len(all)
    BY <1>1, <1>3
  <2>2. all[1] \in Meetings /\ all[2] \in Meetings
    BY <1>1, <2>1, ElementOfSeq
  <2>3. one \in Seq(Meetings) /\ Len(one) = Len(all)
    BY <1>1, <2>1, <2>2, ExceptSeq
  <2>4. [one EXCEPT ![2] = all[1]] \in Seq(Meetings) /\ Len([one EXCEPT ![2] = all[1]]) = Len(one)
    <3> HIDE DEF one
    <3> QED
      BY <2>1, <2>2, <2>3, ExceptSeq
  <2>5. Ordered(all) = [one EXCEPT ![2] = all[1]]
    BY <1>3 DEF Ordered
  <2> HIDE DEF one
  <2> QED
    BY <1>1, <1>2, <2>3, <2>4, <2>5
<1>4. CASE ~(Len(all) >= 2 /\ all[1].x > all[2].x)
  BY <1>1, <1>2, <1>4 DEF Ordered
<1> QED
  BY <1>3, <1>4

Seen(f) == {at \in Int \X Int : InWindow(f, at[1], at[2])}

LEMMA SpanIn ==
  ASSUME NEW f, f.clip["x"] \in Nat, NEW y \in 0 .. f.clip["y"], f.clip["y"] \in Nat,
         NEW left \in Meetings, NEW right \in Meetings
  PROVE  Span(f, y, left, right) \in Seq(Seen(f))
<1> DEFINE from == Greater(left.x, 0)
           n == Greater(Lesser(right.x, Limit(f, "x")) - from, 0)
           span == [k \in 1 .. n |-> <<from + k - 1, y>>]
<1>1. left.x \in Int /\ right.x \in Int
  BY DEF Meetings
<1>2. from \in Nat /\ n \in Nat /\ (n > 0 => from + n <= f.clip["x"] + 1)
  BY <1>1 DEF Greater, Lesser, Limit
<1> HIDE DEF from, n
<1>3. ASSUME NEW k \in 1 .. n PROVE <<from + k - 1, y>> \in Seen(f)
  <2>1. from + k - 1 \in 0 .. f.clip["x"]
    BY <1>2
  <2> QED
    BY <2>1 DEF Seen, InWindow
<1>4. span \in [1 .. n -> Seen(f)]
  BY <1>3
<1> HIDE DEF span
<1>5. span \in Seq(Seen(f))
  BY <1>2, <1>4, SeqDef
<1>6. <<>> \in Seq(Seen(f))
  BY EmptySeq
<1> QED
  BY <1>5, <1>6 DEF Span, span, n, from

LEMMA SpansIn ==
  ASSUME NEW f, f.clip["x"] \in Nat, f.clip["y"] \in Nat, NEW y \in 0 .. f.clip["y"],
         NEW all \in Seq(Meetings), Len(all) \in {0, 2, 4}
  PROVE  Spans(f, y, all) \in Seq(Seen(f))
<1>1. <<>> \in Seq(Seen(f))
  BY EmptySeq
<1>2. CASE Len(all) = 0
  <2>1. all = <<>>
    BY <1>2, EmptySeq
  <2> QED
    BY <1>1, <2>1 DEF Spans
<1>3. CASE Len(all) # 0
  <2> DEFINE below == IF Len(all) > 2 THEN Span(f, y, all[3], all[4]) ELSE <<>>
             above == Span(f, y, all[1], all[2])
  <2>1. \A i \in 1 .. Len(all) : all[i] \in Meetings
    BY ElementOfSeq
  <2>2. above \in Seq(Seen(f))
    BY <1>3, <2>1, SpanIn
  <2>3. below \in Seq(Seen(f))
    <3>1. CASE Len(all) > 2
      <4>1. all[3] \in Meetings /\ all[4] \in Meetings
        BY <2>1, <3>1
      <4> QED
        BY <3>1, <4>1, SpanIn
    <3>2. CASE ~(Len(all) > 2)
      BY <1>1, <3>2
    <3> QED
      BY <3>1, <3>2
  <2>4. Spans(f, y, all) = below \o above
    <3>1. all # <<>>
      BY <1>3, EmptySeq
    <3> QED
      BY <3>1 DEF Spans
  <2> HIDE DEF below, above
  <2> QED
    BY <2>2, <2>3, <2>4, ConcatProperties
<1> QED
  BY <1>2, <1>3

LEMMA LineOnly ==
  ASSUME NEW f, DOMAIN f = EngineFields, Paints(f), f.clip["x"] \in Nat, f.clip["y"] \in Nat,
         NEW p, Inked(p), NEW c, \A i \in 1 .. 4 : IntPair(c[i]), NEW y \in 0 .. f.clip["y"]
  PROVE  Only(f, Line(f, p, c, y), Marks)
<1> DEFINE places == Spans(f, y, Crossings(y, c))
<1>1. y \in Int
  OBVIOUS
<1>2. places \in Seq(Seen(f))
  BY <1>1, CrossingsIn, SpansIn
<1>3. Line(f, p, c, y) = Plotted(f, places, p, FALSE)
  BY DEF Line
<1> HIDE DEF places
<1>4. Len(places) \in Nat /\ \A k \in 1 .. Len(places) : places[k] \in Seen(f)
  BY <1>2, LenProperties, ElementOfSeq
<1>5. \A k \in 1 .. Len(places) : InWindow(f, places[k][1], places[k][2])
  BY <1>4 DEF Seen
<1> QED
  BY <1>3, <1>4, <1>5, PlottedOnly

LEMMA LeastOf ==
  ASSUME NEW i \in Int, NEW j \in Int, NEW k \in Int, NEW l \in Int
  PROVE  Min({i, j, k, l}) \in Int /\ Max({i, j, k, l}) \in Int
<1>1. \E x \in {i, j, k, l} : \A y \in {i, j, k, l} : x <= y
  OBVIOUS
<1>2. \E x \in {i, j, k, l} : \A y \in {i, j, k, l} : x >= y
  OBVIOUS
<1> QED
  BY <1>1, <1>2 DEF Min, Max

LEMMA LinesOnly ==
  ASSUME NEW f, DOMAIN f = EngineFields, Paints(f), f.clip["x"] \in Nat, f.clip["y"] \in Nat,
         NEW p, Inked(p), NEW c, \A i \in 1 .. 4 : IntPair(c[i])
  PROVE  Only(f, Lines(f, p, c), Marks)
<1> DEFINE top == Top(c)
           n == Greater(Bottom(f, c) - Top(c), 0)
           j == [does |-> "lines", p |-> p, c |-> c]
           P(g) == g = [k \in 0 .. n |-> IF k = 0 THEN f ELSE Line(g[k - 1], p, c, Top(c) + k - 1)]
           h == CHOOSE g : P(g)
           Wrong == {k \in Nat : k <= n /\ ~Only(f, h[k], Marks)}
<1>1. top \in Nat /\ n \in Nat /\ (n > 0 => top + n <= f.clip["y"] + 1)
  <2> DEFINE S == {c[i]["y"] : i \in 1 .. 4}
  <2>1. S = {c[1]["y"], c[2]["y"], c[3]["y"], c[4]["y"]}
    OBVIOUS
  <2>2. \A i \in 1 .. 4 : c[i]["y"] \in Int
    BY DEF IntPair, Axes
  <2>3. Min(S) \in Int /\ Max(S) \in Int
    <3>1. /\ c[1]["y"] \in Int /\ c[2]["y"] \in Int
          /\ c[3]["y"] \in Int /\ c[4]["y"] \in Int
      BY <2>2
    <3> DEFINE T == {c[1]["y"], c[2]["y"], c[3]["y"], c[4]["y"]}
    <3>2. Min(T) \in Int /\ Max(T) \in Int
      BY <3>1, LeastOf
    <3>3. S = T
      BY <2>1
    <3> HIDE DEF S, T
    <3> QED
      BY <3>2, <3>3
  <2> HIDE DEF S
  <2>4. Top(c) = Greater(Min(S), 0) /\ Bottom(f, c) = Lesser(Max(S), f.clip["y"] + 1)
    BY DEF Top, Bottom, Limit, S
  <2> QED
    BY <2>3, <2>4 DEF Greater, Lesser
<1>2. \A s, k : Turn(j, s, k) = Line(s, p, c, Top(c) + k - 1)
  BY DEF Turn
<1> HIDE DEF j, n
<1>3. P(h)
  <2>1. PICK g : Loop(g, j, f, n)
    BY <1>1, LoopExists
  <2>2. P(g)
    BY <1>2, <2>1 DEF Loop
  <2> QED
    BY <2>2
<1>4. Lines(f, p, c) = h[n]
  BY DEF Lines, n
<1> HIDE DEF h
<1>5. SUFFICES ASSUME Wrong # {} PROVE FALSE
  BY <1>1, <1>4
<1>6. PICK k \in Wrong : \A i \in Wrong : k <= i
  BY <1>5, Least
<1>7. k \in 0 .. n /\ h[k] = IF k = 0 THEN f ELSE Line(h[k - 1], p, c, top + k - 1)
  <2>1. k \in 0 .. n
    BY <1>1
  <2> QED
    BY <1>3, <2>1
<1>8. k # 0
  BY <1>6, <1>7, OnlySelf
<1>9. k - 1 \in Nat /\ k - 1 <= n /\ k - 1 \notin Wrong
  BY <1>1, <1>6, <1>8
<1>10. Only(f, h[k - 1], Marks)
  BY <1>9
<1> DEFINE g == h[k - 1]
<1>11. DOMAIN g = EngineFields /\ Paints(g) /\ g.clip = f.clip
  <2>1. Marks \in SUBSET Drawable
    BY DEF Drawable, Marks
  <2> QED
    BY <1>10, <2>1, OnlyKeeps DEF Only
<1>12. top + k - 1 \in 0 .. g.clip["y"]
  BY <1>1, <1>7, <1>8, <1>11
<1>13. h[k] = Line(g, p, c, top + k - 1)
  BY <1>7, <1>8
<1> HIDE DEF g, top
<1>14. Only(g, h[k], Marks)
  BY <1>11, <1>12, <1>13, LineOnly
<1>15. Only(f, h[k], Marks)
  <2>1. Marks \in SUBSET Drawable
    BY DEF Drawable, Marks
  <2> QED
    BY <1>10, <1>14, <2>1, OnlyThen DEF g
<1> QED
  BY <1>6, <1>15

LEMMA TornOnly ==
  ASSUME NEW f, DOMAIN f = EngineFields, NEW c, NEW round
  PROVE  Only(f, Torn(f, c, round), Marks)
<1> DEFINE h == [f EXCEPT !.torn = TRUE]
<1>1. DOMAIN h = EngineFields /\ (\A k \in EngineFields \ Marks : h[k] = f[k])
        /\ h.vram = f.vram /\ h.torn = TRUE
  BY DEF EngineFields, Marks
<1> HIDE DEF h
<1>2. Only(f, h, Marks)
  BY <1>1 DEF Only, Inside
<1> QED
  BY <1>2, OnlySelf DEF Torn, h

LEMMA ArbitraryTexelOnly ==
  ASSUME NEW f, DOMAIN f = EngineFields, Paints(f), f.clip["x"] \in Nat, f.clip["y"] \in Nat,
         NEW p, Inked(p), NEW c, \A i \in 1 .. 4 : IntPair(c[i]), NEW round
  PROVE  Only(f, ArbitraryTexel(f, p, c, round).e, Marks)
<1> DEFINE g == Torn(f, c, round)
<1>1. Only(f, f, Marks) /\ Only(f, g, Marks)
  BY OnlySelf, TornOnly
<1>2. Marks \in SUBSET Drawable
  BY DEF Drawable
<1> HIDE DEF g
<1>3. DOMAIN g = EngineFields /\ Paints(g) /\ g.clip = f.clip
  BY <1>1, <1>2, OnlyKeeps DEF Only
<1>4. Only(g, Lines(g, p, c), Marks)
  BY <1>3, LinesOnly
<1>5. Only(f, Lines(g, p, c), Marks)
  BY <1>1, <1>2, <1>4, OnlyThen
<1> DEFINE h == Lines(g, p, c)
<1>6. ArbitraryTexel(f, p, c, round) \in {Drawn(f, FALSE), Drawn(f, TRUE), Drawn(h, FALSE)}
  BY DEF ArbitraryTexel, g
<1> HIDE DEF h
<1>7. ArbitraryTexel(f, p, c, round).e \in {f, h}
  <2>1. Drawn(f, FALSE).e = f /\ Drawn(f, TRUE).e = f /\ Drawn(h, FALSE).e = h
    BY DrawnIs
  <2> QED
    BY <1>6, <2>1
<1> QED
  BY <1>1, <1>5, <1>7 DEF h
-----------------------------------------------------------------------------
(* Rows.  Rowed: a row under way has drawn on engine f only inside the     *)
(* window.                                                                 *)
InRange(v) == \A a \in Axes : v[a] \in Number

LEMMA RangePair == ASSUME NEW v, InRange(v) PROVE IntPair(v)
  BY ReachIs DEF InRange, IntPair

Ready(f) ==
  /\ DOMAIN f = EngineFields /\ Paints(f) /\ f.clip["x"] \in Nat /\ f.clip["y"] \in Nat
  /\ f.clip["x"] <= 1023 /\ f.clip["y"] <= 1023
  /\ IntPair(f.hd) /\ IntPair(f.vd) /\ IntPair(f.hdd)
  /\ InRange(f.hd) /\ InRange(f.vd) /\ InRange(f.hdd)

RowFields == {"e", "cur", "hd", "down", "stop"}
Rowed(f, r) ==
  DOMAIN r = RowFields /\ Only(f, r.e, Marks) /\ IntPair(r.cur) /\ IntPair(r.hd) /\ IntPair(r.down)

(* A scaled pixel grows the way its map says.                              *)
ScaleFits(f, m) ==
  \A a \in Axes : \/ m.inc[a] = 1 /\ f.hd[a] >= 0 /\ DrawHeight(f)[a] >= 0
                  \/ m.inc[a] = -1 /\ f.hd[a] <= 0 /\ DrawHeight(f)[a] <= 0

OpenFits(f, m) == m.kind = "arbitrary" \/ (m.kind = "scale" /\ ScaleFits(f, m))

LEMMA PairSums ==
  ASSUME NEW u, NEW v, IntPair(u), IntPair(v), NEW n \in Int
  PROVE  /\ IntPair(Plus(u, v)) /\ IntPair(Times(n, v)) /\ IntPair(Plus(u, Times(n, v)))
         /\ \A a \in Axes : Plus(u, Times(n, v))[a] = u[a] + n * v[a]
         /\ \A a \in Axes : Plus(u, v)[a] = u[a] + v[a]
<1>1. \A i, k \in Int : i * k \in Int /\ i + k \in Int
  OBVIOUS
<1>2. \A a \in Axes : u[a] \in Int /\ v[a] \in Int
  BY DEF IntPair
<1>3. \A a \in Axes : Times(n, v)[a] = n * v[a] /\ Plus(u, v)[a] = u[a] + v[a]
  BY DEF Times, Plus
<1>4. \A a \in Axes : Plus(u, Times(n, v))[a] = u[a] + n * v[a]
  BY <1>3 DEF Plus
<1> QED
  BY <1>1, <1>2, <1>3, <1>4 DEF IntPair

LEMMA CellsIn == ASSUME NEW v, IntPair(v) PROVE IntPair(Cells(v))
  BY Int16In DEF IntPair, Cells

LEMMA HeightIn ==
  ASSUME NEW f, Ready(f)
  PROVE  IntPair(DrawHeight(f))
<1>1. One \in Int
  BY OneAssumption
<1> QED
  BY <1>1 DEF Ready, IntPair, DrawHeight, Lesser, Axes

LEMMA VramOnly ==
  ASSUME NEW f, NEW g, Only(f, g, Marks), Ready(f)
  PROVE  Ready(g) /\ g.hd = f.hd /\ DrawHeight(g) = DrawHeight(f) /\ g.stuck = f.stuck
<1>1. Marks \in SUBSET Drawable /\ "hd" \notin Marks
  BY DEF Drawable, Marks
<1>2. g.clip = f.clip /\ g.vd = f.vd /\ g.hdd = f.hdd /\ g.flags = f.flags /\ g.hd = f.hd
      /\ g.stuck = f.stuck
  BY <1>1, OnlyKeeps
<1>3. Paints(g)
  BY <1>1, OnlyKeeps DEF Ready
<1> QED
  BY <1>2, <1>3 DEF Ready, Only, DrawHeight

LEMMA AdvanceRowed ==
  ASSUME NEW f, Ready(f), NEW r, Rowed(f, r), NEW n \in Int
  PROVE  /\ Rowed(f, Advance(r, n)) /\ Advance(r, n).hd = r.hd /\ Advance(r, n).stop = r.stop
         /\ \A a \in Axes : Advance(r, n).cur[a] = r.cur[a] + n * r.hd[a]
<1> DEFINE q == Advance(r, n)
           cur == Plus(r.cur, Times(n, r.hd))
           down == Plus(r.down, Times(n, r.e.hd))
<1>1. /\ DOMAIN q = RowFields /\ q.e = r.e /\ q.hd = r.hd /\ q.stop = r.stop
      /\ q.cur = cur /\ q.down = down
  BY DEF Advance, Rowed, RowFields
<1>2. IntPair(r.e.hd) /\ IntPair(r.cur) /\ IntPair(r.hd) /\ IntPair(r.down)
  BY VramOnly DEF Rowed, Ready
<1>3. IntPair(cur) /\ \A a \in Axes : cur[a] = r.cur[a] + n * r.hd[a]
  <2>1. IntPair(cur)
    BY <1>2, PairSums
  <2> QED
    BY <2>1 DEF Plus, Times
<1>4. IntPair(down)
  BY <1>2, PairSums
<1> HIDE DEF q, cur, down
<1> QED
  BY <1>1, <1>3, <1>4 DEF Rowed, q

(* A pixel's end lies where its map says, unless it came round on the way. *)
LEMMA ScaleSides ==
  ASSUME NEW f, Ready(f), NEW m, ScaleFits(f, m), NEW r, IntPair(r.cur), NEW n \in Nat
  PROVE  SidesFit(m.inc, Cells(r.cur), Cells(End(r, f, n)), {a \in Axes : Round(r.cur, End(r, f, n), a)})
<1> DEFINE cur == r.cur
           end == End(r, f, n)
           from == Cells(cur)
           to == Cells(end)
<1>1. IntPair(f.hd) /\ IntPair(DrawHeight(f))
  BY HeightIn DEF Ready
<1>2. /\ IntPair(Plus(cur, Times(n, f.hd)))
      /\ \A a \in Axes : Plus(cur, Times(n, f.hd))[a] = cur[a] + n * f.hd[a]
  <2>1. n \in Int
    OBVIOUS
  <2>2. IntPair(Plus(cur, Times(n, f.hd)))
    BY <1>1, <2>1, PairSums
  <2> QED
    BY <2>2 DEF Plus, Times
<1>3. IntPair(end) /\ \A a \in Axes : end[a] = cur[a] + n * f.hd[a] + DrawHeight(f)[a]
  BY <1>1, <1>2, PairSums DEF End
<1> HIDE DEF cur, end
<1>4. IntPair(from) /\ IntPair(to)
  BY <1>3, CellsIn DEF cur
<1>5. ASSUME NEW a \in Axes, ~Round(cur, end, a)
      PROVE  (to[a] - from[a]) * m.inc[a] >= 0
  <2> DEFINE u == Wrap(cur[a])
             v == Wrap(end[a])
  <2>1. cur[a] \in Int /\ f.hd[a] \in Int /\ DrawHeight(f)[a] \in Int /\ end[a] \in Int
    BY <1>1, <1>3 DEF IntPair, cur
  <2>2. from[a] = Cell(u) /\ to[a] = Cell(v) /\ from[a] \in Int /\ to[a] \in Int
    BY <1>4 DEF Cells, IntPair, Int16, Cell
  <2>3. u \in Int /\ v \in Int /\ v = u + n * f.hd[a] + DrawHeight(f)[a]
    <3> DEFINE along == n * f.hd[a]
    <3>1. \A i \in Int : n * i \in Int
      OBVIOUS
    <3>2. u \in Int /\ v \in Int /\ v - u = end[a] - cur[a] /\ along \in Int
      BY <1>5, <2>1, <3>1, WrapIs DEF Round
    <3>3. end[a] = cur[a] + along + DrawHeight(f)[a]
      BY <1>3
    <3> HIDE DEF u, v, along
    <3>4. v = u + along + DrawHeight(f)[a]
      BY <2>1, <3>2, <3>3
    <3> QED
      BY <3>2, <3>4 DEF along
  <2> HIDE DEF u, v
  <2>4. \A i \in Int : (i >= 0 => n * i >= 0) /\ (i <= 0 => n * i <= 0) /\ n * i \in Int
    OBVIOUS
  <2>5. CASE m.inc[a] = 1 /\ f.hd[a] >= 0 /\ DrawHeight(f)[a] >= 0
    <3>1. n * f.hd[a] \in Int /\ n * f.hd[a] >= 0
      BY <2>1, <2>4, <2>5
    <3>2. u <= v
      BY <2>1, <2>3, <2>5, <3>1
    <3>3. from[a] <= to[a]
      BY <2>2, <2>3, <3>2, WholeGrows
    <3> QED
      BY <2>2, <2>5, <3>3
  <2>6. CASE m.inc[a] = -1 /\ f.hd[a] <= 0 /\ DrawHeight(f)[a] <= 0
    <3>1. n * f.hd[a] \in Int /\ n * f.hd[a] <= 0
      BY <2>1, <2>4, <2>6
    <3>2. v <= u
      BY <2>1, <2>3, <2>6, <3>1
    <3>3. to[a] <= from[a]
      BY <2>2, <2>3, <3>2, WholeGrows
    <3> QED
      BY <2>2, <2>6, <3>3
  <2> QED
    BY <2>5, <2>6 DEF ScaleFits
<1>6. ASSUME NEW a \in Axes
      PROVE  m.inc[a] \in {-1, 1} /\ ((to[a] - from[a]) * m.inc[a] < 0 => Round(cur, end, a))
  <2>1. m.inc[a] \in {-1, 1}
    BY DEF ScaleFits
  <2>2. (to[a] - from[a]) * m.inc[a] \in Int
    BY <1>4, <2>1 DEF IntPair
  <2> QED
    BY <1>5, <2>1, <2>2
<1> QED
  BY <1>4, <1>6 DEF SidesFit, cur, end

LEMMA OpenTexelOnly ==
  ASSUME NEW f, Ready(f), NEW r, Rowed(f, r), NEW m, OpenFits(f, m), NEW p, Inked(p), NEW n \in Nat
  PROVE  Only(f, Texel(r, m, p, n, r.e, Cells(r.cur)).e, Marks)
<1> DEFINE g == r.e
           d == Texel(r, m, p, n, g, Cells(r.cur))
<1>1. Ready(g) /\ g.hd = f.hd /\ DrawHeight(g) = DrawHeight(f)
  BY VramOnly DEF Rowed
<1>2. Only(f, g, Marks) /\ IntPair(r.cur) /\ IntPair(r.hd) /\ IntPair(r.down)
  BY DEF Rowed
<1> HIDE DEF g
<1>3. ASSUME m.kind = "scale", ScaleFits(f, m) PROVE Only(g, d.e, Marks)
  <2> DEFINE from == Cells(r.cur)
             to == Cells(End(r, g, n))
             round == {a \in Axes : Round(r.cur, End(r, g, n), a)}
  <2>1. ScaleFits(g, m)
    BY <1>1, <1>3 DEF ScaleFits
  <2>2. SidesFit(m.inc, from, to, round)
    BY <1>1, <1>2, <2>1, ScaleSides
  <2>3. d = ScaleTexel(g, p, m.inc, from, to, round)
    BY <1>3 DEF Texel
  <2> HIDE DEF from, to, round, d
  <2> QED
    BY <1>1, <2>2, <2>3, ScaleTexelOnly DEF Ready
<1>4. ASSUME m.kind = "arbitrary" PROVE Only(g, d.e, Marks)
  <2> DEFINE c == [i \in 1 .. 4 |-> Cells(Corner(r, g)[i])]
  <2>1. IntPair(g.hd)
    BY <1>1 DEF Ready
  <2>2. IntPair(Plus(r.cur, r.hd)) /\ IntPair(Plus(r.down, g.hd))
    BY <1>2, <2>1, PairSums
  <2>3. ASSUME NEW i \in 1 .. 4 PROVE IntPair(c[i])
    <3>1. IntPair(Corner(r, g)[i])
      BY <1>2, <2>2 DEF Corner
    <3> QED
      BY <3>1, CellsIn
  <2>4. d = ArbitraryTexel(g, p, c, Bent(r, g))
    BY <1>4 DEF Texel
  <2> HIDE DEF c, d
  <2> QED
    BY <1>1, <2>3, <2>4, ArbitraryTexelOnly DEF Ready
<1>5. Only(g, d.e, Marks)
  BY <1>3, <1>4 DEF OpenFits
<1> HIDE DEF d
<1>6. Only(f, d.e, Marks)
  <2>1. Marks \in SUBSET Drawable
    BY DEF Drawable, Marks
  <2> QED
    BY <1>2, <1>5, <2>1, OnlyThen
<1> QED
  BY <1>6 DEF d, g

LEMMA PutOpen ==
  ASSUME NEW f, Ready(f), NEW r, Rowed(f, r), NEW m, OpenFits(f, m), NEW p, Inked(p), NEW n \in Nat
  PROVE  Rowed(f, PutPixel(r, m, p, n))
<1> DEFINE d == Texel(r, m, p, n, r.e, Cells(r.cur))
           q == [r EXCEPT !.e = d.e]
<1>1. n \in Int
  OBVIOUS
<1>2. Only(f, d.e, Marks)
  BY OpenTexelOnly
<1> HIDE DEF d
<1>3. Rowed(f, q) /\ Rowed(f, [r EXCEPT !.stop = TRUE])
  BY <1>2 DEF Rowed, RowFields
<1> HIDE DEF q
<1>4. Rowed(f, Advance(q, n)) /\ Rowed(f, Advance(r, n))
  BY <1>1, <1>3, AdvanceRowed
<1> QED
  BY <1>3, <1>4 DEF PutPixel, Passed, d, q

LEMMA RowedDecodes ==
  ASSUME NEW f, Ready(f), NEW r, Rowed(f, r), NEW code \in Pixels
  PROVE  Inked(Decoded(r.e, code))
<1>1. Paints(r.e)
  BY VramOnly DEF Rowed, Ready
<1> QED
  BY <1>1, DecodedIn DEF Paints

LEMMA PutAllOpen ==
  ASSUME NEW f, Ready(f), NEW r, Rowed(f, r), NEW m, OpenFits(f, m), NEW codes, Len(codes) \in Nat,
         \A k \in 1 .. Len(codes) : codes[k] \in Pixels
  PROVE  Rowed(f, PutAll(r, m, codes))
<1> DEFINE n == Len(codes)
           j == [does |-> "put", m |-> m, codes |-> codes]
           P(g) == g = [k \in 0 .. n |-> IF k = 0 THEN r ELSE PutNext(g[k - 1], m, codes[k])]
           h == CHOOSE g : P(g)
           S == {k \in 0 .. n : Rowed(f, h[k])}
<1>1. \A s, k : Turn(j, s, k) = PutNext(s, m, codes[k])
  BY DEF Turn
<1> HIDE DEF j
<1>2. P(h)
  <2>1. PICK g : Loop(g, j, r, n)
    BY LoopExists
  <2>2. P(g)
    BY <1>1, <2>1 DEF Loop
  <2> QED
    BY <2>2
<1>3. PutAll(r, m, codes) = h[n]
  BY DEF PutAll
<1> HIDE DEF h
<1>4. 0 \in S
  BY <1>2
<1>5. ASSUME NEW k \in 1 .. n, k - 1 \in S PROVE k \in S
  <2>1. h[k] = PutNext(h[k - 1], m, codes[k])
    BY <1>2
  <2>2. Rowed(f, h[k - 1])
    BY <1>5
  <2>3. Inked(Decoded(h[k - 1].e, codes[k]))
    BY <2>2, RowedDecodes
  <2>4. Rowed(f, Put(h[k - 1], m, codes[k], 1))
    BY <2>2, <2>3, PutOpen DEF Put
  <2> QED
    BY <2>1, <2>2, <2>4 DEF PutNext
<1>6. n \in S
  BY <1>4, <1>5, UpTo
<1> QED
  BY <1>3, <1>6
-----------------------------------------------------------------------------
(* Packets.                                                                *)
LEMMA PacketIs ==
  ASSUME NEW p \in PacketWords
  PROVE  /\ p.type \in {"literal", "transparent", "repeat"} /\ Length(p) \in Nat
         /\ p.type = "literal" => p.codes \in Seq(Pixels) /\ Length(p) = Len(p.codes)
         /\ p.type # "literal" => Length(p) = p.n
<1>1. CASE p \in [type : {"literal"}, codes : Seq(Pixels)]
  <2>1. p.type = "literal" /\ p.codes \in Seq(Pixels)
    BY <1>1
  <2>2. Len(p.codes) \in Nat
    BY <2>1, LenProperties
  <2> QED
    BY <2>1, <2>2 DEF Length
<1>2. CASE p \in [type : {"transparent"}, n : Nat] \union [type : {"repeat"}, n : Nat, code : Pixels]
  <2>1. p.type \in {"transparent", "repeat"} /\ p.n \in Nat
    BY <1>2
  <2> QED
    BY <2>1 DEF Length
<1> QED
  BY <1>1, <1>2 DEF PacketWords

LEMMA FirstCodesLen ==
  ASSUME NEW p, NEW n \in Int
  PROVE  Len(FirstCodes(p, n)) = Greater(n, 0) /\ Greater(n, 0) \in Nat
<1>1. Greater(n, 0) \in Nat
  BY DEF Greater
<1>2. FirstCodes(p, n) = [k \in 1 .. Greater(n, 0) |-> FirstCodes(p, n)[k]]
  BY DEF FirstCodes
<1> QED
  BY <1>1, <1>2, Listed

(* The codes of n pixels of a packet.                                      *)
Coded(p, n) ==
  /\ p.type \in {"literal", "transparent", "repeat"} /\ n \in Nat
  /\ p.type = "repeat" => p.code \in Pixels
  /\ p.type = "literal" => \A k \in 1 .. n : p.codes[k] \in Pixels

LEMMA PacketCoded ==
  ASSUME NEW p \in PacketWords
  PROVE  Coded(p, Length(p))
<1>1. p.type \in {"literal", "transparent", "repeat"} /\ Length(p) \in Nat
  BY PacketIs
<1>2. ASSUME p.type = "repeat" PROVE p.code \in Pixels
  BY <1>2 DEF PacketWords
<1>3. ASSUME p.type = "literal", NEW k \in 1 .. Length(p) PROVE p.codes[k] \in Pixels
  <2>1. p.codes \in Seq(Pixels) /\ k \in 1 .. Len(p.codes)
    BY <1>3, PacketIs
  <2> QED
    BY <2>1, ElementOfSeq
<1> QED
  BY <1>1, <1>2, <1>3 DEF Coded

LEMMA UnskippedCoded ==
  ASSUME NEW p \in PacketWords, NEW k \in Nat, k < Length(p), NEW n \in Nat, k + n <= Length(p)
  PROVE  Coded(Unskipped(p, k), n)
<1> DEFINE u == Unskipped(p, k)
           codes == [j \in 1 .. Len(p.codes) - k |-> p.codes[k + j]]
<1>1. Coded(p, Length(p))
  BY PacketCoded
<1>2. CASE p.type = "literal"
  <2>1. p \in [type : {"literal"}, codes : Seq(Pixels)] /\ Length(p) = Len(p.codes)
    BY <1>2, PacketIs DEF PacketWords
  <2>2. u = [p EXCEPT !.codes = codes]
    BY <1>2 DEF Unskipped
  <2>3. \A j \in 1 .. n : codes[j] = p.codes[k + j] /\ k + j \in 1 .. Length(p)
    BY <2>1, PacketIs
  <2> HIDE DEF u, codes
  <2>4. u.type = "literal" /\ u.codes = codes
    BY <2>1, <2>2
  <2>5. \A j \in 1 .. n : u.codes[j] \in Pixels
    BY <1>1, <1>2, <2>3, <2>4 DEF Coded
  <2> QED
    BY <2>4, <2>5 DEF Coded, u
<1>3. CASE p.type # "literal"
  <2>1. u = p
    BY <1>3 DEF Unskipped
  <2> QED
    BY <1>1, <1>3, <2>1 DEF Coded
<1> QED
  BY <1>2, <1>3

LEMMA FirstCodesIn ==
  ASSUME NEW p, NEW n, Coded(p, n), p.type # "transparent"
  PROVE  /\ Len(FirstCodes(p, n)) = n
         /\ \A k \in 1 .. Len(FirstCodes(p, n)) : FirstCodes(p, n)[k] \in Pixels
<1>1. n \in Nat /\ n \in Int /\ Greater(n, 0) = n
  BY DEF Coded, Greater
<1>2. Len(FirstCodes(p, n)) = n
  BY <1>1, FirstCodesLen
<1>3. ASSUME NEW k \in 1 .. n PROVE FirstCodes(p, n)[k] \in Pixels
  <2>1. FirstCodes(p, n)[k] = IF p.type = "literal" THEN p.codes[k] ELSE p.code
    BY <1>1 DEF FirstCodes
  <2> QED
    BY <2>1 DEF Coded
<1> QED
  BY <1>2, <1>3

LEMMA PerformOpen ==
  ASSUME NEW f, Ready(f), NEW r, Rowed(f, r), NEW m, OpenFits(f, m), NEW p, NEW n, Coded(p, n)
  PROVE  Rowed(f, Perform(r, m, p, n))
<1> DEFINE advanced == Advance(r, n)
           put == Put(r, m, p.code, n)
           all == PutAll(r, m, FirstCodes(p, n))
<1>1. n \in Nat /\ n \in Int
  BY DEF Coded
<1>2. Rowed(f, advanced)
  BY <1>1, AdvanceRowed
<1>3. ASSUME p.type = "repeat" PROVE Rowed(f, put)
  <2>1. Inked(Decoded(r.e, p.code))
    BY <1>3, RowedDecodes DEF Coded
  <2> QED
    BY <1>1, <2>1, PutOpen DEF Put
<1>4. ASSUME p.type # "transparent" PROVE Rowed(f, all)
  <2> DEFINE codes == FirstCodes(p, n)
  <2>1. Len(codes) \in Nat /\ \A k \in 1 .. Len(codes) : codes[k] \in Pixels
    BY <1>1, <1>4, FirstCodesIn
  <2> HIDE DEF codes
  <2>2. Rowed(f, PutAll(r, m, codes))
    BY <2>1, PutAllOpen
  <2> QED
    BY <2>2 DEF codes
<1>5. p.type \in {"literal", "transparent", "repeat"}
  BY DEF Coded
<1>6. Perform(r, m, p, n) =
        CASE p.type = "transparent" -> advanced
          [] p.type = "repeat" /\ m.kind # "arbitrary" -> put
          [] p.type = "literal" \/ (p.type = "repeat" /\ m.kind = "arbitrary") -> all
  BY DEF Perform
<1> HIDE DEF advanced, put, all
<1>7. \/ Perform(r, m, p, n) = advanced
      \/ p.type = "repeat" /\ Perform(r, m, p, n) = put
      \/ p.type # "transparent" /\ Perform(r, m, p, n) = all
  BY <1>5, <1>6
<1> QED
  BY <1>2, <1>3, <1>4, <1>7 DEF advanced, put, all

TakeFields == {"r", "left", "wcnt", "done"}

LEMMA OpenPacketRowed ==
  ASSUME NEW f, Ready(f), NEW t, DOMAIN t = TakeFields, Rowed(f, t.r), NEW m, OpenFits(f, m),
         NEW p \in PacketWords
  PROVE  DOMAIN OpenPacket(t, m, p) = TakeFields /\ Rowed(f, OpenPacket(t, m, p).r)
<1>1. CASE t.r.stop
  BY <1>1 DEF OpenPacket
<1>2. CASE ~t.r.stop
  <2> DEFINE q == Perform(t.r, m, p, Length(p))
             qq == StopIf(q, EndsEarly(t.r, m, p))
  <2>1. Rowed(f, q)
    BY PacketCoded, PerformOpen
  <2>2. OpenPacket(t, m, p) = [t EXCEPT !.r = qq]
    BY <1>2 DEF OpenPacket
  <2> HIDE DEF q
  <2>3. Rowed(f, qq)
    BY <2>1 DEF Rowed, RowFields, StopIf
  <2> HIDE DEF qq
  <2> QED
    BY <2>2, <2>3 DEF TakeFields
<1> QED
  BY <1>1, <1>2

LEMMA PacketsOpen ==
  ASSUME NEW f, Ready(f), NEW r, Rowed(f, r), NEW m, OpenFits(f, m), NEW packets \in Seq(PacketWords)
  PROVE  Rowed(f, Packets(r, m, packets))
<1> DEFINE n == Len(packets)
           x == [r |-> r, left |-> FirstColumn(m), wcnt |-> FirstColumn(m), done |-> FALSE]
           j == [does |-> "take", m |-> m, packets |-> packets]
           P(g) == g = [k \in 0 .. n |-> IF k = 0 THEN x ELSE Packet(g[k - 1], m, packets[k])]
           h == CHOOSE g : P(g)
           S == {k \in 0 .. n : DOMAIN h[k] = TakeFields /\ Rowed(f, h[k].r)}
<1>1. n \in Nat /\ \A k \in 1 .. n : packets[k] \in PacketWords
  BY LenProperties, ElementOfSeq
<1>2. \A s, k : Turn(j, s, k) = Packet(s, m, packets[k])
  BY DEF Turn
<1>3. DOMAIN x = TakeFields /\ Rowed(f, x.r)
  BY DEF TakeFields
<1>4. Packets(r, m, packets) = (CHOOSE g : P(g))[n].r
  BY DEF Packets
<1> HIDE DEF j, n, x
<1>5. P(h)
  <2>1. PICK g : Loop(g, j, x, n)
    BY <1>1, LoopExists
  <2>2. P(g)
    BY <1>2, <2>1 DEF Loop
  <2> QED
    BY <2>2
<1> HIDE DEF h
<1>6. 0 \in S
  BY <1>1, <1>3, <1>5
<1>7. ASSUME NEW k \in 1 .. n, k - 1 \in S PROVE k \in S
  <2>1. h[k] = Packet(h[k - 1], m, packets[k])
    BY <1>1, <1>5
  <2>2. Packet(h[k - 1], m, packets[k]) = OpenPacket(h[k - 1], m, packets[k])
    BY DEF Packet, OpenFits
  <2>3. DOMAIN h[k] = TakeFields /\ Rowed(f, h[k].r)
    BY <1>1, <1>7, <2>1, <2>2, OpenPacketRowed
  <2> QED
    BY <2>3
<1>8. n \in S
  BY <1>1, <1>6, <1>7, UpTo
<1> QED
  BY <1>4, <1>8 DEF h
-----------------------------------------------------------------------------
(* Lines of single pixels: column k of a row starts k steps from the row's *)
(* place, and no column of the map lies beyond the window.                 *)
UnitSteps(v) == \A a \in Axes : v[a] \in {0, One, -One}

RowFits(f, m, at) ==
  /\ m.kind = "line" /\ UnitSteps(f.hd) /\ IntPair(at)
  /\ m.wstart \in Nat /\ m.wlim \in Nat /\ m.wstart < m.wlim
  /\ \A k \in Nat : m.wstart <= k /\ k < m.wlim =>
       InWindow(f, Cell(at["x"] + k * f.hd["x"]), Cell(at["y"] + k * f.hd["y"]))

RowedLine(f, at, r, k) ==
  Rowed(f, r) /\ r.stop = FALSE /\ r.hd = f.hd /\ \A a \in Axes : r.cur[a] = at[a] + k * f.hd[a]

LEMMA UnitCells ==
  ASSUME NEW x \in Int, NEW h \in {0, One, -One}, NEW k \in Int
  PROVE  Cell(x + k * h) = Cell(x) + k * Cell(h)
<1>1. One \in Nat /\ Cell(x) \in Int
  BY OneAssumption, WholePart
<1>2. Cell(0) = 0
  BY OneAssumption, QuotientIs DEF Cell
<1>3. \A i \in Int : Cell(0 + i * One) = Cell(0) + i
  BY WholeSteps
<1>4. CASE h = 0
  BY <1>1, <1>2, <1>4
<1>5. CASE h = One
  <2>1. Cell(One) = 1
    <3>1. 0 + 1 * One = One
      BY <1>1
    <3> QED
      BY <1>2, <1>3, <3>1
  <2> QED
    BY <1>1, <1>5, <2>1, WholeSteps
<1>6. CASE h = -One
  <2>1. Cell(-One) = -1
    <3>1. 0 + (-1) * One = -One
      BY <1>1
    <3>2. Cell(0 + (-1) * One) = Cell(0) + (-1)
      BY <1>3
    <3> QED
      BY <1>2, <3>1, <3>2
  <2>2. k * (-One) = (-k) * One /\ -k \in Int
    BY <1>1
  <2>3. Cell(x + (-k) * One) = Cell(x) + (-k)
    BY <2>2, WholeSteps
  <2> QED
    BY <1>1, <1>6, <2>1, <2>2, <2>3
<1> QED
  BY <1>4, <1>5, <1>6

LEMMA ColumnsAdd ==
  ASSUME NEW i \in Int, NEW k \in Int, NEW h \in Int, NEW x \in Int
  PROVE  x + i * h + k * h = x + (i + k) * h
  OBVIOUS

LEMMA AdvanceLine ==
  ASSUME NEW f, Ready(f), NEW at, IntPair(at), NEW r, NEW k \in Int, RowedLine(f, at, r, k), NEW n \in Int
  PROVE  RowedLine(f, at, Advance(r, n), k + n)
<1>1. Rowed(f, r) /\ r.stop = FALSE /\ r.hd = f.hd /\ \A a \in Axes : r.cur[a] = at[a] + k * f.hd[a]
  BY DEF RowedLine
<1> DEFINE q == Advance(r, n)
<1>2. Rowed(f, q) /\ q.hd = r.hd /\ q.stop = r.stop /\ \A a \in Axes : q.cur[a] = r.cur[a] + n * r.hd[a]
  BY <1>1, AdvanceRowed
<1> HIDE DEF q
<1>3. ASSUME NEW a \in Axes PROVE q.cur[a] = at[a] + (k + n) * f.hd[a]
  <2>1. at[a] \in Int /\ f.hd[a] \in Int
    BY DEF Ready, IntPair
  <2>2. q.cur[a] = at[a] + k * f.hd[a] + n * f.hd[a]
    BY <1>1, <1>2
  <2> QED
    BY <2>1, <2>2, ColumnsAdd
<1> QED
  BY <1>1, <1>2, <1>3 DEF RowedLine, q

LEMMA PutLine ==
  ASSUME NEW f, Ready(f), NEW m, NEW at, RowFits(f, m, at), NEW r, NEW k \in Nat, RowedLine(f, at, r, k),
         m.wstart <= k, NEW p, Inked(p), NEW n \in Nat, k + n <= m.wlim
  PROVE  RowedLine(f, at, PutPixel(r, m, p, n), k + n)
<1> DEFINE g == r.e
           cur == Cells(r.cur)
           d == Texel(r, m, p, n, g, cur)
           q == [r EXCEPT !.e = d.e]
<1>1. Rowed(f, r) /\ r.stop = FALSE /\ r.hd = f.hd /\ \A a \in Axes : r.cur[a] = at[a] + k * f.hd[a]
  BY DEF RowedLine
<1>2. Ready(g) /\ g.hd = f.hd /\ Only(f, g, Marks)
  BY <1>1, VramOnly DEF Rowed
<1>3. g.clip = f.clip
  BY <1>2, OnlyKeeps DEF Drawable, Marks
<1>4. ASSUME NEW j \in 1 .. n
      PROVE  InWindow(g, cur["x"] + (j - 1) * Int16(g.hd["x"]), cur["y"] + (j - 1) * Int16(g.hd["y"]))
  <2> DEFINE c == k + (j - 1)
  <2>1. c \in Nat /\ m.wstart <= c /\ c < m.wlim
    BY DEF RowFits
  <2>2. /\ InWindow(f, Cell(at["x"] + c * f.hd["x"]), Cell(at["y"] + c * f.hd["y"]))
        /\ InWindow(f, Cell(at["x"] + k * f.hd["x"]), Cell(at["y"] + k * f.hd["y"]))
    <3>1. m.wstart <= k /\ k < m.wlim
      BY DEF RowFits
    <3> QED
      BY <2>1, <3>1 DEF RowFits
  <2>3. ASSUME NEW a \in Axes PROVE Cell(at[a] + c * f.hd[a]) = cur[a] + (j - 1) * Int16(g.hd[a])
    <3>1. at[a] \in Int /\ f.hd[a] \in Int /\ f.hd[a] \in {0, One, -One} /\ j - 1 \in Int
      BY DEF Ready, IntPair, RowFits, UnitSteps
    <3>2. at[a] + c * f.hd[a] = r.cur[a] + (j - 1) * f.hd[a] /\ r.cur[a] \in Int
      <4>1. r.cur[a] = at[a] + k * f.hd[a] /\ r.cur[a] \in Int
        BY <1>1 DEF Rowed, IntPair
      <4> QED
        BY <3>1, <4>1, ColumnsAdd
    <3>3. Cell(r.cur[a] + (j - 1) * f.hd[a]) = Cell(r.cur[a]) + (j - 1) * Cell(f.hd[a])
      BY <3>1, <3>2, UnitCells
    <3>4. Cell(r.cur[a]) \in Coordinates
      <4>1. r.cur[a] = at[a] + k * f.hd[a]
        BY <1>1
      <4>2. Cell(r.cur[a]) \in 0 .. f.clip[a]
        BY <2>2, <4>1 DEF InWindow, Axes
      <4>3. f.clip[a] \in Nat /\ f.clip[a] <= 1023
        BY DEF Ready, Axes
      <4> QED
        BY <4>2, <4>3 DEF Coordinates
    <3>5. cur[a] = Cell(r.cur[a])
      BY <3>2, <3>4, CellWithin DEF Cells
    <3>6. Int16(g.hd[a]) = Cell(f.hd[a])
      BY <1>2, <3>1, UnitsIn, Int16Is
    <3> HIDE DEF c, cur
    <3> QED
      BY <3>2, <3>3, <3>5, <3>6
  <2> HIDE DEF c, cur, g
  <2> QED
    BY <1>3, <2>2, <2>3 DEF InWindow, Axes
<1>5. Only(g, d.e, Marks) /\ d.stop = FALSE
  <2>1. DOMAIN g = EngineFields /\ Paints(g) /\ m.kind = "line"
    BY <1>2 DEF Ready, RowFits
  <2> HIDE DEF g, cur
  <2> QED
    BY <1>4, <2>1, LineTexelOnly
<1> HIDE DEF d
<1>6. Only(f, d.e, Marks)
  BY <1>2, <1>5, OnlyThen DEF Drawable, Marks
<1>7. RowedLine(f, at, q, k)
  BY <1>1, <1>6 DEF RowedLine, Rowed, RowFields
<1>8. k \in Int /\ n \in Int /\ IntPair(at)
  BY DEF RowFits
<1> HIDE DEF q
<1>9. RowedLine(f, at, Advance(q, n), k + n) /\ RowedLine(f, at, Advance(r, n), k + n)
  BY <1>7, <1>8, AdvanceLine
<1>10. PutPixel(r, m, p, n) \in {Advance(q, n), Advance(r, n)}
  BY <1>5 DEF PutPixel, Passed, d, q, g, cur
<1> QED
  BY <1>9, <1>10

LEMMA PutAllLine ==
  ASSUME NEW f, Ready(f), NEW m, NEW at, RowFits(f, m, at), NEW r, NEW k \in Nat, RowedLine(f, at, r, k),
         m.wstart <= k, NEW codes, Len(codes) \in Nat, k + Len(codes) <= m.wlim,
         \A i \in 1 .. Len(codes) : codes[i] \in Pixels
  PROVE  RowedLine(f, at, PutAll(r, m, codes), k + Len(codes))
<1> DEFINE n == Len(codes)
           j == [does |-> "put", m |-> m, codes |-> codes]
           P(g) == g = [i \in 0 .. n |-> IF i = 0 THEN r ELSE PutNext(g[i - 1], m, codes[i])]
           h == CHOOSE g : P(g)
           S == {i \in 0 .. n : RowedLine(f, at, h[i], k + i)}
<1>1. \A s, i : Turn(j, s, i) = PutNext(s, m, codes[i])
  BY DEF Turn
<1> HIDE DEF j
<1>2. P(h)
  <2>1. PICK g : Loop(g, j, r, n)
    BY LoopExists
  <2>2. P(g)
    BY <1>1, <2>1 DEF Loop
  <2> QED
    BY <2>2
<1>3. PutAll(r, m, codes) = h[n]
  BY DEF PutAll
<1> HIDE DEF h
<1>4. 0 \in S
  BY <1>2
<1>5. ASSUME NEW i \in 1 .. n, i - 1 \in S PROVE i \in S
  <2>1. h[i] = PutNext(h[i - 1], m, codes[i])
    BY <1>2
  <2>2. RowedLine(f, at, h[i - 1], k + (i - 1))
    BY <1>5
  <2>3. h[i] = Put(h[i - 1], m, codes[i], 1)
    BY <2>1, <2>2 DEF PutNext, RowedLine
  <2>4. k + (i - 1) \in Nat /\ m.wstart <= k + (i - 1) /\ k + (i - 1) + 1 <= m.wlim
    BY DEF RowFits
  <2>5. Inked(Decoded(h[i - 1].e, codes[i]))
    BY <2>2, RowedDecodes DEF RowedLine
  <2>6. RowedLine(f, at, h[i], k + (i - 1) + 1)
    BY <2>2, <2>3, <2>4, <2>5, PutLine DEF Put
  <2>7. k + (i - 1) + 1 = k + i
    OBVIOUS
  <2> QED
    BY <2>6, <2>7
<1>6. n \in S
  BY <1>4, <1>5, UpTo
<1> QED
  BY <1>3, <1>6

LEMMA PerformLine ==
  ASSUME NEW f, Ready(f), NEW m, NEW at, RowFits(f, m, at), NEW r, NEW k \in Nat, RowedLine(f, at, r, k),
         m.wstart <= k, NEW p, NEW n, Coded(p, n), k + n <= m.wlim
  PROVE  RowedLine(f, at, Perform(r, m, p, n), k + n)
<1>1. k \in Int /\ n \in Nat /\ n \in Int /\ IntPair(at) /\ m.kind = "line"
  BY DEF RowFits, Coded
<1> DEFINE advanced == Advance(r, n)
           put == Put(r, m, p.code, n)
           codes == FirstCodes(p, n)
           all == PutAll(r, m, codes)
<1>2. RowedLine(f, at, advanced, k + n)
  BY <1>1, AdvanceLine
<1>3. ASSUME p.type = "repeat" PROVE RowedLine(f, at, put, k + n)
  <2>1. Inked(Decoded(r.e, p.code))
    BY <1>3, RowedDecodes DEF Coded, RowedLine
  <2> QED
    BY <1>1, <2>1, PutLine DEF Put
<1>4. ASSUME p.type # "transparent" PROVE RowedLine(f, at, all, k + n)
  <2>1. Len(codes) = n /\ \A i \in 1 .. Len(codes) : codes[i] \in Pixels
    BY <1>4, FirstCodesIn
  <2> HIDE DEF codes
  <2>2. RowedLine(f, at, all, k + Len(codes))
    BY <1>1, <2>1, PutAllLine
  <2> QED
    BY <2>1, <2>2 DEF codes
<1>5. p.type \in {"literal", "transparent", "repeat"}
  BY DEF Coded
<1>6. Perform(r, m, p, n) =
        CASE p.type = "transparent" -> advanced
          [] p.type = "repeat" /\ m.kind # "arbitrary" -> put
          [] p.type = "literal" \/ (p.type = "repeat" /\ m.kind = "arbitrary") -> all
  BY DEF Perform
<1> HIDE DEF advanced, put, all
<1>7. \/ Perform(r, m, p, n) = advanced
      \/ p.type = "repeat" /\ Perform(r, m, p, n) = put
      \/ p.type # "transparent" /\ Perform(r, m, p, n) = all
  BY <1>5, <1>6
<1> QED
  BY <1>2, <1>3, <1>4, <1>7

(* What packets have left of a row: s.left of its columns are still to be  *)
(* skipped, and column s.wcnt comes next.                                  *)
Taken(f, m, at, t) ==
  /\ DOMAIN t = TakeFields /\ Rowed(f, t.r)
  /\ t.done \/ /\ t.left \in Nat /\ t.wcnt \in Nat /\ t.left <= t.wcnt
               /\ m.wstart <= t.wcnt /\ t.wcnt < m.wlim
               /\ RowedLine(f, at, t.r, t.wcnt - t.left)

LEMMA ClippedPacketTaken ==
  ASSUME NEW f, Ready(f), NEW m, NEW at, RowFits(f, m, at), NEW t, Taken(f, m, at, t),
         NEW p \in PacketWords
  PROVE  Taken(f, m, at, ClippedPacket(t, m, p))
<1> DEFINE n == Length(p)
           q == ClippedPacket(t, m, p)
<1>1. n \in Nat /\ p.type \in {"literal", "transparent", "repeat"}
  BY PacketIs
<1> HIDE DEF n
<1>2. CASE t.done
  BY <1>2 DEF ClippedPacket
<1>3. CASE ~t.done /\ t.left >= n
  <2>1. /\ t.left \in Nat /\ t.wcnt \in Nat /\ t.left <= t.wcnt /\ m.wstart <= t.wcnt
        /\ t.wcnt < m.wlim /\ RowedLine(f, at, t.r, t.wcnt - t.left)
    BY <1>3 DEF Taken
  <2>2. RowedLine(f, at, Advance(t.r, n), t.wcnt - t.left + n)
    BY <1>1, <2>1, AdvanceLine DEF RowFits
  <2>3. t.wcnt - t.left + n = t.wcnt - (t.left - n) /\ t.left - n \in Nat /\ t.left - n <= t.wcnt
    BY <1>1, <1>3, <2>1
  <2> DEFINE a == Advance(t.r, n)
             left == t.left - n
  <2>4. q = [t EXCEPT !.left = left, !.r = a]
    BY <1>3 DEF ClippedPacket, n
  <2>5. RowedLine(f, at, a, t.wcnt - left)
    BY <2>2, <2>3
  <2>6. left \in Nat /\ left <= t.wcnt
    BY <2>3
  <2> HIDE DEF q, a, left
  <2>7. DOMAIN q = TakeFields /\ q.left = left /\ q.r = a /\ q.wcnt = t.wcnt
    BY <2>4 DEF Taken, TakeFields
  <2>8. Rowed(f, a)
    BY <2>5 DEF RowedLine
  <2>9. Taken(f, m, at, q)
    BY <2>1, <2>5, <2>6, <2>7, <2>8 DEF Taken
  <2> QED
    BY <2>9 DEF q
<1>4. CASE ~t.done /\ ~(t.left >= n)
  <2>1. /\ t.left \in Nat /\ t.wcnt \in Nat /\ t.left <= t.wcnt /\ m.wstart <= t.wcnt
        /\ t.wcnt < m.wlim /\ RowedLine(f, at, t.r, t.wcnt - t.left)
    BY <1>4 DEF Taken
  <2> DEFINE wcnt == t.wcnt + n - t.left
             over == Greater(wcnt - m.wlim, 0)
             many == n - t.left - over
             a == Advance(t.r, t.left)
             u == Unskipped(p, t.left)
             r == Perform(a, m, u, many)
  <2>2. m.wlim \in Nat
    BY DEF RowFits
  <2>3. /\ wcnt \in Nat /\ m.wstart <= wcnt /\ many \in Nat /\ t.wcnt + many <= m.wlim
        /\ t.left < n /\ t.left + many <= n
        /\ wcnt < m.wlim => t.wcnt + many = wcnt
    BY <1>1, <1>4, <2>1, <2>2 DEF Greater, RowFits
  <2> HIDE DEF over, many
  <2>4. RowedLine(f, at, a, t.wcnt)
    <3>1. RowedLine(f, at, a, t.wcnt - t.left + t.left)
      BY <2>1, AdvanceLine DEF RowFits
    <3>2. t.wcnt - t.left + t.left = t.wcnt
      BY <2>1
    <3> QED
      BY <3>1, <3>2
  <2> HIDE DEF a
  <2>5. Coded(u, many)
    BY <2>1, <2>3, UnskippedCoded DEF n
  <2> HIDE DEF u
  <2>6. RowedLine(f, at, r, t.wcnt + many)
    BY <1>1, <2>1, <2>3, <2>4, <2>5, PerformLine
  <2>7. q = [t EXCEPT !.left = 0, !.wcnt = wcnt, !.done = wcnt >= m.wlim, !.r = r]
    BY <1>4 DEF ClippedPacket, TakeUpTo, n, wcnt, over, many, a, u, r
  <2> HIDE DEF q, r, wcnt
  <2>8. DOMAIN q = TakeFields /\ q.left = 0 /\ q.r = r /\ q.wcnt = wcnt
    BY <2>7 DEF Taken, TakeFields
  <2>9. q.done = (wcnt >= m.wlim)
    BY <2>7, Zenon DEF Taken, TakeFields
  <2>10. Rowed(f, r)
    BY <2>6 DEF RowedLine
  <2>11. CASE wcnt < m.wlim
    <3>1. RowedLine(f, at, r, wcnt - 0)
      BY <2>3, <2>6, <2>11
    <3> QED
      BY <2>3, <2>8, <2>10, <2>11, <3>1 DEF Taken, q
  <2>12. CASE ~(wcnt < m.wlim)
    <3>1. wcnt >= m.wlim
      BY <2>2, <2>3, <2>12
    <3>2. q.done
      BY <2>9, <3>1, Zenon
    <3> QED
      BY <2>8, <2>10, <3>2 DEF Taken, q
  <2> QED
    BY <2>11, <2>12
<1> QED
  BY <1>2, <1>3, <1>4

LEMMA PacketsLine ==
  ASSUME NEW f, Ready(f), NEW m, NEW at, RowFits(f, m, at), NEW r, RowedLine(f, at, r, 0),
         NEW packets \in Seq(PacketWords)
  PROVE  Rowed(f, Packets(r, m, packets))
<1> DEFINE n == Len(packets)
           x == [r |-> r, left |-> FirstColumn(m), wcnt |-> FirstColumn(m), done |-> FALSE]
           j == [does |-> "take", m |-> m, packets |-> packets]
           P(g) == g = [k \in 0 .. n |-> IF k = 0 THEN x ELSE Packet(g[k - 1], m, packets[k])]
           h == CHOOSE g : P(g)
           S == {k \in 0 .. n : Taken(f, m, at, h[k])}
<1>1. n \in Nat /\ \A k \in 1 .. n : packets[k] \in PacketWords
  BY LenProperties, ElementOfSeq
<1>2. \A s, k : Turn(j, s, k) = Packet(s, m, packets[k])
  BY DEF Turn
<1>3. Taken(f, m, at, x)
  <2>1. FirstColumn(m) = m.wstart /\ m.wstart \in Nat /\ m.wstart < m.wlim
    BY DEF FirstColumn, RowFits
  <2>2. RowedLine(f, at, r, m.wstart - m.wstart) /\ Rowed(f, r)
    BY <2>1 DEF RowedLine
  <2>3. DOMAIN x = TakeFields
    BY DEF TakeFields
  <2> QED
    BY <2>1, <2>2, <2>3 DEF Taken
<1>4. Packets(r, m, packets) = (CHOOSE g : P(g))[n].r
  BY DEF Packets
<1> HIDE DEF j, n, x
<1>5. P(h)
  <2>1. PICK g : Loop(g, j, x, n)
    BY <1>1, LoopExists
  <2>2. P(g)
    BY <1>2, <2>1 DEF Loop
  <2> QED
    BY <2>2
<1> HIDE DEF h
<1>6. 0 \in S
  BY <1>1, <1>3, <1>5
<1>7. ASSUME NEW k \in 1 .. n, k - 1 \in S PROVE k \in S
  <2>1. h[k] = Packet(h[k - 1], m, packets[k])
    BY <1>1, <1>5
  <2>2. Packet(h[k - 1], m, packets[k]) = ClippedPacket(h[k - 1], m, packets[k])
    BY DEF Packet, RowFits
  <2>3. Taken(f, m, at, h[k])
    BY <1>1, <1>7, <2>1, <2>2, ClippedPacketTaken
  <2> QED
    BY <2>3
<1>8. n \in S
  BY <1>1, <1>6, <1>7, UpTo
<1> QED
  BY <1>4, <1>8 DEF h, Taken
-----------------------------------------------------------------------------
(* Rows of a cel.                                                          *)
Settled(f) ==
  /\ Ready(f) /\ f.pre0 \in Pre0s /\ f.pre1 \in Pre1s /\ f.sprwi \in Int /\ f.sprhi \in Int
  /\ Maps(f.mem.rows, RowWords) /\ Maps(f.mem.words, Int) /\ Maps(f.mem.bitmaps, Seq(Pixels))

LEMMA StillSettled ==
  ASSUME NEW f, Settled(f), NEW g, Only(f, g, Marks \union {"hd"}), InRange(g.hd)
  PROVE  /\ Settled(g) /\ g.vd = f.vd /\ g.clip = f.clip /\ DrawHeight(g) = DrawHeight(f)
         /\ g.flags = f.flags
<1>1. Marks \union {"hd"} \in SUBSET Drawable
  BY DEF Drawable, Marks
<1>2. /\ g.clip = f.clip /\ g.vd = f.vd /\ g.hdd = f.hdd /\ g.flags = f.flags /\ g.pre0 = f.pre0
      /\ g.pre1 = f.pre1 /\ g.mem = f.mem /\ g.sprwi = f.sprwi /\ g.sprhi = f.sprhi
  BY <1>1, OnlyKeeps
<1>3. Paints(g) /\ IntPair(g.hd)
  BY <1>1, OnlyKeeps, RangePair DEF Settled, Ready
<1> QED
  BY <1>2, <1>3 DEF Settled, Ready, Only, DrawHeight

LEMMA OpenedRow ==
  ASSUME NEW f, Ready(f), NEW m, NEW at, IntPair(at)
  PROVE  LET r == Opened(f, m, at)
             g == r.e
         IN /\ r.cur = at /\ r.hd = f.hd /\ r.stop = FALSE /\ Ready(g) /\ Rowed(g, r)
            /\ Only(f, g, Marks \union {"hd"}) /\ (m.kind # "arbitrary" => Only(f, g, Marks))
<1> DEFINE hd == IF m.kind = "arbitrary" THEN Wrapped(Plus(f.hd, f.hdd)) ELSE f.hd
           g == Turned(f, m)
           down == Plus(at, f.vd)
           r == Opened(f, m, at)
<1>1. DOMAIN r = RowFields /\ r.e = g /\ r.cur = at /\ r.hd = f.hd /\ r.down = down /\ r.stop = FALSE
  BY DEF Opened, Row, RowFields
<1>2. InRange(hd) /\ IntPair(hd) /\ IntPair(down)
  <2>1. IntPair(f.hd) /\ IntPair(f.vd) /\ IntPair(f.hdd) /\ InRange(f.hd)
    BY DEF Ready
  <2>2. IntPair(down) /\ IntPair(Plus(f.hd, f.hdd))
    BY <2>1, PairSums
  <2>3. InRange(hd)
    BY <2>1, <2>2, WrapIs DEF InRange, IntPair, Wrapped
  <2> QED
    BY <2>2, <2>3, RangePair
<1>3. m.kind # "arbitrary" => hd = f.hd
  OBVIOUS
<1> HIDE DEF hd, down, r
<1>4. /\ DOMAIN g = EngineFields /\ g.hd = hd
      /\ \A k \in EngineFields \ {"hd"} : g[k] = f[k]
  BY DEF Ready, EngineFields, Turned, hd
<1> HIDE DEF g
<1>5. /\ g.clip = f.clip /\ g.vd = f.vd /\ g.hdd = f.hdd /\ g.vram = f.vram /\ g.torn = f.torn
  BY <1>4 DEF EngineFields
<1>6. Ready(g) /\ Inside(f, g)
  <2>1. Inks \ {"vram"} \subseteq EngineFields \ {"hd"}
    BY DEF Inks, EngineFields
  <2>2. Paints(g)
    BY <1>4, <1>5, <2>1, StillPaints DEF Ready
  <2> QED
    BY <1>2, <1>4, <1>5, <2>2 DEF Ready, Inside
<1>7. Only(f, g, Marks \union {"hd"}) /\ Only(g, g, Marks)
  BY <1>4, <1>5, <1>6, OnlySelf DEF Only
<1>8. m.kind # "arbitrary" => Only(f, g, Marks)
  BY <1>3, <1>4, <1>5, <1>6 DEF Only
<1>9. IntPair(f.hd)
  BY DEF Ready
<1>10. Rowed(g, r)
  BY <1>1, <1>2, <1>7, <1>9 DEF Rowed
<1> QED
  BY <1>1, <1>6, <1>7, <1>8, <1>10 DEF r

LEMMA HeldPackets ==
  ASSUME NEW f, Settled(f), NEW a
  PROVE  PackedRow(f, a).packets \in Seq(PacketWords)
<1>1. <<>> \in Seq(PacketWords)
  BY EmptySeq
<1>2. CASE a \in DOMAIN f.mem.rows
  <2>1. f.mem.rows[a] \in RowWords
    BY <1>2 DEF Settled, Maps
  <2> QED
    BY <1>2, <2>1 DEF PackedRow, Held, RowWords
<1>3. CASE a \notin DOMAIN f.mem.rows
  BY <1>1, <1>3 DEF PackedRow, Held
<1> QED
  BY <1>2, <1>3

LEMMA ColumnsIn ==
  ASSUME NEW f, Settled(f), NEW m, m.kind = "line" => m.wstart \in Nat /\ m.wlim \in Nat
  PROVE  FirstColumn(m) \in Nat /\ LastColumn(f, m) \in Int
<1>1. Width(f) \in Int
  BY DEF Settled, Pre0s, Width
<1> QED
  BY <1>1 DEF FirstColumn, LastColumn, Lesser

LEMMA CodeIn ==
  ASSUME NEW f, Settled(f), NEW i, NEW k
  PROVE  Code(f, i, k) \in Pixels
<1>1. LRCode(f, i, k) \in Pixels
  <2> DEFINE w == Held(f.mem.words, f.pdata + XY2OFF(k, i, Stride(f)), 0)
  <2>1. w \in Int
    BY DEF Settled, Maps, Held
  <2> HIDE DEF w
  <2>2. w % 65536 \in Pixels
    BY <2>1 DEF Pixels
  <2> QED
    BY <2>2 DEF LRCode, w
<1>2. LiteralCode(f, i, k) \in Pixels
  <2> DEFINE row == Held(f.mem.bitmaps, f.pdata + i * Stride(f), <<>>)
  <2>1. row \in Seq(Pixels)
    BY EmptySeq DEF Settled, Maps, Held
  <2>2. 0 \in Pixels
    BY DEF Pixels
  <2> HIDE DEF row
  <2>3. \A x \in DOMAIN row : row[x] \in Pixels
    BY <2>1, LenProperties, ElementOfSeq
  <2> QED
    BY <2>2, <2>3 DEF LiteralCode, Held, row
<1> QED
  BY <1>1, <1>2 DEF Code

LEMMA CodeRowOpen ==
  ASSUME NEW f, Settled(f), NEW m, OpenFits(f, m), NEW r, Rowed(f, r), NEW i
  PROVE  Rowed(f, CodeRow(r, m, i))
<1> DEFINE n == Greater(LastColumn(r.e, m) - FirstColumn(m), 0)
           codes == [k \in 1 .. n |-> Code(r.e, i, FirstColumn(m) + k - 1)]
<1>1. Settled(r.e)
  <2>1. Only(f, r.e, Marks \union {"hd"}) /\ InRange(r.e.hd)
    BY VramOnly, OnlyWider DEF Rowed, Settled, Ready
  <2> QED
    BY <2>1, StillSettled
<1>2. n \in Nat
  <2>1. FirstColumn(m) \in Nat /\ LastColumn(r.e, m) \in Int
    BY <1>1, ColumnsIn DEF OpenFits
  <2> QED
    BY <2>1 DEF Greater
<1> HIDE DEF n
<1>3. Len(codes) = n /\ \A k \in 1 .. n : codes[k] \in Pixels
  BY <1>1, <1>2, Listed, CodeIn
<1>4. CodeRow(r, m, i) = PutAll(r, m, codes)
  BY DEF CodeRow, n
<1> HIDE DEF codes
<1> QED
  BY <1>2, <1>3, <1>4, PutAllOpen DEF Settled

(* What a row of a map without limits leaves.                              *)
RowDone(f, m, r) ==
  /\ Only(f, r.e, Marks \union {"hd"}) /\ IntPair(r.cur) /\ InRange(r.e.hd)
  /\ m.kind = "scale" => r.e.hd = f.hd

LEMMA DrawRowOpen ==
  ASSUME NEW f, Settled(f), NEW m, OpenFits(f, m), NEW at, IntPair(at), NEW i
  PROVE  RowDone(f, m, DrawRow(f, m, at, i))
<1> DEFINE start == IF IsPacked(f) THEN at ELSE Plus(at, Times(FirstColumn(m), f.hd))
           o == Opened(f, m, start)
           g == o.e
           r == DrawRow(f, m, at, i)
<1>1. IntPair(start)
  <2>1. FirstColumn(m) \in Int /\ IntPair(f.hd)
    BY DEF FirstColumn, OpenFits, Settled, Ready
  <2> QED
    BY <2>1, PairSums
<1> HIDE DEF start
<1>2. /\ Ready(f) /\ Ready(g) /\ Rowed(g, o) /\ Only(f, g, Marks \union {"hd"})
      /\ (m.kind # "arbitrary" => Only(f, g, Marks))
  BY <1>1, OpenedRow DEF Settled
<1> HIDE DEF o, g
<1>3. Settled(g) /\ DrawHeight(g) = DrawHeight(f) /\ g.flags = f.flags
  BY <1>2, StillSettled DEF Ready
<1>4. m.kind = "scale" => g.hd = f.hd
  BY <1>2, VramOnly
<1>5. OpenFits(g, m)
  BY <1>3, <1>4 DEF OpenFits, ScaleFits
<1>6. Rowed(g, r)
  <2>1. CASE IsPacked(f)
    <3>1. r = Packets(o, m, PackedRow(o.e, RowStart(o.e, i)).packets)
      BY <2>1 DEF DrawRow, PacketRow, OpenFits, start, o
    <3>2. PackedRow(o.e, RowStart(o.e, i)).packets \in Seq(PacketWords)
      BY <1>3, HeldPackets DEF g
    <3> QED
      BY <1>2, <1>5, <3>1, <3>2, PacketsOpen
  <2>2. CASE ~IsPacked(f)
    <3>1. r = CodeRow(o, m, i)
      BY <2>2 DEF DrawRow, start, o
    <3> QED
      BY <1>2, <1>3, <1>5, <3>1, CodeRowOpen
  <2> QED
    BY <2>1, <2>2
<1> HIDE DEF r
<1>7. Only(g, r.e, Marks) /\ IntPair(r.cur)
  BY <1>6 DEF Rowed
<1>8. r.e.hd = g.hd /\ InRange(g.hd)
  BY <1>2, <1>7, VramOnly DEF Ready
<1>9. Only(g, r.e, Marks \union {"hd"})
  BY <1>7, OnlyWider
<1>10. Only(f, r.e, Marks \union {"hd"})
  BY <1>2, <1>9, OnlyThen DEF Drawable, Marks
<1> QED
  BY <1>4, <1>7, <1>8, <1>10 DEF r, RowDone

LEMMA CodeRowLine ==
  ASSUME NEW f, Settled(f), NEW m, NEW at, RowFits(f, m, at), NEW r, RowedLine(f, at, r, m.wstart), NEW i
  PROVE  Rowed(f, CodeRow(r, m, i))
<1> DEFINE n == Greater(LastColumn(r.e, m) - FirstColumn(m), 0)
           codes == [k \in 1 .. n |-> Code(r.e, i, FirstColumn(m) + k - 1)]
<1>1. Settled(r.e)
  <2>1. Only(f, r.e, Marks \union {"hd"}) /\ InRange(r.e.hd)
    BY VramOnly, OnlyWider DEF RowedLine, Rowed, Settled, Ready
  <2> QED
    BY <2>1, StillSettled
<1>2. n \in Nat /\ m.wstart + n <= m.wlim
  <2>1. Width(r.e) \in Int
    BY <1>1 DEF Settled, Pre0s, Width
  <2>2. FirstColumn(m) = m.wstart /\ LastColumn(r.e, m) = Lesser(Width(r.e), m.wlim)
    BY DEF RowFits, FirstColumn, LastColumn
  <2> QED
    BY <2>1, <2>2 DEF Greater, Lesser, RowFits
<1> HIDE DEF n
<1>3. Len(codes) = n /\ \A k \in 1 .. n : codes[k] \in Pixels
  BY <1>1, <1>2, Listed, CodeIn
<1>4. CodeRow(r, m, i) = PutAll(r, m, codes)
  BY DEF CodeRow, n
<1> HIDE DEF codes
<1>5. Ready(f) /\ m.wstart \in Nat /\ m.wstart <= m.wstart
  BY DEF Settled, RowFits
<1>6. RowedLine(f, at, PutAll(r, m, codes), m.wstart + Len(codes))
  BY <1>2, <1>3, <1>5, PutAllLine
<1> QED
  BY <1>4, <1>6 DEF RowedLine

LEMMA DrawRowLine ==
  ASSUME NEW f, Settled(f), NEW m, m.kind = "line", NEW at, IntPair(at), NEW i,
         RowFits(f, m, at) \/ (IsPacked(f) /\ i < m.hstart)
  PROVE  Only(f, DrawRow(f, m, at, i).e, Marks) /\ IntPair(DrawRow(f, m, at, i).cur)
<1> DEFINE r == DrawRow(f, m, at, i)
<1>1. CASE IsPacked(f)
  <2> DEFINE o == Opened(f, m, at)
             g == o.e
  <2>1. /\ Ready(f) /\ Rowed(g, o) /\ Only(f, g, Marks) /\ o.hd = f.hd /\ o.cur = at
        /\ o.stop = FALSE
    <3>1. Ready(f) /\ m.kind # "arbitrary"
      BY DEF Settled
    <3>2. IntPair(at)
      OBVIOUS
    <3>3. Ready(f) /\ Rowed(g, o) /\ Only(f, g, Marks)
      BY <3>1, <3>2, OpenedRow
    <3>4. o.hd = f.hd /\ o.cur = at /\ o.stop = FALSE
      BY DEF Opened, Row
    <3> QED
      BY <3>1, <3>3, <3>4
  <2>2. CASE i < m.hstart
    <3>1. r = o
      BY <1>1, <2>2 DEF DrawRow, PacketRow
    <3> HIDE DEF r, o
    <3> QED
      BY <2>1, <3>1 DEF Rowed, r
  <2>3. CASE ~(i < m.hstart)
    <3>1. r = Packets(o, m, PackedRow(o.e, RowStart(o.e, i)).packets)
      BY <1>1, <2>3 DEF DrawRow, PacketRow
    <3>2. Settled(g) /\ g.clip = f.clip /\ g.hd = f.hd
      <4>1. g.hd = f.hd /\ InRange(g.hd)
        BY <2>1, VramOnly DEF Ready
      <4>2. Only(f, g, Marks \union {"hd"})
        BY <2>1, OnlyWider
      <4> QED
        BY <4>1, <4>2, StillSettled
    <3>3. PackedRow(o.e, RowStart(o.e, i)).packets \in Seq(PacketWords)
      BY <3>2, HeldPackets
    <3> DEFINE packets == PackedRow(o.e, RowStart(o.e, i)).packets
    <3> HIDE DEF g, o, packets
    <3>4. RowFits(g, m, at)
      BY <2>3, <3>2 DEF RowFits, UnitSteps, InWindow
    <3>5. RowedLine(g, at, o, 0)
      <4>1. ASSUME NEW a \in Axes PROVE o.cur[a] = at[a] + 0 * g.hd[a]
        <5>1. at[a] \in Int /\ g.hd[a] \in Int
          BY <3>2 DEF IntPair, Settled, Ready
        <5> QED
          BY <2>1, <5>1
      <4> QED
        BY <2>1, <3>2, <4>1 DEF RowedLine
    <3>6. Rowed(g, r)
      <4>1. Ready(g) /\ packets \in Seq(PacketWords)
        BY <3>2, <3>3 DEF Settled, packets
      <4> QED
        BY <3>1, <3>4, <3>5, <4>1, PacketsLine DEF packets
    <3> HIDE DEF r
    <3>7. Only(g, r.e, Marks) /\ IntPair(r.cur)
      BY <3>6 DEF Rowed
    <3> QED
      BY <2>1, <3>7, OnlyThen DEF Drawable, Marks, r
  <2> QED
    BY <2>2, <2>3
<1>2. CASE ~IsPacked(f)
  <2> DEFINE start == Plus(at, Times(FirstColumn(m), f.hd))
             o == Opened(f, m, start)
             g == o.e
  <2>1. RowFits(f, m, at) /\ FirstColumn(m) = m.wstart /\ m.wstart \in Nat /\ m.wstart \in Int
    BY <1>2 DEF RowFits, FirstColumn
  <2>2. IntPair(start) /\ \A a \in Axes : start[a] = at[a] + m.wstart * f.hd[a]
    <3>1. IntPair(f.hd) /\ FirstColumn(m) \in Int
      BY <2>1 DEF Settled, Ready
    <3>2. IntPair(start)
      BY <3>1, PairSums
    <3> QED
      BY <2>1, <3>2 DEF Plus, Times
  <2> HIDE DEF start
  <2>3. /\ Ready(f) /\ Rowed(g, o) /\ Only(f, g, Marks) /\ o.hd = f.hd /\ o.cur = start
        /\ o.stop = FALSE
    <3>1. Ready(f) /\ m.kind # "arbitrary"
      BY DEF Settled
    <3>2. IntPair(start)
      BY <2>2
    <3>3. Ready(f) /\ Rowed(g, o) /\ Only(f, g, Marks)
      BY <3>1, <3>2, OpenedRow
    <3>4. o.hd = f.hd /\ o.cur = start /\ o.stop = FALSE
      BY DEF Opened, Row
    <3> QED
      BY <3>1, <3>3, <3>4
  <2>4. r = CodeRow(o, m, i)
    BY <1>2 DEF DrawRow, start
  <2> HIDE DEF g, o, r
  <2>5. Settled(g) /\ g.clip = f.clip /\ g.hd = f.hd
    <3>1. g.hd = f.hd /\ InRange(g.hd)
      BY <2>3, VramOnly DEF Ready
    <3>2. Only(f, g, Marks \union {"hd"})
      BY <2>3, OnlyWider
    <3> QED
      BY <3>1, <3>2, StillSettled
  <2>6. RowFits(g, m, at)
    BY <2>1, <2>5 DEF RowFits, UnitSteps, InWindow
  <2>7. RowedLine(g, at, o, m.wstart)
    BY <2>2, <2>3, <2>5 DEF RowedLine
  <2>8. Rowed(g, r)
    BY <2>4, <2>5, <2>6, <2>7, CodeRowLine
  <2>9. Only(g, r.e, Marks) /\ IntPair(r.cur)
    BY <2>8 DEF Rowed
  <2> QED
    BY <2>3, <2>9, OnlyThen DEF Drawable, Marks, r
<1> QED
  BY <1>1, <1>2

(* A map that fits the cel: none of the rows it draws leaves the window.   *)
LineFits(f, m) ==
  /\ m.kind = "line" /\ m.hstart \in Nat /\ m.hlim \in Int
  /\ \A i \in Nat : m.hstart <= i /\ i < m.hlim => RowFits(f, m, Plus(f.pos, Times(i, f.vd)))

MapFits(f, m) == OpenFits(f, m) \/ LineFits(f, m)

(* The rows drawn so far, of which i is the next.                          *)
Placed(f, m, t, i) ==
  /\ DOMAIN t = {"e", "at", "x"} /\ t.x \in Int /\ IntPair(t.at)
  /\ Only(f, t.e, Marks \union {"hd"}) /\ InRange(t.e.hd)
  /\ m.kind # "arbitrary" => t.e.hd = f.hd
  /\ t.at = Plus(f.pos, Times(i, f.vd))

LEMMA NextPlace ==
  ASSUME NEW u, IntPair(u), NEW v, IntPair(v), NEW i \in Int
  PROVE  Plus(Plus(u, Times(i, v)), v) = Plus(u, Times(i + 1, v))
<1>1. ASSUME NEW a \in Axes PROVE u[a] + i * v[a] + v[a] = u[a] + (i + 1) * v[a]
  <2>1. u[a] \in Int /\ v[a] \in Int
    BY DEF IntPair
  <2>2. \A y, h \in Int : y + i * h + h = y + (i + 1) * h
    OBVIOUS
  <2> QED
    BY <2>1, <2>2
<1> QED
  BY <1>1 DEF Plus, Times

LEMMA NextRowPlaced ==
  ASSUME NEW f, Settled(f), IntPair(f.pos), NEW m, MapFits(f, m), NEW t, NEW i \in Nat, Placed(f, m, t, i),
         FirstRow(f, m) <= i, i < EndRow(f, m)
  PROVE  Placed(f, m, NextRow(f, m, t, i), i + 1)
<1> DEFINE g == t.e
           r == DrawRow(g, m, t.at, i)
           q == NextRow(f, m, t, i)
<1>1. /\ t.x \in Int /\ IntPair(t.at) /\ Only(f, g, Marks \union {"hd"}) /\ InRange(g.hd)
      /\ t.at = Plus(f.pos, Times(i, f.vd)) /\ (m.kind # "arbitrary" => g.hd = f.hd)
  BY DEF Placed
<1> HIDE DEF g
<1>2. Settled(g) /\ g.clip = f.clip /\ DrawHeight(g) = DrawHeight(f) /\ g.flags = f.flags
  BY <1>1, StillSettled
<1>3. /\ Only(g, r.e, Marks \union {"hd"}) /\ IntPair(r.cur) /\ InRange(r.e.hd)
      /\ (m.kind # "arbitrary" => r.e.hd = g.hd)
  <2>1. CASE OpenFits(f, m)
    <3>1. OpenFits(g, m)
      BY <1>1, <1>2, <2>1 DEF OpenFits, ScaleFits
    <3>2. m.kind # "arbitrary" => m.kind = "scale"
      BY <2>1 DEF OpenFits
    <3>3. /\ Only(g, r.e, Marks \union {"hd"}) /\ IntPair(r.cur) /\ InRange(r.e.hd)
          /\ m.kind = "scale" => r.e.hd = g.hd
      <4>1. Settled(g) /\ IntPair(t.at)
        BY <1>1, <1>2
      <4>2. RowDone(g, m, r)
        BY <3>1, <4>1, DrawRowOpen
      <4> HIDE DEF r
      <4> QED
        BY <4>2 DEF RowDone
    <3> HIDE DEF r
    <3> QED
      BY <3>2, <3>3
  <2>2. CASE LineFits(f, m)
    <3>1. m.kind = "line" /\ m.hstart \in Nat /\ m.hlim \in Int
      BY <2>2 DEF LineFits
    <3>2. RowFits(g, m, t.at) \/ (IsPacked(g) /\ i < m.hstart)
      <4>1. CASE m.hstart <= i
        <5>1. i < m.hlim
          BY <3>1 DEF EndRow
        <5>2. RowFits(f, m, t.at)
          BY <1>1, <2>2, <4>1, <5>1 DEF LineFits
        <5>3. g.hd = f.hd
          BY <1>1, <3>1
        <5> QED
          BY <1>2, <5>2, <5>3 DEF RowFits, UnitSteps, InWindow
      <4>2. CASE ~(m.hstart <= i)
        BY <1>2, <3>1, <4>2 DEF FirstRow, IsPacked
      <4> QED
        BY <4>1, <4>2
    <3>3. Only(g, r.e, Marks) /\ IntPair(r.cur)
      BY <1>1, <1>2, <3>1, <3>2, DrawRowLine
    <3> HIDE DEF r
    <3>4. r.e.hd = g.hd /\ InRange(g.hd) /\ Only(g, r.e, Marks \union {"hd"})
      BY <1>1, <1>2, <3>3, VramOnly, OnlyWider DEF Settled
    <3> QED
      BY <1>1, <3>3, <3>4
  <2> QED
    BY <2>1, <2>2 DEF MapFits
<1> HIDE DEF r
<1>4. Only(f, r.e, Marks \union {"hd"})
  BY <1>1, <1>3, OnlyThen DEF Drawable, Marks
<1> DEFINE at == Plus(t.at, f.vd)
<1>5. IntPair(at) /\ at = Plus(f.pos, Times(i + 1, f.vd))
  <2>1. IntPair(f.vd) /\ i \in Int
    BY DEF Settled, Ready
  <2> QED
    BY <1>1, <2>1, PairSums, NextPlace
<1> HIDE DEF at
<1>6. q = [e |-> r.e, at |-> at, x |-> r.cur["x"]]
  BY DEF NextRow, Below, r, g, at
<1>7. r.cur["x"] \in Int
  BY <1>3 DEF IntPair, Axes
<1> HIDE DEF q
<1>8. DOMAIN q = {"e", "at", "x"} /\ q.e = r.e /\ q.at = at /\ q.x = r.cur["x"]
  BY <1>6
<1>9. Placed(f, m, q, i + 1)
  BY <1>1, <1>3, <1>4, <1>5, <1>7, <1>8 DEF Placed
<1> QED
  BY <1>9 DEF q

LEMMA RowsOnly ==
  ASSUME NEW f, Settled(f), InRange(f.pos), f.junk \in Int, NEW m, MapFits(f, m)
  PROVE  /\ Only(f, Rows(f, m), Marks \union {"hd", "pos"})
         /\ InRange(Rows(f, m).pos) /\ InRange(Rows(f, m).hd)
<1> DEFINE n == RowCount(f, m)
           first == FirstRow(f, m)
           x == [e |-> f, at |-> Plus(f.pos, Times(first, f.vd)), x |-> f.junk]
           j == [does |-> "rows", f |-> f, m |-> m]
           P(g) == g = [k \in 0 .. n |-> IF k = 0 THEN x ELSE NextRow(f, m, g[k - 1], FirstRow(f, m) + k - 1)]
           h == CHOOSE g : P(g)
           S == {k \in 0 .. n : Placed(f, m, h[k], first + k)}
<1>1. first \in Nat /\ n \in Nat /\ EndRow(f, m) \in Int /\ (n > 0 => first + n = EndRow(f, m))
  <2>1. first \in Nat /\ EndRow(f, m) \in Int
    BY DEF FirstRow, EndRow, MapFits, OpenFits, LineFits, Settled
  <2> QED
    BY <2>1 DEF RowCount, Greater
<1>2. \A s, k : Turn(j, s, k) = NextRow(f, m, s, FirstRow(f, m) + k - 1)
  BY DEF Turn
<1>3. Placed(f, m, x, first)
  <2>1. first \in Int /\ IntPair(f.vd) /\ InRange(f.hd) /\ DOMAIN f = EngineFields
    BY <1>1 DEF Settled, Ready
  <2>2. IntPair(Plus(f.pos, Times(first, f.vd)))
    BY <2>1, RangePair, PairSums
  <2>3. Only(f, f, Marks \union {"hd"})
    BY <2>1, OnlySelf
  <2> HIDE DEF first
  <2> QED
    BY <2>1, <2>2, <2>3 DEF Placed
<1>4. Rows(f, m) = Finished((CHOOSE g : P(g))[n])
  BY DEF Rows
<1> HIDE DEF j, n, x, first
<1>5. P(h)
  <2>1. PICK g : Loop(g, j, x, n)
    BY <1>1, LoopExists
  <2>2. P(g)
    BY <1>2, <2>1 DEF Loop
  <2> QED
    BY <2>2
<1>6. Rows(f, m) = Finished(h[n])
  BY <1>4
<1> HIDE DEF h
<1>7. 0 \in S
  BY <1>1, <1>3, <1>5
<1>8. ASSUME NEW k \in 1 .. n, k - 1 \in S PROVE k \in S
  <2> DEFINE i == first + k - 1
  <2>1. i \in Nat /\ first <= i /\ i < EndRow(f, m) /\ i = first + (k - 1) /\ i + 1 = first + k
    BY <1>1
  <2>2. Placed(f, m, h[k - 1], i)
    BY <1>8, <2>1
  <2>3. h[k] = NextRow(f, m, h[k - 1], i)
    BY <1>1, <1>5 DEF first
  <2> HIDE DEF i
  <2>4. Placed(f, m, NextRow(f, m, h[k - 1], i), i + 1)
    BY <2>1, <2>2, RangePair, NextRowPlaced DEF first
  <2> QED
    BY <2>1, <2>3, <2>4
<1>9. n \in S
  BY <1>1, <1>7, <1>8, UpTo
<1> DEFINE t == h[n]
           g == t.e
           pos == [a \in Axes |-> IF a = "x" THEN Wrap(t.x) ELSE g.pos[a]]
           done == Finished(t)
<1>10. t.x \in Int /\ Only(f, g, Marks \union {"hd"}) /\ InRange(g.hd)
  BY <1>9 DEF Placed
<1>11. done = [g EXCEPT !.pos = pos]
  BY DEF Finished
<1>12. g.pos = f.pos
  BY <1>10 DEF Only, EngineFields, Marks
<1>13. InRange(pos)
  BY <1>10, <1>12, WrapIs DEF InRange
<1> HIDE DEF t, g, pos, done
<1>14. DOMAIN done = EngineFields /\ done.pos = pos /\ \A k \in EngineFields \ {"pos"} : done[k] = g[k]
  BY <1>10, <1>11 DEF Only, EngineFields
<1>15. done.vram = g.vram /\ done.hd = g.hd /\ done.torn = g.torn
  BY <1>14 DEF EngineFields
<1>16. Only(f, done, Marks \union {"hd", "pos"})
  BY <1>10, <1>14, <1>15 DEF Only, Inside
<1> QED
  BY <1>6, <1>10, <1>13, <1>14, <1>15, <1>16 DEF done, t
-----------------------------------------------------------------------------
(* The maps that TestInitVisual chooses fit.                               *)
Unit(step) == IF step < 0 THEN -1 ELSE 1

LEMMA ColumnsSeen ==
  ASSUME NEW f, NEW a, f.clip[a] \in Nat, NEW at \in Int, NEW step \in {One, -One},
         ~Leaves(f, a, at, step)
  PROVE  /\ Skipped(f, a, at, step) \in Nat /\ Room(f, a, at, step) \in Nat
         /\ Skipped(f, a, at, step) < Room(f, a, at, step)
         /\ \A k \in Nat : Skipped(f, a, at, step) <= k /\ k < Room(f, a, at, step) =>
              at + k * Unit(step) \in 0 .. f.clip[a]
<1>1. One \in Nat /\ One > 0
  BY OneAssumption
<1> DEFINE clip == f.clip[a]
<1> HIDE DEF clip
<1>2. clip \in Nat
  BY DEF clip
<1>3. CASE step = One
  <2>1. step > 0 /\ ~(step < 0) /\ Unit(step) = 1
    BY <1>1, <1>3 DEF Unit
  <2>2. /\ Skipped(f, a, at, step) = IF at < 0 THEN -at ELSE 0
        /\ Room(f, a, at, step) = clip - at + 1
        /\ ~(at > clip)
    BY <2>1 DEF Skipped, Room, Leaves, clip
  <2> QED
    BY <1>2, <2>1, <2>2 DEF clip
<1>4. CASE step = -One
  <2>1. step < 0 /\ ~(step > 0) /\ Unit(step) = -1
    BY <1>1, <1>4 DEF Unit
  <2>2. /\ Skipped(f, a, at, step) = IF at > clip THEN at - clip ELSE 0
        /\ Room(f, a, at, step) = at + 1
        /\ ~(at < 0)
    BY <2>1 DEF Skipped, Room, Leaves, clip
  <2> QED
    BY <1>2, <2>1, <2>2 DEF clip
<1> QED
  BY <1>3, <1>4

LEMMA RowsSeen ==
  ASSUME NEW f, NEW a, f.clip[a] \in Nat, f.sprhi \in Int, NEW at \in Int, NEW step \in {One, -One},
         ~Leaves(f, a, at, step)
  PROVE  /\ Skipped(f, a, at, step) \in Nat /\ RowLimit(f, a, at, step) \in Int
         /\ \A k \in Nat : Skipped(f, a, at, step) <= k /\ k < RowLimit(f, a, at, step) =>
              at + k * Unit(step) \in 0 .. f.clip[a]
<1> DEFINE clip == f.clip[a]
           limit == RowLimit(f, a, at, step)
           start == Skipped(f, a, at, step)
<1>1. clip \in Nat /\ One \in Nat /\ One > 0
  BY OneAssumption
<1>2. start \in Nat
  BY ColumnsSeen
<1> HIDE DEF clip
<1>3. CASE step = One
  <2>1. step > 0 /\ ~(step < 0) /\ Unit(step) = 1
    BY <1>1, <1>3 DEF Unit
  <2>2. /\ start = IF at < 0 THEN -at ELSE 0
        /\ limit = IF at + f.sprhi > clip THEN clip - at + 1 ELSE f.sprhi
    BY <2>1 DEF Skipped, Room, RowLimit, clip
  <2> HIDE DEF limit, start
  <2>3. limit \in Int /\ \A k \in Nat : start <= k /\ k < limit => at + k * Unit(step) \in 0 .. clip
    BY <1>1, <2>1, <2>2
  <2> QED
    BY <1>2, <2>3 DEF clip, limit, start
<1>4. CASE step = -One
  <2>1. step < 0 /\ ~(step > 0) /\ Unit(step) = -1
    BY <1>1, <1>4 DEF Unit
  <2>2. /\ start = IF at > clip THEN at - clip ELSE 0
        /\ limit = Lesser(IF at - (f.sprhi - 1) < 0 THEN at + 1 ELSE f.sprhi, f.sprhi)
    BY <2>1 DEF Skipped, Room, RowLimit, clip
  <2> HIDE DEF limit, start
  <2>3. limit \in Int /\ \A k \in Nat : start <= k /\ k < limit => at + k * Unit(step) \in 0 .. clip
    BY <1>1, <2>1, <2>2 DEF Lesser
  <2> QED
    BY <1>2, <2>3 DEF clip, limit, start
<1> QED
  BY <1>3, <1>4

LEMMA UnitIs ==
  ASSUME NEW step \in {One, -One}
  PROVE  Int16(step) = Unit(step) /\ Cell(step) = Unit(step) /\ step # 0 /\ step \in {0, One, -One}
<1>1. One \in Nat /\ One > 0
  BY OneAssumption
<1>2. Cell(0) = 0
  BY OneAssumption, QuotientIs DEF Cell
<1>3. 0 + 1 * One = One /\ 0 + (-1) * One = -One
  BY <1>1
<1>4. Cell(0 + 1 * One) = Cell(0) + 1 /\ Cell(0 + (-1) * One) = Cell(0) + (-1)
  BY WholeSteps
<1>5. Cell(step) = Unit(step)
  BY <1>1, <1>2, <1>3, <1>4 DEF Unit
<1> QED
  BY <1>1, <1>5, UnitsIn, Int16Is

LEMMA CentredIn ==
  ASSUME NEW f, InRange(f.pos)
  PROVE  InRange(Centred(f)) /\ IntPair(Centred(f))
<1>1. Half \in Int
  BY OneAssumption DEF Half
<1>2. IntPair(f.pos)
  BY RangePair
<1>3. InRange(Centred(f))
  <2>1. ASSUME NEW a \in Axes PROVE Centred(f)[a] \in Number
    <3>1. f.pos[a] - Half \in Int /\ f.pos[a] - 0 \in Int
      BY <1>1, <1>2 DEF IntPair
    <3> QED
      BY <3>1, WrapIs DEF Centred
  <2> QED
    BY <2>1 DEF InRange
<1> QED
  BY <1>3, RangePair

LEMMA LineMapFits ==
  ASSUME NEW f, Settled(f), InRange(f.pos), NEW h \in Axes, NEW v \in Axes, h # v,
         f.hd[v] = 0, f.vd[h] = 0, f.hd[h] \in {One, -One}, f.vd[v] \in {One, -One},
         LineMap(f).kind = "line"
  PROVE  LineFits([f EXCEPT !.pos = LineMap(f).pos], LineMap(f)) /\ InRange(LineMap(f).pos)
<1> DEFINE m == LineMap(f)
           pos == Centred(f)
           At(a) == Int16(pos[a])
           g == [f EXCEPT !.pos = pos]
<1>1. InRange(pos) /\ IntPair(pos) /\ IntPair(f.hd) /\ IntPair(f.vd)
  BY CentredIn DEF Settled, Ready
<1>2. f.clip[h] \in Nat /\ f.clip[v] \in Nat /\ f.sprhi \in Int
  BY DEF Settled, Ready, Axes
<1>3. h = (CHOOSE a \in Axes : f.hd[a] # 0) /\ v = (CHOOSE a \in Axes : f.vd[a] # 0)
  <2>1. \A a \in Axes : a = h \/ a = v
    BY DEF Axes
  <2>2. f.hd[h] # 0 /\ f.vd[v] # 0
    BY UnitIs
  <2> QED
    BY <2>1, <2>2
<1>4. At(h) \in Int /\ At(v) \in Int /\ At(h) = Cell(pos[h]) /\ At(v) = Cell(pos[v])
  BY <1>1, Int16In, Int16Is DEF IntPair, InRange
<1> HIDE DEF pos
<1>5. /\ m.pos = pos /\ m.wstart = Skipped(f, h, At(h), f.hd[h]) /\ m.wlim = Room(f, h, At(h), f.hd[h])
      /\ m.hstart = Skipped(f, v, At(v), f.vd[v]) /\ m.hlim = RowLimit(f, v, At(v), f.vd[v])
      /\ ~Leaves(f, h, At(h), f.hd[h]) /\ ~Leaves(f, v, At(v), f.vd[v])
  BY <1>3 DEF LineMap, pos
<1>6. m.kind = "line"
  OBVIOUS
<1> HIDE DEF m
<1>7. /\ m.wstart \in Nat /\ m.wlim \in Nat /\ m.wstart < m.wlim
      /\ \A k \in Nat : m.wstart <= k /\ k < m.wlim => At(h) + k * Unit(f.hd[h]) \in 0 .. f.clip[h]
  BY <1>2, <1>4, <1>5, ColumnsSeen
<1>8. /\ m.hstart \in Nat /\ m.hlim \in Int
      /\ \A i \in Nat : m.hstart <= i /\ i < m.hlim => At(v) + i * Unit(f.vd[v]) \in 0 .. f.clip[v]
  BY <1>2, <1>4, <1>5, RowsSeen
<1>9. g.pos = pos /\ g.hd = f.hd /\ g.vd = f.vd /\ g.clip = f.clip
  BY DEF Settled, Ready, EngineFields
<1> HIDE DEF g
<1>10. ASSUME NEW i \in Nat, m.hstart <= i, i < m.hlim
       PROVE  RowFits(g, m, Plus(g.pos, Times(i, g.vd)))
  <2> DEFINE at == Plus(pos, Times(i, f.vd))
  <2>1. IntPair(at) /\ \A a \in Axes : at[a] = pos[a] + i * f.vd[a]
    <3>1. i \in Int
      OBVIOUS
    <3>2. IntPair(at)
      BY <1>1, <3>1, PairSums
    <3> QED
      BY <3>2 DEF Plus, Times
  <2> HIDE DEF at
  <2>2. UnitSteps(g.hd)
    BY <1>9, UnitIs DEF UnitSteps, Axes
  <2>3. ASSUME NEW k \in Nat, m.wstart <= k, k < m.wlim
        PROVE  InWindow(g, Cell(at["x"] + k * f.hd["x"]), Cell(at["y"] + k * f.hd["y"]))
    <3>1. Cell(at[h] + k * f.hd[h]) \in 0 .. f.clip[h]
      <4>1. at[h] = pos[h] /\ pos[h] \in Int
        BY <1>1, <2>1 DEF IntPair
      <4>2. Cell(pos[h] + k * f.hd[h]) = Cell(pos[h]) + k * Cell(f.hd[h])
        BY <4>1, UnitCells
      <4> QED
        BY <1>4, <1>7, <2>3, <4>1, <4>2, UnitIs
    <3>2. Cell(at[v] + k * f.hd[v]) \in 0 .. f.clip[v]
      <4>1. at[v] = pos[v] + i * f.vd[v] /\ pos[v] \in Int /\ at[v] \in Int /\ at[v] + k * f.hd[v] = at[v]
        BY <1>1, <2>1 DEF IntPair
      <4>2. Cell(pos[v] + i * f.vd[v]) = Cell(pos[v]) + i * Cell(f.vd[v])
        BY <4>1, UnitCells
      <4> QED
        BY <1>4, <1>8, <1>10, <4>1, <4>2, UnitIs
    <3> QED
      BY <1>9, <3>1, <3>2 DEF InWindow, Axes
  <2> QED
    BY <1>6, <1>7, <1>9, <2>1, <2>2, <2>3 DEF RowFits, at
<1>11. LineFits(g, m) /\ InRange(m.pos)
  BY <1>1, <1>5, <1>6, <1>8, <1>10 DEF LineFits
<1> QED
  BY <1>5, <1>11 DEF g, m

LEMMA ScaleMapFits ==
  ASSUME NEW f, Settled(f), InRange(f.pos), NEW h \in Axes, NEW v \in Axes, h # v,
         f.hd[v] = 0, f.vd[h] = 0
  PROVE  MapFits([f EXCEPT !.pos = ScaleMap(f).pos], ScaleMap(f)) /\ InRange(ScaleMap(f).pos)
<1> DEFINE m == ScaleMap(f)
           g == [f EXCEPT !.pos = m.pos]
<1>1. /\ m.kind = "scale" /\ m.pos = Centred(f)
      /\ \A a \in Axes : m.inc[a] = IF f.hd[a] + f.vd[a] < 0 THEN -1 ELSE 1
  BY DEF ScaleMap
<1> HIDE DEF m
<1>2. g.hd = f.hd /\ g.vd = f.vd /\ g.flags = f.flags
  BY DEF Settled, Ready, EngineFields
<1> HIDE DEF g
<1>3. One \in Nat /\ \A a \in Axes : f.hd[a] \in Int /\ f.vd[a] \in Int
  BY OneAssumption DEF Settled, Ready, IntPair
<1>4. ASSUME NEW a \in Axes
      PROVE  \/ m.inc[a] = 1 /\ g.hd[a] >= 0 /\ DrawHeight(g)[a] >= 0
             \/ m.inc[a] = -1 /\ g.hd[a] <= 0 /\ DrawHeight(g)[a] <= 0
  <2>1. f.hd[a] \in Int /\ f.vd[a] \in Int /\ (f.hd[a] = 0 \/ f.vd[a] = 0)
    BY <1>3 DEF Axes
  <2>2. DrawHeight(g)[a] \in {f.vd[a], Lesser(f.vd[a], One)}
    BY <1>2 DEF DrawHeight
  <2>3. /\ f.vd[a] >= 0 => DrawHeight(g)[a] >= 0
        /\ f.vd[a] <= 0 => DrawHeight(g)[a] <= 0
    BY <1>3, <2>1, <2>2 DEF Lesser
  <2> QED
    BY <1>1, <1>2, <2>1, <2>3
<1>5. MapFits(g, m)
  BY <1>1, <1>4 DEF MapFits, OpenFits, ScaleFits
<1> QED
  BY <1>1, <1>5, CentredIn DEF g, m

(* A map is none at all, or fits; and it gives the cel a place.            *)
WellMapped(f, m) ==
  InRange(m.pos) /\ (m.kind = "none" \/ MapFits([f EXCEPT !.pos = m.pos], m))

LEMMA AlignedFits ==
  ASSUME NEW f, Settled(f), InRange(f.pos), NEW h \in Axes, NEW v \in Axes, h # v,
         f.hd[v] = 0, f.vd[h] = 0
  PROVE  WellMapped(f, Aligned(f, h, v))
<1>1. WellMapped(f, NoMap(f))
  BY DEF WellMapped, NoMap
<1>2. WellMapped(f, ScaleMap(f))
  BY ScaleMapFits DEF WellMapped
<1>3. ASSUME Abs(f.hd[h]) = One, Abs(f.vd[v]) = One PROVE WellMapped(f, LineMap(f))
  <2>1. f.hd[h] \in Int /\ f.vd[v] \in Int /\ One \in Nat
    BY OneAssumption DEF Settled, Ready, IntPair
  <2>2. f.hd[h] \in {One, -One} /\ f.vd[v] \in {One, -One}
    BY <1>3, <2>1 DEF Abs
  <2>3. LineMap(f).kind = "line" => WellMapped(f, LineMap(f))
    BY <2>2, LineMapFits DEF WellMapped, MapFits
  <2>4. LineMap(f).pos = Centred(f) /\ LineMap(f).kind \in {"none", "line"}
    BY DEF LineMap
  <2> QED
    BY <2>3, <2>4, CentredIn DEF WellMapped
<1> DEFINE single == Abs(f.hd[h]) = One /\ Abs(f.vd[v]) = One /\ \A a \in Axes : f.pos[a] % One = 0
<1>4. \/ Aligned(f, h, v) = NoMap(f) \/ Aligned(f, h, v) = ScaleMap(f)
      \/ Abs(f.hd[h]) = One /\ Abs(f.vd[v]) = One /\ Aligned(f, h, v) = LineMap(f)
  BY DEF Aligned
<1> QED
  BY <1>1, <1>2, <1>3, <1>4

LEMMA ShapeFits ==
  ASSUME NEW f, Settled(f), InRange(f.pos)
  PROVE  WellMapped(f, Shape(f))
<1>1. WellMapped(f, NoMap(f)) /\ WellMapped(f, Arbitrary(f))
  BY DEF WellMapped, NoMap, Arbitrary, MapFits, OpenFits
<1>2. ASSUME f.hd["x"] = 0, f.vd["y"] = 0 PROVE WellMapped(f, Aligned(f, "y", "x"))
  BY <1>2, AlignedFits DEF Axes
<1>3. ASSUME f.hd["y"] = 0, f.vd["x"] = 0 PROVE WellMapped(f, Aligned(f, "x", "y"))
  BY <1>3, AlignedFits DEF Axes
<1>4. \/ Shape(f) = NoMap(f) \/ Shape(f) = Arbitrary(f)
      \/ f.hd["x"] = 0 /\ f.vd["y"] = 0 /\ Shape(f) = Aligned(f, "y", "x")
      \/ f.hd["y"] = 0 /\ f.vd["x"] = 0 /\ Shape(f) = Aligned(f, "x", "y")
  BY DEF Shape
<1> QED
  BY <1>1, <1>2, <1>3, <1>4

LEMMA MappedOnly ==
  ASSUME NEW f, Settled(f), InRange(f.pos), f.junk \in Int, NEW m, WellMapped(f, m)
  PROVE  Only(f, Mapped(f, m), Drawable) /\ InRange(Mapped(f, m).pos) /\ InRange(Mapped(f, m).hd)
<1> DEFINE g == [f EXCEPT !.pos = m.pos]
           q == Mapped(f, m)
<1>1. DOMAIN f = EngineFields /\ InRange(m.pos) /\ InRange(f.hd)
  BY DEF Settled, Ready, WellMapped
<1>2. DOMAIN g = EngineFields /\ g.pos = m.pos /\ \A k \in EngineFields \ {"pos"} : g[k] = f[k]
  BY <1>1 DEF EngineFields
<1>3. m.kind # "none" => MapFits(g, m)
  BY DEF WellMapped
<1> HIDE DEF g
<1>4. /\ g.vram = f.vram /\ g.hd = f.hd /\ g.vd = f.vd /\ g.hdd = f.hdd /\ g.clip = f.clip
      /\ g.pre0 = f.pre0 /\ g.pre1 = f.pre1 /\ g.sprwi = f.sprwi /\ g.sprhi = f.sprhi
      /\ g.mem = f.mem /\ g.junk = f.junk /\ g.torn = f.torn
  BY <1>2 DEF EngineFields
<1>5. Only(f, g, Drawable) /\ Settled(g) /\ InRange(g.pos) /\ g.junk \in Int
  <2>1. Inks \ {"vram"} \subseteq EngineFields \ {"pos"}
    BY DEF Inks, EngineFields
  <2>2. Paints(g)
    BY <1>2, <1>4, <2>1, StillPaints DEF Settled, Ready
  <2> QED
    BY <1>1, <1>2, <1>4, <2>2 DEF Only, Inside, Settled, Ready, Drawable
<1>6. CASE m.kind = "none"
  <2>1. q = g
    BY <1>6 DEF Mapped, g
  <2> HIDE DEF q
  <2> QED
    BY <1>1, <1>4, <1>5, <2>1 DEF q
<1>7. CASE m.kind # "none"
  <2> DEFINE r == Rows(g, m)
             behind == Behind(f, m)
  <2>1. Only(g, r, Marks \union {"hd", "pos"}) /\ InRange(r.pos) /\ InRange(r.hd)
    BY <1>3, <1>5, <1>7, RowsOnly
  <2>2. q = [r EXCEPT !.pdata = behind]
    BY <1>7 DEF Mapped, g
  <2> HIDE DEF q, r, behind
  <2>3. DOMAIN q = EngineFields /\ \A k \in EngineFields \ {"pdata"} : q[k] = r[k]
    BY <2>1, <2>2 DEF Only, EngineFields
  <2>4. q.vram = r.vram /\ q.hd = r.hd /\ q.pos = r.pos /\ q.torn = r.torn
    BY <2>3 DEF EngineFields
  <2>5. Only(g, r, Drawable)
    BY <2>1, OnlyWider DEF Drawable, Marks
  <2>6. Only(g, q, Drawable)
    BY <2>3, <2>4, <2>5 DEF Only, Inside, Drawable
  <2>7. Only(f, q, Drawable)
    BY <1>5, <2>6, OnlyThen
  <2> QED
    BY <2>1, <2>4, <2>7 DEF q
<1> QED
  BY <1>6, <1>7
-----------------------------------------------------------------------------
(* A cel: loaded, and drawn.                                               *)
LEMMA DrawOnly ==
  ASSUME NEW f, Settled(f), InRange(f.pos), f.junk \in Int
  PROVE  /\ Only(f, Draw(f), Drawable \union {"sprwi", "sprhi"})
         /\ InRange(Draw(f).pos) /\ InRange(Draw(f).hd) /\ Draw(f).sprwi \in Int /\ Draw(f).sprhi \in Int
<1> DEFINE wide == IF IsPacked(f) THEN f.sprwi ELSE 1 + f.pre1.tlhpcnt
           high == IF IsLR(f) THEN 2 * f.pre0.vcnt + 2 ELSE 1 + f.pre0.vcnt
           g == Sized(f)
           m == Shape(g)
           q == Mapped(g, m)
<1>1. wide \in Int /\ high \in Int
  <2>1. f.pre1.tlhpcnt \in Nat /\ f.pre0.vcnt \in Nat /\ f.sprwi \in Int
    BY DEF Settled, Pre0s, Pre1s
  <2> QED
    BY <2>1
<1>2. g = [f EXCEPT !.sprwi = wide, !.sprhi = high]
  BY DEF Sized
<1> HIDE DEF wide, high, g
<1>3. /\ DOMAIN g = EngineFields /\ g.sprwi = wide /\ g.sprhi = high
      /\ \A k \in EngineFields \ {"sprwi", "sprhi"} : g[k] = f[k]
  <2>1. DOMAIN f = EngineFields
    BY DEF Settled, Ready
  <2>2. "sprwi" \in EngineFields /\ "sprhi" \in EngineFields
    BY DEF EngineFields
  <2>3. DOMAIN g = EngineFields
    BY <1>2, <2>1
  <2>4. g.sprwi = wide /\ g.sprhi = high
    BY <1>2, <2>1, <2>2
  <2>5. ASSUME NEW k \in EngineFields \ {"sprwi", "sprhi"}
        PROVE  g[k] = f[k]
    BY <1>2, <2>1, <2>5
  <2> QED
    BY <2>3, <2>4, <2>5
<1>4. /\ g.vram = f.vram /\ g.hd = f.hd /\ g.vd = f.vd /\ g.hdd = f.hdd /\ g.clip = f.clip
      /\ g.pre0 = f.pre0 /\ g.pre1 = f.pre1 /\ g.mem = f.mem /\ g.junk = f.junk /\ g.pos = f.pos
      /\ g.regctl3 = f.regctl3 /\ g.wmod = f.wmod /\ g.torn = f.torn
  BY <1>3 DEF EngineFields
<1>5. Settled(g) /\ InRange(g.pos) /\ g.junk \in Int /\ Window(g) = Window(f)
  <2>1. Inks \ {"vram"} \subseteq EngineFields \ {"sprwi", "sprhi"}
    BY DEF Inks, EngineFields
  <2>2. Paints(g)
    BY <1>3, <1>4, <2>1, StillPaints DEF Settled, Ready
  <2> QED
    BY <1>1, <1>3, <1>4, <2>2 DEF Settled, Ready, Window
<1>6. WellMapped(g, m)
  BY <1>5, ShapeFits
<1> HIDE DEF m
<1>7. Only(g, q, Drawable) /\ InRange(q.pos) /\ InRange(q.hd)
  BY <1>5, <1>6, MappedOnly
<1>8. q.sprwi = g.sprwi /\ q.sprhi = g.sprhi
  BY <1>7, OnlyKeeps
<1> HIDE DEF q
<1>9. Only(f, q, Drawable \union {"sprwi", "sprhi"})
  BY <1>3, <1>4, <1>5, <1>7 DEF Only, Inside
<1>10. q = Draw(f)
  BY DEF Draw, q, m, g
<1> QED
  BY <1>1, <1>3, <1>7, <1>8, <1>9, <1>10

(* Between two cels.                                                       *)
ClipOK(clip) == clip["x"] \in Coordinates /\ clip["y"] \in Coordinates

EngineOK(f) ==
  /\ DOMAIN f = EngineFields /\ ClipOK(f.clip) /\ Paints(f)
  /\ InRange(f.pos) /\ InRange(f.hd) /\ InRange(f.vd) /\ InRange(f.hdd)
  /\ f.pre0 \in Pre0s /\ f.pre1 \in Pre1s /\ f.sprwi \in Int /\ f.sprhi \in Int /\ f.stuck = FALSE

LEMMA ClipIn ==
  ASSUME NEW clip, ClipOK(clip)
  PROVE  clip["x"] \in Nat /\ clip["y"] \in Nat /\ clip["x"] <= 1023 /\ clip["y"] <= 1023
<1> DEFINE Small(n) == n \in Nat /\ n <= 1023
<1>1. \A n \in Coordinates : Small(n)
  BY DEF Coordinates
<1> HIDE DEF Small
<1>2. Small(clip["x"]) /\ Small(clip["y"])
  BY <1>1, Zenon DEF ClipOK
<1> QED
  BY <1>2 DEF Small

LEMMA WordIn == ASSUME scene \in DOMAIN Scenes, NEW a PROVE Word32(a) \in Int
<1>1. Maps(Mem.words, Int)
  BY CelAssumption DEF Mem, IsMemory
<1> QED
  BY <1>1 DEF Word32, Held, Maps

LEMMA PairsIn == ASSUME scene \in DOMAIN Scenes, NEW a PROVE InRange(Pair(a)) /\ InRange(Fine(a))
<1>1. Wrap(Word32(a)) \in Number /\ Wrap(Word32(a + 4)) \in Number
  BY WordIn, WrapIs
<1>2. \A r \in Nat, z \in Int : -r <= z /\ z < r => -r <= z \div 16 /\ z \div 16 < r
  OBVIOUS
<1>3. Wrap(Word32(a)) \div 16 \in Number /\ Wrap(Word32(a + 4)) \div 16 \in Number
  BY <1>1, <1>2, ReachIs
<1> QED
  BY <1>1, <1>3 DEF InRange, Axes, Pair, Fine

LoadedFields == {"flags", "pover", "pluta", "pos", "hd", "vd", "hdd", "pixc", "pdata", "pre0", "pre1",
                 "origin", "plut", "mem", "junk", "torn"}

LEMMA FlagsIn ==
  ASSUME scene \in DOMAIN Scenes, NEW c
  PROVE  Flags(c).pluta \in 0 .. 15 /\ Held(Mem.pixcs, c, NoPixc) \in Pixcs
<1>1. Maps(Mem.flags, FlagWords) /\ Maps(Mem.pixcs, Pixcs)
  BY CelAssumption DEF Mem, IsMemory
<1>2. \A f \in FlagWords : f.pluta \in 0 .. 15
  BY DEF FlagWords
<1>3. Flags(c).pluta \in 0 .. 15
  BY <1>1, <1>2 DEF Flags, Held, Maps
<1>4. NoPixc \in Pixcs
  BY DEF NoPixc, NoHalf, Pixcs, Halves
<1> QED
  BY <1>1, <1>3, <1>4 DEF Held, Maps

LEMMA GeometryOK ==
  ASSUME scene \in DOMAIN Scenes, NEW f, EngineOK(f), NEW c
  PROVE  EngineOK(Geometry(f, c)) /\ \A k \in EngineFields \ LoadedFields : Geometry(f, c)[k] = f[k]
<1> DEFINE g == Geometry(f, c)
           pos == IF On(c, "YOXY") THEN Pair(c + 16) ELSE f.pos
           hd == IF On(c, "LDSIZE") THEN Fine(SizeAt(c)) ELSE f.hd
           vd == IF On(c, "LDSIZE") THEN Pair(SizeAt(c) + 8) ELSE f.vd
           hdd == IF On(c, "LDPRS") THEN Fine(PrsAt(c)) ELSE f.hdd
           pixc == IF On(c, "LDPPMP") THEN Held(Mem.pixcs, PixcAt(c), NoPixc) ELSE f.pixc
<1>1. InRange(pos) /\ InRange(hd) /\ InRange(vd) /\ InRange(hdd)
  BY PairsIn DEF EngineOK
<1>2. g = [f EXCEPT !.flags = Flags(c).on, !.pover = Flags(c).pover, !.pluta = Flags(c).pluta,
                    !.pos = pos, !.hd = hd, !.vd = vd, !.hdd = hdd, !.pixc = pixc, !.pdata = Source(c)]
  BY DEF Geometry
<1>3. pixc \in Pixcs /\ Flags(c).pluta \in 0 .. 15
  BY FlagsIn DEF EngineOK, Paints
<1> HIDE DEF g, pos, hd, vd, hdd, pixc
<1>4. /\ DOMAIN g = EngineFields /\ g.pos = pos /\ g.hd = hd /\ g.vd = vd /\ g.hdd = hdd
      /\ g.clip = f.clip /\ g.pre0 = f.pre0 /\ g.pre1 = f.pre1 /\ g.sprwi = f.sprwi
      /\ g.sprhi = f.sprhi /\ g.stuck = f.stuck
  BY <1>2 DEF EngineOK, EngineFields
<1>5. /\ g.vram = f.vram /\ g.pixc = pixc /\ g.plut = f.plut /\ g.pluta = Flags(c).pluta
      /\ g.origin = f.origin
  BY <1>2 DEF EngineOK, EngineFields
<1>6. Paints(g)
  BY <1>3, <1>5 DEF EngineOK, Paints, Paletted
<1>7. \A k \in EngineFields \ LoadedFields : g[k] = f[k]
  BY <1>2 DEF EngineOK, EngineFields, LoadedFields
<1> QED
  BY <1>1, <1>4, <1>6, <1>7 DEF EngineOK, g

LEMMA PreamblesIn ==
  ASSUME scene \in DOMAIN Scenes, NEW a
  PROVE  Held(Mem.pre0s, a, NoPre0) \in Pre0s /\ Held(Mem.pre1s, a, NoPre1) \in Pre1s
<1>1. Maps(Mem.pre0s, Pre0s) /\ Maps(Mem.pre1s, Pre1s)
  BY CelAssumption DEF Mem, IsMemory
<1>2. NoPre0 \in Pre0s /\ NoPre1 \in Pre1s
  BY DEF NoPre0, NoPre1, Pre0s, Pre1s
<1> QED
  BY <1>1, <1>2 DEF Held, Maps

LEMMA PreambleOK ==
  ASSUME scene \in DOMAIN Scenes, NEW f, EngineOK(f), NEW c
  PROVE  EngineOK(Preamble(f, c)) /\ \A k \in EngineFields \ LoadedFields : Preamble(f, c)[k] = f[k]
<1> DEFINE inside == On(c, "CCBPRE")
           a == IF inside THEN PreAt(c) ELSE f.pdata
           pre0 == Held(Mem.pre0s, a, NoPre0)
           pre1 == IF On(c, "PACKED") THEN f.pre1 ELSE Held(Mem.pre1s, a + 4, NoPre1)
           pdata == IF inside THEN f.pdata ELSE f.pdata + IF On(c, "PACKED") THEN 4 ELSE 8
           g == [f EXCEPT !.pre0 = pre0, !.pre1 = pre1, !.pdata = pdata]
<1>1. pre0 \in Pre0s /\ pre1 \in Pre1s
  BY PreamblesIn DEF EngineOK
<1>2. Preamble(f, c) \in {f, g}
  BY DEF Preamble
<1> HIDE DEF pre0, pre1, pdata
<1>3. /\ DOMAIN g = EngineFields /\ g.pos = f.pos /\ g.hd = f.hd /\ g.vd = f.vd /\ g.hdd = f.hdd
      /\ g.clip = f.clip /\ g.pre0 = pre0 /\ g.pre1 = pre1 /\ g.sprwi = f.sprwi
      /\ g.sprhi = f.sprhi /\ g.stuck = f.stuck
  BY DEF EngineOK, EngineFields
<1>4. \A k \in EngineFields \ LoadedFields : g[k] = f[k]
  BY DEF EngineOK, EngineFields, LoadedFields
<1>5. \A k \in Inks : g[k] = f[k]
  BY DEF EngineOK, EngineFields, Inks
<1> HIDE DEF g
<1>6. Paints(g)
  <2>1. g.vram = f.vram
    BY <1>5 DEF Inks
  <2> QED
    BY <1>5, <2>1, StillPaints DEF EngineOK
<1>7. EngineOK(g)
  BY <1>1, <1>3, <1>6 DEF EngineOK
<1> QED
  BY <1>2, <1>4, <1>7

LEMMA FieldOK ==
  ASSUME NEW f, EngineOK(f), NEW k \in {"origin", "plut", "mem", "junk", "torn"}, NEW x,
         Paints([f EXCEPT ![k] = x])
  PROVE  EngineOK([f EXCEPT ![k] = x])
         /\ \A l \in EngineFields \ LoadedFields : [f EXCEPT ![k] = x][l] = f[l]
<1> DEFINE g == [f EXCEPT ![k] = x]
<1>1. /\ DOMAIN g = EngineFields /\ g.pos = f.pos /\ g.hd = f.hd /\ g.vd = f.vd /\ g.hdd = f.hdd
      /\ g.clip = f.clip /\ g.pre0 = f.pre0 /\ g.pre1 = f.pre1 /\ g.sprwi = f.sprwi
      /\ g.sprhi = f.sprhi /\ g.stuck = f.stuck
  BY DEF EngineOK, EngineFields
<1>2. \A l \in EngineFields \ LoadedFields : g[l] = f[l]
  BY DEF EngineOK, EngineFields, LoadedFields
<1> QED
  BY <1>1, <1>2 DEF EngineOK

LEMMA OtherFieldOK ==
  ASSUME NEW f, EngineOK(f), NEW k \in {"mem", "junk", "torn"}, NEW x
  PROVE  EngineOK([f EXCEPT ![k] = x])
         /\ \A l \in EngineFields \ LoadedFields : [f EXCEPT ![k] = x][l] = f[l]
<1> DEFINE g == [f EXCEPT ![k] = x]
<1>1. g.vram = f.vram /\ \A l \in Inks : g[l] = f[l]
  BY DEF EngineOK, EngineFields, Inks
<1> HIDE DEF g
<1>2. Paints(g)
  BY <1>1, StillPaints DEF EngineOK
<1> QED
  BY <1>2, FieldOK DEF g

LEMMA OriginOK ==
  ASSUME NEW f, EngineOK(f), NEW x, x[1] \in 0 .. 1, x[2] \in 0 .. 1
  PROVE  EngineOK([f EXCEPT !.origin = x])
         /\ \A l \in EngineFields \ LoadedFields : [f EXCEPT !.origin = x][l] = f[l]
<1> DEFINE g == [f EXCEPT !.origin = x]
<1>1. g.vram = f.vram /\ g.pixc = f.pixc /\ g.pluta = f.pluta /\ g.plut = f.plut /\ g.origin = x
  BY DEF EngineOK, EngineFields
<1> HIDE DEF g
<1>2. Paints(g)
  BY <1>1 DEF EngineOK, Paints, Paletted
<1> QED
  BY <1>2, FieldOK DEF g

LEMMA PlutOK ==
  ASSUME NEW f, EngineOK(f), NEW x, \A i \in 0 .. 31 : x[i] \in Pixels
  PROVE  EngineOK([f EXCEPT !.plut = x])
         /\ \A l \in EngineFields \ LoadedFields : [f EXCEPT !.plut = x][l] = f[l]
<1> DEFINE g == [f EXCEPT !.plut = x]
<1>1. g.vram = f.vram /\ g.pixc = f.pixc /\ g.pluta = f.pluta /\ g.plut = x /\ g.origin = f.origin
  BY DEF EngineOK, EngineFields
<1> HIDE DEF g
<1>2. Paints(g)
  BY <1>1 DEF EngineOK, Paints, Paletted
<1> QED
  BY <1>2, FieldOK DEF g

LEMMA LoadedOK ==
  ASSUME scene \in DOMAIN Scenes, NEW f, EngineOK(f), NEW c
  PROVE  EngineOK(Loaded(f, c)) /\ \A k \in EngineFields \ LoadedFields : Loaded(f, c)[k] = f[k]
<1> DEFINE o == Geometry(f, c)
           g == Preamble(o, c)
           h == [g EXCEPT !.origin = Origin(g.pos)]
           plut == [k \in 0 .. 31 |-> IF k < PlutSize(h.pre0.bpp)
                                      THEN Word32(Palette(c) + 2 * k) % 65536 ELSE h.plut[k]]
           p == [h EXCEPT !.plut = plut]
<1>1. EngineOK(o) /\ \A k \in EngineFields \ LoadedFields : o[k] = f[k]
  BY GeometryOK
<1>2. EngineOK(g) /\ \A k \in EngineFields \ LoadedFields : g[k] = o[k]
  BY <1>1, PreambleOK
<1>3. EngineOK(h) /\ \A k \in EngineFields \ LoadedFields : h[k] = g[k]
  <2> DEFINE origin == Origin(g.pos)
  <2>1. origin[1] \in 0 .. 1 /\ origin[2] \in 0 .. 1
    <3>1. g.pos["x"] \in Int /\ g.pos["y"] \in Int
      BY <1>2, ReachIs DEF EngineOK, InRange, Axes
    <3> HIDE DEF g
    <3> QED
      BY <3>1 DEF Origin
  <2> HIDE DEF g, origin
  <2> QED
    BY <1>2, <2>1, OriginOK DEF origin
<1>4. Loaded(f, c) \in {h, p}
  BY DEF Loaded, LoadPLUT
<1> HIDE DEF o, g, h
<1>5. \A i \in 0 .. 31 : plut[i] \in Pixels
  <2>1. \A a : Word32(a) % 65536 \in Pixels
    BY WordIn DEF Pixels
  <2>2. \A i \in 0 .. 31 : h.plut[i] \in Pixels
    BY <1>3 DEF EngineOK, Paints, Paletted
  <2> QED
    BY <2>1, <2>2
<1> HIDE DEF plut
<1>6. EngineOK(p) /\ \A k \in EngineFields \ LoadedFields : p[k] = h[k]
  BY <1>3, <1>5, PlutOK
<1> HIDE DEF p
<1> QED
  BY <1>1, <1>2, <1>3, <1>4, <1>6

LEMMA FetchedSettled ==
  ASSUME scene \in DOMAIN Scenes, EngineOK(e), NEW junk \in Int
  PROVE  LET f == Fetched(junk)
         IN /\ EngineOK(f) /\ Settled(f) /\ f.junk \in Int /\ Window(f) = Window(e) /\ f.vram = e.vram
            /\ f.torn = FALSE
            /\ \A k \in EngineFields \ LoadedFields : f[k] = e[k]
<1> DEFINE c == Align(Address(next))
           l == Loaded(e, c)
           g == [l EXCEPT !.mem = Mem]
           h == [g EXCEPT !.junk = junk]
           f == [h EXCEPT !.torn = FALSE]
<1>1. EngineOK(l) /\ \A k \in EngineFields \ LoadedFields : l[k] = e[k]
  BY LoadedOK
<1> HIDE DEF l
<1>2. EngineOK(g) /\ \A k \in EngineFields \ LoadedFields : g[k] = l[k]
  BY <1>1, OtherFieldOK
<1>3. DOMAIN g = EngineFields /\ g.mem = Mem
  BY <1>1 DEF EngineOK, EngineFields
<1> HIDE DEF g
<1>12. EngineOK(h) /\ \A k \in EngineFields \ LoadedFields : h[k] = g[k]
  BY <1>2, OtherFieldOK
<1>13. DOMAIN h = EngineFields /\ h.mem = Mem /\ h.junk = junk
  BY <1>3 DEF EngineFields
<1> HIDE DEF h
<1>4. EngineOK(f) /\ \A k \in EngineFields \ LoadedFields : f[k] = h[k]
  BY <1>12, OtherFieldOK
<1>5. f.mem = Mem /\ f.junk = junk /\ f.torn = FALSE
  BY <1>13 DEF EngineFields
<1>6. Fetched(junk) = f
  BY DEF Fetched, f, h, g, l, c
<1> HIDE DEF f
<1>7. \A k \in EngineFields \ LoadedFields : f[k] = e[k]
  BY <1>1, <1>2, <1>4, <1>12
<1>8. f.regctl3 = e.regctl3 /\ f.wmod = e.wmod /\ f.clip = e.clip /\ f.vram = e.vram
  BY <1>7 DEF EngineFields, LoadedFields
<1>9. Window(f) = Window(e)
  BY <1>8 DEF Window
<1>10. Maps(f.mem.rows, RowWords) /\ Maps(f.mem.words, Int) /\ Maps(f.mem.bitmaps, Seq(Pixels))
  BY <1>5, CelAssumption DEF Mem, IsMemory
<1>11. Settled(f)
  <2>1. /\ DOMAIN f = EngineFields /\ Paints(f) /\ ClipOK(f.clip)
        /\ InRange(f.hd) /\ InRange(f.vd) /\ InRange(f.hdd)
        /\ f.pre0 \in Pre0s /\ f.pre1 \in Pre1s /\ f.sprwi \in Int /\ f.sprhi \in Int
    BY <1>4 DEF EngineOK
  <2>2. /\ f.clip["x"] \in Nat /\ f.clip["x"] <= 1023 /\ f.clip["y"] \in Nat /\ f.clip["y"] <= 1023
        /\ IntPair(f.hd) /\ IntPair(f.vd) /\ IntPair(f.hdd)
    BY <2>1, ClipIn, RangePair
  <2> QED
    BY <1>10, <2>1, <2>2 DEF Settled, Ready
<1> QED
  BY <1>4, <1>5, <1>6, <1>7, <1>8, <1>9, <1>11

LEMMA CelDraws ==
  ASSUME scene \in DOMAIN Scenes, EngineOK(e), NEW junk \in Int
  PROVE  LET q == [Drawing(Fetched(junk)) EXCEPT !.mem = None, !.junk = 0]
         IN EngineOK(q) /\ Inside(e, q)
<1> DEFINE f == Fetched(junk)
           d == Drawing(f)
           g == [d EXCEPT !.mem = None]
           q == [g EXCEPT !.junk = 0]
<1>1. EngineOK(f) /\ Settled(f) /\ f.junk \in Int /\ Window(f) = Window(e) /\ f.vram = e.vram
  BY FetchedSettled
<1> HIDE DEF f
<1>2. Inside(f, f)
  BY DEF Inside
<1>3. EngineOK(d) /\ Inside(f, d)
  <2>1. CASE d = f
    BY <1>1, <1>2, <2>1
  <2>2. CASE d = Draw(f)
    <3> HIDE DEF d
    <3>1. /\ Only(f, d, Drawable \union {"sprwi", "sprhi"})
          /\ InRange(d.pos) /\ InRange(d.hd) /\ d.sprwi \in Int /\ d.sprhi \in Int
      BY <1>1, <2>2, DrawOnly DEF EngineOK
    <3>2. d.clip = f.clip /\ d.vd = f.vd /\ d.hdd = f.hdd /\ d.pre0 = f.pre0 /\ d.pre1 = f.pre1
          /\ d.stuck = f.stuck
      BY <3>1 DEF Only, Drawable, Marks, EngineFields
    <3>3. Paints(d)
      <4>1. Inks \ {"vram"} \subseteq EngineFields \ (Drawable \union {"sprwi", "sprhi"})
        BY DEF Inks, EngineFields, Drawable, Marks
      <4> QED
        BY <1>1, <3>1, <4>1, StillPaints DEF Only, EngineOK
    <3> QED
      BY <1>1, <3>1, <3>2, <3>3 DEF EngineOK, Only
  <2> QED
    BY <2>1, <2>2 DEF Drawing
<1> HIDE DEF d
<1>4. EngineOK(g) /\ \A k \in EngineFields \ LoadedFields : g[k] = d[k]
  BY <1>3, OtherFieldOK
<1> HIDE DEF g
<1>5. EngineOK(q) /\ \A k \in EngineFields \ LoadedFields : q[k] = g[k]
  BY <1>4, OtherFieldOK
<1>6. q.vram = d.vram
  BY <1>4, <1>5 DEF EngineFields, LoadedFields
<1>7. [d EXCEPT !.mem = None, !.junk = 0] = q
  BY DEF g
<1> HIDE DEF q
<1>8. Inside(e, q)
  BY <1>1, <1>3, <1>6 DEF Inside
<1> QED
  BY <1>5, <1>7, <1>8 DEF d, f
-----------------------------------------------------------------------------
(* The matrix engine.                                                      *)
LEMMA LongIn == ASSUME NEW z \in Int PROVE Long(z) \in Int
<1>1. \A i, k \in Nat \ {0} : i * k \in Nat \ {0}
  OBVIOUS
<1>2. FarLong \in Nat \ {0}
  BY <1>1, ReachIs DEF FarLong, Reach
<1> QED
  BY <1>2, AroundIs DEF Long

LEMMA OperandsIn ==
  ASSUME NEW o \in Matrices, NEW i \in 1 .. 4, NEW k \in 1 .. 4
  PROVE  o.m[i][k] \in Int /\ o.v[k] \in Int
<1>1. o.m \in [1 .. 4 -> [1 .. 4 -> Number]] /\ o.v \in [1 .. 4 -> Number]
  BY DEF Matrices
<1>2. o.m[i][k] \in Number /\ o.v[k] \in Number
  BY <1>1
<1> QED
  BY <1>2, ReachIs

LEMMA ExactIsDot ==
  ASSUME NEW o \in Matrices, NEW i \in 1 .. 4, NEW n \in {3, 4}
  PROVE  Exact(o, i, n) = Dot(o, i, n)
<1> DEFINE j == [does |-> "sum", o |-> o, i |-> i]
           P(g) == g = [k \in 0 .. n |-> IF k = 0 THEN 0 ELSE g[k - 1] + o.m[i][k] * o.v[k]]
           h == CHOOSE g : P(g)
           term(k) == o.m[i][k] * o.v[k]
<1>1. \A s, k : Turn(j, s, k) = s + o.m[i][k] * o.v[k]
  BY DEF Turn
<1> HIDE DEF j
<1>2. P(h)
  <2>1. PICK g : Loop(g, j, 0, n)
    BY LoopExists
  <2>2. P(g)
    BY <1>1, <2>1 DEF Loop
  <2> QED
    BY <2>2
<1>3. Exact(o, i, n) = Long(h[n]) \div One
  BY DEF Exact
<1> HIDE DEF h
<1>4. \A k \in 1 .. 4 : term(k) \in Int
  <2>1. ASSUME NEW k \in 1 .. 4 PROVE o.m[i][k] \in Int /\ o.v[k] \in Int
    BY OperandsIn
  <2>2. \A a, b \in Int : a * b \in Int
    OBVIOUS
  <2> QED
    BY <2>1, <2>2
<1>5. /\ h[0] = 0 /\ h[1] = h[0] + term(1) /\ h[2] = h[1] + term(2) /\ h[3] = h[2] + term(3)
      /\ n = 4 => h[4] = h[3] + term(4)
  BY <1>2
<1>6. Dot(o, i, n) = Long(term(1) + term(2) + term(3) + (IF n = 4 THEN term(4) ELSE 0)) \div One
  BY DEF Dot
<1> HIDE DEF term
<1>7. h[n] = term(1) + term(2) + term(3) + (IF n = 4 THEN term(4) ELSE 0)
  BY <1>4, <1>5
<1> QED
  BY <1>3, <1>6, <1>7

LEMMA DotIn ==
  ASSUME NEW o \in Matrices, NEW i \in 1 .. 4, NEW n \in {3, 4}
  PROVE  Dot(o, i, n) \in Int
<1> DEFINE term(k) == o.m[i][k] * o.v[k]
           sum == term(1) + term(2) + term(3) + (IF n = 4 THEN term(4) ELSE 0)
<1>1. \A k \in 1 .. 4 : term(k) \in Int
  <2>1. ASSUME NEW k \in 1 .. 4 PROVE o.m[i][k] \in Int /\ o.v[k] \in Int
    BY OperandsIn
  <2>2. \A a, b \in Int : a * b \in Int
    OBVIOUS
  <2> QED
    BY <2>1, <2>2
<1> HIDE DEF term
<1>2. sum \in Int
  BY <1>1
<1>3. Dot(o, i, n) = Long(sum) \div One
  BY DEF Dot, term
<1> HIDE DEF sum
<1> QED
  BY <1>2, <1>3, LongIn, OneAssumption

LEMMA QuotientIn == ASSUME NEW a \in Int, NEW b \in Int \ {0} PROVE Quotient(a, b) \in Int
<1>1. Abs(a) \in Nat /\ Abs(b) \in Nat \ {0}
  BY DEF Abs
<1>2. Abs(a) \div Abs(b) \in Int
  BY <1>1
<1> QED
  BY <1>2 DEF Quotient

LEMMA PerspectiveIs ==
  ASSUME NEW o \in Matrices, NEW x \in Int
  PROVE  /\ Perspective(o, x) \in Int
         /\ Dot(o, 3, 3) # 0 => Perspective(o, x) = Long(x * Quotient(o.n, Dot(o, 3, 3))) \div (One * One)
<1> DEFINE z == Dot(o, 3, 3)
           f == IF z = 0 THEN o.n ELSE Quotient(o.n, z)
<1>1. z \in Int /\ o.n \in Int
  BY DotIn DEF Matrices
<1> HIDE DEF z
<1>2. f \in Int
  BY <1>1, QuotientIn
<1>3. Perspective(o, x) = Long(x * f) \div (One * One)
  BY DEF Perspective, z
<1> HIDE DEF f
<1>4. x * f \in Int /\ One * One \in Nat \ {0}
  <2>1. \A a, b \in Int : a * b \in Int
    OBVIOUS
  <2>2. \A a, b \in Nat \ {0} : a * b \in Nat \ {0}
    OBVIOUS
  <2> QED
    BY <1>2, <2>1, <2>2, OneAssumption
<1>5. Perspective(o, x) \in Int
  BY <1>3, <1>4, LongIn
<1> QED
  BY <1>3, <1>5 DEF f, z

Quads == [1 .. 4 -> Int]
LowWords(q) == [i \in 1 .. 4 |-> Wrap(q[i])]

LEMMA LowWordsIn == ASSUME NEW q \in Quads PROVE LowWords(q) \in Quads
  BY WrapIs DEF Quads, LowWords

LEMMA ProductHeld ==
  ASSUME NEW command \in 1 .. 3, NEW o \in Matrices, NEW old \in Quads
  PROVE  /\ Product(command, o, old) \in Quads
         /\ ComputedFrom([command |-> command, in |-> o], LowWords(Product(command, o, old)))
<1> DEFINE out == Product(command, o, old)
           given == [command |-> command, in |-> o]
<1>1. \A i \in 1 .. 4, n \in {3, 4} : Exact(o, i, n) = Dot(o, i, n) /\ Dot(o, i, n) \in Int
  BY ExactIsDot, DotIn
<1>2. old[4] \in Int
  BY DEF Quads
<1>3. given.command = command /\ given.in = o
  OBVIOUS
<1> HIDE DEF given
<1>4. CASE command = 1
  <2>1. out = [i \in 1 .. 4 |-> Dot(o, i, 4)]
    BY <1>4 DEF Product
  <2> HIDE DEF out
  <2>2. out \in Quads /\ \A i \in 1 .. 4 : out[i] = Exact(o, i, 4)
    BY <1>1, <2>1 DEF Quads
  <2>3. ComputedFrom(given, LowWords(out))
    BY <1>3, <1>4, <2>2 DEF ComputedFrom, LowWords
  <2> QED
    BY <2>2, <2>3 DEF out, given
<1>5. CASE command = 2
  <2>1. out = [i \in 1 .. 4 |-> IF i = 4 THEN old[4] ELSE Dot(o, i, 3)]
    BY <1>5 DEF Product
  <2> HIDE DEF out
  <2>2. out \in Quads /\ \A i \in 1 .. 3 : out[i] = Exact(o, i, 3)
    BY <1>1, <1>2, <2>1 DEF Quads
  <2>3. ComputedFrom(given, LowWords(out))
    BY <1>3, <1>5, <2>2 DEF ComputedFrom, LowWords
  <2> QED
    BY <2>2, <2>3 DEF out, given
<1>6. CASE command = 3
  <2> DEFINE q(i) == Perspective(o, Dot(o, i, 3))
  <2>1. out = <<q(1), q(2), Dot(o, 3, 3), old[4]>>
    BY <1>6 DEF Product
  <2>2. /\ q(1) \in Int /\ q(2) \in Int
        /\ Dot(o, 3, 3) # 0 =>
             \A i \in 1 .. 2 : q(i) = Long(Dot(o, i, 3) * Quotient(o.n, Dot(o, 3, 3))) \div (One * One)
    BY <1>1, PerspectiveIs
  <2> HIDE DEF out, q
  <2>3. out \in Quads
    BY <1>1, <1>2, <2>1, <2>2 DEF Quads
  <2>4. out[1] = q(1) /\ out[2] = q(2) /\ out[3] = Dot(o, 3, 3)
    BY <2>1
  <2>5. ComputedFrom(given, LowWords(out))
    <3>1. CASE Exact(o, 3, 3) = 0
      BY <1>3, <1>6, <3>1 DEF ComputedFrom
    <3>2. CASE Exact(o, 3, 3) # 0
      <4>1. out[3] = Exact(o, 3, 3)
        BY <1>1, <2>4
      <4>2. \A i \in 1 .. 2 : out[i] = Long(Exact(o, i, 3) * Quotient(o.n, Exact(o, 3, 3))) \div (One * One)
        BY <1>1, <2>2, <2>4, <3>2
      <4> QED
        BY <1>3, <1>6, <3>2, <4>1, <4>2 DEF ComputedFrom, LowWords
    <3> QED
      BY <3>1, <3>2
  <2> QED
    BY <2>3, <2>5 DEF out, given
<1> QED
  BY <1>4, <1>5, <1>6
-----------------------------------------------------------------------------
(* Between two steps: the engine, the matrix engine, whose held back       *)
(* results belong to the command before, and the rest.                     *)
MatFields == {"in", "out", "held", "of", "given"}
MatOK ==
  /\ DOMAIN mat = MatFields
  /\ mat.in \in Matrices /\ mat.out \in Quads /\ mat.held \in Quads
  /\ ComputedFrom(mat.of, LowWords(mat.held)) /\ ComputedFrom(mat.given, mat.out)

ListOK == next \in Int /\ next % 4 = 0 /\ lists \in Nat
StateOK == fsm \in {"idle", "inprocess", "suspended"} /\ walking \in BOOLEAN

PbusFields == {"size", "dst", "len", "filled", "fiq"}
PbusOK ==
  /\ DOMAIN pbus = PbusFields
  /\ pbus.size \in Nat /\ pbus.size <= BufferSize /\ pbus.len \in Int /\ pbus.len >= -4

CelInv == scene \in DOMAIN Scenes /\ EngineOK(e) /\ MatOK /\ ListOK /\ StateOK /\ PbusOK

LEMMA InitOK == Init => CelInv
<1> SUFFICES ASSUME Init PROVE CelInv
  OBVIOUS
<1> DEFINE start == Scenes[scene].start
<1>1. scene \in DOMAIN Scenes
  BY DEF Init
<1>2. /\ start.clip \in [Axes -> Coordinates] /\ Scenes[scene].operands \in Matrices
  BY <1>1, CelAssumption
<1>3. e = Engine(start, Scenes[scene].vram)
  BY DEF Init
<1> HIDE DEF start
<1>4. /\ DOMAIN e = EngineFields /\ e.clip = start.clip /\ e.pos = Zero /\ e.hd = Zero /\ e.vd = Zero
      /\ e.hdd = Zero /\ e.pre0 = NoPre0 /\ e.pre1 = NoPre1 /\ e.sprwi = 0 /\ e.sprhi = 0
      /\ e.stuck = FALSE /\ e.vram = Scenes[scene].vram /\ e.pixc = NoPixc /\ e.pluta = 0
      /\ e.plut = [k \in 0 .. 31 |-> 0] /\ e.origin = <<0, 0>>
  BY <1>3 DEF Engine, EngineFields
<1>5. ClipOK(e.clip)
  <2>1. "x" \in Axes /\ "y" \in Axes
    BY DEF Axes
  <2> QED
    <3>1. start.clip["x"] \in Coordinates /\ start.clip["y"] \in Coordinates
      BY <1>2, <2>1, Zenon
    <3> QED
      BY <1>4, <3>1, Zenon DEF ClipOK
<1>6. InRange(Zero) /\ NoPre0 \in Pre0s /\ NoPre1 \in Pre1s
  BY UnitsIn DEF InRange, Axes, Zero, NoPre0, NoPre1, Pre0s, Pre1s
<1>7. EngineOK(e)
  <2>1. Maps(Scenes[scene].vram, Pixels) /\ 0 \in Pixels
    BY <1>1, CelAssumption DEF Pixels
  <2>2. NoPixc \in Pixcs
    BY DEF NoPixc, NoHalf, Pixcs, Halves
  <2>3. Paints(e)
    BY <1>4, <2>1, <2>2 DEF Paints, Paletted
  <2> QED
    BY <1>4, <1>5, <1>6, <2>3 DEF EngineOK
<1>8. MatOK
  <2> DEFINE blank == [i \in 1 .. 4 |-> 0]
  <2>1. mat = [in |-> Scenes[scene].operands, out |-> blank, held |-> blank, of |-> None, given |-> None]
    BY DEF Init
  <2>2. blank \in Quads
    BY DEF Quads
  <2>3. ComputedFrom(None, blank) /\ ComputedFrom(None, LowWords(blank))
    BY DEF ComputedFrom
  <2> HIDE DEF blank
  <2> QED
    BY <1>2, <2>1, <2>2, <2>3 DEF MatOK, MatFields
<1>9. ListOK
  <2>1. next = 0 /\ lists = 0
    BY DEF Init
  <2> QED
    BY <2>1 DEF ListOK
<1>10. StateOK
  BY DEF Init, StateOK
<1>11. PbusOK
  <2>1. DOMAIN pbus = PbusFields /\ pbus.size = 0 /\ pbus.len = -4
    BY DEF Init, PbusFields
  <2> QED
    BY <2>1 DEF PbusOK, BufferSize
<1> QED
  BY <1>1, <1>7, <1>8, <1>9, <1>10, <1>11 DEF CelInv

(* A pointer of an aligned CCB is aligned.                                 *)
LEMMA NextAligned ==
  ASSUME scene \in DOMAIN Scenes, NEW c \in Int, c % 4 = 0
  PROVE  Next32(c) \in Int /\ Next32(c) % 4 = 0
<1> DEFINE w == Align(Word32(c + 4))
<1>1. w \in Int /\ w % 4 = 0
  BY WordIn DEF Align
<1>2. Next32(c) \in {w, Address(w + c + 4 + 4)}
  BY DEF Next32, Pointer
<1> HIDE DEF w
<1>3. Address(w + c + 4 + 4) \in Int /\ Address(w + c + 4 + 4) % 4 = 0
  BY <1>1 DEF Address, Megabyte
<1> QED
  BY <1>1, <1>2, <1>3

LEMMA CelKeeps ==
  ASSUME CelInv, Cel
  PROVE  CelInv' /\ Inside(e, e')
<1>1. PICK junk \in Junk : e' = [Drawing(Fetched(junk)) EXCEPT !.mem = None, !.junk = 0]
  BY DEF Cel
<1>2. junk \in Int
  BY CelAssumption
<1>3. EngineOK(e') /\ Inside(e, e')
  BY <1>1, <1>2, CelDraws DEF CelInv
<1>4. ListOK'
  <2> DEFINE c == Align(Address(next))
  <2>1. c \in Int /\ c % 4 = 0
    BY DEF CelInv, ListOK, Align, Address, Megabyte
  <2>2. next' \in {0, Next32(c)} /\ lists' = lists
    BY DEF Cel
  <2> HIDE DEF c
  <2>3. Next32(c) \in Int /\ Next32(c) % 4 = 0
    BY <2>1, NextAligned DEF CelInv
  <2>4. next' \in Int /\ next' % 4 = 0
    <3>1. CASE next' = 0
      BY <3>1
    <3>2. CASE next' = Next32(c)
      BY <2>3, <3>2
    <3> QED
      BY <2>2, <3>1, <3>2
  <2> QED
    BY <2>2, <2>4 DEF CelInv, ListOK
<1>5. UNCHANGED <<scene, fsm, walking, mat, pbus>>
  BY DEF Cel
<1> QED
  BY <1>3, <1>4, <1>5 DEF CelInv, MatOK, StateOK, PbusOK

LEMMA RegisterKeeps ==
  ASSUME EngineOK(e), NEW p, IsPoke(p), Register(p)
  PROVE  EngineOK(e')
<1>1. CASE p.reg = "REGCTL1"
  <2> DEFINE x == p.val % 1024
             y == (p.val \div 65536) % 1024
             clip == [x |-> x, y |-> y]
  <2>1. p.val \in Nat
    BY <1>1 DEF IsPoke
  <2>2. \A n \in Int : n % 1024 \in Coordinates
    BY DEF Coordinates
  <2>3. p.val \in Int /\ p.val \div 65536 \in Int
    BY <2>1
  <2>4. x \in Coordinates
    BY <2>2, <2>3
  <2>5. y \in Coordinates
    BY <2>2, <2>3
  <2>6. ClipOK(clip)
    <3> HIDE DEF x, y
    <3> QED
      BY <2>4, <2>5 DEF ClipOK
  <2>7. e' = [e EXCEPT !.clip = clip]
    BY <1>1 DEF Register
  <2> HIDE DEF clip
  <2>8. /\ DOMAIN e' = EngineFields /\ e'.clip = clip /\ e'.pos = e.pos /\ e'.hd = e.hd /\ e'.vd = e.vd
        /\ e'.hdd = e.hdd /\ e'.pre0 = e.pre0 /\ e'.pre1 = e.pre1 /\ e'.sprwi = e.sprwi
        /\ e'.sprhi = e.sprhi /\ e'.stuck = e.stuck
    BY <2>7 DEF EngineOK, EngineFields
  <2>9. Paints(e')
    <3>1. e'.vram = e.vram /\ \A k \in Inks : e'[k] = e[k]
      BY <2>7 DEF EngineOK, EngineFields, Inks
    <3> QED
      BY <3>1, StillPaints DEF EngineOK
  <2> QED
    BY <2>6, <2>8, <2>9 DEF EngineOK
<1>2. CASE p.reg # "REGCTL1"
  <2>1. p.reg \in {"REGCTL0", "REGCTL2", "REGCTL3", "CCBCTL0"}
    BY <1>2 DEF IsPoke
  <2>2. /\ DOMAIN e' = EngineFields /\ e'.clip = e.clip /\ e'.pos = e.pos /\ e'.hd = e.hd /\ e'.vd = e.vd
        /\ e'.hdd = e.hdd /\ e'.pre0 = e.pre0 /\ e'.pre1 = e.pre1 /\ e'.sprwi = e.sprwi
        /\ e'.sprhi = e.sprhi /\ e'.stuck = e.stuck
    BY <2>1 DEF EngineOK, EngineFields, Register
  <2>3. Paints(e')
    <3>1. e'.vram = e.vram /\ \A k \in Inks : e'[k] = e[k]
      BY <2>1 DEF EngineOK, EngineFields, Inks, Register
    <3> QED
      BY <3>1, StillPaints DEF EngineOK
  <2> QED
    BY <2>2, <2>3 DEF EngineOK
<1> QED
  BY <1>1, <1>2

LEMMA MatrixKeeps ==
  ASSUME MatOK, NEW command, Matrix(command)
  PROVE  MatOK'
<1> DEFINE cut == LowWords(mat.held)
<1>4. cut \in Quads /\ ComputedFrom(mat.of, cut)
  BY LowWordsIn DEF MatOK
<1>5. cut = [i \in 1 .. 4 |-> Wrap(mat.held[i])]
  BY DEF LowWords
<1> HIDE DEF cut
<1>1. CASE command = 0
  <2>1. mat' = [mat EXCEPT !.out = cut, !.held = mat.held, !.of = mat.of, !.given = mat.of]
    BY <1>1, <1>5 DEF Matrix, Product
  <2>2. /\ DOMAIN mat' = MatFields /\ mat'.in = mat.in /\ mat'.out = cut /\ mat'.held = mat.held
        /\ mat'.of = mat.of /\ mat'.given = mat.of
    BY <2>1 DEF MatOK, MatFields
  <2> QED
    BY <1>4, <2>2 DEF MatOK
<1>2. CASE command \in 1 .. 3
  <2> DEFINE product == Product(command, mat.in, mat.held)
             of == [command |-> command, in |-> mat.in]
  <2>1. mat' = [mat EXCEPT !.out = cut, !.held = product, !.of = of, !.given = mat.of]
    <3>1. command \in 0 .. 3 /\ command # 0
      BY <1>2
    <3> QED
      BY <1>5, <3>1, Zenon DEF Matrix
  <2>2. product \in Quads /\ ComputedFrom(of, LowWords(product))
    BY <1>2, ProductHeld DEF MatOK
  <2> HIDE DEF product, of
  <2>3. /\ DOMAIN mat' = MatFields /\ mat'.in = mat.in /\ mat'.out = cut /\ mat'.held = product
        /\ mat'.of = of /\ mat'.given = mat.of
    BY <2>1 DEF MatOK, MatFields
  <2> QED
    BY <1>4, <2>2, <2>3 DEF MatOK
<1>3. CASE command \notin 0 .. 3
  BY <1>3 DEF Matrix, MatOK
<1> QED
  BY <1>1, <1>2, <1>3

LEMMA OperandsKeep ==
  ASSUME MatOK, NEW o \in Matrices, Operands(o)
  PROVE  MatOK'
<1>1. mat' = [mat EXCEPT !.in = o]
  BY DEF Operands
<1>2. /\ DOMAIN mat' = MatFields /\ mat'.in = o /\ mat'.out = mat.out /\ mat'.held = mat.held
      /\ mat'.of = mat.of /\ mat'.given = mat.given
  BY <1>1 DEF MatOK, MatFields
<1> QED
  BY <1>2 DEF MatOK

LEMMA TransferKeeps ==
  ASSUME PbusOK, NEW request, Transfer(request)
  PROVE  PbusOK'
<1>1. CASE request /\ pbus.len >= 0
  <2>1. DOMAIN pbus' = PbusFields /\ pbus'.size = Lesser(pbus.size + 8, BufferSize) /\ pbus'.len = -4
    BY <1>1 DEF Transfer, PbusFields
  <2> QED
    BY <2>1 DEF PbusOK, Lesser, BufferSize
<1>2. CASE ~(request /\ pbus.len >= 0)
  <2>1. pbus' = [pbus EXCEPT !.fiq = request, !.filled = {}]
    BY <1>2 DEF Transfer
  <2>2. DOMAIN pbus' = PbusFields /\ pbus'.size = pbus.size /\ pbus'.len = pbus.len
    BY <2>1 DEF PbusOK, PbusFields
  <2> QED
    BY <2>2 DEF PbusOK
<1> QED
  BY <1>1, <1>2

LEMMA SetTransferKeeps ==
  ASSUME PbusOK, NEW dst \in Int, NEW len \in Int, len >= -4, SetTransfer(dst, len)
  PROVE  PbusOK'
<1>1. DOMAIN pbus' = PbusFields /\ pbus'.size = pbus.size /\ pbus'.len = len
  BY DEF SetTransfer, PbusOK, PbusFields
<1> QED
  BY <1>1 DEF PbusOK

LEMMA NextKeeps == CelInv /\ [Next]_vars => CelInv'
<1> SUFFICES ASSUME CelInv, [Next]_vars PROVE CelInv'
  OBVIOUS
<1> DEFINE s == Scenes[scene]
<1>1. CASE Walk
  BY <1>1 DEF Walk, CelInv, MatOK, ListOK, StateOK, PbusOK
<1>2. CASE Cel
  BY <1>2, CelKeeps
<1>3. CASE Idle
  BY <1>3 DEF Idle, CelInv, MatOK, ListOK, StateOK, PbusOK
<1>4. ASSUME NEW name, Command(name) PROVE CelInv'
  <2>1. ListOK' /\ StateOK'
    BY <1>4 DEF Command, CelInv, ListOK, StateOK
  <2>2. UNCHANGED <<scene, e, mat, pbus>>
    BY <1>4 DEF Command
  <2> QED
    BY <2>1, <2>2 DEF CelInv, MatOK, PbusOK
<1>5. ASSUME NEW a \in s.lists, SetNext(a) PROVE CelInv'
  <2>1. a \in Int /\ a % 4 = 0
    BY CelAssumption DEF CelInv
  <2> QED
    BY <1>5, <2>1 DEF SetNext, CelInv, MatOK, ListOK, StateOK, PbusOK
<1>6. ASSUME NEW p \in s.pokes, Register(p) PROVE CelInv'
  <2>1. IsPoke(p)
    BY CelAssumption DEF CelInv
  <2>2. EngineOK(e')
    BY <1>6, <2>1, RegisterKeeps DEF CelInv
  <2>3. UNCHANGED <<scene, fsm, walking, next, lists, mat, pbus>>
    BY <1>6 DEF Register
  <2> QED
    BY <2>2, <2>3 DEF CelInv, MatOK, ListOK, StateOK, PbusOK
<1>7. ASSUME NEW o \in s.matrices, Operands(o) PROVE CelInv'
  <2>1. o \in Matrices
    BY CelAssumption DEF CelInv
  <2>2. MatOK'
    BY <1>7, <2>1, OperandsKeep DEF CelInv
  <2>3. UNCHANGED <<scene, e, fsm, walking, next, lists, pbus>>
    BY <1>7 DEF Operands
  <2> QED
    BY <2>2, <2>3 DEF CelInv, ListOK, StateOK, PbusOK
<1>8. ASSUME NEW command, Matrix(command) PROVE CelInv'
  <2>1. MatOK'
    BY <1>8, MatrixKeeps DEF CelInv
  <2>2. UNCHANGED <<scene, e, fsm, walking, next, lists, pbus>>
    BY <1>8 DEF Matrix
  <2> QED
    BY <2>1, <2>2 DEF CelInv, ListOK, StateOK, PbusOK
<1>9. ASSUME NEW t \in s.transfers, SetTransfer(t.dst, t.len) PROVE CelInv'
  <2>1. t.dst \in Int /\ t.len \in Int /\ t.len >= -4
    BY CelAssumption DEF CelInv
  <2>2. PbusOK'
    BY <1>9, <2>1, SetTransferKeeps DEF CelInv
  <2>3. UNCHANGED <<scene, e, fsm, walking, next, lists, mat>>
    BY <1>9 DEF SetTransfer
  <2> QED
    BY <2>2, <2>3 DEF CelInv, MatOK, ListOK, StateOK
<1>10. ASSUME NEW request, Transfer(request) PROVE CelInv'
  <2>1. PbusOK'
    BY <1>10, TransferKeeps DEF CelInv
  <2>2. UNCHANGED <<scene, e, fsm, walking, next, lists, mat>>
    BY <1>10 DEF Transfer
  <2> QED
    BY <2>1, <2>2 DEF CelInv, MatOK, ListOK, StateOK
<1>13. CASE Hang
  BY <1>13 DEF Hang, vars, CelInv, MatOK, ListOK, StateOK, PbusOK
<1>11. CASE UNCHANGED vars
  BY <1>11 DEF vars, CelInv, MatOK, ListOK, StateOK, PbusOK
<1>12. CASE Cpu
  BY <1>4, <1>5, <1>6, <1>7, <1>8, <1>9, <1>10, <1>12 DEF Cpu
<1> QED
  BY <1>1, <1>2, <1>3, <1>11, <1>12, <1>13 DEF Next, Run

(* No cel draws outside the window, whatever its map, its format and what  *)
(* it reads from an uninitialised position (opera_madam.c:2733-3048).      *)
THEOREM WindowCorrect == Spec => InsideWindow
<1> DEFINE A == walking /\ walking' =>
                  \A a \in DOMAIN e'.vram :
                    a \in Window(e) \/ (a \in DOMAIN e.vram /\ e'.vram[a] = e.vram[a])
<1>1. CelInv /\ [Next]_vars => [A]_vars
  <2> SUFFICES ASSUME CelInv, Next, walking, walking' PROVE A
    OBVIOUS
  <2>1. Cel \/ Hang
    BY DEF Next, Run, Walk, Idle
  <2>2. CASE Cel
    <3>1. Inside(e, e')
      BY <2>2, CelKeeps
    <3> QED
      BY <3>1 DEF Inside
  <2>3. CASE Hang
    BY <2>3 DEF Hang, vars
  <2> QED
    BY <2>1, <2>2, <2>3
<1>2. Spec => [][A]_vars
  BY <1>1, InitOK, NextKeeps, PTL DEF Spec
<1> QED
  BY <1>2 DEF InsideWindow

(* The registers, the frame, the matrix engine and the player bus keep to  *)
(* their ranges, no cel hangs the engine, and the results shown are those  *)
(* of the command before (opera_madam.c:646-759, 888-1130, 2808-2852).     *)
THEOREM CelCorrect == Spec => []Inv
<1>1. CelInv => TypeOK
  <2> SUFFICES ASSUME CelInv PROVE TypeOK
    OBVIOUS
  <2>1. \A a \in DOMAIN e.vram : e.vram[a] \in Pixels
    BY DEF CelInv, EngineOK, Paints, Maps
  <2>2. \A a \in Axes : {e.pos[a], e.hd[a], e.vd[a], e.hdd[a]} \subseteq Number
    BY DEF CelInv, EngineOK, InRange
  <2>3. \A a \in Axes : e.clip[a] \in Coordinates
    BY DEF CelInv, EngineOK, ClipOK, Axes
  <2>4. \A i \in 1 .. 4 : mat.out[i] \in Int /\ mat.held[i] \in Int
    BY DEF CelInv, MatOK, Quads
  <2>5. pbus.size \in 0 .. BufferSize /\ pbus.len >= -4
    BY DEF CelInv, PbusOK, BufferSize
  <2> QED
    BY <2>1, <2>2, <2>3, <2>4, <2>5 DEF TypeOK, CelInv, ListOK, StateOK
<1>2. CelInv => NeverStuck
  BY DEF CelInv, EngineOK, NeverStuck
<1>3. CelInv => ResultsHeld
  BY DEF CelInv, MatOK, ResultsHeld
<1> QED
  BY <1>1, <1>2, <1>3, InitOK, NextKeeps, PTL DEF Spec, Inv

(* Colours that are added do not wrap around, whatever PIXC and the flags  *)
(* say (opera_madam.c:1476-1647).                                          *)
THEOREM ColoursSaturate == Spec => []Saturates
<1>1. CelInv => Saturates
  <2> SUFFICES ASSUME CelInv PROVE Saturates
    OBVIOUS
  <2>1. /\ e.pixc \in Pixcs /\ \A k \in 0 .. 31 : e.plut[k] \in Pixels
        /\ \A a \in DOMAIN e.vram : e.vram[a] \in Pixels
    BY DEF CelInv, EngineOK, Paints, Paletted, Maps
  <2>2. ASSUME NEW d \in {e.plut[k] : k \in 0 .. 31}, NEW a \in DOMAIN e.vram, NEW c \in Colours
        PROVE  LET b == Blend(e, c, d, e.vram[a], Same(1)) sum == b.sum \div b.by IN
               b.clip => Mixed(e, c, d, e.vram[a], Same(1)) =
                           IF sum > 127 THEN 0 ELSE Greater(Lesser(sum, 31), 0)
    <3>1. d \in Pixels /\ e.vram[a] \in Pixels
      BY <2>1
    <3> QED
      BY <2>1, <3>1, MixedSaturates
  <2> QED
    BY <2>2 DEF Saturates
<1> QED
  BY <1>1, InitOK, NextKeeps, PTL DEF Spec

-----------------------------------------------------------------------------
(* Faces.  Of two edges that cross a line of the screen, the one on the    *)
(* left meets it on the left, although the places where they meet it are   *)
(* rounded towards the upper ends of the edges.                            *)
LEMMA QuotientNear ==
  ASSUME NEW n \in Int, NEW d \in Int, d > 0
  PROVE  /\ Quotient(n, d) \in Int
         /\ n >= 0 => Quotient(n, d) >= 0 /\ d * Quotient(n, d) <= n /\ n < d * Quotient(n, d) + d
         /\ n < 0 => Quotient(n, d) <= 0 /\ d * Quotient(n, d) >= n /\ n > d * Quotient(n, d) - d
<1> DEFINE m == Abs(n) \div d
<1>1. Abs(d) = d /\ Abs(n) \in Nat /\ (n >= 0 => Abs(n) = n) /\ (n < 0 => Abs(n) = -n)
  BY DEF Abs
<1>2. m \in Nat /\ d * m <= Abs(n) /\ Abs(n) < d * m + d
  BY <1>1
<1>3. Quotient(n, d) = IF n < 0 THEN -m ELSE m
  BY <1>1 DEF Quotient
<1> HIDE DEF m
<1>4. d * (-m) = -(d * m) /\ d * m \in Int
  BY <1>2
<1>5. CASE n < 0
  BY <1>1, <1>2, <1>3, <1>4, <1>5
<1>6. CASE n >= 0
  BY <1>1, <1>2, <1>3, <1>4, <1>6
<1> QED
  BY <1>5, <1>6

LEMMA Signs ==
  /\ \A i, k \in Int : i * k \in Int
  /\ \A i, k \in Int : i >= 0 /\ k >= 0 => i * k >= 0
  /\ \A i, k \in Int : i <= 0 /\ k >= 0 => i * k <= 0
  /\ \A i, k \in Int : i * k >= 0 /\ k > 0 => i >= 0
  /\ \A i, k \in Int : i * k <= 0 /\ k > 0 => i <= 0
OBVIOUS

(* Two numbers that are rounded; s is the first less the second, times     *)
(* both denominators.                                                      *)
LEMMA RoundedApart ==
  ASSUME NEW n \in Int, NEW d \in Int, d > 0, NEW a \in Int,
         NEW k \in Int, NEW g \in Int, g > 0, NEW p \in Int,
         k * d - n * g + (p - a) * (d * g) >= 0, n >= 0 \/ k < 0
  PROVE  Quotient(n, d) + a <= Quotient(k, g) + p
<1> DEFINE v == Quotient(n, d)
           w == Quotient(k, g)
           L(x) == n - d * (x - a)
           R(x) == k - g * (x - p)
           s == k * d - n * g + (p - a) * (d * g)
<1>1. v \in Int /\ w \in Int
      /\ (n >= 0 => d * v <= n /\ n < d * v + d) /\ (n < 0 => d * v >= n /\ n > d * v - d)
      /\ (k >= 0 => g * w <= k /\ k < g * w + g) /\ (k < 0 => g * w >= k /\ k > g * w - g)
  BY QuotientNear
<1> HIDE DEF v, w
<1>2. \A x \in Int : R(x) * d - L(x) * g = s /\ L(x) \in Int /\ R(x) \in Int
  OBVIOUS
<1>3. s >= 0 /\ s \in Int
  OBVIOUS
<1>4. \A x, z \in Int : L(x) = L(z) + d * (z - x) /\ R(x) = R(z) + g * (z - x)
  OBVIOUS
<1>5. L(v + a) = n - d * v /\ R(w + p) = k - g * w /\ d * v \in Int /\ g * w \in Int
  BY <1>1
<1> HIDE DEF L, R, s
<1>6. SUFFICES ASSUME v + a >= w + p + 1 PROVE FALSE
  BY <1>1 DEF v, w
<1> DEFINE x == v + a
           z == w + p
<1>7. x \in Int /\ z \in Int /\ x - z - 1 >= 0 /\ x - z - 1 \in Int
  BY <1>1, <1>6
<1>8. /\ d * (x - z) = d + d * (x - z - 1) /\ g * (x - z) = g + g * (x - z - 1)
      /\ d * (x - z - 1) >= 0 /\ g * (x - z - 1) >= 0
  BY <1>7, Signs
<1> HIDE DEF x, z
<1> DEFINE dd == d * (x - z - 1)
           gg == g * (x - z - 1)
<1>9. L(z) = L(x) + d + dd /\ R(z) = R(x) + g + gg /\ dd \in Nat /\ gg \in Nat
  <2>1. L(z) = L(x) + d * (x - z) /\ R(z) = R(x) + g * (x - z)
    BY <1>4, <1>7
  <2>2. dd \in Int /\ gg \in Int
    BY <1>7, Signs
  <2>3. L(x) \in Int /\ R(x) \in Int
    BY <1>2, <1>7
  <2>4. d * (x - z) = d + dd /\ g * (x - z) = g + gg /\ dd >= 0 /\ gg >= 0
    BY <1>8
  <2> HIDE DEF dd, gg
  <2> QED
    BY <2>1, <2>2, <2>3, <2>4
<1> HIDE DEF dd, gg
<1>10. L(x) \in Int /\ R(x) \in Int /\ L(z) \in Int /\ R(z) \in Int
  BY <1>2, <1>7
<1>11. CASE n >= 0
  <2>1. L(x) >= 0
    BY <1>1, <1>5, <1>11 DEF x
  <2>2. L(x) * g >= 0 /\ L(x) * g \in Int /\ R(x) * d \in Int
    BY <1>10, <2>1, Signs
  <2>3. R(x) * d >= 0
    BY <1>2, <1>3, <1>7, <2>2
  <2>4. R(x) >= 0
    BY <1>10, <2>3, Signs
  <2>5. R(z) < g
    BY <1>1, <1>5 DEF z
  <2> QED
    BY <1>9, <1>10, <2>4, <2>5
<1>12. CASE n < 0
  <2>1. k < 0 /\ R(z) <= 0 /\ L(x) > -d
    BY <1>1, <1>5, <1>12 DEF x, z
  <2>2. R(z) * d <= 0 /\ L(z) * g \in Int /\ R(z) * d \in Int
    BY <1>10, <2>1, Signs
  <2>3. L(z) * g <= 0
    BY <1>2, <1>3, <1>7, <2>2
  <2>4. L(z) <= 0
    BY <1>10, <2>3, Signs
  <2> QED
    BY <1>9, <1>10, <2>1, <2>4
<1> QED
  BY <1>11, <1>12

(* One edge goes from u down to v, one from p down to q, and the other     *)
(* edge's ends lie on either's side.                                       *)
Area(u, v, at) == (v["x"] - u["x"]) * (at["y"] - u["y"]) - (v["y"] - u["y"]) * (at["x"] - u["x"])

LEMMA EdgesApart ==
  ASSUME NEW u, NEW v, NEW p, NEW q, IntPair(u), IntPair(v), IntPair(p), IntPair(q), NEW y \in Int,
         u["y"] <= y, y < v["y"], p["y"] <= y, y < q["y"],
         Area(u, v, p) <= 0, Area(u, v, q) <= 0, Area(p, q, u) >= 0, Area(p, q, v) >= 0,
         ~Spoilt(u, v, y), ~Spoilt(p, q, y)
  PROVE  Meets(u, v, y) <= Meets(p, q, y)
<1> DEFINE ux == u["x"] uy == u["y"] vx == v["x"] vy == v["y"]
           px == p["x"] py == p["y"] qx == q["x"] qy == q["y"]
           d == vy - uy
           g == qy - py
           n(t) == (vx - ux) * (t - uy)
           k(t) == (qx - px) * (t - py)
           s(t) == k(t) * d - n(t) * g + (px - ux) * (d * g)
           slope == (qx - px) * d - (vx - ux) * g
<1>1. /\ ux \in Int /\ uy \in Int /\ vx \in Int /\ vy \in Int
      /\ px \in Int /\ py \in Int /\ qx \in Int /\ qy \in Int
  BY DEF IntPair, Axes
<1>2. uy <= y /\ y < vy /\ py <= y /\ y < qy
  OBVIOUS
<1>3. /\ n(py) - d * (px - ux) <= 0 /\ n(qy) - d * (qx - ux) <= 0
      /\ k(uy) - g * (ux - px) >= 0 /\ k(vy) - g * (vx - px) >= 0
  BY DEF Area
<1>4. Meets(u, v, y) = Quotient(n(y), d) + ux /\ Meets(p, q, y) = Quotient(k(y), g) + px
  <2>1. Narrow(Rise(u, v, y)) = n(y) /\ Narrow(Rise(p, q, y)) = k(y)
    BY <1>2 DEF Spoilt, Rise
  <2> QED
    BY <2>1 DEF Meets
<1> HIDE DEF ux, uy, vx, vy, px, py, qx, qy
<1>5. d \in Int /\ g \in Int /\ d > 0 /\ g > 0
  BY <1>1, <1>2
<1>6. \A t \in Int : n(t) \in Int /\ k(t) \in Int
  BY <1>1, Signs
<1>7. \A t, z \in Int : s(t) = s(z) + slope * (t - z)
  BY <1>1
<1>8. /\ s(py) = g * (d * (px - ux) - n(py)) /\ s(uy) = d * (k(uy) - g * (ux - px))
      /\ s(qy) = g * (d * (qx - ux) - n(qy)) /\ s(vy) = d * (k(vy) - g * (vx - px))
  BY <1>1
<1>9. s(y) >= 0
  <2>1. s(py) >= 0 /\ s(qy) >= 0
    <3>1. \A i, j \in Int : i - j <= 0 => j - i >= 0
      OBVIOUS
    <3>2. d * (px - ux) \in Int /\ d * (qx - ux) \in Int /\ n(py) \in Int /\ n(qy) \in Int
      BY <1>1, <1>5, <1>6, Signs
    <3>3. d * (px - ux) - n(py) >= 0 /\ d * (qx - ux) - n(qy) >= 0
      BY <1>3, <3>1, <3>2
    <3> HIDE DEF d, n, s
    <3> QED
      BY <1>5, <1>8, <3>2, <3>3, Signs
  <2> DEFINE high == slope * (y - py) low == slope * (y - qy)
  <2>2. slope \in Int /\ s(py) \in Int /\ s(qy) \in Int
    BY <1>1, Signs
  <2>3. s(y) = s(py) + high /\ s(y) = s(qy) + low
    BY <1>1, <1>7
  <2> HIDE DEF s, slope
  <2>4. slope >= 0 => high \in Int /\ high >= 0
    BY <1>1, <1>2, <2>2, Signs
  <2>5. slope < 0 => low \in Int /\ low >= 0
    <3>1. low = (-slope) * (qy - y)
      BY <1>1, <2>2
    <3> HIDE DEF low
    <3> QED
      BY <1>1, <1>2, <2>2, <3>1, Signs
  <2> HIDE DEF high, low
  <2> QED
    BY <2>1, <2>2, <2>3, <2>4, <2>5
<1>10. CASE n(y) >= 0 \/ k(y) < 0
  <2>1. n(y) \in Int /\ k(y) \in Int
    BY <1>6
  <2>2. k(y) * d - n(y) * g + (px - ux) * (d * g) >= 0
    BY <1>9
  <2> HIDE DEF n, k, d, g, s
  <2> QED
    BY <1>1, <1>4, <1>5, <1>10, <2>1, <2>2, RoundedApart, SMTT(30)
<1>11. CASE n(y) < 0 /\ k(y) >= 0
  <2> DEFINE w == Quotient(n(y), d)
             o == Quotient(k(y), g)
             room == px - ux
             more == (vx - ux) * (y - py)
  <2>1. n(y) \in Int /\ k(y) \in Int /\ n(py) \in Int /\ room \in Int /\ d * room \in Int
    BY <1>1, <1>5, <1>6, Signs
  <2>2. w \in Int /\ n(y) > d * w - d /\ o \in Int /\ o >= 0
    <3> HIDE DEF n, k, d, g
    <3> QED
      BY <1>5, <1>11, <2>1, QuotientNear
  <2>3. vx - ux <= 0
    <3>1. ASSUME vx - ux > 0 PROVE FALSE
      <4>1. (vx - ux) * (y - uy) >= 0
        BY <1>1, <1>2, <3>1, Signs
      <4> QED
        BY <1>11, <2>1, <4>1
    <3> QED
      BY <1>1, <3>1
  <2>4. n(y) = n(py) + more /\ more \in Int /\ more <= 0
    <3>1. n(y) = n(py) + more
      BY <1>1
    <3>2. vx - ux \in Int /\ y - py \in Int /\ y - py >= 0
      BY <1>1, <1>2
    <3> QED
      BY <2>3, <3>1, <3>2, Signs
  <2>5. n(py) <= d * room
    BY <1>3, <2>1
  <2> HIDE DEF n, k, more, w, o, room
  <2>6. d * w - d < d * room /\ d * w \in Int
    BY <1>5, <2>1, <2>2, <2>4, <2>5, Signs
  <2>7. w <= room
    <3>1. ASSUME w - room - 1 >= 0 PROVE FALSE
      <4>1. d * w = d * room + d + d * (w - room - 1)
        BY <1>5, <2>1, <2>2
      <4>2. d * (w - room - 1) >= 0 /\ d * (w - room - 1) \in Int
        BY <1>5, <2>1, <2>2, <3>1, Signs
      <4> QED
        BY <1>5, <2>1, <2>6, <4>1, <4>2
    <3> QED
      BY <2>1, <2>2, <3>1
  <2>8. Meets(u, v, y) = w + ux /\ Meets(p, q, y) = o + px /\ w <= px - ux
    BY <1>4, <2>7 DEF w, o, room
  <2>9. w \in Int /\ o \in Int /\ o >= 0
    BY <2>2
  <2>10. w + ux <= o + px
    BY <1>1, <2>8, <2>9
  <2> QED
    BY <2>8, <2>10
<1>12. n(y) \in Int /\ k(y) \in Int
  BY <1>6
<1> HIDE DEF n, k
<1> QED
  BY <1>10, <1>11, <1>12

(* A quadrangle that turns one way: every corner lies on the same side of  *)
(* every edge.                                                             *)
LEMMA BendIsArea ==
  ASSUME NEW p, NEW q, NEW r, IntPair(p), IntPair(q), IntPair(r)
  PROVE  /\ Bend(p, q, r) = Area(p, q, r) /\ Bend(p, q, r) = Area(q, r, p)
         /\ Bend(p, q, r) = Area(r, p, q) /\ Bend(p, q, r) = -Area(q, p, r)
         /\ Area(p, q, p) = 0 /\ Area(p, q, q) = 0 /\ Area(p, q, r) \in Int
<1> DEFINE px == p["x"] py == p["y"] qx == q["x"] qy == q["y"] rx == r["x"] ry == r["y"]
<1>1. px \in Int /\ py \in Int /\ qx \in Int /\ qy \in Int /\ rx \in Int /\ ry \in Int
  BY DEF IntPair, Axes
<1>2. /\ Bend(p, q, r) = (qx - px) * (ry - qy) - (qy - py) * (rx - qx)
      /\ Area(p, q, r) = (qx - px) * (ry - py) - (qy - py) * (rx - px)
      /\ Area(q, r, p) = (rx - qx) * (py - qy) - (ry - qy) * (px - qx)
      /\ Area(r, p, q) = (px - rx) * (qy - ry) - (py - ry) * (qx - rx)
      /\ Area(q, p, r) = (px - qx) * (ry - qy) - (py - qy) * (rx - qx)
      /\ Area(p, q, p) = (qx - px) * (py - py) - (qy - py) * (px - px)
      /\ Area(p, q, q) = (qx - px) * (qy - py) - (qy - py) * (qx - px)
  BY DEF Bend, Area
<1> HIDE DEF px, py, qx, qy, rx, ry
<1>3. Bend(p, q, r) = Area(p, q, r)
  BY <1>1, <1>2
<1>4. Bend(p, q, r) = Area(q, r, p)
  BY <1>1, <1>2
<1>5. Bend(p, q, r) = Area(r, p, q)
  BY <1>1, <1>2
<1>6. Bend(p, q, r) = -Area(q, p, r)
  BY <1>1, <1>2
<1>7. Area(p, q, p) = 0 /\ Area(p, q, q) = 0
  BY <1>1, <1>2
<1>8. Area(p, q, r) \in Int
  BY <1>1, <1>2
<1> QED
  BY <1>3, <1>4, <1>5, <1>6, <1>7, <1>8

NextCorner(c, i) == c[(i % 4) + 1]
Sided(c, way) ==
  \A i, k \in 1 .. 4 : way * Area(c[i], NextCorner(c, i), c[k]) >= 0
                         /\ Area(NextCorner(c, i), c[i], c[k]) = -Area(c[i], NextCorner(c, i), c[k])
                         /\ Area(c[i], NextCorner(c, i), c[k]) \in Int

LEMMA TurningSided ==
  ASSUME NEW c, \A i \in 1 .. 4 : IntPair(c[i]), NEW way \in {1, -1}, Turning(c, way)
  PROVE  Sided(c, way)
<1> DEFINE b1 == Bend(c[1], c[2], c[3])
           b2 == Bend(c[2], c[3], c[4])
           b3 == Bend(c[3], c[4], c[1])
           b4 == Bend(c[4], c[1], c[2])
<1>1. NextCorner(c, 1) = c[2] /\ NextCorner(c, 2) = c[3] /\ NextCorner(c, 3) = c[4] /\ NextCorner(c, 4) = c[1]
  BY DEF NextCorner
<1>2. way * b1 >= 0 /\ way * b2 >= 0 /\ way * b3 >= 0 /\ way * b4 >= 0
  BY DEF Turning
<1>3. IntPair(c[1]) /\ IntPair(c[2]) /\ IntPair(c[3]) /\ IntPair(c[4])
  OBVIOUS
<1>4. \A i, k \in 1 .. 4 : /\ Area(NextCorner(c, i), c[i], c[k]) = -Area(c[i], NextCorner(c, i), c[k])
                           /\ Area(c[i], NextCorner(c, i), c[k]) \in Int
  <2>1. TAKE i, k \in 1 .. 4
  <2>2. IntPair(c[i]) /\ IntPair(c[k]) /\ IntPair(NextCorner(c, i))
    BY <1>1, <1>3
  <2>3. Bend(c[i], NextCorner(c, i), c[k]) = Area(c[i], NextCorner(c, i), c[k])
    BY <2>2, BendIsArea
  <2>4. Bend(c[i], NextCorner(c, i), c[k]) = -Area(NextCorner(c, i), c[i], c[k])
    BY <2>2, BendIsArea
  <2>5. Area(c[i], NextCorner(c, i), c[k]) \in Int /\ Area(NextCorner(c, i), c[i], c[k]) \in Int
    BY <2>2, BendIsArea
  <2> QED
    BY <2>3, <2>4, <2>5
<1>5. b1 \in Int /\ b2 \in Int /\ b3 \in Int /\ b4 \in Int
  BY <1>3, BendIsArea
<1>6. b1 = Area(c[1], c[2], c[3]) /\ b1 = Area(c[2], c[3], c[1])
  BY <1>3, BendIsArea
<1>7. b2 = Area(c[2], c[3], c[4]) /\ b2 = Area(c[3], c[4], c[2])
  BY <1>3, BendIsArea
<1>8. b3 = Area(c[3], c[4], c[1]) /\ b3 = Area(c[4], c[1], c[3])
  BY <1>3, BendIsArea
<1>9. b4 = Area(c[4], c[1], c[2]) /\ b4 = Area(c[1], c[2], c[4])
  BY <1>3, BendIsArea
<1>10. /\ Area(c[1], c[2], c[1]) = 0 /\ Area(c[1], c[2], c[2]) = 0
       /\ Area(c[2], c[3], c[2]) = 0 /\ Area(c[2], c[3], c[3]) = 0
       /\ Area(c[3], c[4], c[3]) = 0 /\ Area(c[3], c[4], c[4]) = 0
       /\ Area(c[4], c[1], c[4]) = 0 /\ Area(c[4], c[1], c[1]) = 0
  BY <1>3, BendIsArea
<1> HIDE DEF b1, b2, b3, b4
<1>11. way * 0 >= 0
  OBVIOUS
<1>12. \A i, k \in 1 .. 4 : way * Area(c[i], NextCorner(c, i), c[k]) >= 0
  <2>1. /\ way * Area(c[1], c[2], c[1]) >= 0 /\ way * Area(c[1], c[2], c[2]) >= 0
        /\ way * Area(c[1], c[2], c[3]) >= 0 /\ way * Area(c[1], c[2], c[4]) >= 0
    BY <1>2, <1>6, <1>9, <1>10, <1>11
  <2>2. /\ way * Area(c[2], c[3], c[1]) >= 0 /\ way * Area(c[2], c[3], c[2]) >= 0
        /\ way * Area(c[2], c[3], c[3]) >= 0 /\ way * Area(c[2], c[3], c[4]) >= 0
    BY <1>2, <1>6, <1>7, <1>10, <1>11
  <2>3. /\ way * Area(c[3], c[4], c[1]) >= 0 /\ way * Area(c[3], c[4], c[2]) >= 0
        /\ way * Area(c[3], c[4], c[3]) >= 0 /\ way * Area(c[3], c[4], c[4]) >= 0
    BY <1>2, <1>7, <1>8, <1>10, <1>11
  <2>4. /\ way * Area(c[4], c[1], c[1]) >= 0 /\ way * Area(c[4], c[1], c[2]) >= 0
        /\ way * Area(c[4], c[1], c[3]) >= 0 /\ way * Area(c[4], c[1], c[4]) >= 0
    BY <1>2, <1>8, <1>9, <1>10, <1>11
  <2>5. TAKE i, k \in 1 .. 4
  <2>6. i \in {1, 2, 3, 4} /\ k \in {1, 2, 3, 4}
    OBVIOUS
  <2> QED
    BY <1>1, <2>1, <2>2, <2>3, <2>4, <2>6
<1> QED
  BY <1>4, <1>12 DEF Sided

(* An edge that leads down a line and one that leads up, and what they     *)
(* meet there, if no product came round.                                   *)
Rising(c, i, y) == NextCorner(c, i)["y"] <= y /\ y < c[i]["y"]
Unspoilt(c, y) ==
  \A i \in 1 .. 4 : ~Spoilt(c[i], NextCorner(c, i), y) /\ ~Spoilt(NextCorner(c, i), c[i], y)
Falling(c, i, y) == c[i]["y"] <= y /\ y < NextCorner(c, i)["y"]

LEMMA FallingMeetsRising ==
  ASSUME NEW c, \A i \in 1 .. 4 : IntPair(c[i]), NEW way \in {1, -1}, Sided(c, way), NEW y \in Int,
         Unspoilt(c, y), NEW i \in 1 .. 4, NEW k \in 1 .. 4, Falling(c, i, y), Rising(c, k, y)
  PROVE  /\ way = 1 => Meets(NextCorner(c, k), c[k], y) <= Meets(c[i], NextCorner(c, i), y)
         /\ way = -1 => Meets(c[i], NextCorner(c, i), y) <= Meets(NextCorner(c, k), c[k], y)
<1> DEFINE u == c[i] v == NextCorner(c, i) p == NextCorner(c, k) q == c[k]
<1>1. NextCorner(c, 1) = c[2] /\ NextCorner(c, 2) = c[3] /\ NextCorner(c, 3) = c[4] /\ NextCorner(c, 4) = c[1]
  BY DEF NextCorner
<1>2. IntPair(u) /\ IntPair(v) /\ IntPair(p) /\ IntPair(q)
  BY <1>1
<1>3. \E n, l \in 1 .. 4 : v = c[n] /\ p = c[l]
  BY <1>1
<1>4. u["y"] <= y /\ y < v["y"] /\ p["y"] <= y /\ y < q["y"]
      /\ ~Spoilt(u, v, y) /\ ~Spoilt(p, q, y)
  BY DEF Falling, Rising, Unspoilt
<1>5. /\ way * Area(u, v, p) >= 0 /\ way * Area(u, v, q) >= 0
      /\ Area(u, v, p) \in Int /\ Area(u, v, q) \in Int
  BY <1>3 DEF Sided
<1>6. /\ way * Area(q, p, u) >= 0 /\ way * Area(q, p, v) >= 0
      /\ Area(p, q, u) = -Area(q, p, u) /\ Area(p, q, v) = -Area(q, p, v)
      /\ Area(q, p, u) \in Int /\ Area(q, p, v) \in Int
  BY <1>3 DEF Sided
<1> HIDE DEF u, v, p, q
<1>7. CASE way = 1
  <2>1. Area(p, q, u) <= 0 /\ Area(p, q, v) <= 0 /\ Area(u, v, p) >= 0 /\ Area(u, v, q) >= 0
    BY <1>5, <1>6, <1>7
  <2>2. Meets(p, q, y) <= Meets(u, v, y)
    BY <1>2, <1>4, <2>1, EdgesApart
  <2> QED
    BY <1>7, <2>2 DEF u, v, p, q
<1>8. CASE way = -1
  <2>1. Area(p, q, u) >= 0 /\ Area(p, q, v) >= 0 /\ Area(u, v, p) <= 0 /\ Area(u, v, q) <= 0
    BY <1>5, <1>6, <1>8
  <2>2. Meets(u, v, y) <= Meets(p, q, y)
    BY <1>2, <1>4, <2>1, EdgesApart
  <2> QED
    BY <1>8, <2>2 DEF u, v, p, q
<1> QED
  BY <1>7, <1>8

(* Two crossings of a line, the one upwards and the other downwards, in    *)
(* the order of the turn.                                                  *)
Apart(s, t, way) ==
  /\ s \in Meetings /\ t \in Meetings /\ s.down # t.down
  /\ IF s.down <=> way = -1 THEN s.x <= t.x ELSE t.x <= s.x

LEMMA CrossingsApart ==
  ASSUME NEW c, \A i \in 1 .. 4 : IntPair(c[i]), NEW way \in {1, -1}, Sided(c, way), NEW y \in Int,
         Unspoilt(c, y), NEW i \in 1 .. 4, NEW k \in 1 .. 4, NEW s, NEW t, Crossing(y, c[i], NextCorner(c, i)) = <<s>>,
         Crossing(y, c[k], NextCorner(c, k)) = <<t>>, ~(Upper(y, c[i]) <=> Upper(y, c[k]))
  PROVE  Apart(s, t, way)
<1>1. NextCorner(c, 1) = c[2] /\ NextCorner(c, 2) = c[3] /\ NextCorner(c, 3) = c[4] /\ NextCorner(c, 4) = c[1]
  BY DEF NextCorner
<1>2. \A l \in 1 .. 4 : IntPair(c[l]) /\ IntPair(NextCorner(c, l)) /\ c[l]["y"] \in Int /\ NextCorner(c, l)["y"] \in Int
  BY <1>1 DEF IntPair, Axes
<1>3. ASSUME NEW l \in 1 .. 4, NEW m, Crossing(y, c[l], NextCorner(c, l)) = <<m>>
      PROVE  /\ m \in Meetings
             /\ \/ /\ Upper(y, c[l]) /\ Falling(c, l, y) /\ m.down = TRUE
                   /\ m.x = Meets(c[l], NextCorner(c, l), y)
                \/ /\ ~Upper(y, c[l]) /\ Rising(c, l, y) /\ m.down = FALSE
                   /\ m.x = Meets(NextCorner(c, l), c[l], y)
  <2>1. <<m>> # <<>>
    OBVIOUS
  <2>2. CASE Falling(c, l, y)
    <3>1. <<m>> = <<[x |-> Meets(c[l], NextCorner(c, l), y), down |-> TRUE]>>
      BY <1>3, <2>2 DEF Crossing, Falling
    <3>2. m = [x |-> Meets(c[l], NextCorner(c, l), y), down |-> TRUE]
      BY <3>1
    <3>3. Meets(c[l], NextCorner(c, l), y) \in Int
      BY <1>2, <2>2, MeetsIn DEF Falling
    <3> QED
      BY <2>2, <3>2, <3>3 DEF Falling, Upper, Meetings
  <2>3. CASE Rising(c, l, y)
    <3>1. ~(c[l]["y"] <= y)
      BY <1>2, <2>3 DEF Rising
    <3>2. <<m>> = <<[x |-> Meets(NextCorner(c, l), c[l], y), down |-> FALSE]>>
      BY <1>3, <2>3, <3>1 DEF Crossing, Rising
    <3>3. m = [x |-> Meets(NextCorner(c, l), c[l], y), down |-> FALSE]
      BY <3>2
    <3>4. Meets(NextCorner(c, l), c[l], y) \in Int
      BY <1>2, <2>3, MeetsIn DEF Rising
    <3> QED
      BY <2>3, <3>1, <3>3, <3>4 DEF Upper, Meetings
  <2>4. CASE ~Falling(c, l, y) /\ ~Rising(c, l, y)
    BY <1>3, <2>1, <2>4 DEF Crossing, Falling, Rising
  <2> QED
    BY <2>2, <2>3, <2>4
<1>4. s.x \in Int /\ t.x \in Int /\ s \in Meetings /\ t \in Meetings
  BY <1>3 DEF Meetings
<1>5. CASE Upper(y, c[i])
  <2>1. /\ Falling(c, i, y) /\ s.down = TRUE /\ s.x = Meets(c[i], NextCorner(c, i), y)
        /\ Rising(c, k, y) /\ t.down = FALSE /\ t.x = Meets(NextCorner(c, k), c[k], y)
    BY <1>3, <1>5 DEF Upper
  <2>2. (way = 1 => t.x <= s.x) /\ (way = -1 => s.x <= t.x)
    BY <2>1, FallingMeetsRising
  <2> QED
    BY <1>4, <2>1, <2>2 DEF Apart
<1>6. CASE ~Upper(y, c[i])
  <2>1. /\ Falling(c, k, y) /\ t.down = TRUE /\ t.x = Meets(c[k], NextCorner(c, k), y)
        /\ Rising(c, i, y) /\ s.down = FALSE /\ s.x = Meets(NextCorner(c, i), c[i], y)
    BY <1>3, <1>6 DEF Upper
  <2>2. (way = 1 => s.x <= t.x) /\ (way = -1 => t.x <= s.x)
    BY <2>1, FallingMeetsRising
  <2> QED
    BY <1>4, <2>1, <2>2 DEF Apart
<1> QED
  BY <1>5, <1>6

(* Corners above and below a line: there is no crossing, or there are      *)
(* pairs of one upwards and one downwards.                                 *)
Paired(all, way) ==
  \/ all = <<>>
  \/ Len(all) = 2 /\ Apart(all[1], all[2], way)
  \/ Len(all) = 4 /\ Apart(all[1], all[2], way) /\ Apart(all[3], all[4], way)

LEMMA Joined ==
  ASSUME NEW a, NEW b
  PROVE  <<a>> \o <<b>> = <<a, b>>
<1> DEFINE s == <<a>> \o <<b>>
<1>1. <<a>> \in Seq({a, b}) /\ <<b>> \in Seq({a, b}) /\ <<a, b>> \in Seq({a, b})
  OBVIOUS
<1>2. s \in Seq({a, b}) /\ Len(s) = 2 /\ s[1] = a /\ s[2] = b
  BY <1>1, ConcatProperties
<1> HIDE DEF s
<1>3. s = <<a, b>>
  BY <1>1, <1>2, SeqEqual
<1> QED
  BY <1>3 DEF s

LEMMA JoinedToTwo ==
  ASSUME NEW a, NEW b, NEW c
  PROVE  <<a, b>> \o <<c>> = <<a, b, c>>
<1> DEFINE S == {a, b, c}
           s == <<a, b>> \o <<c>>
<1>1. <<a, b>> \in Seq(S) /\ <<c>> \in Seq(S) /\ <<a, b, c>> \in Seq(S)
  OBVIOUS
<1>2. s \in Seq(S) /\ Len(s) = 3 /\ s[1] = a /\ s[2] = b /\ s[3] = c
  BY <1>1, ConcatProperties
<1> HIDE DEF s
<1>3. s = <<a, b, c>>
  BY <1>1, <1>2, SeqEqual
<1> QED
  BY <1>3 DEF s

LEMMA JoinedToThree ==
  ASSUME NEW a, NEW b, NEW c, NEW d
  PROVE  <<a, b, c>> \o <<d>> = <<a, b, c, d>>
<1> DEFINE S == {a, b, c, d}
           s == <<a, b, c>> \o <<d>>
<1>1. <<a, b, c>> \in Seq(S) /\ <<d>> \in Seq(S) /\ <<a, b, c, d>> \in Seq(S)
  OBVIOUS
<1>2. s \in Seq(S) /\ Len(s) = 4 /\ s[1] = a /\ s[2] = b /\ s[3] = c /\ s[4] = d
  BY <1>1, ConcatProperties
<1> HIDE DEF s
<1>3. s = <<a, b, c, d>>
  BY <1>1, <1>2, SeqEqual
<1> QED
  BY <1>3 DEF s

Alternates(up, s, p, q, r, t, way) ==
  /\ up \in [1 .. 4 -> BOOLEAN]
  /\ p = IF up[1] = up[2] THEN <<>> ELSE <<s[1]>>
  /\ q = IF up[2] = up[3] THEN <<>> ELSE <<s[2]>>
  /\ r = IF up[3] = up[4] THEN <<>> ELSE <<s[3]>>
  /\ t = IF up[4] = up[1] THEN <<>> ELSE <<s[4]>>
  /\ up[1] # up[2] /\ p = <<s[1]>> /\ q = <<s[2]>> => Apart(s[1], s[2], way)
  /\ up[1] # up[3] /\ p = <<s[1]>> /\ r = <<s[3]>> => Apart(s[1], s[3], way)
  /\ up[1] # up[4] /\ p = <<s[1]>> /\ t = <<s[4]>> => Apart(s[1], s[4], way)
  /\ up[2] # up[3] /\ q = <<s[2]>> /\ r = <<s[3]>> => Apart(s[2], s[3], way)
  /\ up[2] # up[4] /\ q = <<s[2]>> /\ t = <<s[4]>> => Apart(s[2], s[4], way)
  /\ up[3] # up[4] /\ r = <<s[3]>> /\ t = <<s[4]>> => Apart(s[3], s[4], way)

LEMMA ClosedPairs ==
  ASSUME NEW up, NEW s, NEW p, NEW q, NEW r, NEW t, NEW way, Alternates(up, s, p, q, r, t, way)
  PROVE  Paired(Closed(p \o q \o r, t), way)
<1> DEFINE s1 == s[1] s2 == s[2] s3 == s[3] s4 == s[4]
<1>10. /\ p = IF up[1] = up[2] THEN <<>> ELSE <<s1>>
       /\ q = IF up[2] = up[3] THEN <<>> ELSE <<s2>>
       /\ r = IF up[3] = up[4] THEN <<>> ELSE <<s3>>
       /\ t = IF up[4] = up[1] THEN <<>> ELSE <<s4>>
  BY DEF Alternates
<1>11. /\ up[1] # up[2] /\ p = <<s1>> /\ q = <<s2>> => Apart(s1, s2, way)
       /\ up[1] # up[3] /\ p = <<s1>> /\ r = <<s3>> => Apart(s1, s3, way)
       /\ up[1] # up[4] /\ p = <<s1>> /\ t = <<s4>> => Apart(s1, s4, way)
       /\ up[2] # up[3] /\ q = <<s2>> /\ r = <<s3>> => Apart(s2, s3, way)
       /\ up[2] # up[4] /\ q = <<s2>> /\ t = <<s4>> => Apart(s2, s4, way)
       /\ up[3] # up[4] /\ r = <<s3>> /\ t = <<s4>> => Apart(s3, s4, way)
  BY DEF Alternates
<1> HIDE DEF s1, s2, s3, s4
<1>1. /\ <<s1>> \o <<s2>> = <<s1, s2>> /\ <<s1>> \o <<s3>> = <<s1, s3>>
      /\ <<s2>> \o <<s3>> = <<s2, s3>> /\ <<s1, s2>> \o <<s3>> = <<s1, s2, s3>>
      /\ <<s1>> \o <<s4>> = <<s1, s4>> /\ <<s2>> \o <<s4>> = <<s2, s4>> /\ <<s3>> \o <<s4>> = <<s3, s4>>
      /\ <<s1, s2, s3>> \o <<s4>> = <<s1, s2, s3, s4>>
  BY Joined, JoinedToTwo, JoinedToThree, ZenonT(60)
<1>2. /\ Len(<<>>) = 0 /\ Len(<<s1>>) = 1 /\ Len(<<s2>>) = 1 /\ Len(<<s3>>) = 1
      /\ Len(<<s1, s2>>) = 2 /\ Len(<<s1, s3>>) = 2 /\ Len(<<s2, s3>>) = 2 /\ Len(<<s1, s2, s3>>) = 3
      /\ 0 % 2 = 0 /\ 1 % 2 = 1 /\ 2 % 2 = 0 /\ 3 % 2 = 1
  OBVIOUS
<1>12. /\ <<>> \o <<>> = <<>> /\ <<s1>> \o <<>> = <<s1>> /\ <<>> \o <<s2>> = <<s2>>
       /\ <<>> \o <<s3>> = <<s3>> /\ <<s2>> \o <<>> = <<s2>> /\ <<s1, s2>> \o <<>> = <<s1, s2>>
       /\ <<s1, s3>> \o <<>> = <<s1, s3>> /\ <<s2, s3>> \o <<>> = <<s2, s3>>
  OBVIOUS
<1>3. \A a, b : Apart(a, b, way) => Paired(<<a, b>>, way)
  BY DEF Paired
<1>4. Apart(s1, s2, way) /\ Apart(s3, s4, way) => Paired(<<s1, s2, s3, s4>>, way)
  BY DEF Paired
<1>5. Paired(<<>>, way)
  BY DEF Paired
<1> DEFINE three == p \o q \o r
<1>6. Closed(three, t) = three \o IF Len(three) % 2 = 1 THEN t ELSE <<>>
  BY DEF Closed
<1>7. up[1] \in BOOLEAN /\ up[2] \in BOOLEAN /\ up[3] \in BOOLEAN /\ up[4] \in BOOLEAN
  BY DEF Alternates
<1>8. CASE up[1] = up[2]
  <2>1. CASE up[2] = up[3]
    <3>1. CASE up[3] = up[4]
      <4>1. three = <<>>
        BY <1>12, <1>10, <1>11, <1>1, <1>8, <2>1, <3>1
      <4> HIDE DEF three
      <4> QED
        BY <1>12, <1>10, <1>11, <1>1, <1>2, <1>5, <1>6, <4>1 DEF three
    <3>2. CASE up[3] # up[4]
      <4>1. three = <<s3>> /\ t = <<s4>>
        BY <1>12, <1>10, <1>11, <1>1, <1>7, <1>8, <2>1, <3>2
      <4> HIDE DEF three
      <4>2. Closed(three, t) = <<s3, s4>>
        BY <1>1, <1>2, <1>6, <4>1
      <4>3. r = <<s3>>
        BY <1>10, <3>2
      <4> QED
        BY <1>3, <1>10, <1>11, <3>2, <4>1, <4>2, <4>3 DEF three
    <3> QED
      BY <3>1, <3>2
  <2>2. CASE up[2] # up[3]
    <3>1. CASE up[3] = up[4]
      <4>1. three = <<s2>> /\ t = <<s4>>
        BY <1>12, <1>10, <1>11, <1>1, <1>7, <1>8, <2>2, <3>1
      <4> HIDE DEF three
      <4>2. Closed(three, t) = <<s2, s4>>
        BY <1>1, <1>2, <1>6, <4>1
      <4>3. q = <<s2>> /\ up[2] # up[4]
        BY <1>10, <2>2, <3>1
      <4> QED
        BY <1>3, <1>10, <1>11, <4>1, <4>2, <4>3 DEF three
    <3>2. CASE up[3] # up[4]
      <4>1. three = <<s2, s3>>
        BY <1>12, <1>10, <1>11, <1>1, <1>7, <1>8, <2>2, <3>2
      <4> HIDE DEF three
      <4>2. Closed(three, t) = <<s2, s3>>
        BY <1>2, <1>6, <1>12, <4>1
      <4>3. Apart(s2, s3, way)
        BY <1>10, <1>11, <2>2, <3>2
      <4> QED
        BY <1>3, <4>2, <4>3 DEF three
    <3> QED
      BY <3>1, <3>2
  <2> QED
    BY <2>1, <2>2
<1>9. CASE up[1] # up[2]
  <2>1. CASE up[2] = up[3]
    <3>1. CASE up[3] = up[4]
      <4>1. three = <<s1>> /\ t = <<s4>> /\ up[1] # up[4]
        BY <1>12, <1>10, <1>11, <1>1, <1>7, <1>9, <2>1, <3>1
      <4> HIDE DEF three
      <4>2. Closed(three, t) = <<s1, s4>>
        BY <1>1, <1>2, <1>6, <4>1
      <4>3. p = <<s1>>
        BY <1>10, <1>9
      <4> QED
        BY <1>3, <1>10, <1>11, <4>1, <4>2, <4>3 DEF three
    <3>2. CASE up[3] # up[4]
      <4>1. three = <<s1, s3>> /\ up[1] # up[3]
        BY <1>12, <1>10, <1>11, <1>1, <1>7, <1>9, <2>1, <3>2
      <4> HIDE DEF three
      <4>2. Closed(three, t) = <<s1, s3>>
        BY <1>2, <1>6, <1>12, <4>1
      <4>3. Apart(s1, s3, way)
        BY <1>9, <1>10, <1>11, <3>2, <4>1
      <4> QED
        BY <1>3, <4>2, <4>3 DEF three
    <3> QED
      BY <3>1, <3>2
  <2>2. CASE up[2] # up[3]
    <3>1. CASE up[3] = up[4]
      <4>1. three = <<s1, s2>>
        BY <1>12, <1>10, <1>11, <1>1, <1>7, <1>9, <2>2, <3>1
      <4> HIDE DEF three
      <4>2. Closed(three, t) = <<s1, s2>>
        BY <1>2, <1>6, <1>12, <4>1
      <4>3. Apart(s1, s2, way)
        BY <1>9, <1>10, <1>11, <2>2
      <4> QED
        BY <1>3, <4>2, <4>3 DEF three
    <3>2. CASE up[3] # up[4]
      <4>1. three = <<s1, s2, s3>> /\ t = <<s4>>
        BY <1>12, <1>10, <1>11, <1>1, <1>7, <1>9, <2>2, <3>2
      <4> HIDE DEF three
      <4>2. Closed(three, t) = <<s1, s2, s3, s4>>
        BY <1>1, <1>2, <1>6, <4>1
      <4>3. p = <<s1>> /\ q = <<s2>> /\ r = <<s3>>
        BY <1>10, <1>9, <2>2, <3>2
      <4> QED
        BY <1>4, <1>10, <1>11, <1>9, <3>2, <4>1, <4>2, <4>3 DEF three
    <3> QED
      BY <3>1, <3>2
  <2> QED
    BY <2>1, <2>2
<1> QED
  BY <1>8, <1>9

LEMMA OrderedPairs ==
  ASSUME NEW all, NEW way \in {1, -1}, Paired(all, way), all = <<>> \/ all \in Seq(Meetings)
  PROVE  Paired(Ordered(all), way)
<1>1. CASE Len(all) >= 2 /\ all[1].x > all[2].x
  <2> DEFINE new == [all EXCEPT ![1] = all[2], ![2] = all[1]]
  <2>1. Ordered(all) = new
    BY <1>1 DEF Ordered
  <2>2. Len(all) \in Nat /\ DOMAIN all = 1 .. Len(all) /\ all \in Seq(Meetings)
    BY <1>1, LenProperties
  <2>3. new \in Seq(Meetings) /\ Len(new) = Len(all)
    <3> DEFINE one == [all EXCEPT ![1] = all[2]]
    <3>1. 1 \in 1 .. Len(all) /\ 2 \in 1 .. Len(all)
      BY <1>1, <2>2
    <3>2. all[1] \in Meetings /\ all[2] \in Meetings
      BY <2>2, <3>1, ElementOfSeq
    <3>3. one \in Seq(Meetings) /\ Len(one) = Len(all)
      BY <2>2, <3>1, <3>2, ExceptSeq
    <3>4. new = [one EXCEPT ![2] = all[1]]
      OBVIOUS
    <3> HIDE DEF one, new
    <3> QED
      BY <3>1, <3>2, <3>3, <3>4, ExceptSeq
  <2>4. new[1] = all[2] /\ new[2] = all[1] /\ (Len(all) = 4 => new[3] = all[3] /\ new[4] = all[4])
    BY <1>1, <2>2
  <2>5. all # <<>>
    BY <1>1
  <2>6. Apart(all[1], all[2], way)
    BY <2>5 DEF Paired
  <2>7. Apart(all[2], all[1], way)
    <3>1. all[1].down \in BOOLEAN /\ all[2].down \in BOOLEAN /\ all[1].x \in Int /\ all[2].x \in Int
      BY <2>6 DEF Apart, Meetings
    <3> QED
      BY <2>6, <3>1 DEF Apart
  <2> HIDE DEF new
  <2> QED
    BY <2>1, <2>3, <2>4, <2>5, <2>7 DEF Paired
<1>2. CASE ~(Len(all) >= 2 /\ all[1].x > all[2].x)
  BY <1>2 DEF Ordered
<1> QED
  BY <1>1, <1>2

LEMMA CrossingsPaired ==
  ASSUME NEW y \in Int, NEW c, \A i \in 1 .. 4 : IntPair(c[i]), NEW way \in {1, -1}, Sided(c, way),
         Unspoilt(c, y)
  PROVE  Paired(Crossings(y, c), way)
<1> DEFINE p == Crossing(y, c[1], c[2])
           q == Crossing(y, c[2], c[3])
           r == Crossing(y, c[3], c[4])
           t == Crossing(y, c[4], c[1])
           all == Closed(p \o q \o r, t)
           up == [i \in 1 .. 4 |-> IF Upper(y, c[i]) THEN TRUE ELSE FALSE]
           At(s) == s[1]
<1>1. NextCorner(c, 1) = c[2] /\ NextCorner(c, 2) = c[3] /\ NextCorner(c, 3) = c[4] /\ NextCorner(c, 4) = c[1]
  BY DEF NextCorner
<1>2. all \in Seq(Meetings)
  BY ClosedIn
<1>3. Crossings(y, c) = Ordered(all)
  BY DEF Crossings
<1>4. up \in [1 .. 4 -> BOOLEAN] /\ \A i \in 1 .. 4 : up[i] = TRUE <=> Upper(y, c[i])
  OBVIOUS
<1>5. ASSUME NEW i \in 1 .. 4, NEW k \in 1 .. 4, k = (i % 4) + 1
      PROVE  Crossing(y, c[i], NextCorner(c, i)) = IF up[i] = up[k] THEN <<>> ELSE <<At(Crossing(y, c[i], NextCorner(c, i)))>>
  <2>1. IntPair(c[i]) /\ IntPair(c[k]) /\ NextCorner(c, i) = c[k]
    BY <1>5 DEF NextCorner
  <2>2. up[i] = up[k] <=> (Upper(y, c[i]) <=> Upper(y, c[k]))
    BY <1>4
  <2> HIDE DEF up
  <2>3. CASE up[i] = up[k]
    BY <2>1, <2>2, <2>3, CrossingIn
  <2>4. CASE up[i] # up[k]
    <3>1. PICK x \in Meetings : Crossing(y, c[i], c[k]) = <<x>>
      BY <2>1, <2>2, <2>4, CrossingIn
    <3> QED
      BY <2>1, <2>4, <3>1
  <2> QED
    BY <2>3, <2>4
<1> DEFINE s1 == At(p) s2 == At(q) s3 == At(r) s4 == At(t)
<1>6. /\ p = IF up[1] = up[2] THEN <<>> ELSE <<s1>>
      /\ q = IF up[2] = up[3] THEN <<>> ELSE <<s2>>
      /\ r = IF up[3] = up[4] THEN <<>> ELSE <<s3>>
      /\ t = IF up[4] = up[1] THEN <<>> ELSE <<s4>>
  <2>1. 2 = (1 % 4) + 1 /\ 3 = (2 % 4) + 1 /\ 4 = (3 % 4) + 1 /\ 1 = (4 % 4) + 1
    OBVIOUS
  <2>2. 1 \in 1 .. 4 /\ 2 \in 1 .. 4 /\ 3 \in 1 .. 4 /\ 4 \in 1 .. 4
    OBVIOUS
  <2> HIDE DEF up
  <2> QED
    BY <1>1, <1>5, <2>1, <2>2
<1> DEFINE edge(i) == Crossing(y, c[i], NextCorner(c, i))
<1>7. p = edge(1) /\ q = edge(2) /\ r = edge(3) /\ t = edge(4)
  BY <1>1
<1>8. ASSUME NEW i \in 1 .. 4, NEW k \in 1 .. 4, up[i] # up[k], NEW s, NEW v, edge(i) = <<s>>, edge(k) = <<v>>
      PROVE  Apart(s, v, way)
  <2>1. ~(Upper(y, c[i]) <=> Upper(y, c[k]))
    BY <1>4, <1>8
  <2> QED
    BY <1>8, <2>1, CrossingsApart
<1> HIDE DEF up, p, q, r, t
<1>9. /\ up[1] # up[2] /\ p = <<s1>> /\ q = <<s2>> => Apart(s1, s2, way)
      /\ up[1] # up[3] /\ p = <<s1>> /\ r = <<s3>> => Apart(s1, s3, way)
      /\ up[1] # up[4] /\ p = <<s1>> /\ t = <<s4>> => Apart(s1, s4, way)
      /\ up[2] # up[3] /\ q = <<s2>> /\ r = <<s3>> => Apart(s2, s3, way)
      /\ up[2] # up[4] /\ q = <<s2>> /\ t = <<s4>> => Apart(s2, s4, way)
      /\ up[3] # up[4] /\ r = <<s3>> /\ t = <<s4>> => Apart(s3, s4, way)
  <2> 1 \in 1 .. 4 /\ 2 \in 1 .. 4 /\ 3 \in 1 .. 4 /\ 4 \in 1 .. 4
    OBVIOUS
  <2> HIDE DEF edge, At
  <2> QED
    BY <1>7, <1>8
<1>10. Paired(Closed(p \o q \o r, t), way)
  <2> HIDE DEF At
  <2> DEFINE s == <<s1, s2, s3, s4>>
  <2>1. s[1] = s1 /\ s[2] = s2 /\ s[3] = s3 /\ s[4] = s4
    OBVIOUS
  <2> HIDE DEF s, s1, s2, s3, s4
  <2>2. Alternates(up, s, p, q, r, t, way)
    BY <1>4, <1>6, <1>9, <2>1 DEF Alternates
  <2> QED
    BY <2>2, ClosedPairs
<1> QED
  BY <1>2, <1>3, <1>10, OrderedPairs

(* Faces(f, g, way): two engines with one window that both want the face   *)
(* that turns this way.  They paint the same spans.                        *)
Facing(way) == IF way = 1 THEN "ACW" ELSE "ACCW"
Faces(f, g, way) ==
  g.clip = f.clip /\ f.clip["x"] \in Nat /\ Facing(way) \in f.flags /\ Facing(way) \in g.flags

LEMMA SpanAgrees ==
  ASSUME NEW way \in {1, -1}, NEW f, NEW g, Faces(f, g, way), NEW y, NEW s, NEW t, Apart(s, t, way)
  PROVE  Span(f, y, s, t) = Span(g, y, s, t)
<1> DEFINE from == Greater(s.x, 0)
           n == Greater(Lesser(t.x, f.clip["x"] + 1) - from, 0)
           span == [k \in 1 .. n |-> <<from + k - 1, y>>]
<1>1. s.x \in Int /\ t.x \in Int /\ s.down \in BOOLEAN /\ f.clip["x"] \in Nat /\ g.clip = f.clip
  BY DEF Apart, Meetings, Faces
<1>2. /\ Span(f, y, s, t) = IF ~Shown(f, s.down) THEN <<>> ELSE span
      /\ Span(g, y, s, t) = IF ~Shown(g, s.down) THEN <<>> ELSE span
  BY <1>1 DEF Span, Limit
<1>3. CASE s.down <=> way = -1
  <2>1. Shown(f, s.down) /\ Shown(g, s.down)
    BY <1>1, <1>3 DEF Shown, Faces, Facing
  <2> QED
    BY <1>2, <2>1
<1>4. CASE ~(s.down <=> way = -1)
  <2>1. t.x <= s.x
    BY <1>4 DEF Apart
  <2>2. n = 0
    BY <1>1, <2>1 DEF Greater, Lesser
  <2>3. span = <<>>
    <3> HIDE DEF from, n
    <3>1. span = [k \in 1 .. 0 |-> <<from + k - 1, y>>]
      BY <2>2
    <3> QED
      BY <3>1
  <2> HIDE DEF span
  <2> QED
    BY <1>2, <2>3
<1> QED
  BY <1>3, <1>4

LEMMA SpansAgree ==
  ASSUME NEW way \in {1, -1}, NEW f, NEW g, Faces(f, g, way), NEW y, NEW all, Paired(all, way)
  PROVE  Spans(f, y, all) = Spans(g, y, all)
<1>1. CASE all = <<>>
  BY <1>1 DEF Spans
<1>2. CASE all # <<>> /\ Len(all) = 2 /\ Apart(all[1], all[2], way)
  <2>1. Span(f, y, all[1], all[2]) = Span(g, y, all[1], all[2])
    BY <1>2, SpanAgrees
  <2> QED
    BY <1>2, <2>1 DEF Spans
<1>3. CASE all # <<>> /\ Len(all) = 4 /\ Apart(all[1], all[2], way) /\ Apart(all[3], all[4], way)
  <2>1. Span(f, y, all[1], all[2]) = Span(g, y, all[1], all[2])
    BY <1>3, SpanAgrees
  <2>2. Span(f, y, all[3], all[4]) = Span(g, y, all[3], all[4])
    BY <1>3, SpanAgrees
  <2> QED
    BY <1>3, <2>1, <2>2 DEF Spans
<1> QED
  BY <1>1, <1>2, <1>3 DEF Paired

(* Faces: along every line of the screen a quadrangle that turns one way,  *)
(* and none of whose products came round there, is drawn alike whether the *)
(* face that turns the other way is wanted or not (TexelDraw_Arbitrary).   *)
THEOREM FacesAgree ==
  ASSUME NEW way \in {1, -1}, NEW f, NEW g, Faces(f, g, way), NEW y \in Int,
         NEW c, \A i \in 1 .. 4 : IntPair(c[i]), Turning(c, way), Unspoilt(c, y)
  PROVE  Spans(f, y, Crossings(y, c)) = Spans(g, y, Crossings(y, c))
  BY TurningSided, CrossingsPaired, SpansAgree
=============================================================================
