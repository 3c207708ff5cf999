------------------------------ MODULE CelPixels ------------------------------
(***************************************************************************)
(* The pixel pipeline of the emulator's cel engine (opera_madam.c): the    *)
(* decoder turns a code of the cel into a pixel and multipliers, the       *)
(* processor blends it with the frame, the projector sets the H and V bits.*)
(* A pixel has 16 bits: V, 5 bits each of red, green and blue; the lowest  *)
(* bit of blue is H.  An engine e is a record with the registers and what  *)
(* the current cel loaded: flags, pover, pluta, pre0, pre1, pixc, plut,    *)
(* pos, ccbctl0 (see OperaCel).                                            *)
(***************************************************************************)
EXTENDS WordArith, Sequences

Colours == {"r", "g", "b"}
Place(c) == CASE c = "r" -> 1024 [] c = "g" -> 32 [] c = "b" -> 1
Colour(p, c) == (p \div Place(c)) % 32
Rgb(f) == f["r"] * 1024 + f["g"] * 32 + f["b"]
TopBit(p) == p \div 32768
LowBit(p) == p % 2
Rest(p) == p % 32768

Same(n) == [c \in Colours |-> n]
-----------------------------------------------------------------------------
(* PDEC.  Codes of 1, 2 and 4 bits select from a part of the palette, 6 and*)
(* 8 bit ones carry a V bit and multipliers; uncoded ones are colours.     *)
Mask(bpp) == CASE bpp = 1 -> 2 [] bpp = 2 -> 4 [] OTHER -> 16
PlutBase(e) == 2 * CASE e.pre0.bpp = 1 -> e.pluta
                     [] e.pre0.bpp = 2 -> e.pluta - (e.pluta % 2)
                     [] OTHER -> e.pluta - (e.pluta % 8)

(* MAPu8b: 3 bits of red and green and 2 of blue, stretched to 5.          *)
Uncoded8(x) ==
  LET Stretch(n) == 4 * n + n \div 2 blue == x % 4
  IN Rgb([r |-> Stretch((x \div 32) % 8), g |-> Stretch((x \div 4) % 8),
          b |-> 10 * blue + blue \div 2])

Decoded(e, x) ==
  LET bpp == e.pre0.bpp Pixel(p, m) == [pixel |-> p, amv |-> m] IN
  CASE bpp \notin {4, 5, 6} -> Pixel(e.plut[PlutBase(e) + (x % Mask(bpp))], Same(1))
    [] bpp = 4 -> Pixel(Rest(e.plut[x % 32]) + 32768 * ((x \div 32) % 2), Same(1))
    [] bpp = 5 /\ e.pre0.linear -> Pixel(Uncoded8(x % 256), Same(1))
    [] bpp = 5 /\ ~e.pre0.linear ->
         Pixel(e.plut[x % 32], Same(2 * ((x \div 64) % 4) + ((x \div 32) % 2)))
    [] bpp = 6 /\ e.pre0.linear -> Pixel(x, Same(1))
    [] bpp = 6 /\ ~e.pre0.linear ->
         Pixel(Rest(e.plut[x % 32]) + 32768 * TopBit(x),
               [r |-> (x \div 2048) % 8, g |-> (x \div 256) % 8, b |-> (x \div 32) % 8])

(* Black is left out unless the cel's flags say that it is a background.   *)
Transparent(e, p) == Rest(p) = 0 /\ "BGND" \notin e.flags
-----------------------------------------------------------------------------
(* PPROC.  The high or the low half of PIXC says, by the pixel's V bit,    *)
(* what to multiply and divide and what to add to it.  Colours are signed  *)
(* bytes while they are computed.                                          *)
Byte(x) == Signed(128, x % 256)
(* Mutant: dark colours are not clamped.                                   *)
Clamped_Above(x) == IF x > 31 THEN 31 ELSE x

Clamped(x) == IF x < 0 THEN 0 ELSE IF x > 31 THEN 31 ELSE x

TwoTo(n) == CASE n = 0 -> 1 [] n = 1 -> 2 [] n = 2 -> 4 [] n = 3 -> 8 [] n = 4 -> 16

(* PSCALAR: from 1 to 8 times, divided by 2, 4, 8 or 16.                   *)
Scalar(times, by, x) == (x * (times + 1)) \div TwoTo(IF by = 0 THEN 4 ELSE by)

Overridden(e, p) ==
  CASE e.pover = "one" -> 32768 + Rest(p) [] e.pover = "zero" -> Rest(p) [] OTHER -> p

(* What the USEAV bits of the flags make of the av field.                  *)
Signals(e, half) ==
  IF "USEAV" \in e.flags
  THEN [neg |-> half.av % 2, clip |-> (half.av \div 4) % 2 = 0, dv3 |-> half.av \div 8]
  ELSE [neg |-> 0, clip |-> TRUE, dv3 |-> 0]

Primary(half, c, pixel, input, amv) ==
  LET own == Colour(pixel, c) in == Colour(input, c) IN
  CASE half.ms = 0 -> Scalar(half.mxf, half.dv1, in)
    [] half.ms = 1 -> Scalar(amv[c], half.dv1, in)
    [] half.ms = 2 -> Scalar(own \div 4, own % 4, in)
    [] half.ms = 3 -> Scalar(4, half.dv1, in)

Secondary(half, c, pixel, frame, dv3) ==
  CASE half.s2 = 0 -> 0
    [] half.s2 = 1 -> half.av \div TwoTo(dv3)
    [] half.s2 = 2 -> Colour(frame, c) \div TwoTo(dv3)
    [] half.s2 = 3 -> Colour(pixel, c) \div TwoTo(dv3)

(* The exclusive or of two colours.                                        *)
Xor(a, b) ==
  LET Differ(k) == IF (a \div k) % 2 # (b \div k) % 2 THEN k ELSE 0
  IN Differ(1) + Differ(2) + Differ(4) + Differ(8) + Differ(16)

(* With PXOR the two colours are combined by exclusive or.  The extension  *)
(* of the sign (XTEND) is computed in 32 bits and changes nothing.         *)
Added(e, neg, first, second) ==
  LET xor == "PXOR" \in e.flags
      b == IF neg = 1 THEN -1 - second
           ELSE IF xor THEN Xor(second, first % 32) ELSE second
  IN (IF xor THEN 0 ELSE first) + b + neg

(* The sum before it is divided, for one colour.                           *)
Blend(e, c, decoded, frame, amv) ==
  LET pixel == Overridden(e, decoded)
      half == e.pixc[TopBit(pixel)]
      av == Signals(e, half)
      input == IF half.s1 = 0 THEN pixel ELSE frame
  IN [sum |-> Added(e, av.neg, Primary(half, c, pixel, input, amv),
                  Secondary(half, c, pixel, frame, av.dv3)),
      by |-> TwoTo(half.dv2), clip |-> av.clip]

Divided(sum, by, clip) == (IF clip THEN Clamped(Byte(sum \div by)) ELSE Byte(sum \div by)) % 32
Quotients(b) == Divided(b.sum, b.by, b.clip)
Mixed(e, c, decoded, frame, amv) == Quotients(Blend(e, c, decoded, frame, amv))

NotBlack(e, out) == IF out = 0 /\ "NOBLK" \notin e.flags THEN 1024 ELSE out

Processed(e, decoded, frame, amv) ==
  NotBlack(e, Rgb([c \in Colours |-> Mixed(e, c, decoded, frame, amv)]))
-----------------------------------------------------------------------------
(* PPROJ_OUTPUT: where V and H come from.  CEL_ORIGIN_VH_VALUE is taken    *)
(* from the fractions of the position the CCB left.                        *)
Projected(e, decoded, out) ==
  LET from == IF "PLUTPOS" \in e.flags THEN <<TopBit(decoded), LowBit(decoded)>> ELSE e.origin
      vh == IF e.ccbctl0.swaphv /\ ~e.pre1.noswap THEN <<from[2], from[1]>> ELSE from
      v == CASE e.ccbctl0.b15pos = "0" -> 0 [] e.ccbctl0.b15pos = "1" -> 1 [] OTHER -> vh[1]
      h == CASE e.ccbctl0.b0pos = "0" -> 0 [] e.ccbctl0.b0pos = "1" -> 1
             [] e.ccbctl0.b0pos = "ppmp" -> LowBit(out) [] OTHER -> vh[2]
  IN 32768 * v + Rest(out) - LowBit(out) + h

(* Where a pixel of a bitmap lies: two lines share a row of words.         *)
XY2OFF(x, y, m) == (y \div 2) * m + 2 * (y % 2) + 4 * x

(* Memory that was never written holds zeros.                              *)
Held(f, a, zero) == IF a \in DOMAIN f THEN f[a] ELSE zero
Stored(vram, a) == Held(vram, a, 0)

(* process_pixel: a pixel of the frame from the decoded pixel p.           *)
Shaded(e, p, frame) == Projected(e, p.pixel, Processed(e, p.pixel, frame, p.amv))
Store(vram, a, out) == [b \in DOMAIN vram \union {a} |-> IF b = a THEN out ELSE vram[b]]

Plot(e, x, y, p) ==
  [e EXCEPT !.vram =
     Store(@, e.regctl3 + XY2OFF(x, y, e.wmod),
           Shaded(e, p, Stored(@, e.regctl2 + XY2OFF(x, y, e.rmod))))]
=============================================================================
