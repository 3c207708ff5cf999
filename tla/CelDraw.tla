------------------------------- MODULE CelDraw -------------------------------
(***************************************************************************)
(* How the emulator's cel engine draws a cel (opera_madam.c): packed,      *)
(* literal and LR cels, each by the three maps of CelShape.  Bits are not  *)
(* counted: a row of a literal cel is a sequence of codes at the row's     *)
(* address, one of a packed cel an offset and a sequence of packets.       *)
(* Memory is e.mem (see OperaCel); what was drawn is in e.vram.  HIRESMODE *)
(* and FIXMODE are 0: nothing in the program sets them.                    *)
(*                                                                         *)
(* A place can come round the 32 bits on its way across a texel.  "lost":  *)
(* a loop over the pixels of a texel has walked away from its end, which   *)
(* takes it round all 32-bit numbers if it ends at all; "stuck": and the   *)
(* end had not come round.  "torn": a corner of a quadrangle had, or a     *)
(* product on one of its edges.  They are history.                         *)
(***************************************************************************)
EXTENDS CelPixels, CelShape, FiniteSetsExt

(* C's division, towards zero.                                             *)
Quotient(a, b) == IF (a < 0) # (b < 0) THEN -(Abs(a) \div Abs(b)) ELSE Abs(a) \div Abs(b)

(* Mutant: one column more than the window has.                            *)
InWindow_OneMore(e, x, y) == x \in 0 .. e.clip["x"] + 1 /\ y \in 0 .. e.clip["y"]

InWindow(e, x, y) == x \in 0 .. e.clip["x"] /\ y \in 0 .. e.clip["y"]

Cells(v) == [a \in Axes |-> Int16(v[a])]

(* On the way from p, place q comes round along axis a.                    *)
Round(p, q, a) == Wrap(q[a]) - Wrap(p[a]) # q[a] - p[a]

(* Pixels at places, one after the other, tested if they are in the window.*)
PlotAt(e, at, p, tested) ==
  IF tested => InWindow(e, at[1], at[2]) THEN Plot(e, at[1], at[2], p) ELSE e

Plotted(e, places, p, tested) ==
  LET plotted[k \in 0 .. Len(places)] ==
        IF k = 0 THEN e ELSE PlotAt(plotted[k - 1], places[k], p, tested)
  IN  plotted[Len(places)]

Drawn(e, stop) == [e |-> e, stop |-> stop]
-----------------------------------------------------------------------------
(* TexelDraw_Scale: a rectangle, pixel by pixel, corner "to" left out.     *)
(* Stop when it and all the row's further ones lie beyond the window.      *)
(* "round": the axes along which "to" came round.                          *)
Beyond(e, from, to) ==
  \E a \in Axes :
    \/ e.hd[a] < 0 /\ from[a] < 0 /\ to[a] < 0
    \/ e.hd[a] > 0 /\ from[a] > e.clip[a] /\ to[a] > e.clip[a]

Rectangle(from, inc, wide, high) ==
  [k \in 1 .. wide * high |->
    <<from["x"] + inc["x"] * ((k - 1) % wide), from["y"] + inc["y"] * ((k - 1) \div wide)>>]

Side(from, to, a) == Abs(to[a] - from[a])

Away(inc, from, to) == {a \in Axes : (to[a] - from[a]) * inc[a] < 0}
Astray(e, away, round) ==
  IF away \subseteq round THEN [e EXCEPT !.lost = TRUE] ELSE [e EXCEPT !.lost = TRUE, !.stuck = TRUE]

ScaleTexel(e, p, inc, from, to, round) ==
  IF Beyond(e, from, to) THEN Drawn(e, TRUE)
  ELSE IF Away(inc, from, to) = {}
  THEN Drawn(Plotted(e, Rectangle(from, inc, Side(from, to, "x"), Side(from, to, "y")), p, TRUE),
             FALSE)
  ELSE Drawn(IF \E a \in Axes : Side(from, to, a) = 0 THEN e
             ELSE Astray(e, Away(inc, from, to), round), FALSE)

(* TexelDraw_Arbitrary: a quadrangle, line by line.  An edge that crosses  *)
(* a line of the screen gives a place and whether it leads down.           *)
Rise(u, v, y) == (v["x"] - u["x"]) * (y - u["y"])
Narrow(z) == Around(2 * Far * Far, z)
Meets(u, v, y) == Quotient(Narrow(Rise(u, v, y)), v["y"] - u["y"]) + u["x"]

Crossing(y, p, q) ==
  IF p["y"] <= y /\ y < q["y"] THEN <<[x |-> Meets(p, q, y), down |-> TRUE]>>
  ELSE IF q["y"] <= y /\ y < p["y"] THEN <<[x |-> Meets(q, p, y), down |-> FALSE]>>
  ELSE <<>>

Ordered(all) ==
  IF Len(all) >= 2 /\ all[1].x > all[2].x
  THEN [all EXCEPT ![1] = all[2], ![2] = all[1]] ELSE all

Closed(three, last) == three \o IF Len(three) % 2 = 1 THEN last ELSE <<>>

Crossings(y, c) ==
  Ordered(Closed(Crossing(y, c[1], c[2]) \o Crossing(y, c[2], c[3]) \o Crossing(y, c[3], c[4]),
                 Crossing(y, c[4], c[1])))

Shown(e, down) == IF down THEN "ACCW" \in e.flags ELSE "ACW" \in e.flags

Limit(e, a) == e.clip[a] + 1
Greater(a, b) == IF a > b THEN a ELSE b

Span(e, y, left, right) ==
  IF ~Shown(e, left.down) THEN <<>>
  ELSE [k \in 1 .. Greater(Lesser(right.x, Limit(e, "x")) - Greater(left.x, 0), 0) |->
         <<Greater(left.x, 0) + k - 1, y>>]

Spans(e, y, all) ==
  IF all = <<>> THEN <<>>
  ELSE (IF Len(all) > 2 THEN Span(e, y, all[3], all[4]) ELSE <<>>)
         \o Span(e, y, all[1], all[2])

(* The lines of the screen from the upmost corner to the lowest.           *)
Top(c) == Greater(Min({c[i]["y"] : i \in 1 .. 4}), 0)
Bottom(e, c) == Lesser(Max({c[i]["y"] : i \in 1 .. 4}), Limit(e, "y"))

Line(e, p, c, y) == Plotted(e, Spans(e, y, Crossings(y, c)), p, FALSE)

Lines(e, p, c) ==
  LET lines[k \in 0 .. Greater(Bottom(e, c) - Top(c), 0)] ==
        IF k = 0 THEN e ELSE Line(lines[k - 1], p, c, Top(c) + k - 1)
  IN  lines[Greater(Bottom(e, c) - Top(c), 0)]

Gone(e, c) ==
  \E a \in Axes :
    \/ e.hd[a] < 0 /\ e.hdd[a] < 0 /\ \A i \in 1 .. 4 : c[i][a] < 0
    \/ e.hd[a] > 0 /\ e.hdd[a] > 0 /\ \A i \in 1 .. 4 : c[i][a] >= Limit(e, a)

Spoilt(u, v, y) == u["y"] <= y /\ y < v["y"] /\ Narrow(Rise(u, v, y)) # Rise(u, v, y)
Tears(e, c) ==
  \E i \in 1 .. 4, y \in Top(c) .. Bottom(e, c) - 1 :
    Spoilt(c[i], c[(i % 4) + 1], y) \/ Spoilt(c[(i % 4) + 1], c[i], y)
Torn(e, c, round) == IF round \/ Tears(e, c) THEN [e EXCEPT !.torn = TRUE] ELSE e

ArbitraryTexel(e, p, c, round) ==
  IF \A i \in 2 .. 4 : c[i]["x"] = c[1]["x"] THEN Drawn(e, FALSE)
  ELSE IF Gone(e, c) THEN Drawn(e, TRUE)
  ELSE Drawn(Lines(Torn(e, c, round), p, c), FALSE)
-----------------------------------------------------------------------------
(* A row being drawn: the engine, the place of the next pixel, that of its *)
(* lower corner and the step along the row above (quadrangles have two).   *)
Row(e, cur) ==
  [e |-> e, cur |-> cur, hd |-> e.hd, down |-> Plus(cur, e.vd), stop |-> FALSE]

(* A row of quadrangles ends at the next row's step.                       *)
Turned(e, m) == IF m.kind = "arbitrary" THEN [e EXCEPT !.hd = Wrapped(Plus(@, e.hdd))] ELSE e
Opened(e, m, cur) == [Row(e, cur) EXCEPT !.e = Turned(e, m)]

Advance(r, n) ==
  [r EXCEPT !.cur = Plus(@, Times(n, r.hd)), !.down = Plus(@, Times(n, r.e.hd))]

(* With MARIA a pixel is at most one line high.                            *)
DrawHeight(e) ==
  [a \in Axes |-> IF a = "y" /\ "MARIA" \in e.flags THEN Lesser(e.vd[a], One) ELSE e.vd[a]]

(* The corner across from a texel's first one, and the corners of a        *)
(* quadrangle.                                                             *)
End(r, e, n) == Plus(Plus(r.cur, Times(n, e.hd)), DrawHeight(e))
Corner(r, e) == <<r.cur, Plus(r.cur, r.hd), Plus(r.down, e.hd), r.down>>
Bent(r, e) == \E i \in 2 .. 4, a \in Axes : Round(r.cur, Corner(r, e)[i], a)

(* n equal pixels at the row's place, drawn as one texel.                  *)
Texel(r, m, p, n, e, cur) ==
  CASE m.kind = "line" ->
         Drawn(Plotted(e, [k \in 1 .. n |-> <<cur["x"] + (k - 1) * Int16(e.hd["x"]),
                                              cur["y"] + (k - 1) * Int16(e.hd["y"])>>], p, FALSE),
               FALSE)
    [] m.kind = "scale" ->
         ScaleTexel(e, p, m.inc, cur, Cells(End(r, e, n)), {a \in Axes : Round(r.cur, End(r, e, n), a)})
    [] m.kind = "arbitrary" ->
         ArbitraryTexel(e, p, [i \in 1 .. 4 |-> Cells(Corner(r, e)[i])], Bent(r, e))

Passed(r, d, n) == IF d.stop THEN [r EXCEPT !.stop = TRUE] ELSE Advance([r EXCEPT !.e = d.e], n)

PutPixel(r, m, p, n) ==
  IF Transparent(r.e, p.pixel) THEN Advance(r, n)
  ELSE Passed(r, Texel(r, m, p, n, r.e, Cells(r.cur)), n)

Put(r, m, code, n) == PutPixel(r, m, Decoded(r.e, code), n)

(* Pixels one by one, until one lies beyond the window.                    *)
PutNext(r, m, code) == IF r.stop THEN r ELSE Put(r, m, code, 1)

PutAll(r, m, codes) ==
  LET put[k \in 0 .. Len(codes)] == IF k = 0 THEN r ELSE PutNext(put[k - 1], m, codes[k])
  IN  put[Len(codes)]

-----------------------------------------------------------------------------
(* Literal and LR cels.  A literal cel skips the first codes of each row;  *)
(* an LR cel's bitmap is laid out like the frame and has twice the rows.   *)
Stride(e) == 4 * (e.pre1.woffset + 2)
LiteralCode(e, i, j) ==
  Held(Held(e.mem.bitmaps, e.pdata + i * Stride(e), <<>>), e.pre0.skipx + j + 1, 0)
LRCode(e, i, j) == Held(e.mem.words, e.pdata + XY2OFF(j, i, Stride(e)), 0) % 65536

IsPacked(e) == "PACKED" \in e.flags
IsLR(e) == ~IsPacked(e) /\ e.pre1.lrform /\ e.pre0.bpp = 6
Code(e, i, j) == IF IsLR(e) THEN LRCode(e, i, j) ELSE LiteralCode(e, i, j)

Width(e) == IF IsLR(e) THEN e.sprwi ELSE e.sprwi - e.pre0.skipx
FirstColumn(m) == IF m.kind = "line" THEN m.wstart ELSE 0
LastColumn(e, m) == IF m.kind = "line" THEN Lesser(Width(e), m.wlim) ELSE Width(e)

CodeRow(r, m, i) ==
  PutAll(r, m, [k \in 1 .. Greater(LastColumn(r.e, m) - FirstColumn(m), 0) |->
                 Code(r.e, i, FirstColumn(m) + k - 1)])
-----------------------------------------------------------------------------
(* Packed cels.  A packet stands for one or more pixels; a row ends with   *)
(* its packets, or where its offset says.                                  *)
Length(p) == IF p.type = "literal" THEN Len(p.codes) ELSE p.n

FirstCodes(p, n) ==
  [k \in 1 .. Greater(n, 0) |-> IF p.type = "literal" THEN p.codes[k] ELSE p.code]

Perform(r, m, p, n) ==
  CASE p.type = "transparent" -> Advance(r, n)
    [] p.type = "repeat" /\ m.kind # "arbitrary" -> Put(r, m, p.code, n)
    [] p.type = "literal" \/ (p.type = "repeat" /\ m.kind = "arbitrary") ->
         PutAll(r, m, FirstCodes(p, n))

(* A line map leaves out the pixels before the window (left) and ends      *)
(* the row at the limit; wcnt counts the pixels.                           *)
Unskipped(p, k) ==
  IF p.type = "literal"
  THEN [p EXCEPT !.codes = [j \in 1 .. Len(@) - k |-> p.codes[k + j]]] ELSE p

TakeUpTo(s, m, p, n, wcnt) ==
  [s EXCEPT !.left = 0, !.wcnt = wcnt, !.done = wcnt >= m.wlim,
            !.r = Perform(Advance(@, s.left), m, Unskipped(p, s.left),
                          n - s.left - Greater(wcnt - m.wlim, 0))]

ClippedPacket(s, m, p) ==
  IF s.done THEN s
  ELSE IF s.left >= Length(p) THEN [s EXCEPT !.left = @ - Length(p), !.r = Advance(@, Length(p))]
  ELSE TakeUpTo(s, m, p, Length(p), s.wcnt + Length(p) - s.left)

(* The other maps stop at a pixel beyond the window; but not at the last   *)
(* one of a packet, which leaves nothing of it.                            *)
EndsEarly(r, m, p) ==
  (p.type = "repeat" /\ m.kind = "scale") \/ PutAll(r, m, FirstCodes(p, Length(p) - 1)).stop

StopIf(r, early) == [r EXCEPT !.stop = @ /\ early]

OpenPacket(s, m, p) ==
  IF s.r.stop THEN s
  ELSE [s EXCEPT !.r = StopIf(Perform(@, m, p, Length(p)), EndsEarly(s.r, m, p))]

Packet(s, m, p) == IF m.kind = "line" THEN ClippedPacket(s, m, p) ELSE OpenPacket(s, m, p)

Packets(r, m, packets) ==
  LET taken[k \in 0 .. Len(packets)] ==
        IF k = 0 THEN [r |-> r, left |-> FirstColumn(m), wcnt |-> FirstColumn(m), done |-> FALSE]
                 ELSE Packet(taken[k - 1], m, packets[k])
  IN  taken[Len(packets)].r

(* Where row i starts: the row before says how long it is.  Memory that    *)
(* was never written holds the packet that ends a row.                     *)
PackedRow(e, a) == Held(e.mem.rows, a, [offset |-> 0, packets |-> <<>>])

RowStart(e, i) ==
  LET start[k \in 0 .. i] ==
        IF k = 0 THEN e.pdata ELSE start[k - 1] + 4 * (PackedRow(e, start[k - 1]).offset + 2)
  IN  start[i]

PacketRow(r, m, i) ==
  IF m.kind = "line" /\ i < m.hstart THEN r
  ELSE Packets(r, m, PackedRow(r.e, RowStart(r.e, i)).packets)
-----------------------------------------------------------------------------
(* Rows one below the other; what a row does to the engine stays.  The     *)
(* next cel goes on where the last row ended; if there was none, at what   *)
(* the stack held.  A packed cel reads its first rows even if it does not  *)
(* draw them.                                                              *)
DrawRow(e, m, at, i) ==
  IF IsPacked(e) THEN PacketRow(Opened(e, m, at), m, i)
  ELSE CodeRow(Opened(e, m, Plus(at, Times(FirstColumn(m), e.hd))), m, i)

Below(s, r, e) == [e |-> r.e, at |-> Plus(s.at, e.vd), x |-> r.cur["x"]]
NextRow(e, m, s, i) == Below(s, DrawRow(s.e, m, s.at, i), e)
Finished(done) ==
  [done.e EXCEPT !.pos = [a \in Axes |-> IF a = "x" THEN Wrap(done.x) ELSE @[a]]]

FirstRow(e, m) == IF m.kind = "line" /\ ~IsPacked(e) THEN m.hstart ELSE 0
EndRow(e, m) == IF m.kind = "line" THEN m.hlim ELSE e.sprhi
RowCount(e, m) == Greater(EndRow(e, m) - FirstRow(e, m), 0)

Rows(e, m) ==
  LET rows[k \in 0 .. RowCount(e, m)] ==
        IF k = 0 THEN [e |-> e, at |-> Plus(e.pos, Times(FirstRow(e, m), e.vd)), x |-> e.junk]
                 ELSE NextRow(e, m, rows[k - 1], FirstRow(e, m) + k - 1)
  IN  Finished(rows[RowCount(e, m)])

(* A literal cel leaves its source behind the rows it has read.            *)
LastRow(e, m) == Greater(FirstRow(e, m), EndRow(e, m))
Behind(e, m) ==
  IF IsPacked(e) \/ IsLR(e) THEN e.pdata ELSE e.pdata + LastRow(e, m) * Stride(e)

Mapped(e, m) ==
  IF m.kind = "none" THEN [e EXCEPT !.pos = m.pos]
  ELSE [Rows([e EXCEPT !.pos = m.pos], m) EXCEPT !.pdata = Behind(e, m)]

(* DrawPackedCel_New, DrawLiteralCel_New and DrawLRCel_New: the size of    *)
(* the cel, then its map.                                                  *)
Sized(e) ==
  [e EXCEPT !.sprwi = IF IsPacked(e) THEN @ ELSE 1 + e.pre1.tlhpcnt,
            !.sprhi = IF IsLR(e) THEN 2 * e.pre0.vcnt + 2 ELSE 1 + e.pre0.vcnt]

Draw(e) == LET f == Sized(e) IN Mapped(f, Shape(f))
=============================================================================
