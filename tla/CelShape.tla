------------------------------- MODULE CelShape ------------------------------
(***************************************************************************)
(* How the emulator's cel engine maps a cel on the screen (opera_madam.c,  *)
(* TestInitVisual and after): cels that miss the window or show the wrong  *)
(* face are dropped, cels of single pixels are clipped beforehand (line),  *)
(* others along the axes are clipped pixel by pixel (scale), the rest are  *)
(* drawn as quadrangles (arbitrary).  pos, hd, vd, hdd and clip are pairs: *)
(* the position, the steps from pixel to pixel and from row to row, the    *)
(* change of the former, the last pixels of the window.                    *)
(*                                                                         *)
(* Places and steps are numbers of 32 bits, which come round: -Far .. Far  *)
(* - 1 in whole pixels.  Places are added up exactly here and come round   *)
(* (Wrap) where the engine looks at one: in Int16 and where it keeps one.  *)
(* As the sums are the same up to whole turns, so is what it sees.         *)
(***************************************************************************)
EXTENDS WordArith, FiniteSets

CONSTANTS
  One,   \* the number 1 with its fraction; 65536
  Far    \* whole pixels end before it; 32768
ASSUME OneAssumption == One \in Nat \ {0}
ASSUME FarAssumption == Far \in Nat /\ Far > 1024

Half == One \div 2
Axes == {"x", "y"}
Around(h, z) == Signed(h, z % (2 * h))
Wrap(z) == Around(Far * One, z)
Wrapped(v) == [a \in Axes |-> Wrap(v[a])]
Int16(v) == Wrap(v) \div One
Abs(v) == IF v > 0 THEN v ELSE -v
Lesser(a, b) == IF a < b THEN a ELSE b
Plus(u, v) == [a \in Axes |-> u[a] + v[a]]
Times(k, v) == [a \in Axes |-> k * v[a]]

(* Negative steps of either kind move a cel by half a pixel.               *)
Centred(e) ==
  [a \in Axes |-> Wrap(e.pos[a] - (IF e.hd[a] < 0 \/ e.vd[a] < 0 THEN Half ELSE 0))]
-----------------------------------------------------------------------------
(* Init_Line_Map.  Along an axis a line map moves either by pixels or by   *)
(* rows, one at a time, so each axis limits one of the two.  Only cels     *)
(* that leave the window have limits that come round.                      *)
Leaves(e, a, at, step) ==
  \/ at < 0 /\ step < 0
  \/ at > e.clip[a] /\ step > 0

(* Mutant: one pixel too few is left out.                                  *)
Skipped_OneLess(e, a, at, step) ==
  IF at < 0 /\ step > 0 THEN -at - 1
  ELSE IF at > e.clip[a] /\ step < 0 THEN at - e.clip[a] ELSE 0

Skipped(e, a, at, step) ==
  IF at < 0 /\ step > 0 THEN -at
  ELSE IF at > e.clip[a] /\ step < 0 THEN at - e.clip[a] ELSE 0

Room(e, a, at, step) == IF step < 0 THEN at + 1 ELSE e.clip[a] - at + 1

RowLimit(e, a, at, step) ==
  LET over == IF step < 0 THEN at - (e.sprhi - 1) < 0 ELSE at + e.sprhi > e.clip[a]
      limit == IF over THEN Room(e, a, at, step) ELSE e.sprhi
  IN IF step < 0 THEN Lesser(limit, e.sprhi) ELSE limit

LineMap(e) ==
  LET pos == Centred(e)
      At(a) == Int16(pos[a])
      h == CHOOSE a \in Axes : e.hd[a] # 0
      v == CHOOSE a \in Axes : e.vd[a] # 0
      wlim == Room(e, h, At(h), e.hd[h])
      missed == Leaves(e, h, At(h), e.hd[h]) \/ Leaves(e, v, At(v), e.vd[v]) \/ wlim <= 0
  IN [kind |-> IF missed THEN "none" ELSE "line", pos |-> pos,
      wstart |-> Skipped(e, h, At(h), e.hd[h]), wlim |-> wlim,
      hstart |-> Skipped(e, v, At(v), e.vd[v]), hlim |-> RowLimit(e, v, At(v), e.vd[v])]

(* Mutant: only the steps along a row say where texels grow.               *)
ScaleMap_RowsOnly(e) ==
  [kind |-> "scale", pos |-> Centred(e), inc |-> [a \in Axes |-> IF e.hd[a] < 0 THEN -1 ELSE 1]]

(* Init_Scale_Map and Init_Arbitrary_Map.                                  *)
ScaleMap(e) ==
  [kind |-> "scale", pos |-> Centred(e),
   inc |-> [a \in Axes |-> IF e.hd[a] + e.vd[a] < 0 THEN -1 ELSE 1]]

Arbitrary(e) == [kind |-> "arbitrary", pos |-> e.pos]
NoMap(e) == [kind |-> "none", pos |-> e.pos]
-----------------------------------------------------------------------------
(* QuadCCWTest: all four corners show the same face and it is the one the  *)
(* flags do not want.  Widths are multiplied and added as floats, which    *)
(* lose the last bits of steps of 256 pixels; exactly, here.               *)
Face(h, v) ==
  IF (h["x"] + v["x"]) * (h["y"] - v["y"]) + v["x"] * v["y"] - h["x"] * h["y"] < 0
  THEN "ACCW" ELSE "ACW"

WrongFace(e, width) ==
  LET grown == Wrapped(Times(e.sprhi, e.hdd))
      tall == Wrapped(Plus(e.hd, grown))
      face == Face(e.hd, e.vd)
  IN /\ ~({"ACW", "ACCW"} \subseteq e.flags)
     /\ face = Face(e.hd, Plus(e.vd, Times(width, e.hdd)))
     /\ face = Face(tall, e.vd)
     /\ face = Face(tall, Plus(e.vd, Times(width, grown)))
     /\ face \in e.flags

(* A cel whose corners all lie beyond one side of the window is dropped;   *)
(* the width of a packed cel is unknown.                                   *)
Corners(e) ==
  LET down == Plus(e.pos, Times(e.sprhi, e.vd))
  IN {e.pos, Plus(e.pos, Times(e.sprwi, e.hd)), down,
      Plus(down, Times(e.sprwi, Plus(e.hd, Times(e.sprhi, e.hdd))))}

Missed(e) ==
  IF "PACKED" \notin e.flags
  THEN \E a \in Axes : \/ \A p \in Corners(e) : Int16(p[a]) < 0
                       \/ \A p \in Corners(e) : Int16(p[a]) > e.clip[a]
  ELSE LET ends == {e.pos, Plus(e.pos, Times(e.sprhi, e.vd))}
       IN \E a \in Axes :
            \/ (\A p \in ends : Int16(p[a]) < 0) /\ e.hd[a] <= 0 /\ e.hdd[a] <= 0
            \/ (\A p \in ends : Int16(p[a]) > e.clip[a]) /\ e.hd[a] >= 0 /\ e.hdd[a] >= 0

(* Mutant: cels that lie on their side show the other face.                *)
Aligned_Unturned(e, h, v) ==
  LET opposed == (e.hd[h] < 0 /\ e.vd[v] > 0) \/ (e.hd[h] > 0 /\ e.vd[v] < 0)
      single == Abs(e.hd[h]) = One /\ Abs(e.vd[v]) = One /\ \A a \in Axes : e.pos[a] % One = 0
  IN IF (IF opposed THEN "ACCW" ELSE "ACW") \notin e.flags THEN NoMap(e)
     ELSE IF single THEN LineMap(e) ELSE ScaleMap(e)

(* Along the axes: h is where the pixels of a row go, v where rows go.     *)
Aligned(e, h, v) ==
  LET opposed == (e.hd[h] < 0 /\ e.vd[v] > 0) \/ (e.hd[h] > 0 /\ e.vd[v] < 0)
      wanted == IF opposed <=> (h = "y") THEN "ACW" ELSE "ACCW"
      single == Abs(e.hd[h]) = One /\ Abs(e.vd[v]) = One /\ \A a \in Axes : e.pos[a] % One = 0
  IN IF wanted \notin e.flags THEN NoMap(e) ELSE IF single THEN LineMap(e) ELSE ScaleMap(e)

(* TestInitVisual.                                                         *)
Shape(e) ==
  LET straight == \A a \in Axes : e.hdd[a] = 0 IN
  IF {"ACW", "ACCW"} \intersect e.flags = {} \/ Missed(e) THEN NoMap(e)
  ELSE IF straight /\ e.hd["x"] = 0 /\ e.vd["y"] = 0 THEN Aligned(e, "y", "x")
  ELSE IF straight /\ e.hd["y"] = 0 /\ e.vd["x"] = 0 THEN Aligned(e, "x", "y")
  ELSE IF WrongFace(e, IF "PACKED" \in e.flags THEN 2048 ELSE e.sprwi) THEN NoMap(e)
  ELSE Arbitrary(e)
=============================================================================
