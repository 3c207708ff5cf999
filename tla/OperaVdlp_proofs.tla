-------------------------- MODULE OperaVdlp_proofs --------------------------
(* Proofs about OperaVdlp, for every list of entries, every size of the    *)
(* field and every choice of renderers.                                    *)
EXTENDS OperaVdlp, WellFoundedInduction, TLAPS

(* The types of everything a line reads.                                   *)
Colours ==
  [clut : [Channels -> [Pens -> Bytes]], bg : [Channels -> Bytes],
   disp : [colors_only : BOOLEAN, clut_bypass : BOOLEAN], colors_only : BOOLEAN]
Ctrl == [prev_tick : BOOLEAN, dma : BOOLEAN, modulo : Nat, persist : Nat]
Registers ==
  [vdl : DOMAIN Vdl, ctrl : Ctrl, cnt : Int, curr : Nat, prev : Nat,
   colours : Colours, loaded : BOOLEAN, entered : BOOLEAN]

Typed ==
  /\ TypeOK
  /\ head_vdl \in Heads /\ (line > StartLine => curr_vdl \in DOMAIN Vdl)
  /\ clut_ctrl \in Ctrl /\ origin \in Nat
  /\ disp_ctrl \in [colors_only : BOOLEAN, clut_bypass : BOOLEAN]
  /\ renderer \in Renderers
       \union {[format |-> "XRGB8888", hires |-> FALSE, bypass |-> FALSE]}

(* Row r of a bitmap that begins at o, m pixels wide.                      *)
RowAt(o, r, m) == o + (r \div 2) * 4 * m + 2 * (r % 2)
RowKept == WidthKept /\ origin % 4 = 0 => curr_bmp = RowAt(origin, rows, clut_ctrl.modulo)

(* An entry that goes on with a bitmap is as wide as the one before it.    *)
SameWidth(a, m) == ~Entry(a).zero /\ Entry(a).curr = None => Entry(a).modulo = m
NextFits == WidthKept /\ line > StartLine => SameWidth(curr_vdl, clut_ctrl.modulo)

(* The lines of the entry in force; before the first one there is none.    *)
LinesLeft ==
  ListGood => /\ shown = 0 => line_cnt <= 0
              /\ shown > 0 /\ line_cnt >= 0 => shown + line_cnt = clut_ctrl.persist

IInv == Typed /\ RowKept /\ NextFits /\ LinesLeft /\ CursorInStep
-----------------------------------------------------------------------------
(* A set of natural numbers has a least element, which stands for          *)
(* induction below.                                                        *)
Below == {ss \in Nat \X Nat : ss[1] < ss[2]}

LEMMA BelowWellFounded == IsWellFoundedOn(Below, Nat)
  BY NatLessThanWellFounded, Zenon DEF OpToRel, Below

LEMMA Least ==
  ASSUME NEW S \in SUBSET Nat, S # {}
  PROVE  \E m \in S : \A n \in S : m <= n
<1>1. \A x, y \in Nat : x < y => <<x, y>> \in Below
  BY DEF Below
<1>2. PICK m \in S : \A y \in S : ~(<<y, m>> \in Below)
  BY BelowWellFounded, WFMin
<1>3. ASSUME NEW y \in S PROVE m <= y
  <2>1. m \in Nat /\ y \in Nat
    BY <1>2
  <2>2. ~(y < m)
    BY <1>1, <1>2, <2>1
  <2> QED
    BY <2>1, <2>2
<1> QED
  BY <1>3
-----------------------------------------------------------------------------
(* The words behind an entry change colours only, and leave them colours.  *)

LEMMA SetClutTyped ==
  ASSUME NEW cl \in [Channels -> [Pens -> Bytes]], NEW cmd \in Cmds, cmd.kind = "clut"
  PROVE  SetClut(cl, cmd) \in [Channels -> [Pens -> Bytes]]
<1>1. cmd.pen \in Pens /\ \A c \in Channels : cmd[c] \in Bytes
  BY DEF Cmds, Channels
<1>2. ASSUME NEW c \in Channels
      PROVE  (IF c \in ChannelsSet(cmd.enable)
              THEN [cl[c] EXCEPT ![cmd.pen] = cmd[c]] ELSE cl[c]) \in [Pens -> Bytes]
  BY <1>1
<1> QED
  BY <1>2 DEF SetClut

LEMMA OptionalCmdTyped ==
  ASSUME NEW s \in Colours, NEW cmd \in Cmds
  PROVE  OptionalCmd(s, cmd) \in Colours
<1>1. CASE cmd.kind = "clut"
  <2>1. SetClut(s.clut, cmd) \in [Channels -> [Pens -> Bytes]]
    BY <1>1, SetClutTyped DEF Colours
  <2>2. OptionalCmd(s, cmd) = [s EXCEPT !.clut = SetClut(s.clut, cmd)]
    BY <1>1 DEF OptionalCmd
  <2> QED
    BY <2>1, <2>2 DEF Colours
<1>2. CASE cmd.kind = "av"
  BY <1>2 DEF OptionalCmd
<1>3. CASE cmd.kind = "display"
  <2>1. cmd.colors_only \in BOOLEAN /\ cmd.clut_bypass \in BOOLEAN
    BY <1>3 DEF Cmds
  <2> QED
    BY <1>3, <2>1 DEF OptionalCmd, Colours
<1>4. CASE cmd.kind = "background"
  <2>1. [c \in Channels |-> cmd[c]] \in [Channels -> Bytes]
    BY <1>4 DEF Cmds, Channels
  <2>2. OptionalCmd(s, cmd) = [s EXCEPT !.bg = [c \in Channels |-> cmd[c]]]
    BY <1>4 DEF OptionalCmd
  <2> QED
    BY <2>1, <2>2 DEF Colours
<1> QED
  BY <1>1, <1>2, <1>3, <1>4 DEF Cmds

(* The colours after the first i words, for i up to n: there is such a     *)
(* function for every n, by taking one more word than for the n before.    *)
Colouring(f, n, s, cmds) ==
  f = [i \in 0 .. n |-> IF i = 0 THEN [s EXCEPT !.colors_only = FALSE]
                                 ELSE OptionalCmd(f[i - 1], cmds[i])]

LEMMA ColouringExists ==
  ASSUME NEW s, NEW cmds, NEW len \in Nat
  PROVE  \E f : Colouring(f, len, s, cmds)
<1> DEFINE Missing == {n \in Nat : ~\E f : Colouring(f, n, s, cmds)}
<1>1. SUFFICES ASSUME Missing # {} PROVE FALSE
  OBVIOUS
<1>2. PICK m \in Missing : \A n \in Missing : m <= n
  BY <1>1, Least
<1>3. m # 0
  <2>1. Colouring([i \in 0 .. 0 |-> [s EXCEPT !.colors_only = FALSE]], 0, s, cmds)
    BY DEF Colouring
  <2> QED
    BY <1>2, <2>1
<1>4. m - 1 \in Nat /\ m - 1 \notin Missing
  BY <1>2, <1>3
<1>5. PICK f : Colouring(f, m - 1, s, cmds)
  BY <1>4
<1> DEFINE g == [i \in 0 .. m |-> IF i = m THEN OptionalCmd(f[m - 1], cmds[m]) ELSE f[i]]
<1>6. ASSUME NEW i \in 0 .. m
      PROVE  g[i] = IF i = 0 THEN [s EXCEPT !.colors_only = FALSE]
                             ELSE OptionalCmd(g[i - 1], cmds[i])
  <2>1. CASE i = m
    <3>1. g[i] = OptionalCmd(f[m - 1], cmds[m]) /\ g[i - 1] = f[m - 1]
      BY <1>2, <1>3, <2>1
    <3> QED
      BY <1>3, <2>1, <3>1
  <2>2. CASE i # m
    <3>1. i \in 0 .. m - 1 /\ g[i] = f[i]
      BY <1>2, <1>6, <2>2
    <3>2. f[i] = IF i = 0 THEN [s EXCEPT !.colors_only = FALSE]
                          ELSE OptionalCmd(f[i - 1], cmds[i])
      BY <1>5, <3>1 DEF Colouring
    <3>3. i # 0 => g[i - 1] = f[i - 1]
      BY <1>2, <3>1
    <3> QED
      BY <3>1, <3>2, <3>3
  <2> QED
    BY <2>1, <2>2
<1>7. Colouring(g, m, s, cmds)
  BY <1>6 DEF Colouring
<1> QED
  BY <1>2, <1>7

LEMMA OptionalCmdsTyped ==
  ASSUME NEW s \in Colours, NEW cmds \in Seq(Cmds)
  PROVE  OptionalCmds(s, cmds) \in Colours
<1> DEFINE f == CHOOSE f : Colouring(f, Len(cmds), s, cmds)
<1>1. OptionalCmds(s, cmds) = f[Len(cmds)]
  BY DEF OptionalCmds, Colouring
<1>2. Len(cmds) \in Nat /\ \A i \in 1 .. Len(cmds) : cmds[i] \in Cmds
  OBVIOUS
<1>3. Colouring(f, Len(cmds), s, cmds)
  BY <1>2, ColouringExists
<1> HIDE DEF f
<1> DEFINE Wrong == {i \in Nat : i <= Len(cmds) /\ f[i] \notin Colours}
<1>4. Wrong = {}
  <2>1. SUFFICES ASSUME Wrong # {} PROVE FALSE
    OBVIOUS
  <2>2. PICK m \in Wrong : \A n \in Wrong : m <= n
    BY <2>1, Least
  <2>3. f[m] = IF m = 0 THEN [s EXCEPT !.colors_only = FALSE]
                        ELSE OptionalCmd(f[m - 1], cmds[m])
    <3>1. m \in 0 .. Len(cmds)
      BY <1>2, <2>2
    <3> QED
      BY <1>3, <3>1 DEF Colouring
  <2>4. CASE m = 0
    <3>1. [s EXCEPT !.colors_only = FALSE] \in Colours
      BY DEF Colours
    <3> QED
      BY <2>2, <2>3, <2>4, <3>1
  <2>5. CASE m # 0
    <3>1. m - 1 \in Nat /\ m - 1 <= Len(cmds) /\ m - 1 \notin Wrong
      BY <1>2, <2>2, <2>5
    <3>2. f[m - 1] \in Colours /\ cmds[m] \in Cmds
      BY <1>2, <2>2, <2>5, <3>1
    <3> QED
      BY <2>2, <2>3, <2>5, <3>2, OptionalCmdTyped
  <2> QED
    BY <2>4, <2>5
<1> QED
  BY <1>1, <1>2, <1>4
-----------------------------------------------------------------------------
(* Constants, as the assumption gives them.                                *)
LEMMA EntryTyped ==
  ASSUME NEW a \in DOMAIN Vdl, ~Entry(a).zero
  PROVE  /\ Entry(a).persist \in Nat /\ Entry(a).modulo \in Nat
         /\ Entry(a).curr \in Nat \union {None} /\ Entry(a).prev \in Nat \union {None}
         /\ Entry(a).dma \in BOOLEAN /\ Entry(a).prev_tick \in BOOLEAN
         /\ NextVdl(a) \in DOMAIN Vdl
         /\ Entry(a).cmds \in Seq(Cmds)
  BY ListAssumption

LEMMA Lines ==
  /\ Scanlines \in Nat \ {0} /\ StartLine \in 0 .. Scanlines - 1
  /\ Heads \subseteq DOMAIN Vdl
  BY VdlpAssumption

-----------------------------------------------------------------------------
(* The registers in a line: as the last line left them, after the list was *)
(* entered anew, and after the next entry was read, if one was due.        *)
At(a) ==
  [vdl |-> a, ctrl |-> clut_ctrl, cnt |-> line_cnt, curr |-> curr_bmp,
   prev |-> prev_bmp,
   colours |-> [clut |-> clut, bg |-> bg_color, disp |-> disp_ctrl,
                colors_only |-> FALSE],
   loaded |-> FALSE, entered |-> FALSE]
First == IF line = StartLine THEN ProcessEntry(At(head_vdl)) ELSE At(curr_vdl)
Used == IF First.cnt = 0 THEN ProcessEntry(First) ELSE First

(* What holds of them: the row is the one that is due, the entry that      *)
(* comes next fits, and the lines left are those of the entry in force.    *)
RowDue(s) ==
  WidthKept =>
    IF s.loaded THEN TRUE
    ELSE origin % 4 = 0 => s.curr = RowAt(origin, rows, s.ctrl.modulo)
FitsNext(s) == WidthKept => SameWidth(s.vdl, s.ctrl.modulo)
LeftOf(s) ==
  ListGood => IF s.entered THEN s.cnt = s.ctrl.persist /\ s.cnt > 0
                           ELSE s.cnt = line_cnt /\ s.ctrl = clut_ctrl
Good(s) == s \in Registers /\ RowDue(s) /\ FitsNext(s) /\ LeftOf(s)

LEMMA EntryGood == ASSUME NEW s, Good(s) PROVE Good(ProcessEntry(s))
<1> USE DEF Good
<1>1. CASE Entry(s.vdl).zero
  BY <1>1 DEF ProcessEntry
<1>2. CASE ~Entry(s.vdl).zero
  <2> DEFINE a == s.vdl
             e == Entry(s.vdl)
             t == ProcessEntry(s)
  <2>1. a \in DOMAIN Vdl /\ s \in Registers
    BY DEF Registers
  <2>2. /\ e.persist \in Nat /\ e.modulo \in Nat
        /\ e.curr \in Nat \union {None} /\ e.prev \in Nat \union {None}
        /\ e.dma \in BOOLEAN /\ e.prev_tick \in BOOLEAN
        /\ NextVdl(a) \in DOMAIN Vdl /\ e.cmds \in Seq(Cmds)
    BY <1>2, <2>1, EntryTyped
  <2>3. t = [vdl |-> NextVdl(a),
             ctrl |-> [prev_tick |-> e.prev_tick, dma |-> e.dma, modulo |-> e.modulo,
                       persist |-> e.persist],
             cnt |-> e.persist,
             curr |-> IF e.curr = None THEN s.curr ELSE e.curr,
             prev |-> IF e.prev = None THEN s.prev ELSE e.prev,
             colours |-> OptionalCmds(s.colours, e.cmds),
             loaded |-> s.loaded \/ e.curr # None,
             entered |-> TRUE]
    BY <1>2 DEF ProcessEntry
  <2>4. OptionalCmds(s.colours, e.cmds) \in Colours
    BY <2>1, <2>2, OptionalCmdsTyped DEF Registers
  <2>5. (IF e.curr = None THEN s.curr ELSE e.curr) \in Nat
    BY <2>1, <2>2 DEF Registers
  <2>6. (IF e.prev = None THEN s.prev ELSE e.prev) \in Nat
    BY <2>1, <2>2 DEF Registers
  <2>7. [prev_tick |-> e.prev_tick, dma |-> e.dma, modulo |-> e.modulo,
         persist |-> e.persist] \in Ctrl
    BY <2>2 DEF Ctrl
  <2>8. (s.loaded \/ e.curr # None) \in BOOLEAN /\ e.persist \in Int
    BY <2>2
  <2> HIDE DEF t, e, a
  <2>9. t \in Registers
    BY <2>2, <2>3, <2>4, <2>5, <2>6, <2>7, <2>8 DEF Registers
  <2>10. /\ t.vdl = NextVdl(a) /\ t.ctrl.modulo = e.modulo
         /\ t.ctrl.persist = e.persist /\ t.cnt = e.persist /\ t.entered = TRUE
         /\ t.loaded = (s.loaded \/ e.curr # None)
         /\ e.curr = None => t.curr = s.curr
    BY <2>3
  <2>11. RowDue(t)
    <3>1. CASE e.curr = None
      <4>1. WidthKept => s.ctrl.modulo = e.modulo
        BY <1>2, <3>1 DEF FitsNext, SameWidth, e
      <4> QED
        BY <2>10, <3>1, <4>1 DEF RowDue
    <3>2. CASE e.curr # None
      BY <2>10, <3>2 DEF RowDue
    <3> QED
      BY <3>1, <3>2
  <2>12. FitsNext(t)
    BY <1>2, <2>1, <2>10 DEF FitsNext, SameWidth, WidthKept, a, e
  <2>13. LeftOf(t)
    BY <1>2, <2>1, <2>2, <2>10 DEF LeftOf, ListGood, a, e
  <2> QED
    BY <2>9, <2>11, <2>12, <2>13 DEF t
<1> QED
  BY <1>1, <1>2

LEMMA AtGood ==
  ASSUME IInv, NEW a \in DOMAIN Vdl, WidthKept => SameWidth(a, clut_ctrl.modulo)
  PROVE  Good(At(a))
<1> DEFINE c == [clut |-> clut, bg |-> bg_color, disp |-> disp_ctrl, colors_only |-> FALSE]
<1>1. c \in Colours
  BY DEF IInv, Typed, TypeOK, Colours
<1>2. clut_ctrl \in Ctrl /\ line_cnt \in Int /\ curr_bmp \in Nat /\ prev_bmp \in Nat
  BY DEF IInv, Typed, TypeOK
<1>3. At(a) = [vdl |-> a, ctrl |-> clut_ctrl, cnt |-> line_cnt, curr |-> curr_bmp,
               prev |-> prev_bmp, colours |-> c, loaded |-> FALSE, entered |-> FALSE]
  BY DEF At
<1> HIDE DEF c
<1>4. At(a) \in Registers
  BY <1>1, <1>2, <1>3 DEF Registers
<1>5. /\ At(a).vdl = a /\ At(a).loaded = FALSE /\ At(a).curr = curr_bmp
      /\ At(a).ctrl = clut_ctrl /\ At(a).entered = FALSE /\ At(a).cnt = line_cnt
  BY <1>3
<1>6. RowDue(At(a)) /\ LeftOf(At(a))
  BY <1>5 DEF RowDue, LeftOf, IInv, RowKept
<1>7. FitsNext(At(a))
  BY <1>5 DEF FitsNext
<1> QED
  BY <1>4, <1>6, <1>7 DEF Good

LEMMA UsedGood == ASSUME IInv, line >= StartLine PROVE Good(Used)
<1>1. line \in Int /\ StartLine \in Int
  BY Lines DEF IInv, Typed, TypeOK
<1>2. Good(First)
  <2>1. CASE line > StartLine
    <3>1. curr_vdl \in DOMAIN Vdl /\ (WidthKept => SameWidth(curr_vdl, clut_ctrl.modulo))
      BY <2>1 DEF IInv, Typed, NextFits
    <3> QED
      BY <1>1, <2>1, <3>1, AtGood DEF First
  <2>2. CASE line = StartLine
    <3>1. head_vdl \in DOMAIN Vdl /\ (WidthKept => SameWidth(head_vdl, clut_ctrl.modulo))
      BY DEF IInv, Typed, TypeOK, WidthKept, SameWidth
    <3> QED
      BY <2>2, <3>1, AtGood, EntryGood DEF First
  <2> QED
    BY <1>1, <2>1, <2>2
<1> QED
  BY <1>2, EntryGood DEF Used
-----------------------------------------------------------------------------
(* What a line does with the registers.                                    *)

(* An even row is in the first half of its pair and an odd one in the      *)
(* second, so the tick moves on from any row to the next.                  *)
LEMMA TickRow ==
  ASSUME NEW o \in Nat, o % 4 = 0, NEW r \in Nat, NEW m \in Nat
  PROVE  /\ RowAt(o, r, m) \in Nat
         /\ TickFba(RowAt(o, r, m), m) = RowAt(o, r + 1, m)
<1> DEFINE q == r \div 2
           b == r % 2
           k == o \div 4
           z == k + (q * m)
<1>1. q \in Nat /\ b \in 0 .. 1 /\ r = 2 * q + b
  OBVIOUS
<1>2. k \in Nat /\ o = 4 * k
  OBVIOUS
<1>3. q * m \in Nat
  BY <1>1
<1>4. q * 4 * m = 4 * (q * m) /\ (q + 1) * 4 * m = 4 * (q * m) + 4 * m
  BY <1>1
<1>5. (r + 1) \div 2 = (IF b = 0 THEN q ELSE q + 1) /\ (r + 1) % 2 = 1 - b
  BY <1>1
<1>6. RowAt(o, r, m) = o + (q * 4 * m) + 2 * b
  BY DEF RowAt
<1>7. RowAt(o, r + 1, m)
        = o + (IF b = 0 THEN q * 4 * m ELSE (q + 1) * 4 * m) + 2 * (1 - b)
  BY <1>5 DEF RowAt
<1> HIDE DEF q, b, k
<1>8. z \in Nat /\ RowAt(o, r, m) = 4 * z + 2 * b
  BY <1>1, <1>2, <1>3, <1>4, <1>6
<1> HIDE DEF z
<1>9. RowAt(o, r, m) \in Nat /\ RowAt(o, r, m) % 4 = 2 * b
  BY <1>1, <1>8
<1>10. CASE b = 0
  BY <1>1, <1>3, <1>4, <1>6, <1>7, <1>9, <1>10 DEF TickFba
<1>11. CASE b = 1
  BY <1>1, <1>3, <1>4, <1>6, <1>7, <1>9, <1>11 DEF TickFba
<1> QED
  BY <1>1, <1>9, <1>10, <1>11

LEMMA TickTyped ==
  ASSUME NEW fba \in Nat, NEW m \in Nat PROVE TickFba(fba, m) \in Nat
  BY DEF TickFba

(* A renderer that is not the one of 0RGB1555 at high resolution fills as  *)
(* many pixels for a line with DMA as for one without.                     *)
LEMMA PixelsTyped ==
  ASSUME NEW dma \in BOOLEAN, NEW m \in Nat
  PROVE  /\ LinePixels(dma, m) \in Nat /\ m * Scale \in Nat
         /\ ~(renderer.hires /\ renderer.format = "0RGB1555")
              => LinePixels(dma, m) = m * Scale
<1>1. m * 4 \in Nat /\ m * 1 \in Nat
  OBVIOUS
<1>2. Scale = 4 \/ Scale = 1
  BY DEF Scale
<1> QED
  BY <1>1, <1>2 DEF LinePixels, BlackPixels, Scale

LEMMA LineRead ==
  ASSUME ProcessLine, line >= StartLine, line \in Int
  PROVE  /\ curr_vdl' = Used.vdl /\ clut_ctrl' = Used.ctrl
         /\ line_cnt' = Used.cnt - 1
         /\ prev_bmp' = IF Used.ctrl.prev_tick THEN TickFba(Used.prev, Used.ctrl.modulo)
                        ELSE Used.curr
         /\ curr_bmp' = TickFba(Used.curr, Used.ctrl.modulo)
         /\ clut' = Used.colours.clut /\ bg_color' = Used.colours.bg
         /\ disp_ctrl' = Used.colours.disp
         /\ cursor' = (IF line = StartLine THEN 0 ELSE cursor)
              + (IF Visible(line) THEN LinePixels(Used.ctrl.dma, Used.ctrl.modulo) ELSE 0)
         /\ origin' = IF Used.loaded THEN Used.curr ELSE origin
         /\ rows' = (IF Used.loaded THEN 0 ELSE rows) + 1
         /\ shown' = (IF Used.entered THEN 0 ELSE shown) + 1
         /\ drawn' = (IF line = StartLine THEN 0 ELSE drawn)
              + (IF Visible(line) THEN Used.ctrl.modulo * Scale ELSE 0)
         /\ UNCHANGED <<head_vdl, renderer>>
<1>1. ~(line < StartLine)
  BY Lines
<1> QED
  BY <1>1, Zenon DEF ProcessLine, Used, First, At

LEMMA ModSmall == ASSUME NEW n \in Nat \ {0}, NEW x \in 0 .. n - 1 PROVE x % n = x
  OBVIOUS

(* A line keeps the invariant, whether it reads the list or not.           *)
LEMMA LineStep == ASSUME IInv, Scan, line >= StartLine PROVE IInv'
<1> DEFINE s == Used
<1>1. /\ line \in 0 .. Scanlines - 1 /\ cursor \in Nat /\ drawn \in Nat /\ rows \in Nat
      /\ shown \in Nat /\ line_cnt \in Int /\ origin \in Nat
  BY DEF IInv, Typed, TypeOK
<1>2. Good(s)
  BY UsedGood
<1>3. /\ curr_vdl' = s.vdl /\ clut_ctrl' = s.ctrl
      /\ line_cnt' = s.cnt - 1
      /\ prev_bmp' = IF s.ctrl.prev_tick THEN TickFba(s.prev, s.ctrl.modulo) ELSE s.curr
      /\ curr_bmp' = TickFba(s.curr, s.ctrl.modulo)
      /\ clut' = s.colours.clut /\ bg_color' = s.colours.bg
      /\ disp_ctrl' = s.colours.disp
      /\ cursor' = (IF line = StartLine THEN 0 ELSE cursor)
           + (IF Visible(line) THEN LinePixels(s.ctrl.dma, s.ctrl.modulo) ELSE 0)
      /\ origin' = IF s.loaded THEN s.curr ELSE origin
      /\ rows' = (IF s.loaded THEN 0 ELSE rows) + 1
      /\ shown' = (IF s.entered THEN 0 ELSE shown) + 1
      /\ drawn' = (IF line = StartLine THEN 0 ELSE drawn)
           + (IF Visible(line) THEN s.ctrl.modulo * Scale ELSE 0)
      /\ head_vdl' = head_vdl /\ renderer' = renderer
  BY <1>1, LineRead DEF Scan
<1>4. s \in Registers
  BY <1>2 DEF Good
<1> HIDE DEF s
<1>5. /\ s.vdl \in DOMAIN Vdl /\ s.ctrl \in Ctrl /\ s.cnt \in Int /\ s.curr \in Nat
      /\ s.prev \in Nat /\ s.colours \in Colours
  BY <1>4 DEF Registers
<1>6. /\ s.ctrl.prev_tick \in BOOLEAN /\ s.ctrl.dma \in BOOLEAN
      /\ s.ctrl.modulo \in Nat /\ s.ctrl.persist \in Nat
  BY <1>5 DEF Ctrl
<1>7. Typed'
  <2>1. line' \in 0 .. Scanlines - 1
    BY <1>1, Lines DEF Scan
  <2>2. TickFba(s.curr, s.ctrl.modulo) \in Nat /\ TickFba(s.prev, s.ctrl.modulo) \in Nat
    BY <1>5, <1>6, TickTyped
  <2>3. LinePixels(s.ctrl.dma, s.ctrl.modulo) \in Nat /\ s.ctrl.modulo * Scale \in Nat
    BY <1>6, PixelsTyped
  <2>4. cursor' \in Nat /\ drawn' \in Nat
    BY <1>1, <1>3, <2>3
  <2>5. /\ s.colours.clut \in [Channels -> [Pens -> Bytes]]
        /\ s.colours.bg \in [Channels -> Bytes]
        /\ s.colours.disp \in [colors_only : BOOLEAN, clut_bypass : BOOLEAN]
    BY <1>5 DEF Colours
  <2>6. line_cnt' \in Int /\ rows' \in Nat /\ shown' \in Nat /\ origin' \in Nat
    BY <1>1, <1>3, <1>5
  <2>7. curr_bmp' \in Nat /\ prev_bmp' \in Nat
    BY <1>3, <1>5, <2>2
  <2>8. TypeOK'
    BY <1>3, <1>6, <2>1, <2>4, <2>5, <2>6, <2>7 DEF TypeOK, IInv, Typed
  <2> QED
    BY <1>3, <1>5, <2>5, <2>6, <2>8 DEF IInv, Typed
<1>8. RowKept'
  <2>1. SUFFICES ASSUME WidthKept, origin' % 4 = 0
                 PROVE  curr_bmp' = RowAt(origin', rows', s.ctrl.modulo)
    BY <1>3 DEF RowKept, WidthKept
  <2>2. CASE s.loaded
    <3>1. s.curr = RowAt(s.curr, 0, s.ctrl.modulo)
      BY <1>5, <1>6 DEF RowAt
    <3>2. s.curr % 4 = 0
      BY <1>3, <2>1, <2>2
    <3>3. TickFba(s.curr, s.ctrl.modulo) = RowAt(s.curr, 1, s.ctrl.modulo)
      <4>1. TickFba(RowAt(s.curr, 0, s.ctrl.modulo), s.ctrl.modulo)
              = RowAt(s.curr, 0 + 1, s.ctrl.modulo)
        BY <1>5, <1>6, <3>2, TickRow
      <4> QED
        BY <3>1, <4>1
    <3>4. curr_bmp' = TickFba(s.curr, s.ctrl.modulo) /\ origin' = s.curr /\ rows' = 1
      BY <1>3, <2>2
    <3> QED
      BY <3>3, <3>4
  <2>3. CASE ~s.loaded
    <3>1. origin % 4 = 0
      BY <1>3, <2>1, <2>3
    <3>2. s.curr = RowAt(origin, rows, s.ctrl.modulo)
      BY <1>2, <2>1, <2>3, <3>1 DEF Good, RowDue
    <3>3. TickFba(s.curr, s.ctrl.modulo) = RowAt(origin, rows + 1, s.ctrl.modulo)
      <4>1. TickFba(RowAt(origin, rows, s.ctrl.modulo), s.ctrl.modulo)
              = RowAt(origin, rows + 1, s.ctrl.modulo)
        BY <1>1, <1>6, <3>1, TickRow
      <4> QED
        BY <3>2, <4>1
    <3>4. /\ curr_bmp' = TickFba(s.curr, s.ctrl.modulo) /\ origin' = origin
          /\ rows' = rows + 1
      BY <1>3, <2>3
    <3> QED
      BY <3>3, <3>4
  <2> QED
    BY <2>2, <2>3
<1>9. NextFits'
  BY <1>2, <1>3 DEF Good, FitsNext, NextFits, WidthKept, SameWidth
<1>10. LinesLeft'
  <2>1. CASE s.entered
    BY <1>1, <1>2, <1>3, <1>5, <1>6, <2>1 DEF Good, LeftOf, LinesLeft, ListGood
  <2>2. CASE ~s.entered
    BY <1>1, <1>2, <1>3, <1>5, <1>6, <2>2 DEF Good, LeftOf, LinesLeft, ListGood, IInv
  <2> QED
    BY <2>1, <2>2
<1>11. CursorInStep'
  <2>1. SUFFICES ASSUME \A r \in Renderers : r.hires => r.format # "0RGB1555"
                 PROVE  cursor' = drawn'
    BY DEF CursorInStep
  <2>2. cursor = drawn
    BY <2>1 DEF IInv, CursorInStep
  <2>3. ~(renderer.hires /\ renderer.format = "0RGB1555")
    BY <2>1 DEF IInv, Typed
  <2>4. LinePixels(s.ctrl.dma, s.ctrl.modulo) = s.ctrl.modulo * Scale
    BY <1>6, <2>3, PixelsTyped
  <2> QED
    BY <1>3, <2>2, <2>4
<1> QED
  BY <1>7, <1>8, <1>9, <1>10, <1>11 DEF IInv
-----------------------------------------------------------------------------
(* The invariant.                                                          *)

LEMMA IInvInit == VdlpInit => IInv
<1> SUFFICES ASSUME VdlpInit PROVE IInv
  OBVIOUS
<1>1. Typed
  BY Lines DEF VdlpInit, Typed, TypeOK, Ctrl, NoCtrl, Bytes
<1>2. RowKept /\ NextFits /\ LinesLeft /\ CursorInStep
  BY Lines DEF VdlpInit, RowKept, RowAt, NextFits, LinesLeft, CursorInStep, NoCtrl
<1> QED
  BY <1>1, <1>2 DEF IInv

LEMMA IInvStep == IInv /\ [Next]_vdlpVars => IInv'
<1> SUFFICES ASSUME IInv, [Next]_vdlpVars PROVE IInv'
  OBVIOUS
<1> USE DEF IInv, Typed, TypeOK, RowKept, NextFits, LinesLeft, CursorInStep,
            WidthKept, ListGood, SameWidth, RowAt
<1>1. CASE Scan /\ line >= StartLine
  BY <1>1, LineStep
<1>2. CASE Scan /\ ~(line >= StartLine)
  <2>1. line < StartLine /\ line' = line + 1
    <3>1. line \in Nat /\ line < StartLine /\ StartLine < Scanlines
      BY <1>2, Lines
    <3>2. line + 1 \in 0 .. Scanlines - 1
      BY <3>1, Lines
    <3>3. (line + 1) % Scanlines = line + 1
      BY <3>2, Lines, ModSmall
    <3> QED
      BY <1>2, <3>1, <3>3 DEF Scan
  <2>2. UNCHANGED <<listVars, colourVars, renderer, cursor, origin, rows, shown, drawn>>
    BY <1>2, <2>1 DEF Scan, ProcessLine
  <2> QED
    BY <2>1, <2>2, Lines DEF listVars, colourVars
<1>3. ASSUME NEW a \in Heads, SetVdlHead(a) PROVE IInv'
  BY <1>3, Lines DEF SetVdlHead, colourVars
<1>4. ASSUME NEW r \in Renderers, Configure(r) PROVE IInv'
  BY <1>4 DEF Configure, listVars, colourVars
<1>5. CASE UNCHANGED vdlpVars
  BY <1>5 DEF vdlpVars, listVars, colourVars
<1> QED
  BY <1>1, <1>2, <1>3, <1>4, <1>5 DEF Next

LEMMA IInvHolds == Spec => []IInv
  BY IInvInit, IInvStep, PTL DEF Spec

(* Between two lines the registers have their types; an entry is in force  *)
(* for exactly the lines it asks for, and the output has as many pixels as *)
(* the lines drawn (opera_vdlp_process_line).                              *)
THEOREM ListInForce == Spec => []Inv
<1>1. IInv => Inv
  BY DEF IInv, Inv, Typed, TypeOK, LinesLeft, EntryLasts, ListGood
<1> QED
  BY <1>1, IInvHolds, PTL

(* Line k of a bitmap shows its row k: each tick of the address goes to the *)
(* other half of a pair of rows or to the next pair (tick_fba), and entries *)
(* that share a bitmap go on where the one before stopped.                 *)
THEOREM RowsInOrder == Spec => []BitmapRow
<1>1. IInv => BitmapRow
  BY DEF IInv, RowKept, BitmapRow, RowAddress, RowAt
<1> QED
  BY <1>1, IInvHolds, PTL
-----------------------------------------------------------------------------
(* Pixels: what comes out of a word that channels were put in.             *)

LEMMA Powers ==
  /\ 2^3 = 8 /\ 2^5 = 32 /\ 2^6 = 64 /\ 2^8 = 256 /\ 2^10 = 1024 /\ 2^11 = 2048
  /\ 2^15 = 32768 /\ 2^16 = 65536 /\ 2^19 = 524288
  OBVIOUS

Under(n, x) == x \in Nat /\ x < n
Packs(x, r, hi, g, lo, b) == x = r * hi + g * lo + b

LEMMA ByteUnder == ASSUME NEW x \in Bytes PROVE Under(256, x)
  BY DEF Bytes, Under

LEMMA Unpack0RGB1555 ==
  ASSUME NEW x, NEW r, NEW g, NEW b, Under(32, r), Under(32, g), Under(32, b),
         Packs(x, r, 1024, g, 32, b)
  PROVE  Red(x) = r /\ Green(x) = g /\ Blue(x) = b
<1> USE DEF Under, Packs
<1>1. x \div 1024 = r /\ x \div 32 = r * 32 + g /\ x % 32 = b
  OBVIOUS
<1>2. r % 32 = r /\ (r * 32 + g) % 32 = g
  OBVIOUS
<1> QED
  BY <1>1, <1>2, Powers DEF Red, Green, Blue

LEMMA UnpackRGB565 ==
  ASSUME NEW x, NEW r, NEW g, NEW b, Under(32, r), Under(64, g), Under(32, b),
         Packs(x, r, 2048, g, 32, b)
  PROVE  x \div 2^11 = r /\ (x \div 2^6) % 32 = g \div 2 /\ x % 32 = b
<1> USE DEF Under, Packs
<1> DEFINE h == g \div 2
<1>1. Under(32, h) /\ Under(2, g - 2 * h)
  OBVIOUS
<1>2. x = r * 2048 + h * 64 + (g - 2 * h) * 32 + b
  BY <1>1
<1> HIDE DEF h
<1>3. x \div 2048 = r /\ x \div 64 = r * 32 + h /\ x % 32 = b
  BY <1>1, <1>2
<1>4. (r * 32 + h) % 32 = h
  BY <1>1
<1> QED
  BY <1>3, <1>4, Powers DEF h

LEMMA UnpackXRGB8888 ==
  ASSUME NEW x, NEW r, NEW g, NEW b, Under(256, r), Under(256, g), Under(256, b),
         Packs(x, r, 65536, g, 256, b)
  PROVE  /\ (x \div 2^19) % 32 = r \div 8 /\ (x \div 2^11) % 32 = g \div 8
         /\ (x \div 2^3) % 32 = b \div 8
<1> USE DEF Under, Packs
<1> DEFINE rh == r \div 8
           gh == g \div 8
           bh == b \div 8
<1>1. /\ Under(32, rh) /\ Under(8, r - 8 * rh)
      /\ Under(32, gh) /\ Under(8, g - 8 * gh)
      /\ Under(32, bh) /\ Under(8, b - 8 * bh)
  OBVIOUS
<1> HIDE DEF rh, gh, bh
<1>2. x \div 524288 = rh
  BY <1>1
<1>3. x \div 2048 = r * 32 + gh
  BY <1>1
<1>4. x \div 8 = r * 8192 + g * 32 + bh
  BY <1>1
<1>5. rh % 32 = rh /\ (r * 32 + gh) % 32 = gh /\ (r * 8192 + g * 32 + bh) % 32 = bh
  BY <1>1
<1> QED
  BY <1>2, <1>3, <1>4, <1>5, Powers DEF rh, gh, bh

LEMMA FiveBits ==
  ASSUME NEW n \in Nat
  PROVE  Under(32, n % 32) /\ n \div 32 \in Nat /\ n = (n \div 32) * 32 + (n % 32)
  BY DEF Under

LEMMA Pixel16 ==
  ASSUME NEW p \in Nat, p < 65536
  PROVE  /\ Under(32, (p \div 1024) % 32) /\ Under(32, (p \div 32) % 32)
         /\ Under(32, p % 32)
         /\ Packs(p % 32768, (p \div 1024) % 32, 1024, (p \div 32) % 32, 32, p % 32)
<1> DEFINE b == p % 32
           p5 == p \div 32
           g == p5 % 32
           p10 == p5 \div 32
           r == p10 % 32
           t == p10 \div 32
<1>1. Under(32, b) /\ p5 \in Nat /\ p = p5 * 32 + b
  BY FiveBits
<1>2. p \div 1024 = p10
  OBVIOUS
<1> HIDE DEF b, p5
<1>3. Under(32, g) /\ p10 \in Nat /\ p5 = p10 * 32 + g
  BY <1>1, FiveBits
<1> HIDE DEF g, p10
<1>4. Under(32, r) /\ t \in Nat /\ p10 = t * 32 + r
  BY <1>3, FiveBits
<1> HIDE DEF r, t
<1> DEFINE y == r * 1024 + g * 32 + b
<1>5. y \in Nat /\ y < 32768 /\ p = t * 32768 + y
  BY <1>1, <1>3, <1>4 DEF Under
<1> HIDE DEF y
<1>6. p % 32768 = y
  BY <1>4, <1>5
<1> QED
  BY <1>1, <1>2, <1>3, <1>4, <1>6 DEF b, p5, g, p10, r, t, y, Packs

(* Three channels come out of all formats with the same five bits.         *)
SamePicture(a, b, x) ==
  /\ Red(a) = b \div 2^11 /\ Red(a) = (x \div 2^19) % 32
  /\ Green(a) = (b \div 2^6) % 32 /\ Green(a) = (x \div 2^11) % 32
  /\ Blue(a) = b % 32 /\ Blue(a) = (x \div 2^3) % 32

LEMMA PacksAgree ==
  ASSUME NEW y, NEW z, NEW x, NEW r, NEW g, NEW b, NEW gq,
         Under(256, r), Under(256, g), Under(256, b), Under(64, gq), gq \div 2 = g \div 8,
         Packs(y, r \div 8, 1024, g \div 8, 32, b \div 8),
         Packs(z, r \div 8, 2048, gq, 32, b \div 8),
         Packs(x, r, 65536, g, 256, b)
  PROVE  SamePicture(y, z, x)
<1>1. Under(32, r \div 8) /\ Under(32, g \div 8) /\ Under(32, b \div 8)
  BY DEF Under
<1>2. Red(y) = r \div 8 /\ Green(y) = g \div 8 /\ Blue(y) = b \div 8
  BY <1>1, Unpack0RGB1555
<1>3. z \div 2^11 = r \div 8 /\ (z \div 2^6) % 32 = gq \div 2 /\ z % 32 = b \div 8
  BY <1>1, UnpackRGB565
<1>4. /\ (x \div 2^19) % 32 = r \div 8 /\ (x \div 2^11) % 32 = g \div 8
      /\ (x \div 2^3) % 32 = b \div 8
  BY UnpackXRGB8888
<1> QED
  BY <1>2, <1>3, <1>4 DEF SamePicture

LEMMA ColoursAgree ==
  ASSUME NEW r \in Bytes, NEW g \in Bytes, NEW b \in Bytes
  PROVE  SamePicture((r \div 8) * 2^10 + (g \div 8) * 2^5 + b \div 8,
                     (r \div 8) * 2^11 + (g \div 4) * 2^5 + b \div 8,
                     r * 2^16 + g * 2^8 + b)
<1>1. Under(256, r) /\ Under(256, g) /\ Under(256, b)
  BY ByteUnder
<1> DEFINE y == (r \div 8) * 2^10 + (g \div 8) * 2^5 + b \div 8
           z == (r \div 8) * 2^11 + (g \div 4) * 2^5 + b \div 8
           x == r * 2^16 + g * 2^8 + b
<1>2. Under(64, g \div 4) /\ (g \div 4) \div 2 = g \div 8
  BY <1>1 DEF Under
<1>3. /\ Packs(y, r \div 8, 1024, g \div 8, 32, b \div 8)
      /\ Packs(z, r \div 8, 2048, g \div 4, 32, b \div 8)
      /\ Packs(x, r, 65536, g, 256, b)
  BY Powers DEF Packs
<1> HIDE DEF x, y, z
<1>4. SamePicture(y, z, x)
  BY <1>1, <1>2, <1>3, PacksAgree
<1> QED
  BY <1>4 DEF x, y, z

(* A pixel that is a colour itself is the same in all formats.             *)
LEMMA FixedAgree ==
  ASSUME NEW p \in Nat, p < 65536
  PROVE  SamePicture(p % 2^15, ((p % 2^15) \div 2^5) * 2^6 + Blue(p),
                     Red(p) * 2^19 + Green(p) * 2^11 + Blue(p) * 2^3)
<1> DEFINE r == (p \div 1024) % 32
           g == (p \div 32) % 32
           b == p % 32
           y == p % 32768
           z == (y \div 32) * 64 + b
           x == r * 524288 + g * 2048 + b * 8
<1>1. Under(32, r) /\ Under(32, g) /\ Under(32, b) /\ Packs(y, r, 1024, g, 32, b)
  BY Pixel16
<1>2. z = (y \div 32) * 64 + b /\ x = r * 524288 + g * 2048 + b * 8
  OBVIOUS
<1>3. Red(p) = r /\ Green(p) = g /\ Blue(p) = b
  BY Powers DEF Red, Green, Blue
<1> HIDE DEF r, g, b, x, y, z
<1>4. y \div 32 = r * 32 + g
  BY <1>1 DEF Under, Packs
<1>5. Packs(z, r, 2048, 2 * g, 32, b)
  BY <1>1, <1>2, <1>4 DEF Under, Packs
<1>6. Packs(x, 8 * r, 65536, 8 * g, 256, 8 * b)
  BY <1>1, <1>2 DEF Under, Packs
<1>7. /\ Under(64, 2 * g) /\ (2 * g) \div 2 = g
      /\ Under(256, 8 * r) /\ Under(256, 8 * g) /\ Under(256, 8 * b)
      /\ (8 * r) \div 8 = r /\ (8 * g) \div 8 = g /\ (8 * b) \div 8 = b
  BY <1>1 DEF Under
<1>8. SamePicture(y, z, x)
  BY <1>1, <1>5, <1>6, <1>7, PacksAgree
<1> QED
  BY <1>3, <1>8, Powers DEF x, y, z

(* Whatever the renderer, the palette and the background are, the three    *)
(* formats show each pixel with the same five bits of each channel (the    *)
(* renderers of opera_vdlp.c).                                             *)
THEOREM PicturesAgree == Spec => []FormatsAgree
<1>1. ASSUME Typed, NEW p \in Pixels
      PROVE  SamePicture(Pixel0RGB1555(p), PixelRGB565(p), PixelXRGB8888(p))
  <2>1. p \in Nat /\ p < 65536
    BY VdlpAssumption, Powers
  <2>2. /\ clut \in [Channels -> [Pens -> Bytes]] /\ bg_color \in [Channels -> Bytes]
    BY <1>1 DEF Typed, TypeOK
  <2>3. CASE Source(p) = "fixed"
    BY <2>1, <2>3, FixedAgree DEF Pixel0RGB1555, PixelRGB565, PixelXRGB8888
  <2>4. CASE Source(p) = "background"
    <3>1. bg_color["r"] \in Bytes /\ bg_color["g"] \in Bytes /\ bg_color["b"] \in Bytes
      BY <2>2 DEF Channels
    <3> QED
      BY <2>4, <3>1, ColoursAgree DEF Pixel0RGB1555, PixelRGB565, PixelXRGB8888
  <2>5. CASE Source(p) = "user"
    <3>1. Red(p) \in Pens /\ Green(p) \in Pens /\ Blue(p) \in Pens
      <4>1. /\ Under(32, (p \div 1024) % 32) /\ Under(32, (p \div 32) % 32)
            /\ Under(32, p % 32)
        BY <2>1, Pixel16
      <4> QED
        BY <4>1, Powers DEF Red, Green, Blue, Pens, Under
    <3>2. /\ clut["r"][Red(p)] \in Bytes /\ clut["g"][Green(p)] \in Bytes
          /\ clut["b"][Blue(p)] \in Bytes
      BY <2>2, <3>1 DEF Channels
    <3> QED
      BY <2>5, <3>2, ColoursAgree DEF Pixel0RGB1555, PixelRGB565, PixelXRGB8888
  <2> QED
    BY <2>3, <2>4, <2>5 DEF Source
<1>2. IInv => FormatsAgree
  BY <1>1 DEF IInv, FormatsAgree, SamePicture
<1> QED
  BY <1>2, IInvHolds, PTL
=============================================================================
