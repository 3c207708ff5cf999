------------------------------ MODULE OperaVdlp ------------------------------
(***************************************************************************)
(* The video display list processor of the emulator (opera_vdlp.c).  The   *)
(* frame loop (OperaFrame) calls it once for each scanline, in order; a    *)
(* list of entries in VRAM says which bitmap a number of lines show, and   *)
(* may change the palette between.                                         *)
(* Addresses are counted in words; the list is a function from the address *)
(* of an entry to its decoded words.                                       *)
(***************************************************************************)
EXTENDS Integers, Sequences

CONSTANTS
  Vdl,         \* the entries in VRAM by address, see ListAssumption
  Heads,       \* what the CPU writes as head of the list
  Renderers,   \* what the front end may configure
  Scanlines,   \* lines of a field; opera_region_scanlines
  StartLine,   \* the line the list starts in; 5
  FirstVisible, EndVisible,  \* opera_region_start_scanline, _end_scanline
  Pixels       \* pixels whose colours the properties compare

Channels == {"r", "g", "b"}
Bytes == 0 .. 255
Pens == 0 .. 31
None == -1

(* The words of an entry.  A zero entry ends the list; "next" is absolute  *)
(* or relative to the word after the entry; cmds are the words that follow.*)
Cmds ==
  [kind : {"clut"}, enable : 0 .. 3, pen : Pens, r : Bytes, g : Bytes, b : Bytes]
    \union [kind : {"av"}]
    \union [kind : {"display"}, colors_only : BOOLEAN, clut_bypass : BOOLEAN]
    \union [kind : {"background"}, r : Bytes, g : Bytes, b : Bytes]

Entry(a) == Vdl[a]
NextVdl(a) == IF Entry(a).rel THEN a + 4 + Entry(a).next ELSE Entry(a).next

ASSUME ListAssumption ==
  \A a \in DOMAIN Vdl :
    ~Entry(a).zero =>
      /\ Entry(a).persist \in Nat /\ Entry(a).modulo \in Nat \ {0}
      /\ Entry(a).curr \in Nat \union {None} /\ Entry(a).prev \in Nat \union {None}
      /\ Entry(a).dma \in BOOLEAN /\ Entry(a).prev_tick \in BOOLEAN
      /\ NextVdl(a) \in DOMAIN Vdl
      /\ Entry(a).cmds \in Seq(Cmds)

ASSUME VdlpAssumption ==
  /\ DOMAIN Vdl \subseteq Nat /\ Heads \subseteq DOMAIN Vdl
  /\ Scanlines \in Nat \ {0} /\ StartLine \in 0 .. Scanlines - 1
  /\ FirstVisible \in Nat /\ EndVisible \in Nat
  /\ \A p \in Pixels : p \in Nat /\ p < 2^16

ASSUME RendererAssumption ==
  Renderers \subseteq [format : {"0RGB1555", "RGB565", "XRGB8888"},
                       hires : BOOLEAN, bypass : BOOLEAN]

VARIABLES
  line,                 \* the line the frame loop is at
  head_vdl, curr_vdl,   \* where the list starts, the entry that comes next
  clut_ctrl,            \* the first word of the entry in force: dma, modulo, tick
  line_cnt,             \* lines it still has
  curr_bmp, prev_bmp,   \* the row to show, and the one to interpolate with
  clut, bg_color, disp_ctrl,
  renderer,
  cursor,               \* g_CURBUF - g_BUF in pixels
  origin, rows,         \* history: the last bitmap address loaded, lines since
  shown,                \* history: lines the entry in force was used for
  drawn                 \* history: pixels the visible lines should have filled

listVars == <<head_vdl, curr_vdl, clut_ctrl, line_cnt, curr_bmp, prev_bmp>>
colourVars == <<clut, bg_color, disp_ctrl>>
vdlpVars == <<line, listVars, colourVars, renderer, cursor, origin, rows, shown, drawn>>

NoCtrl == [prev_tick |-> FALSE, dma |-> FALSE, modulo |-> 320, persist |-> 0]

(* opera_vdlp_init; it also chooses a renderer, whatever was configured.   *)
VdlpInit ==
  /\ line = 0
  /\ head_vdl \in Heads /\ curr_vdl = 0
  /\ clut_ctrl = NoCtrl /\ line_cnt = 0 /\ curr_bmp = 0 /\ prev_bmp = 0
  /\ clut = [c \in Channels |-> [p \in Pens |-> 0]]
  /\ bg_color = [c \in Channels |-> 0]
  /\ disp_ctrl = [colors_only |-> FALSE, clut_bypass |-> FALSE]
  /\ renderer = [format |-> "XRGB8888", hires |-> FALSE, bypass |-> FALSE]
  /\ cursor = 0 /\ origin = 0 /\ rows = 0 /\ shown = 0 /\ drawn = 0
-----------------------------------------------------------------------------
(* One colour word sets all channels of a pen or one of them.              *)
ChannelsSet(enable) ==
  CASE enable = 0 -> Channels [] enable = 3 -> {"r"}
    [] enable = 2 -> {"g"} [] enable = 1 -> {"b"}

SetClut(cl, cmd) ==
  [c \in Channels |-> IF c \in ChannelsSet(cmd.enable)
                      THEN [cl[c] EXCEPT ![cmd.pen] = cmd[c]] ELSE cl[c]]

(* The words after an entry, in order.  Once a display word says so, later *)
(* display words of the same entry are ignored.                            *)
OptionalCmd(s, cmd) ==
  CASE cmd.kind = "clut" -> [s EXCEPT !.clut = SetClut(@, cmd)]
    [] cmd.kind = "av" -> s
    [] cmd.kind = "display" ->
         IF s.colors_only THEN s
         ELSE [s EXCEPT !.disp = [colors_only |-> cmd.colors_only,
                                  clut_bypass |-> cmd.clut_bypass],
                        !.colors_only = cmd.colors_only]
    [] cmd.kind = "background" ->
         [s EXCEPT !.bg = [c \in Channels |-> cmd[c]]]

OptionalCmds(colours, cmds) ==
  LET after[i \in 0 .. Len(cmds)] ==
        IF i = 0 THEN [colours EXCEPT !.colors_only = FALSE]
                 ELSE OptionalCmd(after[i - 1], cmds[i])
  IN  after[Len(cmds)]

(* The registers after the entry at address s.vdl has been read.           *)
ProcessEntry(s) ==
  IF Entry(s.vdl).zero THEN s
  ELSE LET e == Entry(s.vdl) IN
    [vdl |-> NextVdl(s.vdl),
     ctrl |-> [prev_tick |-> e.prev_tick, dma |-> e.dma, modulo |-> e.modulo,
               persist |-> e.persist],
     cnt |-> e.persist,
     curr |-> IF e.curr = None THEN s.curr ELSE e.curr,
     prev |-> IF e.prev = None THEN s.prev ELSE e.prev,
     colours |-> OptionalCmds(s.colours, e.cmds),
     loaded |-> s.loaded \/ e.curr # None,
     entered |-> TRUE]

(* Mutant: the two halves of a word change places.                         *)
TickFba_Swapped(fba, modulo) == fba + (IF fba % 4 < 2 THEN modulo * 4 - 2 ELSE 2)

(* A row is stored in pairs: the address moves on to the other half of     *)
(* each word, then over the whole pair (in bytes).                         *)
TickFba(fba, modulo) == fba + (IF fba % 4 >= 2 THEN modulo * 4 - 2 ELSE 2)

Visible(n) == n >= FirstVisible /\ n < EndVisible

(* Mutant: no format fills a line at high resolution without DMA.          *)
LinePixels_DmaOnly(dma, modulo) == modulo * (IF renderer.hires /\ dma THEN 4 ELSE 1)

(* At high resolution a line becomes two lines of twice as many pixels.    *)
Scale == IF renderer.hires THEN 4 ELSE 1

(* A line without DMA is black.  The two high resolution renderers of      *)
(* 0RGB1555 fill it as if it were of normal resolution.                    *)
BlackPixels(modulo) ==
  modulo * (IF renderer.format = "0RGB1555" THEN 1 ELSE Scale)

(* How many pixels a line takes.                                           *)
LinePixels(dma, modulo) == IF dma THEN modulo * Scale ELSE BlackPixels(modulo)

(* opera_vdlp_process_line: the list is entered anew in its first line and *)
(* read on when an entry has no line left.                                 *)
ProcessLine ==
  IF line < StartLine
  THEN UNCHANGED <<listVars, colourVars, renderer, cursor, origin, rows, shown, drawn>>
  ELSE
    LET At(vdl) ==
               [vdl |-> vdl, ctrl |-> clut_ctrl, cnt |-> line_cnt,
                curr |-> curr_bmp, prev |-> prev_bmp,
                colours |-> [clut |-> clut, bg |-> bg_color, disp |-> disp_ctrl,
                             colors_only |-> FALSE],
                loaded |-> FALSE, entered |-> FALSE]
        first == IF line = StartLine
                 THEN ProcessEntry(At(head_vdl)) ELSE At(curr_vdl)
        s == IF first.cnt = 0 THEN ProcessEntry(first) ELSE first
        start == IF line = StartLine THEN 0 ELSE cursor
    IN /\ curr_vdl' = s.vdl /\ clut_ctrl' = s.ctrl
       /\ line_cnt' = s.cnt - 1
       /\ prev_bmp' = IF s.ctrl.prev_tick THEN TickFba(s.prev, s.ctrl.modulo) ELSE s.curr
       /\ curr_bmp' = TickFba(s.curr, s.ctrl.modulo)
       /\ clut' = s.colours.clut /\ bg_color' = s.colours.bg /\ disp_ctrl' = s.colours.disp
       /\ cursor' = start + (IF Visible(line) THEN LinePixels(s.ctrl.dma, s.ctrl.modulo) ELSE 0)
       /\ origin' = IF s.loaded THEN s.curr ELSE origin
       /\ rows' = (IF s.loaded THEN 0 ELSE rows) + 1
       /\ shown' = (IF s.entered THEN 0 ELSE shown) + 1
       /\ drawn' = (IF line = StartLine THEN 0 ELSE drawn)
             + (IF Visible(line) THEN s.ctrl.modulo * Scale ELSE 0)
       /\ UNCHANGED <<head_vdl, renderer>>

Scan == ProcessLine /\ line' = (line + 1) % Scanlines

SetVdlHead(a) ==
  /\ head_vdl' = a
  /\ UNCHANGED <<line, curr_vdl, clut_ctrl, line_cnt, curr_bmp, prev_bmp, colourVars,
                 renderer, cursor, origin, rows, shown, drawn>>

(* opera_vdlp_configure gives a new buffer and renderer.                   *)
Configure(r) ==
  /\ renderer' = r
  /\ UNCHANGED <<line, listVars, colourVars, cursor, origin, rows, shown, drawn>>

Next == Scan \/ (\E a \in Heads : SetVdlHead(a)) \/ (\E r \in Renderers : Configure(r))

Spec == VdlpInit /\ [][Next]_vdlpVars
-----------------------------------------------------------------------------
(* What a pixel of 16 bits looks like in each format.  A pixel selects a   *)
(* pen for each channel; zero is the background; with the bypass a pixel   *)
(* with its top bit set is a colour itself.                                *)
Red(p) == (p \div 2^10) % 32
Green(p) == (p \div 2^5) % 32
Blue(p) == p % 32

Source(p) ==
  IF renderer.bypass THEN "fixed"
  ELSE IF p = 0 THEN "background"
  ELSE IF disp_ctrl.clut_bypass /\ p >= 2^15 THEN "fixed" ELSE "user"

Pixel0RGB1555(p) ==
  CASE Source(p) = "fixed" -> p % 2^15
    [] Source(p) = "background" ->
         (bg_color["r"] \div 8) * 2^10 + (bg_color["g"] \div 8) * 2^5 + bg_color["b"] \div 8
    [] Source(p) = "user" ->
         (clut["r"][Red(p)] \div 8) * 2^10 + (clut["g"][Green(p)] \div 8) * 2^5
           + clut["b"][Blue(p)] \div 8

(* Mutant: green is cut to five bits and not moved up.                     *)
PixelRGB565_Green(p) ==
  CASE Source(p) = "fixed" -> ((p % 2^15) \div 2^5) * 2^6 + Blue(p)
    [] Source(p) = "background" ->
         (bg_color["r"] \div 8) * 2^11 + (bg_color["g"] \div 8) * 2^5 + bg_color["b"] \div 8
    [] Source(p) = "user" ->
         (clut["r"][Red(p)] \div 8) * 2^11 + (clut["g"][Green(p)] \div 8) * 2^5
           + clut["b"][Blue(p)] \div 8

PixelRGB565(p) ==
  CASE Source(p) = "fixed" -> ((p % 2^15) \div 2^5) * 2^6 + Blue(p)
    [] Source(p) = "background" ->
         (bg_color["r"] \div 8) * 2^11 + (bg_color["g"] \div 4) * 2^5 + bg_color["b"] \div 8
    [] Source(p) = "user" ->
         (clut["r"][Red(p)] \div 8) * 2^11 + (clut["g"][Green(p)] \div 4) * 2^5
           + clut["b"][Blue(p)] \div 8

PixelXRGB8888(p) ==
  CASE Source(p) = "fixed" -> Red(p) * 2^19 + Green(p) * 2^11 + Blue(p) * 2^3
    [] Source(p) = "background" ->
         bg_color["r"] * 2^16 + bg_color["g"] * 2^8 + bg_color["b"]
    [] Source(p) = "user" ->
         clut["r"][Red(p)] * 2^16 + clut["g"][Green(p)] * 2^8 + clut["b"][Blue(p)]
-----------------------------------------------------------------------------
TypeOK ==
  /\ line \in 0 .. Scanlines - 1 /\ head_vdl \in DOMAIN Vdl
  /\ clut_ctrl.modulo \in Nat /\ clut_ctrl.persist \in Nat
  /\ line_cnt \in Int /\ curr_bmp \in Nat /\ prev_bmp \in Nat
  /\ clut \in [Channels -> [Pens -> Bytes]] /\ bg_color \in [Channels -> Bytes]
  /\ cursor \in Nat /\ drawn \in Nat /\ rows \in Nat /\ shown \in Nat

(* Line k of a bitmap shows its row k, in the halves of pair k div 2,      *)
(* however many entries share the bitmap, if one that is wider or narrower *)
(* than the entry before it loads a bitmap of its own.                     *)
WidthKept ==
  /\ \A a \in Heads : ~Entry(a).zero => Entry(a).curr # None
  /\ \A a \in DOMAIN Vdl :
       ~Entry(a).zero /\ ~Entry(NextVdl(a)).zero /\ Entry(NextVdl(a)).curr = None
         => Entry(NextVdl(a)).modulo = Entry(a).modulo

RowAddress(modulo) == origin + (rows \div 2) * 4 * modulo + 2 * (rows % 2)

BitmapRow ==
  WidthKept /\ rows > 0 /\ origin % 4 = 0 => curr_bmp = RowAddress(clut_ctrl.modulo)

(* An entry is in force for exactly the lines it asks for: what was shown  *)
(* and what is left make up its length, until the list ends.               *)
ListGood == \A a \in DOMAIN Vdl : Entry(a).zero \/ Entry(a).persist > 0
EntryLasts ==
  ListGood /\ shown > 0 /\ line_cnt >= 0 => shown + line_cnt = clut_ctrl.persist

(* The output stays in step: the lines drawn so far fill their part of the *)
(* buffer and nothing more, whatever entries and renderers drew them       *)
(* (0RGB1555 at high resolution does not, see LinePixels).                 *)
CursorInStep ==
  (\A r \in Renderers : r.hires => r.format # "0RGB1555") => cursor = drawn

(* The three formats show the same picture: each channel has the same five *)
(* leading bits for every pixel, pen and background.                       *)
FormatsAgree ==
  \A p \in Pixels :
    LET a == Pixel0RGB1555(p) b == PixelRGB565(p) x == PixelXRGB8888(p) IN
    /\ Red(a) = b \div 2^11 /\ Red(a) = (x \div 2^19) % 32
    /\ Green(a) = (b \div 2^6) % 32 /\ Green(a) = (x \div 2^11) % 32
    /\ Blue(a) = b % 32 /\ Blue(a) = (x \div 2^3) % 32

(* The state between two lines: entries last, and the output is in step.   *)
Inv == TypeOK /\ EntryLasts /\ CursorInStep
=============================================================================
