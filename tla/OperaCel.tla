------------------------------- MODULE OperaCel ------------------------------
(***************************************************************************)
(* MADAM of the emulator (opera_madam.c) as the CPU sees it: the registers *)
(* and the state of the cel engine, its walk along a list of cels, the     *)
(* matrix engine and the transfer from the player bus.  The frame loop     *)
(* (opera_3do.c) runs the engine, if it was started, before the CPU's next *)
(* instruction; a step of the model is one cel, but nothing else happens   *)
(* until the list ends.                                                    *)
(*                                                                         *)
(* Numbers have their 32 or 64 bits and come round.  Memory and the frame  *)
(* are apart and memory is constant: cels that draw over their own source, *)
(* palette or control blocks, or those of later cels, are not modelled.    *)
(***************************************************************************)
EXTENDS CelDraw, SequencesExt

CONSTANTS
  Scenes,     \* what the software does: a function from names to records, see below
  Longest,    \* no list of cels that ends is longer
  Junk        \* what an uninitialised position may hold

(* A scene: mem, the memory; start, the registers the software has set;    *)
(* vram, the frame; lists, the cels it starts with, and runs, a bound on   *)
(* how often; commands; pokes, registers and values; matrices and products,*)
(* operands and commands of the matrix engine; transfers, addresses and    *)
(* lengths for the player bus.                                             *)
(*                                                                         *)
(* Memory is taken as decoded, each kind of word by its address: words are *)
(* numbers and pixels; flags, pixcs, pre0s and pre1s words of a CCB or a   *)
(* source; bitmaps and rows those of literal and packed cels.              *)
Pixels == {p \in Nat : p < 65536}
Coordinates == 0 .. 1023
Number == -(Far * One) .. Far * One - 1
Halves == [s1 : 0 .. 1, ms : 0 .. 3, mxf : 0 .. 7, dv1 : 0 .. 3, s2 : 0 .. 3, av : 0 .. 31,
           dv2 : 0 .. 1]
Pixcs == [0 .. 1 -> Halves]
FlagWords == [on : SUBSET STRING, pover : {"pdc", "zero", "one"}, pluta : 0 .. 15]
Pre0s == [bpp : 0 .. 7, linear : BOOLEAN, skipx : Nat, vcnt : Nat]
Pre1s == [woffset : Nat, noswap : BOOLEAN, lrform : BOOLEAN, tlhpcnt : Nat]
PacketWords ==
  [type : {"literal"}, codes : Seq(Pixels)] \union [type : {"transparent"}, n : Nat]
    \union [type : {"repeat"}, n : Nat, code : Pixels]
RowWords == [offset : Nat, packets : Seq(PacketWords)]
CcbCtls == [swaphv : BOOLEAN, b15pos : {"0", "1", "pdc"}, b0pos : {"0", "1", "pdc", "ppmp"}]
(* The registers N are 64 bits; their least value divided by -1 would stop *)
(* the program and is left out.                                            *)
FarLong == 2 * (Far * One) * (Far * One)
Long(z) == Around(FarLong, z)
Matrices ==
  [m : [1 .. 4 -> [1 .. 4 -> Number]], v : [1 .. 4 -> Number], n : -FarLong + 1 .. FarLong - 1]

(* Words that were never written.                                          *)
NoHalf == [s1 |-> 0, ms |-> 0, mxf |-> 0, dv1 |-> 0, s2 |-> 0, av |-> 0, dv2 |-> 0]
NoPixc == [v \in 0 .. 1 |-> NoHalf]
NoPre0 == [bpp |-> 0, linear |-> FALSE, skipx |-> 0, vcnt |-> 0]
NoPre1 == [woffset |-> 0, noswap |-> FALSE, lrform |-> FALSE, tlhpcnt |-> 0]

Maps(f, S) == \A a \in DOMAIN f : f[a] \in S

(* No cel leaves out more columns than it has: the emulator counts them    *)
(* down to a negative width, which it compares unsigned.                   *)
WideEnough(mem) ==
  \A a \in DOMAIN mem.pre0s :
    mem.pre0s[a].skipx <= Held(mem.pre1s, a + 4, NoPre1).tlhpcnt + 1

IsMemory(mem) ==
  /\ Maps(mem.words, Int) /\ Maps(mem.flags, FlagWords) /\ Maps(mem.pixcs, Pixcs)
  /\ Maps(mem.pre0s, Pre0s) /\ Maps(mem.pre1s, Pre1s) /\ WideEnough(mem)
  /\ Maps(mem.bitmaps, Seq(Pixels)) /\ Maps(mem.rows, RowWords)

IsPoke(p) ==
  \/ p.reg \in {"REGCTL0", "REGCTL1", "REGCTL2", "REGCTL3"} /\ p.val \in Nat
  \/ p.reg = "CCBCTL0" /\ p.val \in CcbCtls

ASSUME CelAssumption ==
  /\ Junk \subseteq Int
  /\ \A x \in DOMAIN Scenes :
       LET s == Scenes[x] IN
       /\ IsMemory(s.mem) /\ Maps(s.vram, Pixels)
       /\ s.start \in [clip : [Axes -> Coordinates], rmod : Int, wmod : Int, regctl2 : Int,
                       regctl3 : Int, ccbctl0 : CcbCtls]
       /\ \A a \in s.lists : a \in Int /\ a % 4 = 0
       /\ \A p \in s.pokes : IsPoke(p)
       /\ s.operands \in Matrices /\ s.matrices \subseteq Matrices
       /\ \A t \in s.transfers : t.dst \in Int /\ t.len \in Int /\ t.len >= -4

VARIABLES
  scene,
  e,        \* the engine: what registers and cels loaded, and what was drawn
  fsm,      \* MADAM.FSM
  walking,  \* opera_madam_cel_handle runs
  next,     \* NEXTCCB
  lists,    \* how many lists it was given
  mat,      \* the matrix engine: operands, results, and results held back;
            \* as history the command and operands of the results held back
  pbus      \* the player bus: bytes in its buffer, registers dst, len

vars == <<scene, e, fsm, walking, next, lists, mat, pbus>>

None == <<>>
Megabyte == 1048576
Outside(a) == a >= 3 * Megabyte
Align(a) == a - (a % 4)
Address(a) == a % (16 * Megabyte)

Mem == Scenes[scene].mem
Word32(a) == Held(Mem.words, a, 0)
Flags(c) == Held(Mem.flags, c, [on |-> {}, pover |-> "pdc", pluta |-> 0])
-----------------------------------------------------------------------------
(* A CCB: flags, next, source, palette and position have their places; the *)
(* words after them are there only if their flag is set.                   *)
On(c, flag) == flag \in Flags(c).on
After(c, flag, words) == IF On(c, flag) THEN 4 * words ELSE 0
SizeAt(c) == c + 24
PrsAt(c) == SizeAt(c) + After(c, "LDSIZE", 4)
PixcAt(c) == PrsAt(c) + After(c, "LDPRS", 2)
PreAt(c) == PixcAt(c) + After(c, "LDPPMP", 1)

(* A pointer of the CCB: absolute, or relative to the word after it.       *)
Pointer(c, at, flag) ==
  LET w == Align(Word32(c + at)) IN IF On(c, flag) THEN w ELSE Address(w + c + at + 4)

Next32(c) == Pointer(c, 4, "NPABS")
Source(c) == Pointer(c, 8, "SPABS")
Palette(c) == Pointer(c, 12, "PPABS")
IsLast(c) == On(c, "LAST") \/ Next32(c) = 0 \/ Outside(Next32(c))

Pair(a) == [x |-> Wrap(Word32(a)), y |-> Wrap(Word32(a + 4))]
(* Steps along a row have 20 bits of fraction, of which 16 are kept.       *)
Fine(a) == [x |-> Wrap(Word32(a)) \div 16, y |-> Wrap(Word32(a + 4)) \div 16]

PlutSize(bpp) == IF bpp \in 1 .. 2 THEN 2 * bpp ELSE IF bpp = 3 THEN 16 ELSE 32

(* What a cel does not load keeps the value the cel before it left.        *)
Geometry(f, c) ==
  [f EXCEPT
    !.flags = Flags(c).on, !.pover = Flags(c).pover, !.pluta = Flags(c).pluta,
    !.pos = IF On(c, "YOXY") THEN Pair(c + 16) ELSE @,
    !.hd = IF On(c, "LDSIZE") THEN Fine(SizeAt(c)) ELSE @,
    !.vd = IF On(c, "LDSIZE") THEN Pair(SizeAt(c) + 8) ELSE @,
    !.hdd = IF On(c, "LDPRS") THEN Fine(PrsAt(c)) ELSE @,
    !.pixc = IF On(c, "LDPPMP") THEN Held(Mem.pixcs, PixcAt(c), NoPixc) ELSE @,
    !.pdata = Source(c)]

(* The two preamble words stand in the CCB or before the source; packed    *)
(* cels have one.                                                          *)
Preamble(f, c) ==
  LET inside == On(c, "CCBPRE")
      a == IF inside THEN PreAt(c) ELSE f.pdata
      packed == On(c, "PACKED")
  IN IF ~inside /\ Outside(f.pdata) THEN f
     ELSE [f EXCEPT !.pre0 = Held(Mem.pre0s, a, NoPre0),
                    !.pre1 = IF packed THEN @ ELSE Held(Mem.pre1s, a + 4, NoPre1),
                    !.pdata = IF inside THEN @ ELSE @ + IF packed THEN 4 ELSE 8]

LoadPLUT(f, c) ==
  LET a == Palette(c) n == PlutSize(f.pre0.bpp) IN
  IF On(c, "LDPLUT") /\ ~Outside(a)
  THEN [f EXCEPT !.plut = [k \in 0 .. 31 |-> IF k < n THEN Word32(a + 2 * k) % 65536 ELSE @[k]]]
  ELSE f

Origin(pos) == <<pos["y"] % 2, pos["x"] % 2>>

(* A cel loaded, before it is drawn; one without a depth does nothing more.*)
Loaded(f, c) ==
  LET g == Preamble(Geometry(f, c), c)
      h == [g EXCEPT !.origin = Origin(g.pos)]
  IN IF h.pre0.bpp \in {0, 7} THEN h ELSE LoadPLUT(h, c)
-----------------------------------------------------------------------------
(* The frame loop finds the engine started.                                *)
Walk ==
  /\ fsm = "inprocess" /\ ~walking
  /\ walking' = TRUE
  /\ UNCHANGED <<scene, e, fsm, next, lists, mat, pbus>>

(* opera_madam_cel_handle: one turn of its loop.                           *)
Fetched(junk) ==
  [Loaded(e, Align(Address(next))) EXCEPT !.mem = Mem, !.junk = junk, !.torn = FALSE]
IsDrawn(f) ==
  "SKIP" \notin f.flags /\ ~Outside(Source(Align(Address(next)))) /\ f.pre0.bpp \notin {0, 7}

Drawing(f) == IF IsDrawn(f) THEN Draw(f) ELSE f

(* Mutant: the flag of the last cel is not looked at.                      *)
Cel_IgnoresLast ==
  /\ walking /\ ~e.lost /\ next # 0 /\ ~Outside(Address(next))
  /\ next' = Next32(Align(Address(next)))
  /\ UNCHANGED <<scene, e, fsm, walking, lists, mat, pbus>>

Cel ==
  /\ walking /\ ~e.lost /\ next # 0 /\ ~Outside(Address(next))
  /\ \E junk \in Junk :
       e' = [Drawing(Fetched(junk)) EXCEPT !.mem = None, !.junk = 0]
  /\ LET c == Align(Address(next)) IN next' = IF IsLast(c) THEN 0 ELSE Next32(c)
  /\ UNCHANGED <<scene, fsm, walking, lists, mat, pbus>>

(* It ends with the list, or at once if the CPU gave it no cel.            *)
Idle ==
  /\ walking /\ ~e.lost /\ (next = 0 \/ Outside(Address(next)))
  /\ walking' = FALSE /\ fsm' = "idle"
  /\ UNCHANGED <<scene, e, next, lists, mat, pbus>>

(* A cel that has lost its end is not followed further: the only thread of *)
(* the program is in its loop.                                             *)
Hang == walking /\ e.lost /\ UNCHANGED vars
-----------------------------------------------------------------------------
(* opera_madam_poke: the engine's commands.                                *)
Command(name) ==
  /\ fsm' = CASE name = "SPRSTRT" /\ fsm = "idle" -> "inprocess"
              [] name = "SPRSTOP" -> "idle"
              [] name = "SPRCNTU" /\ fsm = "suspended" -> "inprocess"
              [] name = "SPRPAUS" /\ fsm = "inprocess" -> "suspended"
              [] OTHER -> fsm
  /\ next' = IF name = "SPRSTOP" THEN 0 ELSE next
  /\ UNCHANGED <<scene, e, walking, lists, mat, pbus>>

SetNext(a) ==
  /\ next' = a /\ lists' = lists + 1
  /\ UNCHANGED <<scene, e, fsm, walking, mat, pbus>>

(* The bits of REGCTL0 that give the bytes of two lines, for reading and,  *)
(* from bit 8, for writing.                                                *)
Modulo(bits) ==
  128 * (bits % 2) + 1024 * ((bits \div 4) % 4) + 256 * ((bits \div 16) % 8)

Register(p) ==
  /\ e' = CASE p.reg = "REGCTL0" ->
                 [e EXCEPT !.rmod = Modulo(p.val % 256), !.wmod = Modulo((p.val \div 256) % 256)]
            [] p.reg = "REGCTL1" ->
                 [e EXCEPT !.clip = [x |-> p.val % 1024, y |-> (p.val \div 65536) % 1024]]
            [] p.reg = "REGCTL2" -> [e EXCEPT !.regctl2 = p.val]
            [] p.reg = "REGCTL3" -> [e EXCEPT !.regctl3 = p.val]
            [] p.reg = "CCBCTL0" -> [e EXCEPT !.ccbctl0 = p.val]
  /\ UNCHANGED <<scene, fsm, walking, next, lists, mat, pbus>>

(* The matrix engine.  A command first hands out what the command before   *)
(* it computed, its low 32 bits.  Three rows leave the fourth result as it *)
(* was.                                                                    *)
Dot(o, i, n) ==
  Long(o.m[i][1] * o.v[1] + o.m[i][2] * o.v[2] + o.m[i][3] * o.v[3]
    + (IF n = 4 THEN o.m[i][4] * o.v[4] ELSE 0)) \div One

Perspective(o, x) ==
  LET z == Dot(o, 3, 3) f == IF z = 0 THEN o.n ELSE Quotient(o.n, z)
  IN Long(x * f) \div (One * One)

Product(command, o, old) ==
  CASE command = 1 -> [i \in 1 .. 4 |-> Dot(o, i, 4)]
    [] command = 2 -> [i \in 1 .. 4 |-> IF i = 4 THEN old[4] ELSE Dot(o, i, 3)]
    [] command = 3 ->
         <<Perspective(o, Dot(o, 1, 3)), Perspective(o, Dot(o, 2, 3)), Dot(o, 3, 3), old[4]>>
    [] OTHER -> old

Matrix(command) ==
  /\ mat' = IF command \in 0 .. 3
            THEN [mat EXCEPT !.out = [i \in 1 .. 4 |-> Wrap(mat.held[i])],
                             !.held = Product(command, mat.in, @),
                             !.of = IF command = 0 THEN @ ELSE [command |-> command, in |-> mat.in],
                             !.given = mat.of]
            ELSE mat
  /\ UNCHANGED <<scene, e, fsm, walking, next, lists, pbus>>

Operands(o) ==
  /\ mat' = [mat EXCEPT !.in = o]
  /\ UNCHANGED <<scene, e, fsm, walking, next, lists, pbus>>
-----------------------------------------------------------------------------
(* The transfer from the player bus (HandleDMA8, DMAPBus).  Nothing in the *)
(* program adds devices to the buffer, but each transfer pads it; bytes    *)
(* are words of FF.  "filled" is the memory written; the first word of the *)
(* destination never is.                                                   *)
BufferSize == 256

Transfer(request) ==
  /\ pbus' =
       IF request /\ pbus.len >= 0
       THEN [size |-> Lesser(pbus.size + 8, BufferSize), len |-> -4,
             dst |-> pbus.dst + 4 + 4 * Greater((pbus.len - 1) \div 4, 0),
             filled |-> {pbus.dst + 4 * k : k \in 1 .. Greater((pbus.len - 1) \div 4, 0)},
             fiq |-> TRUE]
       ELSE [pbus EXCEPT !.fiq = request, !.filled = {}]
  /\ UNCHANGED <<scene, e, fsm, walking, next, lists, mat>>

SetTransfer(dst, len) ==
  /\ pbus' = [pbus EXCEPT !.dst = dst, !.len = len, !.fiq = FALSE, !.filled = {}]
  /\ UNCHANGED <<scene, e, fsm, walking, next, lists, mat>>
-----------------------------------------------------------------------------
(* Init: opera_madam_init, and the registers set.                          *)
Zero == [x |-> 0, y |-> 0]

Engine(start, vram) ==
  [flags |-> {}, pover |-> "pdc", pluta |-> 0, pixc |-> NoPixc, pre0 |-> NoPre0, pre1 |-> NoPre1,
   plut |-> [k \in 0 .. 31 |-> 0], origin |-> <<0, 0>>, pos |-> Zero, hd |-> Zero,
   vd |-> Zero, hdd |-> Zero, sprwi |-> 0, sprhi |-> 0, pdata |-> 0, mem |-> None,
   vram |-> vram, junk |-> 0, stuck |-> FALSE, lost |-> FALSE, torn |-> FALSE,
   clip |-> start.clip, rmod |-> start.rmod, wmod |-> start.wmod, regctl2 |-> start.regctl2,
   regctl3 |-> start.regctl3, ccbctl0 |-> start.ccbctl0]

Init ==
  /\ scene \in DOMAIN Scenes
  /\ e = Engine(Scenes[scene].start, Scenes[scene].vram)
  /\ fsm = "idle" /\ walking = FALSE /\ next = 0 /\ lists = 0
  /\ mat = [in |-> Scenes[scene].operands, out |-> [i \in 1 .. 4 |-> 0],
            held |-> [i \in 1 .. 4 |-> 0], of |-> None, given |-> None]
  /\ pbus = [size |-> 0, dst |-> 0, len |-> -4, filled |-> {}, fiq |-> FALSE]

(* The CPU acts between two walks; it can reach an engine it has just      *)
(* started only with a block transfer.                                     *)
Cpu ==
  LET s == Scenes[scene] IN
  \/ \E name \in s.commands : Command(name)
  \/ lists < s.runs /\ \E a \in s.lists : SetNext(a)
  \/ \E p \in s.pokes : Register(p)
  \/ \E o \in s.matrices : Operands(o)
  \/ \E command \in s.products : Matrix(command)
  \/ \E t \in s.transfers : SetTransfer(t.dst, t.len)
  \/ s.transfers # {} /\ \E request \in BOOLEAN : Transfer(request)

Run == Walk \/ Cel \/ Idle \/ Hang

Next == Run \/ (~walking /\ Cpu)

(* The frame loop runs the engine for as long as the program runs.  The    *)
(* last conjunct is WF_next(Cel), whose ENABLED comes to Leads.            *)
Leads ==
  /\ walking /\ ~e.lost /\ next # 0 /\ ~Outside(Address(next))
  /\ next # (LET c == Align(Address(next)) IN IF IsLast(c) THEN 0 ELSE Next32(c))

Spec ==
  /\ Init /\ [][Next]_vars
  /\ WF_vars(Walk) /\ WF_vars(Idle) /\ ([]<>~Leads \/ []<><<Cel>>_next)
-----------------------------------------------------------------------------
TypeOK ==
  /\ fsm \in {"idle", "inprocess", "suspended"} /\ walking \in BOOLEAN
  /\ next \in Int /\ next % 4 = 0 /\ lists \in Nat
  /\ \A a \in DOMAIN e.vram : e.vram[a] \in Pixels
  /\ \A a \in Axes : /\ {e.pos[a], e.hd[a], e.vd[a], e.hdd[a]} \subseteq Number
                     /\ e.clip[a] \in Coordinates
  /\ \A i \in 1 .. 4 : mat.out[i] \in Int /\ mat.held[i] \in Int
  /\ pbus.size \in 0 .. BufferSize /\ pbus.len >= -4

(* No loop over the pixels of a texel walks away from its end, unless the  *)
(* end came round the 32 bits on its way across the texel.                 *)
NeverStuck == ~e.stuck

(* A list that ends is worked through and the engine comes to rest, unless *)
(* a cel does lose its end.  A list that leads back to itself keeps the    *)
(* emulator in opera_madam_cel_handle for ever.                            *)
Successor(a) == IF a = 0 \/ Outside(Address(a)) THEN 0
                ELSE LET c == Align(Address(a)) IN IF IsLast(c) THEN 0 ELSE Next32(c)
Ends(a) == FoldLeft(LAMBDA s, k : {Successor(b) : b \in s}, {a}, [k \in 1 .. Longest |-> k]) = {0}

ListsEnd == (walking /\ Ends(next)) ~> (~walking \/ e.lost)

(* No cel draws outside the window, by whichever map.                      *)
Window(f) ==
  {f.regctl3 + XY2OFF(x, y, f.wmod) : x \in 0 .. f.clip["x"], y \in 0 .. f.clip["y"]}

InsideWindow ==
  [][walking /\ walking' =>
      \A a \in DOMAIN e'.vram :
        a \in Window(e) \/ (a \in DOMAIN e.vram /\ e'.vram[a] = e.vram[a])]_vars

(* The picture of a cel, as the codes of its rows; a pixel that a packed   *)
(* cel leaves out has none.                                                *)
Left == -1
Whole(v) == [a \in Axes |-> v[a] \div One]

Unpack(p) ==
  CASE p.type = "literal" -> p.codes
    [] p.type = "repeat" -> [k \in 1 .. p.n |-> p.code]
    [] p.type = "transparent" -> [k \in 1 .. p.n |-> Left]

Picture(f) ==
  IF "PACKED" \in f.flags
  THEN [i \in 1 .. f.pre0.vcnt + 1 |->
         LET packets == PackedRow(f, RowStart(f, i - 1)).packets
         IN FlattenSeq([k \in DOMAIN packets |-> Unpack(packets[k])])]
  ELSE IF f.pre1.lrform /\ f.pre0.bpp = 6
  THEN [i \in 1 .. 2 * f.pre0.vcnt + 2 |->
         [j \in 1 .. f.pre1.tlhpcnt + 1 |-> LRCode(f, i - 1, j - 1)]]
  ELSE [i \in 1 .. f.pre0.vcnt + 1 |->
         [j \in 1 .. f.pre1.tlhpcnt + 1 - f.pre0.skipx |-> LiteralCode(f, i - 1, j - 1)]]

(* Cels of single pixels along the axes that show a face the flags want.   *)
Single(f) ==
  LET turned == f.hd["x"] = 0 h == IF turned THEN "y" ELSE "x" v == IF turned THEN "x" ELSE "y"
  IN /\ f.hdd = Zero /\ f.hd[v] = 0 /\ f.vd[h] = 0 /\ Abs(f.hd[h]) = One /\ Abs(f.vd[v]) = One
     /\ \A a \in Axes : f.pos[a] % One = 0
     /\ {"ACW", "ACCW"} \subseteq f.flags

Places1(f) ==
  LET rows == Picture(f)
      At(i, j) == Whole(Plus(Centred(f), Plus(Times(i - 1, f.vd), Times(j - 1, f.hd))))
  IN UNION {{[at |-> At(i, j), code |-> rows[i][j]] : j \in DOMAIN rows[i]} : i \in DOMAIN rows}

(* Such a cel puts exactly those of its pixels on the screen that lie in   *)
(* the window, each at its place, and nothing else: whatever its turn,     *)
(* its format, and the side of the window it reaches over.                 *)
Painted(f) ==
  LET seen == {q \in Places1(f) : q.code # Left /\ InWindow(f, q.at["x"], q.at["y"])
                                    /\ ~Transparent(f, Decoded(f, q.code).pixel)}
  IN FoldSet(LAMBDA q, g : Plot(g, q.at["x"], q.at["y"], Decoded(f, q.code)), f, seen).vram

SinglePainted ==
  [][walking /\ walking' =>
      LET f == Fetched(0) IN IsDrawn(f) /\ Single(f) => e'.vram = Painted(f)]_vars

(* A cel of which only one face shows is not drawn at all if it turns the  *)
(* other side to the screen, and else it is drawn as if both showed.  The  *)
(* engine asks once for the cel and again for each edge of each texel; the *)
(* answers agree unless a texel is so thin that it is turned over when its *)
(* corners are rounded to pixels, or torn because one came round.          *)
Across(u, v) == u["x"] * v["y"] - u["y"] * v["x"]
FacesIt(f) == IF Across(f.hd, f.vd) > 0 THEN "ACW" \in f.flags ELSE "ACCW" \in f.flags

Quad(at, h, v) ==
  <<Whole(at), Whole(Plus(at, h)), Whole(Plus(Plus(at, v), h)), Whole(Plus(at, v))>>
Bend(p, q, r) == (q["x"] - p["x"]) * (r["y"] - q["y"]) - (q["y"] - p["y"]) * (r["x"] - q["x"])
Turning(c, way) ==
  \A i \in 1 .. 4 : way * Bend(c[i], c[(i % 4) + 1], c[((i + 1) % 4) + 1]) >= 0

Upright(f) ==
  \A p \in [Axes -> 0 .. One - 1] :
    Turning(Quad(p, f.hd, f.vd), IF Across(f.hd, f.vd) > 0 THEN 1 ELSE -1)

OneFace ==
  [][walking /\ walking' =>
      LET f == Fetched(0) both == [f EXCEPT !.flags = @ \union {"ACW", "ACCW"}] IN
      /\ IsDrawn(f) /\ f.hdd = Zero /\ Across(f.hd, f.vd) # 0
      /\ {"ACW", "ACCW"} \intersect f.flags # {}
      => IF FacesIt(f) THEN Upright(f) /\ ~e'.torn => e'.vram = Draw(both).vram
         ELSE e'.vram = e.vram]_vars

(* Colours that are added do not wrap around but stay at the brightest or  *)
(* the darkest; except that a byte holds no sum above 127: it turns black. *)
Saturates ==
  e.pre0.bpp \notin {0, 7} =>
    \A d \in {e.plut[k] : k \in 0 .. 31}, a \in DOMAIN e.vram, c \in Colours :
      LET b == Blend(e, c, d, e.vram[a], Same(1)) sum == b.sum \div b.by IN
      b.clip => Mixed(e, c, d, e.vram[a], Same(1)) = IF sum > 127 THEN 0 ELSE Greater(Lesser(sum, 31), 0)

(* What the matrix engine shows was computed from the operands that stood  *)
(* there when the command before was given, not from those of now: the low *)
(* 32 bits of sums of 64 bits.                                             *)
Exact(o, i, n) ==
  LET sum[j \in 0 .. n] == IF j = 0 THEN 0 ELSE sum[j - 1] + o.m[i][j] * o.v[j]
  IN  Long(sum[n]) \div One

ComputedFrom(given, out) ==
  given # None =>
    LET o == given.in command == given.command IN
    CASE command = 1 -> \A i \in 1 .. 4 : out[i] = Wrap(Exact(o, i, 4))
      [] command = 2 -> \A i \in 1 .. 3 : out[i] = Wrap(Exact(o, i, 3))
      [] command = 3 /\ Exact(o, 3, 3) # 0 ->
           out[3] = Wrap(Exact(o, 3, 3))
             /\ \A i \in 1 .. 2 :
                  out[i] = Wrap(Long(Exact(o, i, 3) * Quotient(o.n, Exact(o, 3, 3))) \div (One * One))
      [] OTHER -> TRUE

ResultsHeld == ComputedFrom(mat.given, mat.out)

(* The state between two cels: no cel was stuck, and the results of the    *)
(* matrix engine are those of the command before.                          *)
Inv == TypeOK /\ NeverStuck /\ ResultsHeld
=============================================================================
