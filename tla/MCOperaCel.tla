------------------------------ MODULE MCOperaCel -----------------------------
EXTENDS OperaCel

\* Control blocks: o says what the cel loads; absent parts take no words.
Words(a, s) == [b \in {a + 4 * (k - 1) : k \in DOMAIN s} |-> s[1 + (b - a) \div 4]]
Part(o, flag, words) == IF flag \in o.on THEN words ELSE <<>>
Pre0(o) == [bpp |-> o.bpp, linear |-> o.linear, skipx |-> o.skipx, vcnt |-> o.rows - 1]
Pre1(o) == [woffset |-> 0, noswap |-> FALSE, lrform |-> o.format = "lr", tlhpcnt |-> o.width - 1]
Numbers(o) ==
  <<0, o.next, o.source, \h100000, o.pos[1], o.pos[2]>>
    \o Part(o, "LDSIZE", <<16 * o.hd[1], 16 * o.hd[2], o.vd[1], o.vd[2]>>)
    \o Part(o, "LDPRS", <<16 * o.hdd[1], 16 * o.hdd[2]>>)
PixcAt0(a, o) == a + 4 * Len(Numbers(o))
PreAt0(a, o) == PixcAt0(a, o) + 4 * Len(Part(o, "LDPPMP", <<0>>))

Ccb(a, o) ==
  [words |-> Words(a, Numbers(o)),
   flags |-> (a :> [on |-> o.on, pover |-> o.pover, pluta |-> 0]),
   pixcs |-> Words(PixcAt0(a, o), Part(o, "LDPPMP", <<o.pixc>>)),
   pre0s |-> Words(PreAt0(a, o), Part(o, "CCBPRE", <<Pre0(o)>>)),
   pre1s |-> Words(PreAt0(a, o) + 4, IF o.format = "packed" THEN <<>> ELSE Part(o, "CCBPRE", <<Pre1(o)>>)),
   bitmaps |-> <<>>, rows |-> <<>>]

And2(m, n) == [k \in DOMAIN m |-> m[k] @@ n[k]]

\* Pictures: palette, four rows each of a literal, an LR and a packed cel.
Codes == <<<<1, 0, 3, 2, 1>>, <<2, 1, 0, 1, 3>>, <<3, 3, 1, 2, 0>>>>
Lit(cs) == [type |-> "literal", codes |-> cs]
PacketRows ==
  <<<<Lit(<<1, 2>>), [type |-> "transparent", n |-> 1], [type |-> "repeat", n |-> 2, code |-> 3]>>,
    <<[type |-> "repeat", n |-> 3, code |-> 2], Lit(<<0, 1>>)>>,
    <<[type |-> "transparent", n |-> 2], Lit(<<1, 3, 2>>)>>>>
LitAt == \h110000
DeepAt == \h118000
LongAt == \h11C000
LrAt == \h120000
PackAt == \h130000
Pictures ==
  [words |-> [a \in {\h100000 + 2 * k : k \in 0 .. 31} |-> (((a - \h100000) \div 2) % 4) * 8500]
               @@ [a \in {LrAt + 2 * k : k \in 0 .. 31} |-> ((a - LrAt) \div 2) % 5 * 7000],
   flags |-> <<>>, pixcs |-> <<>>,
   pre0s |-> (LitAt - 8 :> [bpp |-> 3, linear |-> FALSE, skipx |-> 0, vcnt |-> 1]),
   pre1s |-> (LitAt - 4 :> [woffset |-> 0, noswap |-> TRUE, lrform |-> FALSE, tlhpcnt |-> 2]),
   bitmaps |-> [a \in {LitAt + 8 * k : k \in 0 .. 2} |-> Codes[1 + (a - LitAt) \div 8]]
                 @@ (DeepAt :> <<1, 35, 193, 40000, 2090>>)
                 @@ (LongAt :> [j \in 1 .. 18 |-> 3]),
   rows |-> [a \in {PackAt + 8 * k : k \in 0 .. 2} |->
              [offset |-> 0, packets |-> PacketRows[1 + (a - PackAt) \div 8]]]]
NoMemory == [k \in DOMAIN Pictures |-> <<>>]

Source0(format) == CASE format = "literal" -> LitAt [] format = "lr" -> LrAt [] format = "packed" -> PackAt
Half0 == [s1 |-> 0, ms |-> 0, mxf |-> 7, dv1 |-> 2, s2 |-> 0, av |-> 5, dv2 |-> 0]
Bright == [Half0 EXCEPT !.dv1 = 1, !.s2 = 2, !.av = 1]
Base == {"NPABS", "SPABS", "PPABS", "LDSIZE", "LDPRS", "LDPPMP", "LDPLUT", "CCBPRE", "YOXY"}

Full(format, pos, hd, vd, hdd, on) ==
  [on |-> Base \union on \union (IF format = "packed" THEN {"PACKED"} ELSE {}), pover |-> "pdc",
   next |-> 0, source |-> Source0(format), pos |-> pos, hd |-> hd, vd |-> vd, hdd |-> hdd,
   pixc |-> [v \in 0 .. 1 |-> IF v = 0 THEN Half0 ELSE Bright],
   bpp |-> IF format = "lr" THEN 6 ELSE 3, linear |-> format = "lr", format |-> format,
   skipx |-> IF format = "literal" THEN 1 ELSE 0, rows |-> IF format = "lr" THEN 1 ELSE 3,
   width |-> IF format = "lr" THEN 3 ELSE 4]

Vram == 2 * Megabyte
Begin == [clip |-> [x |-> 2, y |-> 2], rmod |-> 128, wmod |-> 128, regctl2 |-> Vram,
          regctl3 |-> Vram, ccbctl0 |-> [swaphv |-> FALSE, b15pos |-> "pdc", b0pos |-> "pdc"]]
NoOperands == [m |-> [i \in 1 .. 4 |-> <<0, 0, 0, 0>>], v |-> <<0, 0, 0, 0>>, n |-> 0]
Scene(mem, on) ==
  [mem |-> mem, start |-> Begin, vram |-> <<>>, lists |-> {4096},
   runs |-> 1, commands |-> on, pokes |-> {}, matrices |-> {}, products |-> {}, transfers |-> {},
   operands |-> NoOperands]

Pick(s, k) == s[1 + (k % Len(s))]
Formats == <<"literal", "lr", "packed">>

\* Single pixels: all turns, positions around the window, all formats.
Turns ==
  <<<<1, 0, 0, 1>>, <<1, 0, 0, -1>>, <<-1, 0, 0, 1>>, <<-1, 0, 0, -1>>,
    <<0, 1, 1, 0>>, <<0, 1, -1, 0>>, <<0, -1, 1, 0>>, <<0, -1, -1, 0>>>>
MCTurned(k) ==
  LET t == Pick(Turns, k \div 27) IN
  Full(Pick(Formats, k), <<One * Pick(<<-2, 0, 3>>, k \div 3), One * Pick(<<-1, 1, 2>>, k \div 9)>>,
       <<One * t[1], One * t[2]>>, <<One * t[3], One * t[4]>>, <<0, 0>>, {"ACW", "ACCW"})

\* Scaled and slanted cels, of one face or both.
Quads ==
  <<<<6, 0, 0, 5, 0, 0>>, <<0, -5, 6, 0, 0, 0>>, <<4, 2, -2, 4, 0, 0>>, <<5, -2, 2, -6, 0, 0>>,
    <<4, 1, 0, 4, 1, 1>>, <<0, 5, -6, 0, 0, 0>>, <<-6, 0, 0, -5, 0, 0>>>>
MCQuads(k) ==
  LET q == Pick(Quads, k \div 6) IN
  Full(Pick(Formats, k), Pick(<<<<-3, 0>>, <<5, 6>>>>, k \div 3), <<q[1], q[2]>>, <<q[3], q[4]>>,
       <<q[5], q[6]>>, Pick(<<{"ACW"}, {"ACCW", "MARIA"}, {"ACW", "ACCW"}>>, k \div 42))

\* Scaled cels whose lower corner comes round: one loses its end.  Slanted
\* ones long enough for a texel to come round, of one face or both.
Reach == Far * One
MCRounds(k) ==
  LET tall == k % 2 = 0
      on == Pick(<<{"ACW"}, {"ACW", "ACCW"}>>, k \div 2)
      cel == IF tall THEN Full("literal", <<0, 5 * One>>, <<6, 0>>, <<0, Reach - 1>>, <<0, 0>>, on)
             ELSE Full("literal", <<0, -3 * One>>, <<Reach \div 16 - 1, 1>>, <<0, One>>, <<0, 0>>, on)
  IN [cel EXCEPT !.skipx = 0, !.rows = 1 + (k \div 4), !.width = 18, !.source = LongAt]

\* Blends with a frame that is not empty, of codes of every depth.
MCMixes(k) ==
  LET half == [s1 |-> k % 2, ms |-> (k \div 2) % 4, mxf |-> 7, dv1 |-> 1 + ((k \div 4) % 2),
               s2 |-> (k \div 8) % 4, av |-> Pick(<<0, 5, 1, 10, 6>>, k), dv2 |-> (k \div 32) % 2]
      on == Pick(<<{}, {"USEAV"}, {"PXOR"}, {"USEAV", "PXOR", "BGND", "NOBLK"}>>, k \div 3)
      cel == Full("literal", <<0, 0>>, <<One, 0>>, <<0, One>>, <<0, 0>>, {"ACW", "ACCW"} \union on)
  IN [cel EXCEPT !.pixc = [v \in 0 .. 1 |-> IF v = 0 THEN half ELSE [half EXCEPT !.s1 = 1 - @]],
                 !.bpp = 1 + (k % 6), !.linear = k % 4 > 1, !.source = DeepAt, !.rows = 1]

\* A chain of cels that load ever less, one that leads back to itself, one
\* that is the last although it names another.
First == [Full("literal", <<0, 0>>, <<4, 0>>, <<0, 4>>, <<0, 0>>, {"ACW", "ACCW", "PLUTPOS"}) EXCEPT
           !.next = 4096 + 512]
Second == [First EXCEPT !.on = {"SPABS", "ACW", "USEAV", "NOBLK"}, !.next = 256 - 8, !.source = LitAt - 8]
Third == [First EXCEPT !.on = {"NPABS", "LAST", "SKIP", "YOXY", "LDPLUT", "PPABS"},
                       !.source = 4 * Megabyte, !.next = 4096 + 256]
Looped == [First EXCEPT !.next = 4096 + 1024, !.pover = "one", !.on = @ \union {"BGND", "PXOR"}]
MCChain ==
  [Scene(NoMemory, {"SPRSTRT", "SPRSTOP", "SPRCNTU", "SPRPAUS"}) EXCEPT
    !.mem = And2(Ccb(4096 + 256, First), And2(Ccb(4096 + 512, Second),
              And2(Ccb(4096 + 768, Third), And2(Ccb(4096 + 1024, Looped), Pictures)))),
    !.vram = [a \in {Vram, Vram + 4} |-> 32767], !.runs = 2,
    !.lists = {4096 + 256, 4096 + 768, 4096 + 1024, 4 * Megabyte},
    !.pokes = {[reg |-> "CCBCTL0", val |-> [swaphv |-> TRUE, b15pos |-> "0", b0pos |-> "ppmp"]],
               [reg |-> "REGCTL0", val |-> 257], [reg |-> "REGCTL1", val |-> 65538],
               [reg |-> "REGCTL2", val |-> Vram + 64], [reg |-> "REGCTL3", val |-> Vram]}]

MCOperands(k) ==
  [m |-> [i \in 1 .. 4 |-> [j \in 1 .. 4 |-> k * One + i - 2 * j]], v |-> <<One, k, -One, 3>>, n |-> 40 * k]
MCLarge == [MCOperands(2) EXCEPT !.m[1] = [j \in 1 .. 4 |-> Reach - j], !.v[4] = 50]
MCMatrix ==
  [Scene(NoMemory, {}) EXCEPT !.matrices = {MCOperands(1), MCOperands(2), MCLarge}, !.products = 0 .. 4,
                        !.operands = MCOperands(1), !.lists = {}]
MCPlayerBus ==
  [Scene(NoMemory, {}) EXCEPT !.lists = {}, !.transfers = {[dst |-> \h2340, len |-> 12], [dst |-> \h2340, len |-> 0]}]

OneCel(o) == Scene(And2(Ccb(4096, o), Pictures), {"SPRSTRT"})
MCScenes ==
  [k \in 1 .. 481 |->
     CASE k = 1 -> MCChain
       [] k = 2 -> MCMatrix
       [] k = 3 -> MCPlayerBus
       [] k \in 4 .. 219 -> OneCel(MCTurned(k))
       [] k \in 220 .. 345 -> OneCel(MCQuads(k))
       [] k \in 474 .. 481 -> OneCel(MCRounds(k - 474))
       [] k \in 346 .. 473 ->
            [OneCel(MCMixes(k)) EXCEPT !.vram = [a \in {Vram, Vram + 4, Vram + 8} |-> (a % 7) * 5003]]]
=============================================================================
