-------------------------------- MODULE ArmBus -------------------------------
(***************************************************************************)
(* The memory map of the emulated ARM60 (opera_arm.c, mreadw to mwriteb).  *)
(* A machine is a record with the fields ram and nvram (words and bytes),  *)
(* user (the registers, because a write to CLIO may move the program       *)
(* counter) and io, the accesses to devices so far.  Bytes have a quarter  *)
(* of a word's bits; byte 0 is the top one.                                *)
(***************************************************************************)
EXTENDS FixedPoint

CONSTANT Rom   \* the data in the boot ROM: a function from word addresses

B == W \div 4
Bytes == Pow2[B]
Bad == Wrap(182111461)    \* BADACCE5
Brooktree == 106

Megabyte == 1048576
Within(a, base, size) == a >= base /\ a < base + size

(* Which device answers.  MADAM and CLIO are read in a larger range than   *)
(* they are written in.                                                    *)
Device(a, writing) ==
  CASE a < 3 * Megabyte -> "ram"
    [] Within(a, \h3300000, IF writing THEN \h800 ELSE Megabyte) -> "madam"
    [] Within(a, \h3400000, IF writing THEN \h10000 ELSE Megabyte) -> "clio"
    [] Within(a, \h3200000, Megabyte) -> "sport"
    [] Within(a, \h3100000, Megabyte) ->
         IF Bit(a, 19) = 1 THEN "diag" ELSE IF Bit(a, 18) = 1 THEN "nvram" ELSE "brooktree"
    [] ~writing /\ (Within(a, \h3000000, Megabyte) \/ Within(a, \h6000000, Megabyte)) -> "rom"
    [] OTHER -> "none"

Align(a) == a - (a % 4)
NvramIndex(a) == (a \div 4) % 32768
Access(s, device, kind, a) == [s EXCEPT !.io = Append(@, [to |-> device, kind |-> kind, at |-> a])]

Answer(s, val) == [s |-> s, val |-> val]

(* A word read; v is what MADAM, CLIO or the diagnostics port answer.      *)
ReadWord(s, addr, v) ==
  LET a == Align(addr) device == Device(a, FALSE) IN
  CASE device = "ram" -> Answer(s, Cell(s.ram, a))
    [] device \in {"madam", "clio", "diag"} -> Answer(Access(s, device, "read", a), v)
    [] device = "sport" ->
         IF Within(a, \h3200000, \h2000) THEN Answer(Access(s, device, "read", a), 0)
         ELSE Answer(s, Bad)
    [] device = "nvram" -> Answer(s, Cell(s.nvram, NvramIndex(a)))
    [] device = "brooktree" -> Answer(s, Brooktree)
    [] device = "rom" -> Answer(s, Cell(Rom, a % Megabyte))
    [] device = "none" -> Answer(s, Bad)

(* A word written.  CLIO answers a certain write to its status bits with   *)
(* one, and then the next instruction is skipped.                          *)
WriteWord(s, addr, v) ==
  LET a == Align(addr) device == Device(a, TRUE) IN
  CASE device = "ram" -> [s EXCEPT !.ram = Put(@, a, v)]
    [] device = "clio" /\ a = \h3400028 /\ v = \h30 ->
         [Access(s, device, "write", a) EXCEPT !.user[15] = Wrap(@ + 4)]
    [] device = "nvram" -> [s EXCEPT !.nvram = Put(@, NvramIndex(a), v % Bytes)]
    [] device \in {"brooktree", "none"} -> s
    [] OTHER -> Access(s, device, "write", a)

(* A byte read; only memory has bytes.                                     *)
Place(a) == Pow2[B * (3 - (a % 4))]
ByteOf(word, a) == (word \div Place(a)) % Bytes

ReadByte(s, a) ==
  LET device == Device(a, FALSE) IN
  CASE device = "ram" -> ByteOf(Cell(s.ram, Align(a)), a)
    [] device = "rom" -> ByteOf(Cell(Rom, Align(a) % Megabyte), a)
    [] Within(a, \h3100000, Megabyte) /\ Bit(a, 18) = 1 -> Cell(s.nvram, NvramIndex(a))
    [] OTHER -> Bad

WriteByte(s, a, v) ==
  LET byte == v % Bytes old == Cell(s.ram, Align(a)) IN
  CASE Device(a, TRUE) = "ram" ->
         [s EXCEPT !.ram = Put(@, Align(a), old + (byte - ByteOf(old, a)) * Place(a))]
    [] Within(a, \h3100000, Megabyte) /\ Bit(a, 18) = 1 ->
         [s EXCEPT !.nvram = Put(@, NvramIndex(a), byte)]
    [] OTHER -> s
=============================================================================
