------------------------------ MODULE AudioFifo ------------------------------
(***************************************************************************)
(* The audio channels of CLIO in the emulator (opera_clio.c): the DSP reads*)
(* samples from buffers in memory through an input channel and stores      *)
(* samples through an output channel.  The CPU gives a channel a buffer    *)
(* and the one that comes next, in four registers.  A channel is a record; *)
(* an operation on it is a function to the record and what it returns.     *)
(* Addresses and lengths are in bytes; a sample has two.                   *)
(***************************************************************************)
EXTENDS Integers, Sequences

Nowhere == -1

Fifo == [addr : Nat, len : Int, next_addr : Nat, next_len : Int, idx : Nat]

Stopped == [addr |-> 0, len |-> 0, next_addr |-> 0, next_len |-> 0, idx |-> 0]

Enabled(f) == f.addr # 0
AtEnd(f) == f.len - f.idx <= 0

(* The next buffer takes over; it stays registered, so it is played again  *)
(* and again until the CPU writes another.                                 *)
Reload(f) == [f EXCEPT !.idx = 0, !.addr = f.next_addr,
                       !.len = IF f.next_addr # 0 THEN f.next_len ELSE @]

Result(f, at, rang) == [fifo |-> f, at |-> at, rang |-> rang]

(* Mutant: the first sample of a buffer is read twice.                     *)
FifoEi_Twice(f) ==
  IF ~Enabled(f) THEN Result(f, Nowhere, FALSE)
  ELSE IF ~AtEnd(f) THEN Result([f EXCEPT !.idx = @ + 2], f.addr + f.idx, FALSE)
  ELSE LET r == Reload(f) IN Result(r, IF Enabled(r) THEN r.addr ELSE Nowhere, TRUE)

(* opera_clio_fifo_ei: at the end of a buffer the sample is taken from the *)
(* next, and the channel interrupts.                                       *)
FifoEi(f) ==
  IF ~Enabled(f) THEN Result(f, Nowhere, FALSE)
  ELSE IF ~AtEnd(f) THEN Result([f EXCEPT !.idx = @ + 2], f.addr + f.idx, FALSE)
  ELSE LET r == Reload(f) IN
       IF Enabled(r) THEN Result([r EXCEPT !.idx = 2], r.addr, TRUE)
                     ELSE Result(r, Nowhere, TRUE)

(* opera_clio_fifo_eo: the sample that meets the end of a buffer is lost.  *)
FifoEo(f) ==
  IF ~Enabled(f) THEN Result(f, Nowhere, FALSE)
  ELSE IF ~AtEnd(f) THEN Result([f EXCEPT !.idx = @ + 2], f.addr + f.idx, FALSE)
  ELSE Result(Reload(f), Nowhere, TRUE)

FifoEiStatus(f) == IF Enabled(f) THEN 2 ELSE 0
FifoEoStatus(f) == IF Enabled(f) THEN 1 ELSE 0
-----------------------------------------------------------------------------
(* The registers as the CPU writes them, through MADAM.  A length counts   *)
(* from the last word of the buffer, so four bytes are added; to an input  *)
(* channel zero stays zero.  A new start of an input channel takes the     *)
(* next buffer away; neither takes back the position.                      *)
InLen(val) == IF val = 0 THEN 0 ELSE val + 4
OutLen(val) == val + 4

WriteInput(f, reg, val) ==
  CASE reg = "addr" -> [f EXCEPT !.addr = val, !.next_addr = 0]
    [] reg = "len" -> [f EXCEPT !.len = InLen(val), !.next_len = 0]
    [] reg = "next_addr" -> [f EXCEPT !.next_addr = val]
    [] reg = "next_len" -> [f EXCEPT !.next_len = InLen(val)]

WriteOutput(f, reg, val) ==
  CASE reg = "addr" -> [f EXCEPT !.addr = val]
    [] reg = "len" -> [f EXCEPT !.len = OutLen(val)]
    [] reg = "next_addr" -> [f EXCEPT !.next_addr = val]
    [] reg = "next_len" -> [f EXCEPT !.next_len = OutLen(val)]

(* A write to 0x300 writes zero to the registers and takes back the        *)
(* position.                                                               *)
ClearInput(f) ==
  [WriteInput(WriteInput(f, "addr", 0), "len", 0) EXCEPT !.next_len = InLen(0), !.idx = 0]

ClearOutput(f) ==
  [addr |-> 0, len |-> OutLen(0), next_addr |-> 0, next_len |-> OutLen(0), idx |-> 0]

(* What the CPU reads in the place of the first two registers.             *)
Position(f) == f.addr + f.idx
Remaining(f) == f.len - f.idx
-----------------------------------------------------------------------------
(* The places a channel has before it, and those of its next buffer.       *)
Places(from, bytes) == [k \in 1 .. (bytes + 1) \div 2 |-> from + 2 * (k - 1)]

Left(f) == IF Enabled(f) /\ ~AtEnd(f) THEN Places(Position(f), Remaining(f)) ELSE <<>>

(* A next buffer without a length still gives a reader its first sample.   *)
Loop(f, reads) ==
  IF f.next_addr = 0 THEN <<>>
  ELSE IF f.next_len > 0 THEN Places(f.next_addr, f.next_len)
  ELSE IF reads THEN <<f.next_addr>> ELSE <<>>
=============================================================================
