---------------------------- MODULE SectorStream ----------------------------
(* What a CD-ROM drive promises about its data FIFO: after a read request  *)
(* for n blocks from sector s, the bytes that come out are those of the    *)
(* sectors s, s + 1, ... in order, n * BlockSize of them, however the      *)
(* reading is interleaved with other commands.  A new request replaces the *)
(* old one, a reset cancels it.                                            *)
EXTENDS Integers

CONSTANTS
  BlockSize,    \* bytes in a block
  SectorCount,  \* sector numbers are 0 .. SectorCount - 1, counted modulo
  Requests      \* the block counts a request may have

Sector == 0 .. SectorCount - 1

(* A byte of the disc, and the byte behind it.                             *)
Byte == Sector \X (0 .. BlockSize - 1)
NoByte == <<SectorCount, 0>>
After(b) == IF b[2] + 1 < BlockSize THEN <<b[1], b[2] + 1>>
                                    ELSE <<(b[1] + 1) % SectorCount, 0>>

VARIABLES next, left, delivered
vars == <<next, left, delivered>>

Init == next = NoByte /\ left = 0 /\ delivered = NoByte

Start ==
  \E s \in Sector, n \in Requests :
    /\ next' = IF n = 0 THEN NoByte ELSE <<s, 0>>
    /\ left' = n * BlockSize
    /\ UNCHANGED delivered

Deliver ==
  /\ left > 0
  /\ delivered' = next
  /\ left' = left - 1
  /\ next' = IF left = 1 THEN NoByte ELSE After(next)

Cancel == left' = 0 /\ next' = NoByte /\ delivered' = NoByte

Next == Start \/ Deliver \/ Cancel

Spec == Init /\ [][Next]_vars
=============================================================================
