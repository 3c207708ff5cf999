-------------------------------- MODULE Xbus --------------------------------
(***************************************************************************)
(* The XBUS as the simulator plays it (sim_xbus.c, and sim_main.cpp around *)
(* it): a selector, the CD-ROM drive as device 0, the built-in device 15,  *)
(* the FIQ request, and the DMA from the selected device into RAM.         *)
(*                                                                         *)
(* A step is one acknowledged CPU access, which verilate() performs before *)
(* the clock edge; a FIQ request it leaves is in irq0_pend before the edge *)
(* too.  A DMA runs inside one access: while dma.on holds nothing else can *)
(* move.  When the RESET button is pressed the CPU is taken to have no     *)
(* access on the bus.                                                      *)
(***************************************************************************)
EXTENDS CdromDrive, Sequences

CONSTANTS
  ReplyLen15,   \* status bytes of device 15's reply: 12
  RamWords,     \* words of RAM a DMA can reach: those below 0x200000
  DmaStarts,    \* the word addresses the CPU writes to curaddr
  DmaLens       \* the lengths, in bytes less 4, it writes to curlen

ASSUME XbusAssumption ==
  /\ ReplyLen15 \in Nat \ {0} /\ RamWords \in Nat \ {0}
  /\ DmaStarts \subseteq Nat /\ DmaLens \subseteq Nat

VARIABLES
  sel,                  \* the device the lower half of the selector names
  polf, stlenf, poldevf,                  \* device 15: poll, reply, status,
  cmdf, cmdptrf,        \* the first byte of the command that arrives,
                        \* and how many have come
  irq0_pend,            \* the bits of CLIO's irq0_pend that the XBUS sets
  curaddr, curlen,      \* the DMA registers dma20_curaddr and dma20_curlen
  dma,                  \* the DMA that is running
  ram,                  \* the words of RAM the DMA has stored, by address
  copied                \* history: what the DMA was told to copy

(* The drive is CdromDrive with its own variables and actions; the bus's   *)
(* actions use them, or leave the drive alone.                             *)
drive == <<poll, xbus_status, MEI_status, cmd, cmd_idx, status_len, status,
           data_len, data_idx, blocks_requested, current_sector, data,
           intact, delivered>>

dev15 == <<polf, stlenf, poldevf, cmdf, cmdptrf>>
dmaRegs == <<curaddr, curlen>>
dmaVars == <<dma, ram, copied>>
busVars == <<drive, sel, dev15, irq0_pend, dmaRegs, dmaVars>>

Devices == {"drive", "dev15", "none"}
PollMasks15 == {"POLSTMASK", "POLDTMASK", "POLMAMASK", "POLREMASK"}

Zero == <<SectorCount, BlockSize>>   \* the byte 0, where no byte was read
NoDma == [on |-> FALSE, trg |-> 0, len |-> -4, bytes |-> <<>>]
NoCopy == [known |-> FALSE, first |-> Zero, left |-> 0, trg |-> 0, len |-> -4]

BusInit ==
  /\ Init
  /\ sel = "drive"
  /\ polf = PollMasks15 /\ stlenf = 0 /\ poldevf = {}
  /\ cmdf = "other" /\ cmdptrf = 0
  /\ irq0_pend = {}
  /\ curaddr = 0 /\ curlen = 0
  /\ dma = NoDma /\ ram = <<>> /\ copied = NoCopy
-----------------------------------------------------------------------------
(* The bus asks the drive for a FIQ after every byte of a command and      *)
(* after every write to the poll register.                                 *)
AskFiq ==
  irq0_pend' = IF TestFiq' THEN irq0_pend \union {"xbus"} ELSE irq0_pend

SetSel ==
  /\ ~dma.on
  /\ \E s \in Devices : sel' = s
  /\ UNCHANGED <<drive, dev15, irq0_pend, dmaRegs, dmaVars>>

(* Mutant: the FIQ is asked for after commands only.                       *)
WritePoll_NoFiq ==
  /\ ~dma.on
  /\ CASE sel = "drive" -> SetPoll /\ UNCHANGED <<polf, irq0_pend>>
       [] sel = "dev15" -> /\ \E m \in PollMasks : polf' = m
                           /\ UNCHANGED <<drive, irq0_pend>>
       [] OTHER -> UNCHANGED <<drive, polf, irq0_pend>>
  /\ UNCHANGED <<sel, stlenf, poldevf, cmdf, cmdptrf, dmaRegs, dmaVars>>

WritePoll ==
  /\ ~dma.on
  /\ CASE sel = "drive" -> SetPoll /\ AskFiq /\ UNCHANGED polf
       [] sel = "dev15" -> /\ \E m \in PollMasks : polf' = m
                           /\ UNCHANGED <<drive, irq0_pend>>
       [] OTHER -> UNCHANGED <<drive, polf, irq0_pend>>
  /\ UNCHANGED <<sel, stlenf, poldevf, cmdf, cmdptrf, dmaRegs, dmaVars>>

(* sim_xbus_execute_command_f.  The masks it tests are never in poldevf,   *)
(* so that device 15 raises no FIQ.                                        *)
Execute15(first) ==
  IF first = "0x83"
  THEN stlenf' = ReplyLen15 /\ poldevf' = poldevf \union {"POLST"}
  ELSE UNCHANGED <<stlenf, poldevf>>

(* A command byte for device 15; the first one names the command.  (Behind *)
(* the last one the byte is not looked at again.)                          *)
SendByte15 ==
  \E b \in IF cmdptrf = 0 THEN {"0x83", "other"} ELSE {cmdf} :
    IF cmdptrf + 1 < CmdLen
    THEN cmdptrf' = cmdptrf + 1 /\ cmdf' = b /\ UNCHANGED <<stlenf, poldevf>>
    ELSE cmdptrf' = 0 /\ cmdf' = "other" /\ Execute15(b)

WriteCmd ==
  /\ ~dma.on
  /\ \/ sel = "drive" /\ SendCmd /\ AskFiq /\ UNCHANGED dev15
     \/ sel = "dev15" /\ SendByte15 /\ UNCHANGED <<drive, polf, irq0_pend>>
  /\ UNCHANGED <<sel, dmaRegs, dmaVars>>

GetStatus ==
  /\ ~dma.on
  /\ \/ sel = "drive" /\ FifoGetStatus /\ UNCHANGED dev15
     \/ /\ sel = "dev15" /\ stlenf > 0
        /\ stlenf' = stlenf - 1
        /\ poldevf' = IF stlenf = 1 THEN poldevf \ {"POLST"} ELSE poldevf
        /\ UNCHANGED <<drive, polf, cmdf, cmdptrf>>
  /\ UNCHANGED <<sel, irq0_pend, dmaRegs, dmaVars>>

(* sim_xbus_fifo_get_data.                                                 *)
Pop ==
  IF sel = "drive" THEN FifoGetData \/ FifoGetNoData
                   ELSE UNCHANGED drive
Popped == IF sel = "drive" /\ data_len > 0 THEN <<data, data_idx>> ELSE Zero

GetData ==
  /\ ~dma.on
  /\ Pop
  /\ UNCHANGED <<sel, dev15, irq0_pend, dmaRegs, dmaVars>>
-----------------------------------------------------------------------------
(* The DMA.  The CPU sets its registers ...                                *)
WriteDmaRegs ==
  /\ ~dma.on
  /\ \/ (\E a \in DmaStarts : curaddr' = a) /\ UNCHANGED curlen
     \/ (\E n \in DmaLens : curlen' = n) /\ UNCHANGED curaddr
  /\ UNCHANGED <<drive, sel, dev15, irq0_pend, dmaVars>>

(* ... and starts it with bit 20 of dmactrl (sim_clio_handle_dma).         *)
StartDma ==
  /\ ~dma.on
  /\ dma' = [on |-> TRUE, trg |-> curaddr, len |-> curlen, bytes |-> <<>>]
  /\ copied' = [known |-> sel = "drive" /\ Left > 0,
                first |-> Popped, left |-> Left,
                trg |-> curaddr, len |-> curlen]
  /\ UNCHANGED <<drive, sel, dev15, irq0_pend, dmaRegs, ram>>

(* Mutant: the loop ends before the word at length 0.                      *)
More_Strict == dma.len > 0

(* The length counts the bytes behind the first word.                      *)
More == dma.len >= 0

(* Three bytes of a word ...                                               *)
DmaByte ==
  /\ dma.on /\ More /\ Len(dma.bytes) < 3
  /\ Pop
  /\ dma' = [dma EXCEPT !.bytes = Append(@, Popped)]
  /\ UNCHANGED <<sel, dev15, irq0_pend, dmaRegs, ram, copied>>

(* ... and the fourth, with which the word goes to RAM, the last byte      *)
(* first.  Words above the end of RAM are dropped.                         *)
DmaWord ==
  /\ dma.on /\ More /\ Len(dma.bytes) = 3
  /\ Pop
  /\ ram' = IF dma.trg < RamWords
            THEN [w \in DOMAIN ram \union {dma.trg} |->
                    IF w = dma.trg
                    THEN <<Popped, dma.bytes[3], dma.bytes[2], dma.bytes[1]>>
                    ELSE ram[w]]
            ELSE ram
  /\ dma' = [dma EXCEPT !.trg = @ + 1, !.len = @ - 4, !.bytes = <<>>]
  /\ UNCHANGED <<sel, dev15, irq0_pend, dmaRegs, copied>>

(* The length register ends at -4, the address register keeps its value.   *)
(* What else is done to RAM is not modelled.                               *)
DmaDone ==
  /\ dma.on /\ ~More
  /\ dma' = NoDma /\ ram' = <<>> /\ copied' = NoCopy
  /\ curlen' = -4
  /\ irq0_pend' = irq0_pend \union {"xbusdma"}
  /\ UNCHANGED <<drive, sel, dev15, curaddr>>

(* The CPU clears a bit of irq0_pend.                                      *)
ClearPend ==
  /\ ~dma.on
  /\ \E b \in {"xbus", "xbusdma"} : irq0_pend' = irq0_pend \ {b}
  /\ UNCHANGED <<drive, sel, dev15, dmaRegs, dmaVars>>

(* The RESET button: sim_xbus_init, the device's XBP_INIT and XBP_RESET,   *)
(* and the reset of the RTL.  The selector, device 15's command and reply  *)
(* and the DMA registers stay.                                             *)
ResetBus ==
  /\ ~dma.on
  /\ Reset
  /\ polf' = PollMasks15
  /\ irq0_pend' = {}
  /\ UNCHANGED <<sel, stlenf, poldevf, cmdf, cmdptrf, dmaRegs, dmaVars>>

BusNext ==
  \/ SetSel \/ WritePoll \/ WriteCmd \/ GetStatus \/ GetData
  \/ WriteDmaRegs \/ StartDma \/ DmaByte \/ DmaWord \/ DmaDone
  \/ ClearPend \/ ResetBus

BusSpec == BusInit /\ [][BusNext]_busVars
-----------------------------------------------------------------------------
(* The bus keeps its own registers to their types.                         *)
BusTypeOK ==
  /\ sel \in Devices
  /\ polf \subseteq PollMasks15
  /\ stlenf \in 0 .. ReplyLen15 /\ (stlenf > 0 <=> "POLST" \in poldevf)
  /\ cmdptrf \in 0 .. CmdLen - 1
  /\ irq0_pend \subseteq {"xbus", "xbusdma"}
  /\ curaddr \in Nat /\ curlen \in Nat \union {-4}
  /\ dma.on \in BOOLEAN /\ dma.len >= -4 /\ Len(dma.bytes) <= 3

(* An announcement of the drive never comes up silently: the step that     *)
(* first shows it under an open mask leaves the FIQ pending.               *)
FiqRaised == [][~TestFiq /\ TestFiq' => "xbus" \in irq0_pend']_busVars

(* The byte of the disc that is n bytes behind b.                          *)
Ahead(b, n) ==
  <<(b[1] + (b[2] + n) \div BlockSize) % SectorCount, (b[2] + n) % BlockSize>>

(* What the last DMA owes to byte k of word w.                             *)
Owed(w, k) ==
  LET n == 4 * (w - copied.trg) + k
  IN  IF n < copied.left THEN Ahead(copied.first, n) ELSE Zero

CopiedWords ==
  {w \in 0 .. RamWords - 1 :
     w >= copied.trg /\ 4 * (w - copied.trg) <= copied.len}

(* When the loop of a DMA ends it has stored as many words as its length   *)
(* asks for, as far as there is RAM; and they hold the bytes of the        *)
(* transfer one after the other, across the ends of blocks, with zeros     *)
(* after the end.  The bytes of a word are in reverse.                     *)
DmaCopies ==
  dma.on /\ ~More =>
    /\ DOMAIN ram = CopiedWords
    /\ copied.known =>
         \A w \in CopiedWords, k \in 0 .. 3 : ram[w][4 - k] = Owed(w, k)

(* The CPU reads the bytes of a word in the order they came from the       *)
(* drive, the first one at the most significant end, which is the lowest   *)
(* address ("opera_mem_write8(trg+0,b3)", opera_clio.c, for memory that    *)
(* has the most significant byte first).  The code does not keep this: an  *)
(* observation of the README.                                              *)
DmaByteOrder ==
  dma.on /\ ~More /\ copied.known =>
    \A w \in CopiedWords, k \in 0 .. 3 : ram[w][1 + k] = Owed(w, k)
=============================================================================
