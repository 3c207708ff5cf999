----------------------------- MODULE CdromDrive -----------------------------
(***************************************************************************)
(* The CD-ROM drive on the XBUS (libopera/opera_cdrom.c): a host sends it  *)
(* commands of seven bytes, reads a reply of status bytes and, after       *)
(* READ_DATA, a stream of data bytes; the poll register announces both and *)
(* raises the FIQ.  One step is one call of the drive's plugin             *)
(* (libopera/opera_xbus_cdrom_plugin.c).                                   *)
(***************************************************************************)
EXTENDS Integers

CONSTANTS
  CmdLen,       \* bytes of a command: 7
  BlockSize,    \* REQSIZE, the bytes of a block: 2048
  SectorCount,  \* sector numbers are counted modulo this: 2^32
  Commands,     \* the commands the host sends: a subset of AllCommands
  Msf,          \* the <<minutes, seconds, frames>> READ_DATA is given
  BlockCounts,  \* the block counts READ_DATA is given
  PollMasks,    \* the masks the host writes to the poll register
  HostDrains,   \* TRUE: the host sends READ_DATA only between two blocks
  Resets        \* TRUE: the simulator's RESET button is used

NeedsDisc == {"SPIN_UP", "SPIN_DOWN", "MODE_SENSE", "READ_SESSION_INFO",
              "UNKNOWN_0x93"}
NeedsSpin == {"READ_DATA", "READ_CAPACITY", "READ_SUBQ", "READ_DISC_CODE",
              "READ_DISC_INFO", "READ_TOC"}
NeedsNothing == {"EJECT_DISC", "INJECT_DISC", "ABORT", "MODE_SET", "FLUSH",
                 "DATA_PATH_CHECK", "GET_LAST_STATUS", "READ_ID"}
(* Commands with an empty branch (or none) in opera_cdrom_do_cmd.          *)
Unanswered == {"SEEK", "DIAGNOSTICS", "RESET", "READ_HEADER", "READ_UPC",
               "READ_ISRC", "READ_DEVICE_DRIVER", "unknown"}
AllCommands == NeedsDisc \union NeedsSpin \union NeedsNothing \union Unanswered

(* The bits of the poll register and of xbus_status.  (POLMA, POLRE and    *)
(* CDST_2X are never set.)                                                 *)
Masks == {"POLSTMASK", "POLDTMASK"}
PollBits == {"POLST", "POLDT"} \union Masks
StatusBits == {"TRAY", "DISC", "SPIN", "ERRO", "RDY"}

ASSUME CdromAssumption ==
  /\ CmdLen \in Nat \ {0, 1} /\ BlockSize \in Nat \ {0}
  /\ SectorCount \in Nat \ {0}
  /\ Commands \subseteq AllCommands
  /\ Msf \subseteq Nat \X Nat \X Nat
  /\ BlockCounts \subseteq Nat
  /\ PollMasks \subseteq SUBSET Masks
  /\ HostDrains \in BOOLEAN /\ Resets \in BOOLEAN

VARIABLES
  poll, xbus_status, MEI_status,
  cmd, cmd_idx,         \* the command byte, and how many bytes have arrived
  status_len, status,   \* status bytes left; what the reply is and says
  data_len, data_idx, blocks_requested, current_sector,
  data,                 \* the sector whose block is in the buffer
  intact,               \* history: no reset since the last READ_DATA
  delivered             \* history: the last byte read since the last reset

bus == <<cmd, cmd_idx>>
reply == <<status_len, status>>
transfer == <<data_len, data_idx, blocks_requested, current_sector, data>>
history == <<intact, delivered>>
vars == <<poll, xbus_status, MEI_status, bus, reply, transfer, history>>

NoByte == <<SectorCount, 0>>
NoSector == SectorCount

(* opera_cdrom_init, on a device whose memory is zero.                     *)
Init ==
  /\ poll = Masks
  /\ xbus_status = {"RDY", "TRAY", "DISC", "SPIN"}
  /\ MEI_status = "no_error"
  /\ cmd = "unknown" /\ cmd_idx = 0
  /\ status_len = 0 /\ status = [cmd |-> "unknown", xs |-> {}]
  /\ data_len = 0 /\ data_idx = 0 /\ blocks_requested = 0
  /\ current_sector = 0 /\ data = NoSector
  /\ intact = FALSE /\ delivered = NoByte

(* Mutant: reset forgets to clear the announcements.                       *)
Reset_KeepsPoll ==
  /\ Resets
  /\ xbus_status' = {"RDY", "TRAY", "DISC", "SPIN"}
  /\ MEI_status' = "no_error"
  /\ data_idx' = 0 /\ current_sector' = 0
  /\ intact' = FALSE /\ delivered' = NoByte
  /\ UNCHANGED <<poll, bus, reply, data_len, blocks_requested, data>>

(* XBP_RESET: opera_cdrom_init again.  It leaves the command bytes, the    *)
(* reply and the rest of the block as they are.                            *)
Reset ==
  /\ Resets
  /\ poll' = Masks
  /\ xbus_status' = {"RDY", "TRAY", "DISC", "SPIN"}
  /\ MEI_status' = "no_error"
  /\ data_idx' = 0 /\ current_sector' = 0
  /\ intact' = FALSE /\ delivered' = NoByte
  /\ UNCHANGED <<bus, reply, data_len, blocks_requested, data>>
-----------------------------------------------------------------------------
(* opera_cdrom_do_cmd: what command c makes of the drive's status.         *)

Possible(c) ==
  (IF c \in NeedsSpin THEN {"TRAY", "DISC", "SPIN"}
   ELSE IF c \in NeedsDisc THEN {"TRAY", "DISC"} ELSE {}) \subseteq xbus_status

ReplyLength(c) ==
  CASE c \in Unanswered -> 0
    [] c \in {"MODE_SENSE", "UNKNOWN_0x93"} -> 4
    [] ~Possible(c) -> 2
    [] c \in {"ABORT", "FLUSH"} -> 33
    [] c \in {"READ_ID", "READ_SUBQ", "READ_DISC_CODE"} -> 12
    [] c \in {"GET_LAST_STATUS", "READ_TOC"} -> 10
    [] c \in {"READ_CAPACITY", "READ_DISC_INFO", "READ_SESSION_INFO"} -> 8
    [] c = "DATA_PATH_CHECK" -> 4
    [] OTHER -> 2

(* Tray and disc after the command ...                                     *)
Spun(c) ==
  CASE c = "EJECT_DISC" -> xbus_status \ {"TRAY", "DISC", "SPIN"}
    [] c = "SPIN_UP" /\ Possible(c) -> xbus_status \union {"SPIN"}
    [] c = "SPIN_DOWN" /\ Possible(c) -> xbus_status \ {"SPIN"}
    [] OTHER -> xbus_status

(* ... and its outcome.                                                    *)
Ready(c) ==
  \/ Possible(c) /\ c \notin Unanswered \union {"INJECT_DISC"}
  \/ c \in {"SPIN_DOWN", "UNKNOWN_0x93"}

StatusAfter(c) ==
  (Spun(c) \ {"ERRO", "RDY"})
    \union (IF Possible(c) THEN {} ELSE {"ERRO"})
    \union (IF Ready(c) THEN {"RDY"} ELSE {})

KeepsErrorCode ==
  Unanswered \union {"INJECT_DISC", "GET_LAST_STATUS", "MODE_SENSE", "UNKNOWN_0x93"}

ErrorCode(c) ==
  IF c \in KeepsErrorCode THEN MEI_status
  ELSE IF Possible(c) THEN "no_error" ELSE "recv_ecc"

(* The last byte of the reply is xbus_status, which ABORT copies before it *)
(* sets CDST_RDY.                                                          *)
ReplyStatus(c) ==
  IF c = "ABORT" THEN StatusAfter(c) \ {"RDY"} ELSE StatusAfter(c)

Announces(c) == c \notin Unanswered \union {"ABORT", "FLUSH"}

MSF2LBA(msf) == (msf[1] * 60 * 75 + msf[2] * 75 + msf[3] - 150) % SectorCount

(* Mutant: the sector counter is not moved past the block just read.       *)
StartRead_KeepsSector(lba, n) ==
  /\ blocks_requested' = IF n > 0 THEN n - 1 ELSE 0
  /\ current_sector' = lba
  /\ data' = IF n > 0 THEN lba ELSE data
  /\ data_len' = IF n > 0 THEN BlockSize ELSE 0
  /\ UNCHANGED data_idx

(* READ_DATA on a spinning disc reads the first block at once.  data_idx   *)
(* stays where the transfer before has left it.                            *)
StartRead(lba, n) ==
  /\ blocks_requested' = IF n > 0 THEN n - 1 ELSE 0
  /\ current_sector' = IF n > 0 THEN (lba + 1) % SectorCount ELSE lba
  /\ data' = IF n > 0 THEN lba ELSE data
  /\ data_len' = IF n > 0 THEN BlockSize ELSE 0
  /\ UNCHANGED data_idx

DoCmd(c) ==
  /\ xbus_status' = StatusAfter(c)
  /\ MEI_status' = ErrorCode(c)
  /\ status_len' = ReplyLength(c)
  /\ status' = IF c \in Unanswered THEN status ELSE [cmd |-> c, xs |-> ReplyStatus(c)]
  /\ poll' = (poll \ {"POLST", "POLDT"})
               \union (IF Announces(c) THEN {"POLST"} ELSE {})
               \union (IF c = "READ_DATA" /\ Possible(c) THEN {"POLDT"} ELSE {})
  /\ IF c = "READ_DATA" /\ Possible(c)
     THEN /\ \E msf \in Msf, n \in BlockCounts : StartRead(MSF2LBA(msf), n)
          /\ intact' = TRUE
          /\ UNCHANGED delivered
     ELSE UNCHANGED <<transfer, history>>

(* opera_cdrom_send_cmd.  The first byte names the command; the values of  *)
(* the others matter only when the command is executed.                    *)
SendCmd ==
  \E c \in IF cmd_idx = 0 THEN Commands ELSE {cmd} :
    /\ cmd' = c
    /\ IF cmd_idx + 1 = CmdLen \/ c = "ABORT"
       THEN /\ c = "READ_DATA" /\ HostDrains => data_idx = 0
            /\ cmd_idx' = 0
            /\ DoCmd(c)
       ELSE /\ cmd_idx' = cmd_idx + 1
            /\ UNCHANGED <<poll, xbus_status, MEI_status, reply, transfer, history>>
-----------------------------------------------------------------------------
(* Mutant: the announcement outlives the last status byte.                 *)
FifoGetStatus_KeepsPoll ==
  /\ status_len' = IF status_len > 0 THEN status_len - 1 ELSE 0
  /\ UNCHANGED <<poll, status, xbus_status, MEI_status, bus, transfer, history>>

(* opera_cdrom_fifo_get_status.                                            *)
FifoGetStatus ==
  /\ status_len' = IF status_len > 0 THEN status_len - 1 ELSE 0
  /\ poll' = IF status_len = 1 THEN poll \ {"POLST"} ELSE poll
  /\ UNCHANGED <<status, xbus_status, MEI_status, bus, transfer, history>>

(* Mutant: the end of the data is not announced.                           *)
NextBlock_KeepsPoll ==
  /\ data_idx' = 0
  /\ IF blocks_requested > 0
     THEN /\ data' = current_sector
          /\ current_sector' = (current_sector + 1) % SectorCount
          /\ data_len' = BlockSize
          /\ blocks_requested' = blocks_requested - 1
     ELSE /\ data_len' = 0
          /\ UNCHANGED <<data, current_sector, blocks_requested>>
  /\ UNCHANGED poll

(* Behind the last byte of a block: the next block, or the end.            *)
NextBlock ==
  /\ data_idx' = 0
  /\ IF blocks_requested > 0
     THEN /\ data' = current_sector
          /\ current_sector' = (current_sector + 1) % SectorCount
          /\ data_len' = BlockSize
          /\ blocks_requested' = blocks_requested - 1
          /\ UNCHANGED poll
     ELSE /\ poll' = poll \ {"POLDT"}
          /\ data_len' = 0
          /\ UNCHANGED <<data, current_sector, blocks_requested>>

(* opera_cdrom_fifo_get_data, when there is a byte.                        *)
FifoGetData ==
  /\ data_len > 0
  /\ IF data_len = 1
     THEN NextBlock
     ELSE /\ data_idx' = data_idx + 1
          /\ data_len' = data_len - 1
          /\ UNCHANGED <<poll, data, current_sector, blocks_requested>>
  /\ delivered' = IF intact THEN <<data, data_idx>> ELSE delivered
  /\ UNCHANGED <<xbus_status, MEI_status, bus, reply, intact>>

(* ... and when there is none.                                             *)
FifoGetNoData == data_len = 0 /\ UNCHANGED vars

(* opera_cdrom_set_poll writes the masks only.                             *)
SetPoll ==
  /\ \E m \in PollMasks : poll' = (poll \ Masks) \union m
  /\ UNCHANGED <<xbus_status, MEI_status, bus, reply, transfer, history>>

(* opera_cdrom_test_fiq.                                                   *)
TestFiq ==
  \/ {"POLST", "POLSTMASK"} \subseteq poll
  \/ {"POLDT", "POLDTMASK"} \subseteq poll

Next ==
  \/ SendCmd \/ FifoGetStatus \/ FifoGetData \/ FifoGetNoData
  \/ SetPoll \/ Reset

Spec == Init /\ [][Next]_vars

(* The host goes on reading data while there is some to read.              *)
FairSpec == Spec /\ WF_vars(FifoGetData)
-----------------------------------------------------------------------------
(* Type invariant.                                                         *)
TypeOK ==
  /\ poll \subseteq PollBits /\ xbus_status \subseteq StatusBits
  /\ MEI_status \in {"no_error", "recv_ecc"}
  /\ cmd \in AllCommands /\ cmd_idx \in 0 .. CmdLen - 1
  /\ status_len \in 0 .. 33
  /\ status \in [cmd : AllCommands, xs : SUBSET StatusBits]
  /\ data_len \in 0 .. BlockSize /\ data_idx \in Nat
  /\ blocks_requested \in Nat /\ current_sector \in 0 .. SectorCount - 1
  /\ data \in 0 .. SectorCount
  /\ intact \in BOOLEAN
  /\ delivered \in (0 .. SectorCount) \X Nat

(* What the poll register announces is there: a status byte behind POLST,  *)
(* a data byte behind POLDT, unless READ_DATA was given no block to read.  *)
PollHonest ==
  /\ "POLST" \in poll => status_len > 0
  /\ "POLDT" \in poll => data_len > 0 \/ 0 \in BlockCounts

(* Every byte that fifo_get_data still has to give lies in the block       *)
(* buffer ("block = 2048 bytes", libopera/opera_cdrom.c).  The code does   *)
(* not keep this for a host that reads anew in mid-block: an observation   *)
(* of the README.                                                          *)
NoOverrun == data_len > 0 => data_idx + data_len <= BlockSize

(* A disc spins only in a closed tray with a disc in it.                   *)
DiscConsistent == "SPIN" \in xbus_status => {"TRAY", "DISC"} \subseteq xbus_status

(* A reply the poll register announces ends with the status the drive has  *)
(* now, and shows no disc that spins in an open tray; if it reports an     *)
(* error, GET_LAST_STATUS will find the error's code (MODE_SENSE and       *)
(* command 0x93 report errors without one).                                *)
ReplyCurrent ==
  "POLST" \in poll =>
    /\ status.xs = xbus_status /\ DiscConsistent
    /\ "ERRO" \in status.xs /\ status.cmd \notin KeepsErrorCode =>
         MEI_status = "recv_ecc"

(* The command that has just been executed was READ_DATA.                  *)
ReadDone == cmd' = "READ_DATA" /\ cmd_idx' = 0 /\ cmd_idx > 0

(* Whatever the host does, only a READ_DATA in the middle of a block can   *)
(* take the bytes to come out of the block buffer: no other call, and no   *)
(* READ_DATA between two blocks, does.                                     *)
OverrunOnlyByRead ==
  [][NoOverrun => NoOverrun' \/ (ReadDone /\ data_idx # 0)]_vars

(* The drive implements the sector stream.                                 *)
Left == IF intact THEN data_len + blocks_requested * BlockSize ELSE 0
Stream == INSTANCE SectorStream WITH
            Requests <- BlockCounts,
            left <- Left,
            next <- IF Left = 0 THEN NoByte ELSE <<data, data_idx>>

StreamSpec == Stream!Spec

(* A transfer that the host reads on, and does not replace by another one, *)
(* is taken off the poll register.                                         *)
TransferEnds ==
  <>[][~ReadDone]_vars =>
    (("POLDT" \in poll /\ data_len > 0) ~> "POLDT" \notin poll)

(* "if(lba < 0) lba = 0;" (MSF2LBA): an address before the first sector    *)
(* stands for sector 0, so every sector read is one that was asked for.    *)
(* The code does not keep this: an observation of the README.              *)
ClampedLba(msf) ==
  LET frames == msf[1] * 60 * 75 + msf[2] * 75 + msf[3]
  IN  IF frames < 150 THEN 0 ELSE frames - 150
SectorAsked ==
  data # NoSector =>
    \E msf \in Msf, n \in BlockCounts :
      data \in ClampedLba(msf) .. ClampedLba(msf) + n - 1
=============================================================================
