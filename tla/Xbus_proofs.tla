----------------------------- MODULE Xbus_proofs ----------------------------
(* What is proved of the CD-ROM drive, for every length of commands and    *)
(* blocks, every disc and every set of commands; and of the XBUS, which    *)
(* uses the drive as CdromDrive expects: the drive announces nothing       *)
(* without a FIQ, and a DMA copies to RAM what it should of its data.      *)
EXTENDS Xbus, TLAPS
-----------------------------------------------------------------------------
(* The drive.                                                              *)

(* A transfer that nothing has disturbed: the index and the length divide  *)
(* the block between them, and the next sector follows the buffered one.   *)
StreamInv ==
  intact =>
    /\ data_len > 0 => /\ data_idx + data_len = BlockSize
                       /\ data < SectorCount
                       /\ current_sector = (data + 1) % SectorCount
    /\ data_len = 0 => blocks_requested = 0

(* Between two commands the index is at the start of a block.              *)
IndexInv == data_len = 0 => data_idx = 0

DriveInv == TypeOK /\ PollHonest /\ DiscConsistent /\ ReplyCurrent

(* What holds besides when the host drains every block it starts.          *)
DrainInv == NoOverrun /\ IndexInv /\ StreamInv

LEMMA InitDriveInv == Init => DriveInv
<1> SUFFICES ASSUME Init PROVE DriveInv
  OBVIOUS
<1>1. poll \subseteq PollBits /\ xbus_status \subseteq StatusBits
  BY DEF Init, PollBits, Masks, StatusBits
<1>2. /\ MEI_status \in {"no_error", "recv_ecc"}
      /\ cmd \in AllCommands
      /\ status \in [cmd : AllCommands, xs : SUBSET StatusBits]
      /\ intact \in BOOLEAN
  BY DEF Init, AllCommands, Unanswered
<1>3. /\ cmd_idx \in 0 .. CmdLen - 1 /\ status_len \in 0 .. 33
      /\ data_len \in 0 .. BlockSize /\ data_idx \in Nat
      /\ blocks_requested \in Nat /\ current_sector \in 0 .. SectorCount - 1
      /\ data \in 0 .. SectorCount
      /\ delivered \in (0 .. SectorCount) \X Nat
  BY CdromAssumption DEF Init, NoSector, NoByte
<1>4. TypeOK
  BY <1>1, <1>2, <1>3 DEF TypeOK
<1> QED
  BY <1>4 DEF DriveInv, Init, Masks, PollHonest, DiscConsistent, ReplyCurrent

LEMMA InitDrain == Init => DrainInv
  BY DEF Init, DrainInv, NoOverrun, IndexInv, StreamInv

-----------------------------------------------------------------------------
(* What a command does to the drive's status and to the reply.             *)

LEMMA StatusTyped ==
  ASSUME TypeOK, NEW c \in AllCommands
  PROVE  /\ StatusAfter(c) \subseteq StatusBits
         /\ ReplyStatus(c) \subseteq StatusBits
         /\ ErrorCode(c) \in {"no_error", "recv_ecc"}
         /\ ReplyLength(c) \in 0 .. 33
<1>1. Spun(c) \subseteq StatusBits
  BY DEF TypeOK, Spun, StatusBits
<1>2. StatusAfter(c) \subseteq StatusBits
  BY <1>1 DEF StatusAfter, StatusBits
<1>3. ReplyStatus(c) \subseteq StatusBits
  BY <1>2 DEF ReplyStatus
<1>4. ErrorCode(c) \in {"no_error", "recv_ecc"}
  BY DEF TypeOK, ErrorCode
<1>5. ReplyLength(c) \in 0 .. 33
  BY DEF ReplyLength
<1> QED
  BY <1>2, <1>3, <1>4, <1>5

(* An announced reply has a byte, carries the new status, and an error in  *)
(* it has its code.                                                        *)
LEMMA Announced ==
  ASSUME TypeOK, NEW c \in AllCommands, Announces(c)
  PROVE  /\ ReplyLength(c) > 0
         /\ ReplyStatus(c) = StatusAfter(c)
         /\ "ERRO" \in StatusAfter(c) /\ c \notin KeepsErrorCode =>
              ErrorCode(c) = "recv_ecc"
<1>1. c \notin Unanswered /\ c # "ABORT"
  BY DEF Announces
<1>2. ReplyLength(c) > 0
  BY <1>1 DEF ReplyLength
<1>3. ReplyStatus(c) = StatusAfter(c)
  BY <1>1 DEF ReplyStatus
<1>4. "ERRO" \in StatusAfter(c) => ~Possible(c)
  BY DEF StatusAfter
<1> QED
  BY <1>2, <1>3, <1>4 DEF ErrorCode

(* No command spins a disc that is not there.                              *)
LEMMA SpinSafe ==
  ASSUME TypeOK, DiscConsistent, NEW c \in AllCommands
  PROVE  "SPIN" \in StatusAfter(c) => {"TRAY", "DISC"} \subseteq StatusAfter(c)
<1>1. "SPIN" \in Spun(c) => {"TRAY", "DISC"} \subseteq Spun(c)
  BY DEF DiscConsistent, Spun, Possible, NeedsDisc, NeedsSpin
<1> QED
  BY <1>1 DEF StatusAfter

LEMMA SectorTyped ==
  ASSUME NEW s \in Nat
  PROVE  (s + 1) % SectorCount \in 0 .. SectorCount - 1
  BY CdromAssumption

LEMMA LbaTyped ==
  ASSUME NEW msf \in Msf
  PROVE  MSF2LBA(msf) \in 0 .. SectorCount - 1
<1>1. msf[1] \in Nat /\ msf[2] \in Nat /\ msf[3] \in Nat
  BY CdromAssumption
<1>2. msf[1] * 60 * 75 + msf[2] * 75 + msf[3] - 150 \in Int
  BY <1>1
<1> QED
  BY <1>2, CdromAssumption DEF MSF2LBA

-----------------------------------------------------------------------------
(* Every call keeps the invariant.                                         *)

LEMMA StartReadTyped ==
  ASSUME TypeOK, NEW msf \in Msf, NEW n \in BlockCounts,
         StartRead(MSF2LBA(msf), n)
  PROVE  /\ data_len' \in 0 .. BlockSize /\ data_idx' \in Nat
         /\ blocks_requested' \in Nat
         /\ current_sector' \in 0 .. SectorCount - 1
         /\ data' \in 0 .. SectorCount
         /\ n # 0 => data_len' > 0
<1>1. n \in Nat /\ MSF2LBA(msf) \in 0 .. SectorCount - 1
  BY LbaTyped, CdromAssumption
<1>2. /\ MSF2LBA(msf) \in Nat
      /\ (MSF2LBA(msf) + 1) % SectorCount \in 0 .. SectorCount - 1
  BY <1>1, SectorTyped
<1> QED
  BY <1>1, <1>2, CdromAssumption DEF StartRead, TypeOK

LEMMA DoCmdStep ==
  ASSUME DriveInv, NEW c \in AllCommands, DoCmd(c), cmd' = c,
         cmd_idx' \in 0 .. CmdLen - 1
  PROVE  DriveInv'
<1> USE DEF DriveInv
<1>1. /\ StatusAfter(c) \subseteq StatusBits
      /\ ReplyStatus(c) \subseteq StatusBits
      /\ ErrorCode(c) \in {"no_error", "recv_ecc"}
      /\ ReplyLength(c) \in 0 .. 33
  BY StatusTyped
<1>2. /\ xbus_status' \subseteq StatusBits
      /\ MEI_status' \in {"no_error", "recv_ecc"}
      /\ status_len' \in 0 .. 33
      /\ status' \in [cmd : AllCommands, xs : SUBSET StatusBits]
  BY <1>1 DEF DoCmd, TypeOK
<1>3. poll' \subseteq PollBits
  BY DEF DoCmd, TypeOK, PollBits
<1>4. /\ data_len' \in 0 .. BlockSize /\ data_idx' \in Nat
      /\ blocks_requested' \in Nat
      /\ current_sector' \in 0 .. SectorCount - 1
      /\ data' \in 0 .. SectorCount
      /\ "POLDT" \in poll' => data_len' > 0 \/ 0 \in BlockCounts
  <2>1. CASE c = "READ_DATA" /\ Possible(c)
    <3>1. PICK msf \in Msf, n \in BlockCounts : StartRead(MSF2LBA(msf), n)
      BY <2>1 DEF DoCmd
    <3> QED
      BY <3>1, StartReadTyped
  <2>2. CASE ~(c = "READ_DATA" /\ Possible(c))
    <3>1. "POLDT" \notin poll'
      BY <2>2 DEF DoCmd, TypeOK
    <3> QED
      BY <2>2, <3>1 DEF DoCmd, TypeOK, transfer
  <2> QED
    BY <2>1, <2>2
<1>5. intact' \in BOOLEAN
  BY DEF DoCmd, TypeOK, history
<1>6. delivered' \in (0 .. SectorCount) \X Nat
  BY DEF DoCmd, TypeOK, history
<1>7. TypeOK'
  BY <1>2, <1>3, <1>4, <1>5, <1>6 DEF TypeOK
<1>8. "POLST" \in poll' <=> Announces(c)
  BY DEF DoCmd
<1>9. PollHonest'
  BY <1>4, <1>8, Announced DEF DoCmd, PollHonest
<1>10. DiscConsistent'
  BY SpinSafe DEF DoCmd, DiscConsistent
<1>11. ReplyCurrent'
  <2> SUFFICES ASSUME Announces(c)
               PROVE  /\ status'.xs = xbus_status' /\ DiscConsistent'
                      /\ "ERRO" \in status'.xs /\ status'.cmd \notin KeepsErrorCode =>
                           MEI_status' = "recv_ecc"
    BY <1>8 DEF ReplyCurrent
  <2>1. status' = [cmd |-> c, xs |-> ReplyStatus(c)]
    BY DEF DoCmd, Announces
  <2>2. status'.cmd = c /\ status'.xs = StatusAfter(c)
    BY <2>1, Announced
  <2>3. DiscConsistent'
    BY <1>10
  <2> QED
    BY <2>2, <2>3, Announced DEF DoCmd
<1> QED
  BY <1>7, <1>9, <1>10, <1>11

LEMMA NextBlockTyped ==
  ASSUME TypeOK, NextBlock
  PROVE  /\ data_len' \in 0 .. BlockSize /\ data_idx' \in Nat
         /\ blocks_requested' \in Nat
         /\ current_sector' \in 0 .. SectorCount - 1
         /\ data' \in 0 .. SectorCount
         /\ poll' \subseteq poll
         /\ "POLDT" \in poll' => data_len' > 0
         /\ "POLST" \in poll' <=> "POLST" \in poll
<1>1. /\ current_sector \in Nat
      /\ (current_sector + 1) % SectorCount \in 0 .. SectorCount - 1
  BY SectorTyped, CdromAssumption DEF TypeOK
<1> QED
  BY <1>1, CdromAssumption DEF NextBlock, TypeOK

LEMMA GetDataStep == ASSUME DriveInv, FifoGetData PROVE DriveInv'
<1> USE DEF DriveInv
<1>1. /\ data_len' \in 0 .. BlockSize /\ data_idx' \in Nat
      /\ blocks_requested' \in Nat
      /\ current_sector' \in 0 .. SectorCount - 1
      /\ data' \in 0 .. SectorCount
      /\ poll' \subseteq poll
      /\ "POLDT" \in poll' => data_len' > 0
      /\ "POLST" \in poll' <=> "POLST" \in poll
  <2>1. CASE data_len = 1
    BY <2>1, NextBlockTyped DEF FifoGetData
  <2>2. CASE data_len # 1
    <3>1. UNCHANGED <<poll, data, current_sector, blocks_requested>>
      BY <2>2 DEF FifoGetData
    <3>2. data_len' > 0 /\ data_len' \in 0 .. BlockSize /\ data_idx' \in Nat
      BY <2>2, CdromAssumption DEF FifoGetData, TypeOK
    <3> QED
      BY <3>1, <3>2 DEF TypeOK
  <2> QED
    BY <2>1, <2>2
<1>2. poll' \subseteq PollBits
  BY <1>1 DEF TypeOK
<1>3. delivered' \in (0 .. SectorCount) \X Nat
  BY DEF FifoGetData, TypeOK
<1>4. TypeOK'
  BY <1>1, <1>2, <1>3 DEF FifoGetData, TypeOK, bus, reply
<1>5. PollHonest' /\ DiscConsistent' /\ ReplyCurrent'
  BY <1>1 DEF FifoGetData, bus, reply, PollHonest, DiscConsistent, ReplyCurrent
<1> QED
  BY <1>4, <1>5

LEMMA GetStatusStep == ASSUME DriveInv, FifoGetStatus PROVE DriveInv'
<1> USE DEF DriveInv, FifoGetStatus, bus, transfer, history
<1>1. status_len' \in 0 .. 33 /\ ("POLST" \in poll' => status_len' > 0)
  BY DEF TypeOK, PollHonest
<1>2. poll' \subseteq poll
  OBVIOUS
<1>3. TypeOK'
  BY <1>1, <1>2 DEF TypeOK
<1> QED
  BY <1>1, <1>2, <1>3 DEF PollHonest, DiscConsistent, ReplyCurrent

LEMMA Invariance == DriveInv /\ [Next]_vars => DriveInv'
<1> SUFFICES ASSUME DriveInv, [Next]_vars PROVE DriveInv'
  OBVIOUS
<1> USE DEF DriveInv
<1>1. CASE SendCmd
  <2>1. PICK c \in IF cmd_idx = 0 THEN Commands ELSE {cmd} :
          /\ cmd' = c
          /\ IF cmd_idx + 1 = CmdLen \/ c = "ABORT"
             THEN cmd_idx' = 0 /\ DoCmd(c)
             ELSE /\ cmd_idx' = cmd_idx + 1
                  /\ UNCHANGED <<poll, xbus_status, MEI_status, reply, transfer,
                                 history>>
    BY <1>1 DEF SendCmd
  <2>2. c \in AllCommands
    BY <2>1, CdromAssumption DEF TypeOK
  <2>3. CASE cmd_idx + 1 = CmdLen \/ c = "ABORT"
    <3>1. cmd_idx' \in 0 .. CmdLen - 1
      BY <2>1, <2>3, CdromAssumption
    <3> QED
      BY <2>1, <2>2, <2>3, <3>1, DoCmdStep
  <2>4. CASE ~(cmd_idx + 1 = CmdLen \/ c = "ABORT")
    <3>1. cmd_idx' \in 0 .. CmdLen - 1
      BY <2>1, <2>4, CdromAssumption DEF TypeOK
    <3> QED
      BY <2>1, <2>2, <2>4, <3>1
      DEF TypeOK, PollHonest, DiscConsistent, ReplyCurrent, reply, transfer, history
  <2> QED
    BY <2>3, <2>4
<1>2. CASE FifoGetStatus
  BY <1>2, GetStatusStep
<1>3. CASE FifoGetData
  BY <1>3, GetDataStep
<1>4. CASE SetPoll
  <2>1. PICK m \in PollMasks : poll' = (poll \ Masks) \union m
    BY <1>4 DEF SetPoll
  <2>2. m \subseteq Masks
    BY CdromAssumption
  <2>3. /\ poll' \subseteq PollBits
        /\ "POLST" \in poll' => "POLST" \in poll
        /\ "POLDT" \in poll' => "POLDT" \in poll
    BY <2>1, <2>2 DEF TypeOK, PollBits, Masks
  <2> QED
    BY <1>4, <2>3 DEF SetPoll, TypeOK, PollHonest, DiscConsistent, ReplyCurrent,
                      bus, reply, transfer, history
<1>5. CASE Reset
  <2>1. poll' \subseteq PollBits /\ "POLST" \notin poll' /\ "POLDT" \notin poll'
    BY <1>5 DEF Reset, PollBits, Masks
  <2>2. /\ xbus_status' \subseteq StatusBits
        /\ {"TRAY", "DISC"} \subseteq xbus_status'
    BY <1>5 DEF Reset, StatusBits
  <2>3. current_sector' \in 0 .. SectorCount - 1 /\ data_idx' \in Nat
    BY <1>5, CdromAssumption DEF Reset
  <2>4. MEI_status' \in {"no_error", "recv_ecc"} /\ intact' \in BOOLEAN
    BY <1>5 DEF Reset
  <2>5. /\ UNCHANGED <<cmd, cmd_idx, status_len, status, data_len, blocks_requested,
                       data>>
        /\ delivered' \in (0 .. SectorCount) \X Nat
    BY <1>5, CdromAssumption DEF Reset, bus, reply, NoByte
  <2>6. TypeOK'
    BY <2>1, <2>2, <2>3, <2>4, <2>5 DEF TypeOK
  <2> QED
    BY <2>1, <2>2, <2>6 DEF PollHonest, DiscConsistent, ReplyCurrent
<1>6. CASE FifoGetNoData \/ UNCHANGED vars
  BY <1>6 DEF FifoGetNoData, vars, bus, reply, transfer, history, TypeOK,
              PollHonest, DiscConsistent, ReplyCurrent
<1> QED
  BY <1>1, <1>2, <1>3, <1>4, <1>5, <1>6 DEF Next

LEMMA AlwaysDriveInv == Spec => []DriveInv
  BY InitDriveInv, Invariance, PTL DEF Spec

(* The registers of the drive keep their types.                            *)
THEOREM TypeCorrect == Spec => []TypeOK
  BY AlwaysDriveInv, PTL DEF DriveInv

(* What the poll register announces can be read.                           *)
THEOREM PollCorrect == Spec => []PollHonest
  BY AlwaysDriveInv, PTL DEF DriveInv

(* No sequence of commands and resets leaves a disc spinning in an open    *)
(* tray.                                                                   *)
THEOREM DiscCorrect == Spec => []DiscConsistent
  BY AlwaysDriveInv, PTL DEF DriveInv

(* An announced reply shows the drive's present status.                    *)
THEOREM ReplyCorrect == Spec => []ReplyCurrent
  BY AlwaysDriveInv, PTL DEF DriveInv
-----------------------------------------------------------------------------
(* The data stream, for a host that drains every block it starts.          *)

LEMMA Multiply ==
  ASSUME NEW n \in Nat
  PROVE  /\ n * BlockSize \in Nat
         /\ n > 0 => n * BlockSize = BlockSize + (n - 1) * BlockSize
         /\ n > 0 => n * BlockSize > 0
         /\ n = 0 => n * BlockSize = 0
  BY CdromAssumption

(* A step of the drive is a step of the stream or changes none of its      *)
(* variables.                                                              *)
StreamStep == [Stream!Next]_(Stream!vars)

LEMMA ReadStep ==
  ASSUME HostDrains, DriveInv, DrainInv,
         DoCmd("READ_DATA"), Possible("READ_DATA"),
         data_idx = 0
  PROVE  DrainInv' /\ Stream!Start
<1>1. PICK msf \in Msf, n \in BlockCounts : StartRead(MSF2LBA(msf), n)
  BY DEF DoCmd
<1> DEFINE s == MSF2LBA(msf)
<1>2. s \in 0 .. SectorCount - 1 /\ n \in Nat
  BY LbaTyped, CdromAssumption
<1> HIDE DEF s
<1>3. /\ intact' = TRUE /\ delivered' = delivered /\ data_idx' = 0
      /\ blocks_requested' = (IF n > 0 THEN n - 1 ELSE 0)
      /\ current_sector' = (IF n > 0 THEN (s + 1) % SectorCount ELSE s)
      /\ data' = (IF n > 0 THEN s ELSE data)
      /\ data_len' = (IF n > 0 THEN BlockSize ELSE 0)
  BY <1>1 DEF DoCmd, StartRead, s
<1>4. DrainInv'
  BY <1>2, <1>3, CdromAssumption DEF DrainInv, NoOverrun, IndexInv, StreamInv
<1>5. Left' = n * BlockSize
  <2>1. CASE n = 0
    BY <1>3, <2>1, Multiply DEF Left
  <2>2. CASE n > 0
    BY <1>2, <1>3, <2>2, Multiply DEF Left
  <2> QED
    BY <1>2, <2>1, <2>2
<1>6. (IF Left = 0 THEN NoByte ELSE <<data, data_idx>>)'
        = (IF n = 0 THEN NoByte ELSE <<s, 0>>)
  BY <1>2, <1>3, <1>5, Multiply DEF NoByte
<1>7. s \in Stream!Sector
  BY <1>2 DEF Stream!Sector
<1> QED
  BY <1>3, <1>4, <1>5, <1>6, <1>7 DEF Stream!Start, NoByte, Stream!NoByte

LEMMA DeliverStep ==
  ASSUME DriveInv, DrainInv, FifoGetData
  PROVE  DrainInv' /\ StreamStep
<1> USE DEF DriveInv
<1>1. /\ data_len \in Nat \ {0} /\ data_idx \in Nat /\ BlockSize \in Nat \ {0}
      /\ blocks_requested \in Nat /\ SectorCount \in Nat \ {0}
      /\ intact \in BOOLEAN /\ intact' = intact
      /\ current_sector \in 0 .. SectorCount - 1
      /\ (current_sector + 1) % SectorCount \in 0 .. SectorCount - 1
  BY SectorTyped, CdromAssumption DEF TypeOK, FifoGetData
<1>2. data_idx + data_len <= BlockSize
  BY <1>1 DEF DrainInv, NoOverrun
<1>3. CASE data_len > 1
  <2>1. /\ data_idx' = data_idx + 1 /\ data_len' = data_len - 1
        /\ data' = data /\ current_sector' = current_sector
        /\ blocks_requested' = blocks_requested
    BY <1>3 DEF FifoGetData
  <2>2. DrainInv'
    BY <1>1, <1>3, <2>1 DEF DrainInv, NoOverrun, IndexInv, StreamInv
  <2>3. CASE intact
    <3>1. Left' = Left - 1 /\ Left > 1 /\ Left \in Nat
      BY <1>1, <1>3, <2>1, <2>3, Multiply DEF Left
    <3>2. delivered' = <<data, data_idx>>
      BY <2>3 DEF FifoGetData
    <3>3. Stream!After(<<data, data_idx>>) = <<data, data_idx + 1>>
      BY <1>1, <1>2, <1>3 DEF Stream!After
    <3> QED
      BY <2>1, <2>2, <3>1, <3>2, <3>3 DEF StreamStep, Stream!Next, Stream!Deliver
  <2>4. CASE ~intact
    BY <1>1, <2>2, <2>4 DEF StreamStep, FifoGetData, Left, Stream!vars, NoByte
  <2> QED
    BY <2>3, <2>4
<1>4. CASE data_len = 1
  <2>1. NextBlock
    BY <1>4 DEF FifoGetData
  <2>2. CASE blocks_requested = 0
    <3>1. data_len' = 0 /\ data_idx' = 0 /\ blocks_requested' = 0
      BY <2>1, <2>2 DEF NextBlock
    <3>2. DrainInv'
      BY <3>1 DEF DrainInv, NoOverrun, IndexInv, StreamInv
    <3>3. Left' = 0
      BY <1>1, <3>1, Multiply DEF Left
    <3>4. CASE intact
      <4>1. Left = 1
        BY <1>1, <1>4, <2>2, <3>4, Multiply DEF Left
      <4>2. delivered' = <<data, data_idx>>
        BY <3>4 DEF FifoGetData
      <4> QED
        BY <3>2, <3>3, <4>1, <4>2
        DEF StreamStep, Stream!Next, Stream!Deliver, NoByte, Stream!NoByte
    <3>5. CASE ~intact
      BY <1>1, <3>2, <3>5 DEF StreamStep, FifoGetData, Left, Stream!vars, NoByte
    <3> QED
      BY <3>4, <3>5
  <2>3. CASE blocks_requested > 0
    <3>1. /\ data_idx' = 0 /\ data_len' = BlockSize
          /\ data' = current_sector
          /\ current_sector' = (current_sector + 1) % SectorCount
          /\ blocks_requested' = blocks_requested - 1
      BY <2>1, <2>3 DEF NextBlock
    <3>2. DrainInv'
      BY <1>1, <3>1 DEF DrainInv, NoOverrun, IndexInv, StreamInv
    <3>3. CASE intact
      <4>1. Left' = Left - 1 /\ Left > 1 /\ Left \in Nat
        BY <1>1, <1>4, <2>3, <3>1, <3>3, Multiply DEF Left
      <4>2. delivered' = <<data, data_idx>>
        BY <3>3 DEF FifoGetData
      <4>3. data_idx + 1 = BlockSize /\ current_sector = (data + 1) % SectorCount
        BY <1>1, <1>4, <3>3 DEF DrainInv, StreamInv
      <4>4. Stream!After(<<data, data_idx>>) = <<current_sector, 0>>
        BY <1>1, <4>3 DEF Stream!After
      <4> QED
        BY <3>1, <3>2, <4>1, <4>2, <4>4 DEF StreamStep, Stream!Next, Stream!Deliver
    <3>4. CASE ~intact
      BY <1>1, <3>2, <3>4 DEF StreamStep, FifoGetData, Left, Stream!vars, NoByte
    <3> QED
      BY <3>3, <3>4
  <2> QED
    BY <1>1, <2>2, <2>3
<1> QED
  BY <1>1, <1>3, <1>4

LEMMA StreamInduction ==
  ASSUME HostDrains
  PROVE  DriveInv /\ DrainInv /\ [Next]_vars => DrainInv' /\ StreamStep
<1> SUFFICES ASSUME DriveInv, DrainInv, [Next]_vars
             PROVE  DrainInv' /\ StreamStep
  OBVIOUS
<1> USE DEF DrainInv, NoOverrun, IndexInv, StreamInv, StreamStep, Stream!vars, Left, NoByte
<1>1. CASE SendCmd
  <2>1. PICK c \in IF cmd_idx = 0 THEN Commands ELSE {cmd} :
          IF cmd_idx + 1 = CmdLen \/ c = "ABORT"
          THEN /\ c = "READ_DATA" /\ HostDrains => data_idx = 0
               /\ DoCmd(c)
          ELSE UNCHANGED <<transfer, history>>
    BY <1>1 DEF SendCmd
  <2>2. CASE UNCHANGED <<transfer, history>>
    BY <2>2 DEF transfer, history
  <2>3. CASE DoCmd(c) /\ c = "READ_DATA" /\ Possible(c) /\ data_idx = 0
    BY <2>3, ReadStep DEF Stream!Next
  <2> QED
    BY <2>1, <2>2, <2>3 DEF DoCmd
<1>2. CASE FifoGetData
  BY <1>2, DeliverStep
<1>3. CASE Reset
  BY <1>3, CdromAssumption
  DEF Reset, Stream!Next, Stream!Cancel, Stream!NoByte, DriveInv, TypeOK
<1>4. CASE FifoGetStatus \/ SetPoll
  BY <1>4 DEF FifoGetStatus, SetPoll, transfer, history
<1>5. CASE FifoGetNoData \/ UNCHANGED vars
  BY <1>5 DEF FifoGetNoData, vars, transfer, history
<1> QED
  BY <1>1, <1>2, <1>3, <1>4, <1>5 DEF Next

(* The bytes to come stay in the block buffer at every step but a          *)
(* READ_DATA in the middle of a block, whatever the host does.             *)
THEOREM OverrunNeedsRead == Spec => OverrunOnlyByRead
<1>1. DriveInv /\ [Next]_vars =>
        [NoOverrun => NoOverrun' \/ (ReadDone /\ data_idx # 0)]_vars
  <2> SUFFICES ASSUME DriveInv, Next, NoOverrun, ~(ReadDone /\ data_idx # 0)
               PROVE  NoOverrun'
    OBVIOUS
  <2>t. /\ data_len \in 0 .. BlockSize /\ data_idx \in Nat
        /\ BlockSize \in Nat \ {0} /\ CmdLen \in Nat \ {0, 1}
        /\ cmd_idx \in 0 .. CmdLen - 1
    BY CdromAssumption DEF DriveInv, TypeOK
  <2>1. CASE UNCHANGED <<data_len, data_idx>>
    BY <2>1 DEF NoOverrun
  <2>2. CASE FifoGetData
    BY <2>2, <2>t DEF FifoGetData, NextBlock, NoOverrun
  <2>3. CASE Reset
    BY <2>3, <2>t DEF Reset, NoOverrun
  <2>4. CASE SendCmd
    <3>1. PICK c \in IF cmd_idx = 0 THEN Commands ELSE {cmd} :
            /\ cmd' = c
            /\ IF cmd_idx + 1 = CmdLen \/ c = "ABORT"
               THEN /\ c = "READ_DATA" /\ HostDrains => data_idx = 0
                    /\ cmd_idx' = 0
                    /\ DoCmd(c)
               ELSE /\ cmd_idx' = cmd_idx + 1
                    /\ UNCHANGED <<poll, xbus_status, MEI_status, reply,
                                   transfer, history>>
      BY <2>4 DEF SendCmd
    <3>2. CASE ~(cmd_idx + 1 = CmdLen \/ c = "ABORT")
      BY <2>1, <3>1, <3>2 DEF transfer
    <3> DEFINE Last == cmd_idx + 1 = CmdLen \/ c = "ABORT"
    <3>3. CASE Last /\ ~(c = "READ_DATA" /\ Possible(c))
      BY <2>1, <3>1, <3>3 DEF DoCmd, transfer
    <3>4. CASE Last /\ c = "READ_DATA" /\ Possible(c)
      <4>1. PICK msf \in Msf, n \in BlockCounts : StartRead(MSF2LBA(msf), n)
        BY <3>1, <3>4 DEF DoCmd
      <4>2. /\ data_idx' = data_idx
            /\ data_len' = IF n > 0 THEN BlockSize ELSE 0
        BY <4>1 DEF StartRead
      <4>3. cmd_idx + 1 = CmdLen /\ cmd' = "READ_DATA" /\ cmd_idx' = 0
        BY <3>1, <3>4
      <4>4. cmd_idx > 0
        BY <4>3, <2>t
      <4>5. data_idx = 0
        BY <4>3, <4>4 DEF ReadDone
      <4> QED
        BY <4>2, <4>5, <2>t DEF NoOverrun
    <3> QED
      BY <3>2, <3>3, <3>4
  <2>5. CASE FifoGetStatus \/ FifoGetNoData \/ SetPoll
    BY <2>1, <2>5 DEF FifoGetStatus, FifoGetNoData, SetPoll, vars, transfer
  <2> QED
    BY <2>2, <2>3, <2>4, <2>5 DEF Next
<1> QED
  BY InitDriveInv, Invariance, <1>1, PTL DEF Spec, OverrunOnlyByRead

(* The drive delivers the sectors asked for, byte by byte and in order.    *)
THEOREM Refinement == ASSUME HostDrains PROVE Spec => StreamSpec
<1>1. DriveInv /\ DrainInv /\ [Next]_vars => DriveInv' /\ DrainInv' /\ StreamStep
  BY Invariance, StreamInduction
<1>2. Init => DriveInv /\ DrainInv
  BY InitDriveInv, InitDrain
<1>3. Init => Stream!Init
  BY DEF Init, Stream!Init, Left, NoByte, Stream!NoByte
<1> QED
  BY <1>1, <1>2, <1>3, PTL DEF Spec, StreamSpec, Stream!Spec, StreamStep
-----------------------------------------------------------------------------
LEMMA Unselected == UNCHANGED drive => UNCHANGED vars
  BY DEF drive, vars, bus, reply, transfer, history

(* A byte taken from the selected device is a call of the drive or none.   *)
LEMMA PopStep == Pop => Next \/ UNCHANGED vars
<1> SUFFICES ASSUME Pop PROVE Next \/ UNCHANGED vars
  OBVIOUS
<1>1. CASE sel = "drive"
  BY <1>1 DEF Pop, Next
<1>2. CASE sel # "drive"
  BY <1>2, Unselected DEF Pop
<1> QED
  BY <1>1, <1>2

LEMMA DriveStep == [BusNext]_busVars => [Next]_vars
<1> SUFFICES ASSUME [BusNext]_busVars PROVE Next \/ UNCHANGED vars
  OBVIOUS
<1>1. CASE WritePoll
  <2>1. SetPoll \/ UNCHANGED drive
    BY <1>1 DEF WritePoll
  <2> QED
    BY <2>1, Unselected DEF Next
<1>2. CASE WriteCmd
  <2>1. SendCmd \/ UNCHANGED drive
    BY <1>2 DEF WriteCmd
  <2> QED
    BY <2>1, Unselected DEF Next
<1>3. CASE GetStatus
  <2>1. FifoGetStatus \/ UNCHANGED drive
    BY <1>3 DEF GetStatus
  <2> QED
    BY <2>1, Unselected DEF Next
<1>4. CASE GetData \/ DmaByte \/ DmaWord
  <2>1. Pop
    BY <1>4 DEF GetData, DmaByte, DmaWord
  <2> QED
    BY <2>1, PopStep
<1>5. CASE ResetBus
  BY <1>5 DEF ResetBus, Next
<1>6. CASE SetSel \/ WriteDmaRegs \/ StartDma \/ DmaDone \/ ClearPend \/ UNCHANGED busVars
  <2>1. UNCHANGED drive
    BY <1>6 DEF SetSel, WriteDmaRegs, StartDma, DmaDone, ClearPend, busVars
  <2> QED
    BY <2>1, Unselected
<1> QED
  BY <1>1, <1>2, <1>3, <1>4, <1>5, <1>6 DEF BusNext

(* The bus uses the drive as a single host would: whatever is selected,    *)
(* read or moved by DMA, the drive sees one of its own calls or none, so   *)
(* that the theorems above hold of the drive on the bus.                   *)
THEOREM DriveCorrect == BusSpec => Spec
<1>1. BusInit => Init
  BY DEF BusInit
<1> QED
  BY <1>1, DriveStep, PTL DEF BusSpec, Spec
-----------------------------------------------------------------------------
(* Fewer bits in the poll register ask for no new FIQ.                     *)
LEMMA FewerBits ==
  poll' \subseteq poll /\ TestFiq' => TestFiq
  BY DEF TestFiq

LEMMA PopTakesBits == Pop => poll' \subseteq poll
<1> SUFFICES ASSUME Pop PROVE poll' \subseteq poll
  OBVIOUS
<1>1. CASE sel # "drive"
  BY <1>1 DEF Pop, drive
<1>2. CASE sel = "drive" /\ FifoGetNoData
  BY <1>2 DEF FifoGetNoData, vars
<1>3. CASE sel = "drive" /\ FifoGetData
  <2>1. poll' = poll \/ NextBlock
    BY <1>3 DEF FifoGetData
  <2>2. poll' = poll \/ poll' = poll \ {"POLDT"}
    BY <2>1 DEF NextBlock
  <2> QED
    BY <2>2
<1> QED
  BY <1>1, <1>2, <1>3 DEF Pop

LEMMA FiqStep ==
  [BusNext]_busVars => (~TestFiq /\ TestFiq' => "xbus" \in irq0_pend')
<1> SUFFICES ASSUME [BusNext]_busVars, ~TestFiq, TestFiq'
             PROVE  "xbus" \in irq0_pend'
  OBVIOUS
<1>0. ~(poll' \subseteq poll)
  BY FewerBits
<1>1. CASE WritePoll
  <2>1. UNCHANGED drive \/ AskFiq
    BY <1>1 DEF WritePoll
  <2>2. AskFiq
    BY <1>0, <2>1 DEF drive
  <2> QED
    BY <2>2 DEF AskFiq
<1>2. CASE WriteCmd
  <2>1. UNCHANGED drive \/ AskFiq
    BY <1>2 DEF WriteCmd
  <2>2. AskFiq
    BY <1>0, <2>1 DEF drive
  <2> QED
    BY <2>2 DEF AskFiq
<1>3. CASE GetStatus
  <2>1. UNCHANGED drive \/ FifoGetStatus
    BY <1>3 DEF GetStatus
  <2>2. poll' \subseteq poll
    BY <2>1 DEF drive, FifoGetStatus
  <2> QED
    BY <1>0, <2>2
<1>4. CASE GetData \/ DmaByte \/ DmaWord
  BY <1>0, <1>4, PopTakesBits DEF GetData, DmaByte, DmaWord
<1>5. CASE ResetBus
  <2>1. poll' = Masks
    BY <1>5 DEF ResetBus, Reset
  <2> QED
    BY <2>1 DEF TestFiq, Masks
<1>6. CASE SetSel \/ WriteDmaRegs \/ StartDma \/ DmaDone \/ ClearPend \/ UNCHANGED busVars
  <2>1. UNCHANGED drive
    BY <1>6 DEF SetSel, WriteDmaRegs, StartDma, DmaDone, ClearPend, busVars
  <2> QED
    BY <1>0, <2>1 DEF drive
<1> QED
  BY <1>1, <1>2, <1>3, <1>4, <1>5, <1>6 DEF BusNext

(* Every step that first shows an announcement under an open mask leaves   *)
(* the FIQ pending in CLIO.                                                *)
THEOREM FiqCorrect == BusSpec => FiqRaised
<1>1. [BusNext]_busVars => [~TestFiq /\ TestFiq' => "xbus" \in irq0_pend']_busVars
  BY FiqStep
<1> QED
  BY <1>1, PTL DEF BusSpec, FiqRaised
-----------------------------------------------------------------------------
(* What is proved of the drive holds of the drive on the bus.              *)
LEMMA DriveOnBus ==
  ASSUME HostDrains
  PROVE  /\ BusInit => DriveInv /\ DrainInv
         /\ DriveInv /\ DrainInv /\ [BusNext]_busVars =>
              DriveInv' /\ DrainInv'
<1>1. BusInit => DriveInv /\ DrainInv
  BY InitDriveInv, InitDrain DEF BusInit
<1>2. DriveInv /\ [Next]_vars => DriveInv'
  BY CdromAssumption, Invariance
<1>3. DriveInv /\ DrainInv /\ [Next]_vars => DrainInv'
  BY CdromAssumption, StreamInduction
<1> QED
  BY <1>1, <1>2, <1>3, DriveStep
-----------------------------------------------------------------------------
(* Quotients and remainders.                                               *)

LEMMA Distribute ==
  ASSUME NEW B \in Nat \ {0}, NEW c \in Int, NEW d \in Int
  PROVE  /\ (c + d) * B = (c * B) + (d * B) /\ (c - d) * B = (c * B) - (d * B)
         /\ c * B \in Int /\ d * B \in Int
         /\ d >= 1 => d * B >= B
         /\ d <= -1 => d * B <= -B
  OBVIOUS

LEMMA DivMod ==
  ASSUME NEW B \in Nat \ {0}, NEW x \in Nat
  PROVE  /\ x = (x \div B) * B + (x % B)
         /\ x \div B \in Nat /\ x % B \in 0 .. B - 1
  OBVIOUS

LEMMA DivUnique ==
  ASSUME NEW B \in Nat \ {0}, NEW q \in Nat, NEW r \in 0 .. B - 1, NEW x \in Nat,
         x = q * B + r
  PROVE  x \div B = q /\ x % B = r
<1> DEFINE p == x \div B
<1>1. x = p * B + (x % B) /\ p \in Nat /\ x % B \in 0 .. B - 1
  BY DivMod
<1> HIDE DEF p
<1>2. (p - q) * B = (p * B) - (q * B)
  BY <1>1, Distribute
<1>3. ~(p - q >= 1) /\ ~(p - q <= -1)
  BY <1>1, <1>2, Distribute
<1>4. p = q
  BY <1>1, <1>3
<1> QED
  BY <1>1, <1>4 DEF p

LEMMA DivNext ==
  ASSUME NEW B \in Nat \ {0}, NEW x \in Nat
  PROVE  IF (x % B) + 1 < B
         THEN (x + 1) \div B = x \div B /\ (x + 1) % B = (x % B) + 1
         ELSE (x + 1) \div B = x \div B + 1 /\ (x + 1) % B = 0
<1> DEFINE r == x % B
           q == x \div B
<1>1. x = q * B + r /\ q \in Nat /\ r \in 0 .. B - 1
  BY DivMod
<1> HIDE DEF r, q
<1>2. CASE r + 1 < B
  <2>1. (x + 1) \div B = q /\ (x + 1) % B = r + 1
    BY <1>1, <1>2, DivUnique
  <2> QED
    BY <1>2, <2>1 DEF r, q
<1>3. CASE r + 1 = B
  <2>1. x + 1 = (q + 1) * B + 0
    BY <1>1, <1>3, Distribute
  <2>2. (x + 1) \div B = q + 1 /\ (x + 1) % B = 0
    BY <1>1, <2>1, DivUnique
  <2> QED
    BY <1>3, <2>2 DEF r, q
<1> QED
  BY <1>1, <1>2, <1>3

LEMMA ModNext ==
  ASSUME NEW B \in Nat \ {0}, NEW x \in Nat
  PROVE  (x + 1) % B = ((x % B) + 1) % B
<1>1. x % B \in 0 .. B - 1
  BY DivMod
<1>2. (x % B) + 1 < B => ((x % B) + 1) % B = (x % B) + 1
  BY <1>1
<1>3. (x % B) + 1 = B => ((x % B) + 1) % B = 0
  BY <1>1
<1>4. (x % B) + 1 < B \/ (x % B) + 1 = B
  BY <1>1
<1>5. (x + 1) % B = IF (x % B) + 1 < B THEN (x % B) + 1 ELSE 0
  BY DivNext
<1> QED
  BY <1>2, <1>3, <1>4, <1>5
-----------------------------------------------------------------------------
(* The DMA.  What its registers hold ...                                   *)
Bytes == (0 .. SectorCount) \X Nat
RegsTyped ==
  /\ curaddr \in Nat /\ curlen \in Int /\ curlen >= -4
  /\ dma \in [on : BOOLEAN, trg : Nat, len : Int, bytes : Seq(Bytes)]
  /\ copied \in [known : BOOLEAN, first : Bytes, left : Nat, trg : Nat, len : Int]

(* ... how far a running DMA is, and which words it has stored; ...        *)
DmaShape ==
  /\ ~dma.on => DOMAIN ram = {}
  /\ dma.on =>
       /\ copied.trg <= dma.trg
       /\ dma.len = copied.len - 4 * (dma.trg - copied.trg)
       /\ dma.len >= -4 /\ Len(dma.bytes) <= 3
       /\ DOMAIN ram = {w \in 0 .. RamWords - 1 : copied.trg <= w /\ w < dma.trg}

(* ... and, of one that began inside a transfer, that the drive is as far  *)
(* behind the first byte as bytes were taken, or at the end, and that the  *)
(* bytes in hand and those in RAM are the ones owed.                       *)
Taken == 4 * (dma.trg - copied.trg) + Len(dma.bytes)

DriveAhead ==
  /\ sel = "drive" /\ intact
  /\ copied.first \in (0 .. SectorCount - 1) \X (0 .. BlockSize - 1)
  /\ Left = IF Taken < copied.left THEN copied.left - Taken ELSE 0
  /\ Taken < copied.left => <<data, data_idx>> = Ahead(copied.first, Taken)

BytesOwed ==
  /\ \A k \in 1 .. Len(dma.bytes) : dma.bytes[k] = Owed(dma.trg, k - 1)
  /\ \A w \in DOMAIN ram, k \in 0 .. 3 : ram[w][4 - k] = Owed(w, k)

DmaInStep == dma.on /\ copied.known => DriveAhead /\ BytesOwed

DmaInv == RegsTyped /\ DmaShape /\ DmaInStep

LEMMA Constants ==
  /\ BlockSize \in Nat \ {0} /\ SectorCount \in Nat \ {0} /\ RamWords \in Nat \ {0}
  /\ DmaStarts \subseteq Nat /\ DmaLens \subseteq Nat
  BY CdromAssumption, XbusAssumption

(* The byte behind another one.                                            *)
Behind(b) ==
  IF b[2] + 1 < BlockSize THEN <<b[1], b[2] + 1>> ELSE <<(b[1] + 1) % SectorCount, 0>>

LEMMA AheadTyped ==
  ASSUME NEW b \in (0 .. SectorCount - 1) \X (0 .. BlockSize - 1), NEW n \in Nat
  PROVE  Ahead(b, n) \in (0 .. SectorCount - 1) \X (0 .. BlockSize - 1)
  BY Constants DEF Ahead

LEMMA AheadNext ==
  ASSUME NEW b \in (0 .. SectorCount - 1) \X (0 .. BlockSize - 1), NEW n \in Nat
  PROVE  Ahead(b, n + 1) = Behind(Ahead(b, n))
<1> DEFINE m == b[2] + n
<1>1. /\ BlockSize \in Nat \ {0} /\ SectorCount \in Nat \ {0}
      /\ b[1] \in Nat /\ m \in Nat /\ b[2] + (n + 1) = m + 1
  BY Constants
<1>2. Ahead(b, n) = <<(b[1] + m \div BlockSize) % SectorCount, m % BlockSize>>
  BY DEF Ahead
<1>3. Ahead(b, n + 1)
        = <<(b[1] + (m + 1) \div BlockSize) % SectorCount, (m + 1) % BlockSize>>
  BY <1>1 DEF Ahead
<1> HIDE DEF m
<1>4. CASE (m % BlockSize) + 1 < BlockSize
  <2>1. /\ (m + 1) \div BlockSize = m \div BlockSize
        /\ (m + 1) % BlockSize = (m % BlockSize) + 1
    BY <1>1, <1>4, DivNext
  <2> QED
    BY <1>2, <1>3, <1>4, <2>1 DEF Behind
<1>5. CASE ~((m % BlockSize) + 1 < BlockSize)
  <2>1. /\ (m + 1) \div BlockSize = m \div BlockSize + 1
        /\ (m + 1) % BlockSize = 0
    BY <1>1, <1>5, DivNext
  <2>2. m \div BlockSize \in Nat
    BY <1>1
  <2>3. (b[1] + (m \div BlockSize + 1)) % SectorCount
          = (((b[1] + m \div BlockSize) % SectorCount) + 1) % SectorCount
    BY <1>1, <2>2, ModNext
  <2> QED
    BY <1>2, <1>3, <1>5, <2>1, <2>3 DEF Behind
<1> QED
  BY <1>4, <1>5

LEMMA AheadNone ==
  ASSUME NEW b \in (0 .. SectorCount - 1) \X (0 .. BlockSize - 1)
  PROVE  Ahead(b, 0) = b
  BY Constants DEF Ahead

(* What one byte taken from the drive inside a transfer is, and where it   *)
(* leaves the drive.                                                       *)
LEMMA TakeByte ==
  ASSUME DriveInv, DrainInv, sel = "drive", intact, Pop
  PROVE  /\ intact' /\ Left \in Nat
         /\ Left > 0 => /\ Popped = <<data, data_idx>>
                               /\ Left' = Left - 1
         /\ Left > 1 => <<data', data_idx'>> = Behind(<<data, data_idx>>)
         /\ Left = 0 => Popped = Zero /\ Left' = 0
<1> USE DEF DriveInv, DrainInv, StreamInv
<1>1. /\ data_len \in Nat /\ data_idx \in Nat /\ blocks_requested \in Nat
      /\ data_len <= BlockSize /\ data \in 0 .. SectorCount
      /\ blocks_requested * BlockSize \in Nat
  BY CdromAssumption, Multiply, Constants DEF TypeOK
<1>2. Left \in Nat /\ (Left = 0 <=> data_len = 0)
  BY <1>1, CdromAssumption, Multiply DEF Left
<1>3. CASE data_len = 0
  <2>1. UNCHANGED <<data_len, data_idx, data, blocks_requested, intact>>
    BY <1>3 DEF Pop, FifoGetData, FifoGetNoData,
                vars, transfer, history
  <2> QED
    BY <1>2, <1>3, <2>1 DEF Popped, Left
<1>4. CASE data_len > 0
  <2>1. FifoGetData
    BY <1>1, <1>4 DEF Pop, FifoGetNoData
  <2>2. intact' = intact /\ Popped = <<data, data_idx>>
    BY <1>4, <2>1 DEF FifoGetData, Popped
  <2>3. /\ data_idx + data_len = BlockSize /\ data < SectorCount
        /\ current_sector = (data + 1) % SectorCount
    BY <1>4
  <2>4. CASE data_len > 1
    BY <1>1, <1>2, <2>1, <2>2, <2>3, <2>4, Constants
    DEF FifoGetData, Left, Behind
  <2>5. CASE data_len = 1
    <3>1. NextBlock
      BY <2>1, <2>5 DEF FifoGetData
    <3>2. CASE blocks_requested = 0
      <4>1. data_len' = 0 /\ blocks_requested' = 0
        BY <3>1, <3>2 DEF NextBlock
      <4>2. Left = 1 /\ Left' = 0
        BY <2>2, <2>5, <3>2, <4>1, CdromAssumption, Multiply DEF Left
      <4> QED
        BY <2>2, <4>2
    <3>3. CASE blocks_requested > 0
      <4>1. /\ data_idx' = 0 /\ data_len' = BlockSize /\ data' = current_sector
            /\ blocks_requested' = blocks_requested - 1
        BY <3>1, <3>3 DEF NextBlock
      <4>2. blocks_requested * BlockSize
              = BlockSize + (blocks_requested - 1) * BlockSize
        BY <1>1, <3>3, CdromAssumption, Multiply
      <4>3. (blocks_requested - 1) * BlockSize \in Nat
        BY <1>1, <3>3, CdromAssumption, Multiply
      <4>4. Left' = Left - 1
        BY <2>2, <2>5, <4>1, <4>2, <4>3, Constants DEF Left
      <4>5. <<data', data_idx'>> = Behind(<<data, data_idx>>)
        BY <1>1, <2>3, <2>5, <4>1, Constants DEF Behind
      <4> QED
        BY <1>2, <1>4, <2>2, <4>4, <4>5
    <3> QED
      BY <1>1, <3>2, <3>3
  <2> QED
    BY <1>1, <1>4, <2>4, <2>5
<1> QED
  BY <1>1, <1>3, <1>4
LEMMA TakeOwed ==
  ASSUME DriveInv, DrainInv, RegsTyped, DmaShape, DmaInStep,
         dma.on, copied.known, Pop
  PROVE  /\ Popped = Owed(dma.trg, Len(dma.bytes))
         /\ intact'
         /\ Left' = IF Taken + 1 < copied.left THEN copied.left - (Taken + 1) ELSE 0
         /\ Taken + 1 < copied.left =>
              <<data', data_idx'>> = Ahead(copied.first, Taken + 1)
<1>1. Len(dma.bytes) \in Nat /\ Taken \in Nat /\ copied.left \in Nat
  BY DEF RegsTyped, DmaShape, Taken
<1>2. DriveAhead
  BY DEF DmaInStep
<1>3. /\ intact' /\ Left \in Nat
      /\ Left > 0 => /\ Popped = <<data, data_idx>>
                            /\ Left' = Left - 1
      /\ Left > 1 => <<data', data_idx'>> = Behind(<<data, data_idx>>)
      /\ Left = 0 => Popped = Zero /\ Left' = 0
  BY <1>2, TakeByte DEF DriveAhead
<1>4. Owed(dma.trg, Len(dma.bytes))
        = IF Taken < copied.left THEN Ahead(copied.first, Taken) ELSE Zero
  BY DEF Owed, Taken
<1>5. CASE Taken < copied.left
  <2>1. Left = copied.left - Taken
    BY <1>2, <1>5 DEF DriveAhead
  <2>2. <<data, data_idx>> = Ahead(copied.first, Taken)
    BY <1>2, <1>5 DEF DriveAhead
  <2>3. Ahead(copied.first, Taken + 1) = Behind(<<data, data_idx>>)
    BY <1>1, <1>2, <2>2, AheadNext DEF DriveAhead
  <2> QED
    BY <1>1, <1>3, <1>4, <1>5, <2>1, <2>2, <2>3
<1>6. CASE ~(Taken < copied.left)
  <2>1. Left = 0
    BY <1>2, <1>6 DEF DriveAhead
  <2> QED
    BY <1>1, <1>3, <1>4, <1>6, <2>1
<1> QED
  BY <1>5, <1>6

(* A byte of the drive, or the one that stands for none.                   *)
LEMMA PoppedTyped == ASSUME DriveInv PROVE Popped \in Bytes
  BY Constants DEF DriveInv, TypeOK, Popped, Bytes, Zero

LEMMA DmaByteStep ==
  ASSUME HostDrains, DriveInv, DrainInv, DmaInv, DmaByte
  PROVE  DmaInv'
<1> USE DEF DmaInv
<1>1. /\ dma' = [dma EXCEPT !.bytes = Append(dma.bytes, Popped)]
      /\ dma.on /\ dma.len >= 0 /\ Len(dma.bytes) < 3 /\ Pop
      /\ UNCHANGED <<sel, curaddr, curlen, ram, copied>>
  BY DEF DmaByte, More, dmaRegs
<1>2. dma.bytes \in Seq(Bytes) /\ Popped \in Bytes
  BY PoppedTyped DEF RegsTyped
<1>3. /\ dma'.on = dma.on /\ dma'.trg = dma.trg /\ dma'.len = dma.len
      /\ dma'.bytes = Append(dma.bytes, Popped)
      /\ dma' \in [on : BOOLEAN, trg : Nat, len : Int, bytes : Seq(Bytes)]
  <2> DEFINE b == Append(dma.bytes, Popped)
  <2>1. b \in Seq(Bytes) /\ dma' = [dma EXCEPT !.bytes = b]
    BY <1>1, <1>2
  <2> HIDE DEF b
  <2>2. dma \in [on : BOOLEAN, trg : Nat, len : Int, bytes : Seq(Bytes)]
    BY DEF RegsTyped
  <2>3. /\ dma'.on = dma.on /\ dma'.trg = dma.trg /\ dma'.len = dma.len
        /\ dma'.bytes = b
    BY <2>1, <2>2
  <2>4. dma' \in [on : BOOLEAN, trg : Nat, len : Int, bytes : Seq(Bytes)]
    BY <2>1, <2>2
  <2> QED
    BY <2>3, <2>4 DEF b
<1>4. Len(dma'.bytes) = Len(dma.bytes) + 1 /\ Len(dma.bytes) \in Nat
  BY <1>2, <1>3
<1>5. RegsTyped'
  BY <1>1, <1>3 DEF RegsTyped
<1>6. DmaShape'
  BY <1>1, <1>3, <1>4 DEF DmaShape
<1>7. ASSUME copied.known PROVE DriveAhead' /\ BytesOwed'
  <2>1. DriveAhead /\ BytesOwed
    BY <1>1, <1>7 DEF DmaInStep
  <2>2. Taken' = Taken + 1
    <3>1. dma.trg \in Nat /\ copied.trg \in Nat /\ copied'.trg = copied.trg
      BY <1>1 DEF RegsTyped
    <3> QED
      BY <1>3, <1>4, <3>1 DEF Taken
  <2>3. DriveAhead'
    BY <1>1, <1>7, <2>1, <2>2, TakeOwed DEF DriveAhead, Ahead
  <2>4. ASSUME NEW k \in 1 .. Len(dma'.bytes)
        PROVE  dma'.bytes[k] = Owed(dma.trg, k - 1)
    <3>1. CASE k <= Len(dma.bytes)
      <4>1. dma'.bytes[k] = dma.bytes[k]
        BY <1>2, <1>3, <1>4, <2>4, <3>1
      <4> QED
        BY <1>4, <2>1, <2>4, <3>1, <4>1 DEF BytesOwed
    <3>2. CASE k = Len(dma.bytes) + 1
      <4>1. dma'.bytes[k] = Popped
        BY <1>2, <1>3, <3>2
      <4>2. k - 1 = Len(dma.bytes)
        BY <1>4, <3>2
      <4> QED
        BY <1>1, <1>7, <4>1, <4>2, TakeOwed
    <3> QED
      BY <1>4, <2>4, <3>1, <3>2
  <2>5. \A w, k : Owed(w, k)' = Owed(w, k)
    BY <1>1 DEF Owed
  <2> QED
    BY <1>1, <1>3, <2>1, <2>3, <2>4, <2>5 DEF BytesOwed
<1>8. DmaInStep'
  BY <1>1, <1>7 DEF DmaInStep
<1> QED
  BY <1>5, <1>6, <1>8

LEMMA DmaWordStep ==
  ASSUME HostDrains, DriveInv, DrainInv, DmaInv, DmaWord
  PROVE  DmaInv'
<1> USE DEF DmaInv
<1> DEFINE word == <<Popped, dma.bytes[3], dma.bytes[2], dma.bytes[1]>>
<1>1. /\ dma.on /\ dma.len >= 0 /\ Len(dma.bytes) = 3 /\ Pop
      /\ UNCHANGED <<sel, curaddr, curlen, copied>>
  BY DEF DmaWord, More, dmaRegs
<1>2. /\ dma'.on = dma.on /\ dma'.trg = dma.trg + 1 /\ dma'.len = dma.len - 4
      /\ dma'.bytes = <<>> /\ Len(dma'.bytes) = 0
      /\ dma' \in [on : BOOLEAN, trg : Nat, len : Int, bytes : Seq(Bytes)]
  <2>1. dma \in [on : BOOLEAN, trg : Nat, len : Int, bytes : Seq(Bytes)]
    BY DEF RegsTyped
  <2>2. dma' = [dma EXCEPT !.trg = dma.trg + 1, !.len = dma.len - 4, !.bytes = <<>>]
    BY DEF DmaWord
  <2>3. <<>> \in Seq(Bytes) /\ Len(<<>>) = 0
    OBVIOUS
  <2>4. dma.trg + 1 \in Nat /\ dma.len - 4 \in Int
    BY <2>1
  <2>5. dma' \in [on : BOOLEAN, trg : Nat, len : Int, bytes : Seq(Bytes)]
    BY <2>1, <2>2, <2>3, <2>4
  <2>6. /\ dma'.on = dma.on /\ dma'.trg = dma.trg + 1 /\ dma'.len = dma.len - 4
        /\ dma'.bytes = <<>>
    BY <2>1, <2>2
  <2> QED
    BY <2>3, <2>5, <2>6
<1>3. /\ dma.trg \in Nat /\ dma.len \in Int /\ copied.trg \in Nat /\ copied.len \in Int
      /\ RamWords \in Nat
  BY Constants DEF RegsTyped
<1>4. /\ DOMAIN ram' = IF dma.trg < RamWords THEN DOMAIN ram \union {dma.trg} ELSE DOMAIN ram
      /\ \A w \in DOMAIN ram' : ram'[w] = IF w = dma.trg THEN word ELSE ram[w]
  <2>1. CASE dma.trg < RamWords
    <3>1. ram' = [w \in DOMAIN ram \union {dma.trg} |->
                    IF w = dma.trg THEN word ELSE ram[w]]
      BY <2>1 DEF DmaWord
    <3> HIDE DEF word
    <3> QED
      BY <2>1, <3>1
  <2>2. CASE ~(dma.trg < RamWords)
    <3>1. ram' = ram
      BY <2>2 DEF DmaWord
    <3>2. dma.trg \notin DOMAIN ram
      BY <1>1 DEF DmaShape
    <3> QED
      BY <2>2, <3>1, <3>2
  <2> QED
    BY <2>1, <2>2
<1>5. RegsTyped'
  BY <1>1, <1>2 DEF RegsTyped
<1>6. DmaShape'
  <2>1. /\ copied.trg <= dma.trg /\ dma.len = copied.len - 4 * (dma.trg - copied.trg)
        /\ DOMAIN ram = {w \in 0 .. RamWords - 1 : copied.trg <= w /\ w < dma.trg}
    BY <1>1 DEF DmaShape
  <2>2. copied'.trg = copied.trg /\ copied'.len = copied.len
    BY <1>1
  <2>3. dma'.len = copied.len - 4 * (dma'.trg - copied.trg) /\ dma'.len >= -4
    <3>1. copied.len \in Int /\ copied.trg \in Int /\ dma.trg \in Int /\ dma.len \in Int
      BY <1>3, CdromAssumption DEF RegsTyped
    <3>2. dma'.trg = dma.trg + 1 /\ dma'.len = dma.len - 4 /\ dma.len >= 0
      BY <1>1, <1>2
    <3> HIDE DEF DmaInv
    <3> QED
      BY <2>1, <3>1, <3>2
  <2>4. DOMAIN ram' = {w \in 0 .. RamWords - 1 : copied.trg <= w /\ w < dma.trg + 1}
    BY <1>3, <1>4, <2>1
  <2> QED
    BY <1>1, <1>2, <1>3, <2>1, <2>2, <2>3, <2>4 DEF DmaShape
<1>7. ASSUME copied.known PROVE DriveAhead' /\ BytesOwed'
  <2>1. DriveAhead /\ BytesOwed
    BY <1>1, <1>7 DEF DmaInStep
  <2>2. Taken' = Taken + 1
    <3>1. copied'.trg = copied.trg
      BY <1>1
    <3> QED
      BY <1>1, <1>2, <1>3, <3>1 DEF Taken
  <2>3. DriveAhead'
    BY <1>1, <1>7, <2>1, <2>2, TakeOwed DEF DriveAhead, Ahead
  <2>4. \A w, k : Owed(w, k)' = Owed(w, k)
    BY <1>1 DEF Owed
  <2>5. Popped = Owed(dma.trg, 3)
    BY <1>1, <1>7, TakeOwed
  <2>6. /\ dma.bytes[1] = Owed(dma.trg, 0) /\ dma.bytes[2] = Owed(dma.trg, 1)
        /\ dma.bytes[3] = Owed(dma.trg, 2)
    BY <1>1, <2>1 DEF BytesOwed
  <2>7. \A k \in 0 .. 3 : word[4 - k] = Owed(dma.trg, k)
    BY <2>5, <2>6
  <2>8. ASSUME NEW w \in DOMAIN ram', NEW k \in 0 .. 3
        PROVE  ram'[w][4 - k] = Owed(w, k)
    <3>1. CASE w = dma.trg
      BY <1>4, <2>7, <3>1
    <3>2. CASE w # dma.trg
      <4>1. ram'[w] = ram[w] /\ w \in DOMAIN ram
        BY <1>4, <2>8, <3>2
      <4> QED
        BY <2>1, <4>1 DEF BytesOwed
    <3> QED
      BY <3>1, <3>2
  <2> QED
    BY <1>2, <2>3, <2>4, <2>8 DEF BytesOwed
<1>8. DmaInStep'
  BY <1>1, <1>7 DEF DmaInStep
<1> QED
  BY <1>5, <1>6, <1>8

LEMMA StartDmaStep ==
  ASSUME HostDrains, DriveInv, DrainInv, DmaInv, StartDma
  PROVE  DmaInv'
<1> USE DEF DmaInv
<1>1. /\ dma' = [on |-> TRUE, trg |-> curaddr, len |-> curlen, bytes |-> <<>>]
      /\ copied' = [known |-> sel = "drive" /\ Left > 0,
                    first |-> Popped, left |-> Left,
                    trg |-> curaddr, len |-> curlen]
      /\ UNCHANGED <<drive, sel, curaddr, curlen, ram>> /\ DOMAIN ram = {}
  BY DEF StartDma, dmaRegs, DmaShape
<1>2. Left \in Nat /\ (Left > 0 => intact /\ data_len > 0)
  BY CdromAssumption, Multiply
  DEF Left, DriveInv, TypeOK, DrainInv, StreamInv
<1>3. RegsTyped'
  BY <1>1, <1>2, PoppedTyped DEF RegsTyped
<1>4. DmaShape'
  BY <1>1, <1>3, Constants DEF DmaShape, RegsTyped
<1>5. ASSUME copied'.known PROVE DriveAhead' /\ BytesOwed'
  <2>1. sel = "drive" /\ Left > 0 /\ intact /\ data_len > 0
    BY <1>1, <1>2, <1>5
  <2>2. Popped \in (0 .. SectorCount - 1) \X (0 .. BlockSize - 1)
    BY <2>1, Constants
    DEF Popped, DriveInv, TypeOK, DrainInv, StreamInv
  <2>3. UNCHANGED <<intact, data, data_idx, data_len, blocks_requested>>
    BY <1>1 DEF drive
  <2>4. Taken' = 0 /\ Left' = Left
    BY <1>1, <2>3 DEF Taken, Left, RegsTyped
  <2>5. <<data', data_idx'>> = Ahead(Popped, 0)
    BY <2>1, <2>2, <2>3, AheadNone DEF Popped
  <2>6. copied'.first = Popped /\ copied'.left = Left
    BY <1>1
  <2>7. DriveAhead'
    BY <1>1, <1>2, <2>1, <2>2, <2>3, <2>4, <2>5, <2>6 DEF DriveAhead, Ahead
  <2>8. BytesOwed'
    BY <1>1 DEF BytesOwed
  <2> QED
    BY <2>7, <2>8
<1>6. DmaInStep'
  BY <1>5 DEF DmaInStep
<1> QED
  BY <1>3, <1>4, <1>6

LEMMA DmaInduction ==
  ASSUME HostDrains
  PROVE  DriveInv /\ DrainInv /\ DmaInv /\ [BusNext]_busVars => DmaInv'
<1> SUFFICES ASSUME DriveInv, DrainInv, DmaInv, [BusNext]_busVars PROVE DmaInv'
  OBVIOUS
<1> USE DEF DmaInv
<1>1. CASE ~dma.on /\ UNCHANGED <<dmaRegs, dmaVars>>
  BY <1>1 DEF dmaRegs, dmaVars, RegsTyped, DmaShape, DmaInStep
<1>2. CASE SetSel \/ WritePoll \/ WriteCmd \/ GetStatus \/ GetData \/ ClearPend \/ ResetBus
  <2>1. ~dma.on /\ UNCHANGED <<dmaRegs, dmaVars>>
    BY <1>2 DEF SetSel, WritePoll, WriteCmd, GetStatus, GetData, ClearPend, ResetBus
  <2> QED
    BY <1>1, <2>1
<1>3. CASE WriteDmaRegs
  <2>1. ~dma.on /\ UNCHANGED <<dma, ram, copied>>
    BY <1>3 DEF WriteDmaRegs, dmaVars
  <2>2. curaddr' \in Nat /\ curlen' \in Int /\ curlen' >= -4
    BY <1>3, Constants DEF WriteDmaRegs, RegsTyped
  <2> QED
    BY <2>1, <2>2 DEF RegsTyped, DmaShape, DmaInStep
<1>4. CASE StartDma
  BY <1>4, StartDmaStep
<1>5. CASE DmaByte
  BY <1>5, DmaByteStep
<1>6. CASE DmaWord
  BY <1>6, DmaWordStep
<1>7. CASE DmaDone
  <2>1. /\ dma' = NoDma /\ copied' = NoCopy /\ DOMAIN ram' = {}
        /\ curlen' = -4 /\ curaddr' = curaddr
    BY <1>7 DEF DmaDone
  <2>2. dma' \in [on : BOOLEAN, trg : Nat, len : Int, bytes : Seq(Bytes)] /\ ~dma'.on
    BY <2>1 DEF NoDma
  <2>3. copied' \in [known : BOOLEAN, first : Bytes, left : Nat, trg : Nat, len : Int]
    BY <2>1, Constants DEF NoCopy, Zero, Bytes
  <2> QED
    BY <2>1, <2>2, <2>3 DEF RegsTyped, DmaShape, DmaInStep
<1>8. CASE UNCHANGED busVars
  <2>1. /\ UNCHANGED <<curaddr, curlen, dma, ram, copied, sel>>
        /\ UNCHANGED <<intact, data, data_idx, data_len, blocks_requested>>
    BY <1>8 DEF busVars, drive, dmaRegs, dmaVars
  <2>2. RegsTyped' /\ DmaShape'
    BY <2>1 DEF RegsTyped, DmaShape
  <2>3. DriveAhead' = DriveAhead
    BY <2>1 DEF DriveAhead, Taken, Ahead, Left
  <2>4. BytesOwed' = BytesOwed
    BY <2>1 DEF BytesOwed, Owed, Ahead
  <2> QED
    BY <2>1, <2>2, <2>3, <2>4 DEF DmaInStep
<1> QED
  BY <1>2, <1>3, <1>4, <1>5, <1>6, <1>7, <1>8 DEF BusNext

LEMMA InitDma == BusInit => DmaInv
<1> SUFFICES ASSUME BusInit PROVE DmaInv
  OBVIOUS
<1>1. /\ dma = NoDma /\ copied = NoCopy /\ DOMAIN ram = {} /\ curaddr = 0 /\ curlen = 0
  BY DEF BusInit
<1>2. dma \in [on : BOOLEAN, trg : Nat, len : Int, bytes : Seq(Bytes)] /\ ~dma.on
  BY <1>1 DEF NoDma
<1>3. copied \in [known : BOOLEAN, first : Bytes, left : Nat, trg : Nat, len : Int]
  BY <1>1, Constants DEF NoCopy, Zero, Bytes
<1> QED
  BY <1>1, <1>2, <1>3 DEF DmaInv, RegsTyped, DmaShape, DmaInStep

LEMMA DmaImplies == DmaInv => DmaCopies
<1> SUFFICES ASSUME DmaInv, dma.on, ~More
             PROVE  /\ DOMAIN ram = CopiedWords
                    /\ copied.known =>
                         \A w \in CopiedWords, k \in 0 .. 3 : ram[w][4 - k] = Owed(w, k)
  BY DEF DmaCopies
<1>1. /\ dma.trg \in Nat /\ dma.len \in Int /\ copied.trg \in Nat /\ copied.len \in Int
      /\ RamWords \in Nat
  BY Constants DEF DmaInv, RegsTyped
<1>2. /\ dma.len = copied.len - 4 * (dma.trg - copied.trg)
      /\ dma.len >= -4 /\ dma.len < 0
      /\ DOMAIN ram = {w \in 0 .. RamWords - 1 : copied.trg <= w /\ w < dma.trg}
  BY <1>1 DEF DmaInv, DmaShape, More
<1>3. \A w \in Nat : w < dma.trg <=> 4 * (w - copied.trg) <= copied.len
  BY <1>1, <1>2
<1>4. DOMAIN ram = CopiedWords
  BY <1>1, <1>2, <1>3 DEF CopiedWords
<1> QED
  BY <1>4 DEF DmaInv, DmaInStep, BytesOwed

(* Whatever the drive has still to give, wherever in a block it is and     *)
(* however long the DMA, the words of RAM that it asks for hold the        *)
(* drive's bytes one after the other, and no other word is written: for a  *)
(* host that sends READ_DATA between two blocks.                           *)
THEOREM DmaCorrect == ASSUME HostDrains PROVE BusSpec => []DmaCopies
<1>1. BusInit => DriveInv /\ DrainInv /\ DmaInv
  BY DriveOnBus, InitDma
<1>2. DriveInv /\ DrainInv /\ DmaInv /\ [BusNext]_busVars =>
        DriveInv' /\ DrainInv' /\ DmaInv'
  BY DriveOnBus, DmaInduction
<1> QED
  BY <1>1, <1>2, DmaImplies, PTL DEF BusSpec
=============================================================================
