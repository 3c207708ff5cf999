---------------------------- MODULE MCCdromDrive ----------------------------
(* CdromDrive with short commands, small blocks and a small disc; the      *)
(* reads start at its first and at its last sector.                        *)
EXTENDS CdromDrive

MCMsf == {<<0, 2, 0>>, <<0, 2, 3>>}

(* An address in the lead-in, before the first sector.                     *)
MCLeadIn == MCMsf \union {<<0, 0, 0>>}

MCPollMasks == {Masks}

(* One command of every shape that opera_cdrom_do_cmd gives a reply.       *)
MCCommands ==
  {"SPIN_UP", "SPIN_DOWN", "EJECT_DISC", "INJECT_DISC", "ABORT", "READ_DATA",
   "GET_LAST_STATUS", "MODE_SENSE", "SEEK"}
MCFewCommands == {"EJECT_DISC", "ABORT", "READ_DATA", "SEEK"}
=============================================================================
