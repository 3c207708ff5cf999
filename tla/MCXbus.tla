------------------------------- MODULE MCXbus -------------------------------
(* A drive with commands of two bytes and blocks of three, which no word   *)
(* of four fits; a RAM of two words, and DMAs of two words that begin at   *)
(* either of them.                                                         *)
EXTENDS Xbus

MCCommands == {"READ_DATA"}
MCMsf == {<<0, 2, 0>>}
MCPollMasks == {{}, {"POLSTMASK", "POLDTMASK"}}
=============================================================================
