----------------------------- MODULE MCMadamBus -----------------------------
(* MadamBus on two CCBs that do not overlap; the CCB at 0 is the one that  *)
(* a cleared nextccb names.                                                *)
EXTENDS MadamBus

MCCcbAddrs == {0, 16}
MCPData == 40

(* Cels that are drawn: SKIP is clear, the groups are present or not.      *)
MCDrawn == SUBSET (FlagBits \ {"SKIP"})

(* Three of them, among them the largest and the smallest.                 *)
MCFewCels == {{}, {"LDSIZE", "LDPPMP"}, {"LDSIZE", "LDPRS", "LDPPMP"}}

(* ... and one cel that is skipped.                                        *)
MCAnyCel == MCFewCels \union {{"SKIP"}}
=============================================================================
