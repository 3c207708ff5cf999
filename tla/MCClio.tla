-------------------------------- MODULE MCClio -------------------------------
(* One odd timer that counts to 1, one interrupt of each other kind, and a *)
(* frame of two lines of two clocks.                                       *)
EXTENDS Clio, TLC

MCTimerBits == {"timer1"}
MCDeviceBits == {"xbus"}
MCBits1 == {"pbus"}
MCIrqBit == (1 :> "timer1")

(* The CPU sets and clears the bits of the timer and of irq1 at once, and  *)
(* starts and stops the timer.                                             *)
MCMasks0 == {{"timer1", "irq1"}}
MCMasks1 == {{"pbus"}}
MCCtrl == {{<<1, "ena">>, <<1, "reload">>}}
=============================================================================
