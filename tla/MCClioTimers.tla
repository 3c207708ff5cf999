---------------------------- MODULE MCClioTimers ----------------------------
(* Two timers that count to 2.                                             *)
EXTENDS ClioTimers

MCN == 2
MCMax == 2

(* Control writes: each timer alone, the pair, and its mode bits.          *)
MCEna == {<<0, "ena">>, <<1, "ena">>}
MCMode == {<<0, "reload">>, <<1, "reload">>, <<1, "cas">>}
MCMasks == {{<<0, "ena">>}, {<<1, "ena">>}, MCEna, MCMode, {<<1, "reload">>}}
=============================================================================
