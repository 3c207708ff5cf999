----------------------------- MODULE MCOperaVdlp -----------------------------
EXTENDS OperaVdlp

MCRenderers ==
  {[format |-> "XRGB8888", hires |-> FALSE, bypass |-> FALSE],
   [format |-> "RGB565", hires |-> TRUE, bypass |-> FALSE],
   [format |-> "0RGB1555", hires |-> FALSE, bypass |-> TRUE]}

MCEntry ==
  [zero |-> FALSE, persist |-> 1, curr |-> None, prev |-> None, prev_tick |-> TRUE,
   rel |-> TRUE, next |-> 0, dma |-> TRUE, modulo |-> 2, cmds |-> <<>>]

\* Two lists: one bitmap for two lines and its second half for the rest, and
\* a bitmap for one line, with a palette, then the end of the list; a wider
\* bitmap leads to the second list.
MCVdl == [a \in {0, 4, 8, 12, 16, 24} |->
  CASE a = 0 -> [MCEntry EXCEPT !.persist = 2, !.curr = 64, !.prev = 64,
                                !.cmds = <<[kind |-> "display", colors_only |-> TRUE,
                                            clut_bypass |-> TRUE]>>]
    [] a = 4 -> [MCEntry EXCEPT !.persist = 9, !.dma = FALSE,
                                !.cmds = <<[kind |-> "av"]>>]
    [] a = 8 -> [MCEntry EXCEPT !.curr = 32, !.prev_tick = FALSE, !.rel = FALSE, !.next = 16,
                   !.cmds = <<[kind |-> "clut", enable |-> 0, pen |-> 31,
                               r |-> 255, g |-> 127, b |-> 9],
                              [kind |-> "clut", enable |-> 2, pen |-> 1,
                               r |-> 0, g |-> 99, b |-> 0],
                              [kind |-> "background", r |-> 8, g |-> 17, b |-> 255]>>]
    [] a = 24 -> [MCEntry EXCEPT !.persist = 2, !.curr = 96, !.modulo = 3,
                                 !.rel = FALSE, !.next = 8]
    [] OTHER -> [zero |-> TRUE, rel |-> FALSE, next |-> a]]
MCPixels == {0, 1, 31, 993, 32767, 32768, 65535}
=============================================================================
