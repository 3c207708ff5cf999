----------------------------- MODULE MCOperaDsp ------------------------------
EXTENDS OperaDsp

Alu == [op |-> "alu", numops |-> 1, m2sel |-> 0, muxa |-> 1, muxb |-> 0, alu |-> 0, bs |-> 0]
Cell0(a) == [op |-> "addr", a |-> a, di |-> FALSE, wb |-> FALSE]
Move(a) == [op |-> "move", a |-> a, di |-> FALSE]
Nop == [op |-> "nop"]

\* The words the programs mean as instructions and as operands.  A move can be
\* taken for an operand that is written back, a plain address for a control
\* word; what else a word could be taken for, no program here gets to see.
Word2(x) ==
  CASE x.op = "move" -> [ins |-> x, arg |-> [op |-> "addr", a |-> x.a, di |-> x.di, wb |-> TRUE]]
    [] x.op = "addr" -> [ins |-> IF x.a < 128 THEN Nop ELSE [op |-> "branch_acc"], arg |-> x]
    [] x.op \in {"imm", "reg2", "reg3"} -> [ins |-> Nop, arg |-> x]
    [] OTHER -> [ins |-> x, arg |-> Cell0(0)]
Prog(s) == {<<k - 1, Word2(s[k])>> : k \in 1 .. Len(s)}

\* A sample goes from input 0 to output 0.
MCCopy == Prog(<<Move(1008), Cell0(240)>>)
\* The interrupt is asked for.
MCInt == Prog(<<Move(1006), Cell0(224), Nop, Move(1007), Cell0(239)>>)
\* The semaphore's word is acknowledged, inverted and sent back.
MCEcho == Prog(<<Move(1004), Cell0(236),
                 [Alu EXCEPT !.numops = 2, !.alu = 9], Cell0(237), Cell0(1005)>>)
\* A noise is compared with the CPU's word; the branch skips a move or falls
\* through, and the flags are still there after the registers were rebased.
MCCompare == Prog(<<[Alu EXCEPT !.numops = 2, !.muxb = 2, !.alu = 4], Cell0(234), Cell0(112),
                    [op |-> "branch", mode |-> 3, sel |-> FALSE, m0 |-> FALSE, m1 |-> FALSE,
                     a |-> 6], [op |-> "movereg", reg |-> 5, di |-> FALSE], Cell0(112),
                    [op |-> "rbase", n |-> 1]>>)
\* Every operation and shift, on a noise and the accumulator.
MCOps ==
  {Prog(<<[Alu EXCEPT !.alu = op, !.bs = bs, !.muxb = 0], Cell0(234)>>) :
     op \in {0, 4, 6, 10}, bs \in {0, 1, 6, 7, 8, 9, 13, 15}}
    \union {Prog(<<[Alu EXCEPT !.numops = 2, !.alu = op, !.muxb = 2], Cell0(234), Cell0(237)>>) :
             op \in 0 .. 15}
\* A jump into an operand, which is done as an instruction, and a move that is
\* taken for one.
MCInto == Prog(<<[op |-> "jump", a |-> 2], Move(1004), Cell0(124),
                 [Alu EXCEPT !.numops = 2, !.muxb = 2, !.alu = 2], Cell0(234), Move(221)>>)
\* A subroutine, operands of all kinds, other banks, a masked unit, a branch
\* to where the accumulator says.
MCTour1 == Prog(<<[op |-> "jsr", a |-> 3], [op |-> "rmap", n |-> 5], [op |-> "sleep"],
                  [Alu EXCEPT !.numops = 0, !.muxa = 3, !.muxb = 2, !.alu = 2, !.m2sel = 1],
                  [op |-> "reg3", r |-> <<1, 6, 11>>, di |-> <<FALSE, TRUE, FALSE>>],
                  [op |-> "imm", val |-> 3], [op |-> "rts"]>>)
MCTour2 == Prog(<<[op |-> "op_mask", units |-> {"alu2"}],
                  [Alu EXCEPT !.numops = 3, !.muxa = 3, !.muxb = 3, !.alu = 5],
                  [op |-> "reg2", two |-> TRUE, r |-> <<2, 9>>, di |-> <<FALSE, TRUE>>,
                   wb |-> <<FALSE, TRUE>>], Cell0(124),
                  Alu, [op |-> "imm", val |-> 20], [op |-> "branch_acc"]>>)
\* The semaphore's word is acknowledged and not answered.
MCAck == Prog(<<Move(1004), Cell0(236)>>)
Only(p) == [program |-> p, cells |-> {}, semaphore |-> FALSE, channels |-> FALSE]
MCHosts == {[Only(MCCopy) EXCEPT !.cells = {112}, !.channels = TRUE],
            [Only(MCEcho) EXCEPT !.semaphore = TRUE],
            [Only(MCCompare) EXCEPT !.cells = {112}],
            Only(MCInt), Only(MCInto), [Only(MCAck) EXCEPT !.semaphore = TRUE],
            Only(MCTour1), [Only(MCTour2) EXCEPT !.cells = {124}]}
             \union {Only(p) : p \in MCOps}
=============================================================================
