---------------------------- MODULE MCOperaFrame ----------------------------
EXTENDS OperaFrame

MCCtrlMasks == {{<<1, "decrement">>}}
MCPerTimer == [d \in {0, 1} |-> IF d = 0 THEN 3 ELSE 1]
=============================================================================
