----------------------------- MODULE WideCounter -----------------------------
(***************************************************************************)
(* What two cascaded CLIO timers with reload promise the program: together *)
(* they are one counter, which goes down by one at a time, from zero back  *)
(* to the top, for as long as nobody touches them.                         *)
(***************************************************************************)
EXTENDS Integers

VARIABLES
  running,   \* the pair is started and left alone
  value,     \* what the pair stands at, a number below period
  period     \* after how many ticks it stands there again

vars == <<running, value, period>>

Init == running = FALSE /\ value = 0 /\ period = 1

Start ==
  /\ ~running /\ running'
  /\ period' \in Nat \ {0}
  /\ value' \in 0 .. period' - 1

Tick ==
  /\ running
  /\ value' = IF value = 0 THEN period - 1 ELSE value - 1
  /\ UNCHANGED <<running, period>>

Stop == running /\ ~running' /\ value' = 0 /\ period' = 1

Next == Start \/ Tick \/ Stop

Spec == Init /\ [][Next]_vars
=============================================================================
