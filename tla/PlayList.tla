------------------------------ MODULE PlayList -------------------------------
(***************************************************************************)
(* What an audio channel promises: the places of a buffer are visited in   *)
(* order, each once; at its end the channel rings and goes on with the     *)
(* buffer that was announced, or stops.                                    *)
(***************************************************************************)
EXTENDS Sequences

CONSTANTS Nowhere,   \* no place was visited
          Waits      \* a sample that finds the buffer at its end waits for the
                     \* next one (a reader does), or is lost (a writer's is)

VARIABLES
  playing, \* the channel's user runs; the program waits
  left,    \* the places still to visit, in order
  loop,    \* the places of the buffer that comes next, empty if there is none
  at,      \* the place visited last, or Nowhere
  rang     \* that visit came to the end of the buffer

vars == <<playing, left, loop, at, rang>>

Init == playing = FALSE /\ left = <<>> /\ loop = <<>> /\ at = Nowhere /\ rang = FALSE

Visit ==
  /\ playing /\ left # <<>>
  /\ at' = Head(left) /\ left' = Tail(left)
  /\ rang' = FALSE /\ UNCHANGED loop

Turn ==
  /\ playing /\ left = <<>> /\ rang' = TRUE /\ UNCHANGED loop
  /\ IF Waits /\ loop # <<>>
     THEN at' = Head(loop) /\ left' = Tail(loop)
     ELSE at' = Nowhere /\ left' = loop

(* The user does something else, begins or ends.                           *)
Pass == at' = Nowhere /\ rang' = FALSE /\ UNCHANGED <<left, loop>>

(* The program writes a register of the channel.                           *)
Program == ~playing /\ ~playing' /\ at' = Nowhere /\ rang' = FALSE

Next == Visit \/ Turn \/ Pass \/ Program

Spec == Init /\ [][Next]_vars
=============================================================================
