---------------------------- MODULE RegisterBanks ----------------------------
(***************************************************************************)
(* The banked registers of the emulated ARM60 (opera_arm.c).  USER holds   *)
(* the sixteen registers of the current mode; those of other modes that it *)
(* hides are kept aside, in CASH for the user's r8 to r14 and in an array  *)
(* of its own for each other mode, and a change of mode copies them.  A    *)
(* file is a record of USER, CASH and the other arrays, in bank.           *)
(***************************************************************************)
EXTENDS Integers

Pairs == {"irq", "svc", "abt", "und"}
Banked == {"fiq"} \union Pairs
Modes == {"user"} \union Banked
Regs == 0 .. 15

(* The registers of which a mode has its own.                              *)
Own(m) == IF m = "user" THEN {} ELSE IF m = "fiq" THEN 8 .. 14 ELSE {13, 14}

IsFile(f, Data) ==
  /\ f = [user |-> f.user, cash |-> f.cash, bank |-> [m \in Banked |-> f.bank[m]]]
  /\ f.user \in [Regs -> Data] /\ f.cash \in [8 .. 14 -> Data]
  /\ \A m \in Banked : f.bank[m] \in [Own(m) -> Data]

Save(f, from) == [f.bank EXCEPT ![from] = [n \in Own(from) |-> f.user[n]]]

(* ARM_RestUserRONS.                                                       *)
ToUser(f, from) ==
  IF from = "user" THEN f
  ELSE [user |-> [n \in Regs |-> IF n \in Own(from) THEN f.cash[n] ELSE f.user[n]],
        cash |-> f.cash,
        bank |-> Save(f, from)]

(* ARM_RestFiqRONS.                                                        *)
ToFiq(f, from) ==
  IF from = "fiq" THEN f
  ELSE [user |-> [n \in Regs |-> IF n \in Own("fiq") THEN f.bank["fiq"][n] ELSE f.user[n]],
        cash |-> [n \in 8 .. 14 |-> IF n \in Own(from) THEN f.cash[n] ELSE f.user[n]],
        bank |-> IF from = "user" THEN f.bank ELSE Save(f, from)]

(* Mutant: the user's registers are not put aside.                         *)
ToPair_KeepsCash(f, from, to) ==
  IF from = to THEN f
  ELSE [user |-> [n \in Regs |->
                   IF n \in Own(to) THEN f.bank[to][n]
                   ELSE IF n \in Own(from) THEN f.cash[n] ELSE f.user[n]],
        cash |-> f.cash,
        bank |-> IF from = "user" THEN f.bank ELSE Save(f, from)]

(* ARM_RestIrqRONS, ARM_RestSvcRONS, ARM_RestAbtRONS, ARM_RestUndRONS.     *)
ToPair(f, from, to) ==
  IF from = to THEN f
  ELSE [user |-> [n \in Regs |->
                   IF n \in Own(to) THEN f.bank[to][n]
                   ELSE IF n \in Own(from) THEN f.cash[n] ELSE f.user[n]],
        cash |-> [n \in 8 .. 14 |->
                   IF n \in Own(to) /\ n \notin Own(from) THEN f.user[n] ELSE f.cash[n]],
        bank |-> IF from = "user" THEN f.bank ELSE Save(f, from)]

(* ARM_Change_ModeSafe.                                                    *)
ChangeMode(f, from, to) ==
  CASE to = "user" -> ToUser(f, from)
    [] to = "fiq" -> ToFiq(f, from)
    [] to \in Pairs -> ToPair(f, from, to)

(* What the instructions that reach for the user's registers see from a    *)
(* mode (readusr), and where they write (loadusr).                         *)
ReadUser(f, cur, n) == IF n \in Own(cur) THEN f.cash[n] ELSE f.user[n]

LoadUser(f, cur, n, v) ==
  IF n \in Own(cur) THEN [f EXCEPT !.cash[n] = v] ELSE [f EXCEPT !.user[n] = v]
-----------------------------------------------------------------------------
(* Register n as mode m sees it, while the mode is cur.                    *)
View(f, cur, m, n) ==
  IF n \in Own(m) THEN IF m = cur THEN f.user[n] ELSE f.bank[m][n]
  ELSE IF n \in Own(cur) THEN f.cash[n] ELSE f.user[n]
=============================================================================
