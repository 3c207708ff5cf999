--------------------------- MODULE OperaArm_proofs ---------------------------
(***************************************************************************)
(* The emulated ARM60, for all software: what keeps the registers of every *)
(* mode, their words, the flags of a comparison, the way back from a fast  *)
(* interrupt, the matrix calls and the stacks.                             *)
(*                                                                         *)
(* An instruction is a sequence of small changes to the machine: a         *)
(* register, the status, the memory, the cycles.  Each part of this module *)
(* has a relation between the machine before and after, which composes;    *)
(* there is a lemma for each kind of change, one for each kind of          *)
(* instruction made of them, and the theorem last.  Only and Lands say     *)
(* which physical registers change, Fine and Ends that registers and       *)
(* memory hold words, Steady that the status stays, Spares which words of  *)
(* the memory change.                                                      *)
(***************************************************************************)
EXTENDS OperaArm, FiniteSetTheorems, WellFoundedInduction, TLAPS

(* However the mode changes, every mode sees the registers it saw before:  *)
(* the thirty copy sequences of opera_arm.c neither lose a register nor    *)
(* hand one to a mode that it does not belong to.                          *)
THEOREM SwitchKeepsViews ==
  ASSUME NEW Words, NEW f, IsFile(f, Words), NEW from \in Modes, NEW to \in Modes,
         NEW m \in Modes, NEW n \in Regs
  PROVE View(ChangeMode(f, from, to), to, m, n) = View(f, from, m, n)
<1> USE DEF Modes, Banked, Pairs, Regs
<1>f. /\ f.user \in [Regs -> Words] /\ f.cash \in [8 .. 14 -> Words]
      /\ f.bank = [k \in Banked |-> f.bank[k]]
  BY DEF IsFile
<1>1. CASE to = "user"
  BY <1>1, <1>f DEF View, ChangeMode, ToUser, Save, Own
<1>2. CASE to = "fiq"
  BY <1>2, <1>f DEF View, ChangeMode, ToFiq, Save, Own
<1>3. CASE to \in Pairs
  BY <1>3, <1>f DEF View, ChangeMode, ToPair, Save, Own
<1> QED BY <1>1, <1>2, <1>3

(* What an exception's handler does to the user's registers through the    *)
(* user bank is seen by the user, and nothing else is.                     *)
THEOREM UserWritesReachTheUser ==
  ASSUME NEW Words, NEW f, IsFile(f, Words), NEW cur \in Modes, NEW m \in Modes,
         NEW n \in Regs, NEW k \in Regs, NEW v \in Words
  PROVE View(LoadUser(f, cur, k, v), cur, m, n) =
          IF n = k /\ n \notin Own(m) THEN v ELSE View(f, cur, m, n)
<1> USE DEF Modes, Banked, Pairs, Regs
<1>f. /\ f.user \in [Regs -> Words] /\ f.cash \in [8 .. 14 -> Words]
      /\ f.bank = [j \in Banked |-> f.bank[j]]
  BY DEF IsFile
<1>1. CASE k \in Own(cur)
  <2>1. LoadUser(f, cur, k, v).cash = [f.cash EXCEPT ![k] = v]
    BY <1>1, <1>f DEF LoadUser
  <2>2. LoadUser(f, cur, k, v).user = f.user /\ LoadUser(f, cur, k, v).bank = f.bank
    BY <1>1, <1>f DEF LoadUser
  <2> QED BY <1>1, <1>f, <2>1, <2>2 DEF View, Own
<1>2. CASE k \notin Own(cur)
  <2>1. LoadUser(f, cur, k, v).user = [f.user EXCEPT ![k] = v]
    BY <1>2, <1>f DEF LoadUser
  <2>2. LoadUser(f, cur, k, v).cash = f.cash /\ LoadUser(f, cur, k, v).bank = f.bank
    BY <1>2, <1>f DEF LoadUser
  <2> QED BY <1>2, <1>f, <2>1, <2>2 DEF View, Own
<1> QED BY <1>1, <1>2
-----------------------------------------------------------------------------
(* A set of natural numbers has a least element, which stands for          *)
(* induction below.                                                        *)
Below == {ss \in Nat \X Nat : ss[1] < ss[2]}

LEMMA BelowWellFounded == IsWellFoundedOn(Below, Nat)
  BY NatLessThanWellFounded, Zenon DEF OpToRel, Below

LEMMA Least ==
  ASSUME NEW S \in SUBSET Nat, S # {}
  PROVE  \E m \in S : \A n \in S : m <= n
<1>1. \A x, y \in Nat : x < y => <<x, y>> \in Below
  BY DEF Below
<1>2. PICK m \in S : \A y \in S : ~(<<y, m>> \in Below)
  BY BelowWellFounded, WFMin
<1>3. ASSUME NEW y \in S PROVE m <= y
  <2>1. m \in Nat /\ y \in Nat
    BY <1>2
  <2>2. ~(y < m)
    BY <1>1, <1>2, <2>1
  <2> QED
    BY <2>1, <2>2
<1> QED
  BY <1>3
-----------------------------------------------------------------------------
(* A machine with all its registers.  Only functions' domains matter: what *)
(* the registers hold is a number or not, whatever the arithmetic of the   *)
(* instructions makes of it.                                               *)
Fields == {"user", "cash", "bank", "psr", "spsr", "carry_out", "ram", "nvram", "cycles", "io"}
StatusFields == {"n", "z", "c", "v", "i", "f", "mode"}

On(f, D) == f = [x \in D |-> f[x]]

BanksShaped(b) == On(b, Banked) /\ \A m \in Banked : On(b[m], Own(m))
StatusShaped(p) == On(p, StatusFields)
Shaped(t) ==
  /\ DOMAIN t = Fields
  /\ On(t.user, Regs) /\ On(t.cash, 8 .. 14) /\ BanksShaped(t.bank)
  /\ StatusShaped(t.psr)
  /\ DOMAIN t.spsr = Modes /\ \A m \in Modes : StatusShaped(t.spsr[m])
Fit(t) == Shaped(t) /\ t.psr.mode \in ModeNumbers

(* What a mode sees of the machine, the program counter left aside, and a  *)
(* change from t to u that alters no register but those of C: Only, if the *)
(* mode stays as well.                                                     *)
Seen(t, m, n) == View(t, Mode(t), m, n)
Others == Regs \ {15}
Changes(t, u, C) ==
  \A m \in Modes, n \in Others : Physical(m, n) \in C \/ Seen(u, m, n) = Seen(t, m, n)
Only(t, u, C) ==
  Shaped(u) /\ u.psr.mode = t.psr.mode /\ u.spsr = t.spsr /\ Changes(t, u, C)

(* A function, the modes, and how such changes compose.                    *)
LEMMA Update ==
  ASSUME NEW f, NEW D, On(f, D), NEW a, NEW v
  PROVE  /\ On([f EXCEPT ![a] = v], D)
         /\ a \in D => [f EXCEPT ![a] = v][a] = v
         /\ \A x \in D : x # a => [f EXCEPT ![a] = v][x] = f[x]
<1>1. DOMAIN f = D
  BY DEF On
<1> QED
  BY <1>1 DEF On

LEMMA ModeIn ==
  ASSUME NEW bits \in ModeNumbers
  PROVE  ModeOf(bits) \in Modes /\ ModeBits[ModeOf(bits)] = bits
BY DEF ModeOf, ModeNumbers

LEMMA ModeOfMode ==
  ASSUME NEW m \in Modes PROVE ModeBits[m] \in ModeNumbers /\ ModeOf(ModeBits[m]) = m
<1>1. ModeBits[m] \in ModeNumbers
  BY DEF ModeNumbers
<1>2. \A k \in Modes : ModeBits[k] = ModeBits[m] => k = m
  BY DEF Modes, Banked, Pairs, ModeBits
<1> QED
  BY <1>1, <1>2, ModeIn

LEMMA Together ==
  ASSUME NEW t, NEW u, NEW w, NEW C, Only(t, u, C), Only(u, w, C)
  PROVE  Only(t, w, C)
BY DEF Only, Changes

LEMMA Wider ==
  ASSUME NEW t, NEW u, NEW C, NEW D, C \subseteq D, Only(t, u, C)
  PROVE  Only(t, u, D)
BY DEF Only, Changes

LEMMA StillFit == ASSUME NEW t, NEW u, NEW C, Fit(t), Only(t, u, C) PROVE Fit(u)
BY DEF Only, Fit

(* Whatever leaves the registers but the program counter alone is seen by  *)
(* no mode.                                                                *)
LEMMA Quiet ==
  ASSUME NEW t, NEW u, NEW C, Fit(t), DOMAIN u = Fields,
         u.cash = t.cash, u.bank = t.bank, u.spsr = t.spsr,
         StatusShaped(u.psr), u.psr.mode = t.psr.mode,
         On(u.user, Regs), \A n \in Others : u.user[n] = t.user[n]
  PROVE  Only(t, u, C)
<1>1. Shaped(u)
  BY DEF Fit, Shaped
<1>2. Mode(u) = Mode(t)
  BY DEF Mode
<1>3. ASSUME NEW m \in Modes, NEW n \in Others PROVE Seen(u, m, n) = Seen(t, m, n)
  BY <1>2, <1>3 DEF Seen, View
<1> QED
  BY <1>1, <1>3 DEF Only, Changes

(* A write to a register by its number alters the one that the mode sees,  *)
(* a write through the user bank the one that the user sees.               *)

LEMMA SetRegWithin ==
  ASSUME NEW t, Fit(t), NEW n \in Regs, NEW v
  PROVE  Only(t, SetReg(t, n, v), {Physical(Mode(t), n)})
<1> DEFINE u == SetReg(t, n, v)
<1>1. /\ DOMAIN u = Fields /\ u.user = [t.user EXCEPT ![n] = v] /\ u.cash = t.cash
      /\ u.bank = t.bank /\ u.psr = t.psr /\ u.spsr = t.spsr
  BY DEF Fields, SetReg, Shaped, Fit
<1>2. On(u.user, Regs) /\ \A k \in Regs : k # n => u.user[k] = t.user[k]
  BY <1>1, Update DEF Fit, Shaped
<1>3. Shaped(u) /\ Mode(u) = Mode(t)
  BY <1>1, <1>2 DEF Shaped, Mode, Fit
<1>4. Mode(t) \in Modes
  BY ModeIn DEF Fit, Mode
<1> HIDE DEF u
<1>5. ASSUME NEW m \in Modes, NEW k \in Others, Seen(u, m, k) # Seen(t, m, k)
      PROVE  Physical(m, k) = Physical(Mode(t), n)
  <2>1. k = n
    BY <1>1, <1>2, <1>3, <1>5 DEF Seen, View, Others
  <2>2. CASE n \in Own(m) /\ m # Mode(t)
    BY <1>1, <1>2, <1>3, <1>5, <2>1, <2>2 DEF Seen, View, Others
  <2>3. CASE n \in Own(m) /\ m = Mode(t)
    BY <2>1, <2>3
  <2>4. CASE n \notin Own(m)
    <3>1. n \notin Own(Mode(t))
      BY <1>1, <1>2, <1>3, <1>5, <2>1, <2>4 DEF Seen, View, Others
    <3> QED
      BY <2>1, <2>4, <3>1 DEF Physical
  <2> QED
    BY <2>2, <2>3, <2>4
<1> QED
  BY <1>1, <1>3, <1>5 DEF Only, Changes, u

LEMMA LoadUserWithin ==
  ASSUME NEW t, Fit(t), NEW n \in Regs, NEW v
  PROVE  Only(t, LoadUser(t, Mode(t), n, v), {<<"user", n>>})
<1> DEFINE u == LoadUser(t, Mode(t), n, v)
<1>1. CASE n \notin Own(Mode(t))
  <2>1. u = SetReg(t, n, v)
    BY <1>1 DEF LoadUser, SetReg
  <2>2. Physical(Mode(t), n) = <<"user", n>>
    BY <1>1 DEF Physical
  <2> QED
    BY <2>1, <2>2, SetRegWithin
<1>2. CASE n \in Own(Mode(t))
  <2>1. /\ DOMAIN u = Fields /\ u.cash = [t.cash EXCEPT ![n] = v] /\ u.user = t.user
        /\ u.bank = t.bank /\ u.psr = t.psr /\ u.spsr = t.spsr
    BY <1>2 DEF Fields, LoadUser, Shaped, Fit
  <2>2. On(u.cash, 8 .. 14) /\ \A k \in 8 .. 14 : k # n => u.cash[k] = t.cash[k]
    BY <2>1, Update DEF Fit, Shaped
  <2>3. Shaped(u) /\ Mode(u) = Mode(t)
    BY <2>1, <2>2 DEF Shaped, Mode, Fit
  <2>4. Own(Mode(t)) \subseteq 8 .. 14
    BY DEF Own
  <2> HIDE DEF u
  <2>5. ASSUME NEW m \in Modes, NEW k \in Others, Seen(u, m, k) # Seen(t, m, k)
        PROVE  Physical(m, k) = <<"user", n>>
    BY <2>1, <2>2, <2>3, <2>4, <2>5 DEF Seen, View, Physical
  <2> QED
    BY <2>1, <2>3, <2>5 DEF Only, Changes, u
<1> QED
  BY <1>1, <1>2
-----------------------------------------------------------------------------
(* A change of mode: all registers are there after it, and every mode sees *)
(* what it saw (SwitchKeepsViews).                                         *)
FileShaped(f) == On(f.user, Regs) /\ On(f.cash, 8 .. 14) /\ BanksShaped(f.bank)

LEMMA SaveShaped ==
  ASSUME NEW f, FileShaped(f), NEW from PROVE BanksShaped(Save(f, from))
<1>1. On(Save(f, from), Banked)
  BY Update DEF FileShaped, BanksShaped, Save
<1>2. ASSUME NEW m \in Banked PROVE On(Save(f, from)[m], Own(m))
  <2>1. Save(f, from)[m] = IF m = from THEN [n \in Own(from) |-> f.user[n]] ELSE f.bank[m]
    BY DEF FileShaped, BanksShaped, Save, On
  <2> QED
    BY <2>1 DEF FileShaped, BanksShaped, On
<1> QED
  BY <1>1, <1>2 DEF BanksShaped

LEMMA ChangeShaped ==
  ASSUME NEW f, FileShaped(f), NEW from, NEW to \in Modes
  PROVE  FileShaped(ChangeMode(f, from, to))
<1>1. BanksShaped(Save(f, from))
  BY SaveShaped
<1>2. FileShaped(ToUser(f, from))
  BY <1>1 DEF FileShaped, ToUser, On
<1>3. FileShaped(ToFiq(f, from))
  BY <1>1 DEF FileShaped, ToFiq, On
<1>4. FileShaped(ToPair(f, from, to))
  BY <1>1 DEF FileShaped, ToPair, On
<1> QED
  BY <1>2, <1>3, <1>4 DEF ChangeMode, Modes, Banked

Bank(t) == [user |-> t.user, cash |-> t.cash, bank |-> t.bank]

LEMMA SetModeFields ==
  ASSUME NEW t, DOMAIN t = Fields, StatusShaped(t.psr), NEW bits
  PROVE  LET u == SetMode(t, bits) f == ChangeMode(Bank(t), Mode(t), ModeOf(bits)) IN
         /\ DOMAIN u = Fields /\ u.user = f.user /\ u.cash = f.cash
         /\ u.bank = f.bank /\ StatusShaped(u.psr) /\ u.psr.mode = bits /\ u.spsr = t.spsr
<1> DEFINE f == ChangeMode(Bank(t), Mode(t), ModeOf(bits))
<1> HIDE DEF f
<1>1. SetMode(t, bits) = [t EXCEPT !.user = f.user, !.cash = f.cash, !.bank = f.bank,
                                  !.psr.mode = bits]
  BY DEF SetMode, Bank, f
<1> QED
  BY <1>1 DEF Fields, StatusShaped, StatusFields, On, f

LEMMA SetModeShaped ==
  ASSUME NEW t, Shaped(t), NEW bits \in ModeNumbers
  PROVE  Shaped(SetMode(t, bits))
<1>1. FileShaped(Bank(t))
  BY DEF FileShaped, Bank, Shaped
<1>2. FileShaped(ChangeMode(Bank(t), Mode(t), ModeOf(bits)))
  BY <1>1, ModeIn, ChangeShaped
<1> QED
  BY <1>2, SetModeFields DEF Shaped, FileShaped

LEMMA SetModeSeen ==
  ASSUME NEW t, Fit(t), NEW bits \in ModeNumbers, NEW m \in Modes, NEW n \in Regs
  PROVE  Seen(SetMode(t, bits), m, n) = Seen(t, m, n)
<1> DEFINE u == SetMode(t, bits)
           Values == {t.user[k] : k \in Regs} \union {t.cash[k] : k \in 8 .. 14}
             \union UNION {{t.bank[b][k] : k \in Own(b)} : b \in Banked}
<1>1. Mode(t) \in Modes /\ ModeOf(bits) \in Modes
  BY ModeIn DEF Mode, Fit
<1>2. IsFile(Bank(t), Values)
  <2>1. Bank(t) = [user |-> t.user, cash |-> t.cash, bank |-> [b \in Banked |-> t.bank[b]]]
    BY DEF Bank, Fit, Shaped, BanksShaped, On
  <2>2. t.user \in [Regs -> Values]
    BY DEF Fit, Shaped, On
  <2>3. t.cash \in [8 .. 14 -> Values]
    BY DEF Fit, Shaped, On
  <2>4. ASSUME NEW b \in Banked PROVE t.bank[b] \in [Own(b) -> Values]
    <3>1. \A k \in Own(b) : t.bank[b][k] \in Values
      OBVIOUS
    <3> HIDE DEF Values
    <3> QED
      BY <3>1 DEF Fit, Shaped, BanksShaped, On
  <2> HIDE DEF Values
  <2> QED
    BY <2>1, <2>2, <2>3, <2>4 DEF IsFile, Bank
<1>3. View(ChangeMode(Bank(t), Mode(t), ModeOf(bits)), ModeOf(bits), m, n)
        = View(Bank(t), Mode(t), m, n)
  BY <1>1, <1>2, SwitchKeepsViews
<1>4. /\ u.user = ChangeMode(Bank(t), Mode(t), ModeOf(bits)).user
      /\ u.cash = ChangeMode(Bank(t), Mode(t), ModeOf(bits)).cash
      /\ u.bank = ChangeMode(Bank(t), Mode(t), ModeOf(bits)).bank
      /\ u.psr.mode = bits
  BY SetModeFields DEF Fit, Shaped
<1> HIDE DEF u
<1>5. Seen(u, m, n) = View(ChangeMode(Bank(t), Mode(t), ModeOf(bits)), ModeOf(bits), m, n)
  BY <1>4 DEF Seen, View, Mode
<1>6. Seen(t, m, n) = View(Bank(t), Mode(t), m, n)
  BY DEF Seen, View, Bank
<1> QED
  BY <1>3, <1>5, <1>6 DEF u

(* A change that may end in another mode.  The status may be given a       *)
(* number that is no mode; then nothing is said of the registers.          *)
Framed(t) ==
  /\ DOMAIN t = Fields /\ StatusShaped(t.psr) /\ DOMAIN t.spsr = Modes
  /\ t.psr.mode \union {4} = t.psr.mode
Lands(t, u, C) ==
  Framed(u) /\ (u.psr.mode \in ModeNumbers => Shaped(u) /\ Changes(t, u, C))

LEMMA CpsrSetFields ==
  ASSUME NEW t, DOMAIN t = Fields, StatusShaped(t.psr), NEW p, StatusShaped(p)
  PROVE  LET u == CpsrSet(t, p) v == SetMode(t, p.mode \union {4}) IN
         /\ DOMAIN u = Fields /\ u.user = v.user /\ u.cash = v.cash
         /\ u.bank = v.bank /\ StatusShaped(u.psr) /\ u.psr.mode = p.mode \union {4}
         /\ u.spsr = t.spsr
<1> DEFINE v == SetMode(t, p.mode \union {4})
<1>1. DOMAIN v = Fields /\ v.spsr = t.spsr
  BY SetModeFields
<1> HIDE DEF v
<1>2. CpsrSet(t, p) = [v EXCEPT !.psr = [p EXCEPT !.mode = p.mode \union {4}]]
  BY DEF CpsrSet, v
<1> QED
  BY <1>1, <1>2 DEF Fields, StatusShaped, StatusFields, On, v

LEMMA CpsrSetShaped ==
  ASSUME NEW t, Shaped(t), NEW p, StatusShaped(p), p.mode \union {4} \in ModeNumbers
  PROVE  Shaped(CpsrSet(t, p))
BY CpsrSetFields, SetModeShaped DEF Shaped

LEMMA CpsrSetLands ==
  ASSUME NEW t, Fit(t), NEW p, StatusShaped(p)
  PROVE  Lands(t, CpsrSet(t, p), {})
<1> DEFINE u == CpsrSet(t, p) v == SetMode(t, p.mode \union {4})
<1>1. /\ u.user = v.user /\ u.cash = v.cash /\ u.bank = v.bank
      /\ u.psr.mode = p.mode \union {4} /\ u.spsr = t.spsr /\ Framed(u)
  BY CpsrSetFields DEF Fit, Shaped, Framed
<1>2. SUFFICES ASSUME p.mode \union {4} \in ModeNumbers
               PROVE  Shaped(u) /\ Changes(t, u, {})
  BY <1>1 DEF Lands
<1>3. Shaped(u) /\ Shaped(v)
  BY <1>2, CpsrSetShaped, SetModeShaped DEF Fit
<1>4. v.psr.mode = p.mode \union {4}
  BY SetModeFields DEF Fit, Shaped
<1>5. \A m \in Modes, n \in Others : Seen(v, m, n) = Seen(t, m, n)
  BY <1>2, SetModeSeen DEF Others
<1> HIDE DEF u, v
<1>6. \A m \in Modes, n \in Others : Seen(u, m, n) = Seen(v, m, n)
  BY <1>1, <1>4 DEF Seen, Mode, View
<1> QED
  BY <1>3, <1>5, <1>6 DEF Changes

LEMMA LandsOnly ==
  ASSUME NEW t, Fit(t), NEW u, NEW C, Only(t, u, C) PROVE Lands(t, u, C)
<1>1. \A bits \in ModeNumbers : bits \union {4} = bits
  BY DEF ModeNumbers, Modes, Banked, Pairs, ModeBits
<1> QED
  BY <1>1 DEF Only, Lands, Framed, Shaped, Fit

LEMMA OnlyThenLands ==
  ASSUME NEW t, NEW u, NEW w, NEW C, Only(t, u, C), Lands(u, w, C) PROVE Lands(t, w, C)
BY DEF Only, Lands, Changes

LEMMA LandsWider ==
  ASSUME NEW t, NEW u, NEW C, NEW D, C \subseteq D, Lands(t, u, C) PROVE Lands(t, u, D)
BY DEF Lands, Changes

(* Fields beside the registers.                                            *)
LEMMA Aside ==
  ASSUME NEW t, Fit(t), NEW C, NEW x
  PROVE  /\ Only(t, t, C)
         /\ Only(t, [t EXCEPT !.ram = x], C) /\ Only(t, [t EXCEPT !.nvram = x], C)
         /\ Only(t, [t EXCEPT !.io = x], C) /\ Only(t, [t EXCEPT !.cycles = x], C)
         /\ Only(t, [t EXCEPT !.carry_out = x], C)
<1>1. ASSUME NEW u, DOMAIN u = Fields, u.user = t.user, u.cash = t.cash, u.bank = t.bank,
             u.psr = t.psr, u.spsr = t.spsr
      PROVE  Only(t, u, C)
  BY <1>1, Quiet DEF Fit, Shaped
<1>2. DOMAIN t = Fields
  BY DEF Fit, Shaped
<1>3. Only(t, t, C)
  BY <1>1, <1>2
<1>4. Only(t, [t EXCEPT !.ram = x], C)
  BY <1>1, <1>2 DEF Fields
<1>5. Only(t, [t EXCEPT !.nvram = x], C)
  BY <1>1, <1>2 DEF Fields
<1>6. Only(t, [t EXCEPT !.io = x], C)
  BY <1>1, <1>2 DEF Fields
<1>7. Only(t, [t EXCEPT !.cycles = x], C)
  BY <1>1, <1>2 DEF Fields
<1>8. Only(t, [t EXCEPT !.carry_out = x], C)
  BY <1>1, <1>2 DEF Fields
<1> QED
  BY <1>3, <1>4, <1>5, <1>6, <1>7, <1>8

LEMMA PcOnly ==
  ASSUME NEW t, Fit(t), NEW C, NEW x
  PROVE  Only(t, [t EXCEPT !.user[15] = x], C)
<1> DEFINE u == [t EXCEPT !.user[15] = x]
<1>1. /\ DOMAIN u = Fields /\ u.user = [t.user EXCEPT ![15] = x] /\ u.cash = t.cash
      /\ u.bank = t.bank /\ u.psr = t.psr /\ u.spsr = t.spsr
  BY DEF Fields, Shaped, Fit
<1>2. On(u.user, Regs) /\ \A k \in Others : u.user[k] = t.user[k]
  BY <1>1, Update DEF Fit, Shaped, Others
<1> HIDE DEF u
<1>3. Only(t, u, C)
  BY <1>1, <1>2, Quiet DEF Fit, Shaped
<1> QED
  BY <1>3 DEF u

LEMMA PsrOnly ==
  ASSUME NEW t, Fit(t), NEW C, NEW p, StatusShaped(p), p.mode = t.psr.mode
  PROVE  Only(t, [t EXCEPT !.psr = p], C)
<1> DEFINE u == [t EXCEPT !.psr = p]
<1>1. /\ DOMAIN u = Fields /\ u.user = t.user /\ u.cash = t.cash
      /\ u.bank = t.bank /\ u.psr = p /\ u.spsr = t.spsr
  BY DEF Fields, Shaped, Fit
<1> HIDE DEF u
<1>2. Only(t, u, C)
  BY <1>1, Quiet DEF Fit, Shaped
<1> QED
  BY <1>2 DEF u

LEMMA SpendLands ==
  ASSUME NEW t, NEW u, NEW C, Lands(t, u, C), NEW n
  PROVE  Lands(t, Spend(u, n), C)
<1>1. DOMAIN u = Fields
  BY DEF Lands, Framed
<1>2. /\ DOMAIN Spend(u, n) = Fields /\ Spend(u, n).user = u.user /\ Spend(u, n).cash = u.cash
      /\ Spend(u, n).bank = u.bank /\ Spend(u, n).psr = u.psr /\ Spend(u, n).spsr = u.spsr
  BY <1>1 DEF Spend, Fields
<1>3. Shaped(u) => Shaped(Spend(u, n))
  BY <1>2 DEF Shaped
<1>4. \A m \in Modes, k \in Others : Seen(Spend(u, n), m, k) = Seen(u, m, k)
  BY <1>2 DEF Seen, Mode, View
<1> QED
  BY <1>2, <1>3, <1>4 DEF Lands, Framed, Changes

-----------------------------------------------------------------------------
(* Memory and devices.                                                     *)
LEMMA ReadWordOnly ==
  ASSUME NEW t, Fit(t), NEW a, NEW v, NEW C
  PROVE  Only(t, ReadWord(t, a, v).s, C)
<1> DEFINE al == Align(a)
           d == Device(al, FALSE)
           seen == Access(t, d, "read", al)
           near == Within(al, \h3200000, \h2000)
           ram == Cell(t.ram, al)
           nvram == Cell(t.nvram, NvramIndex(al))
           rom == Cell(Rom, al % Megabyte)
<1>1. d \in {"ram", "madam", "clio", "sport", "diag", "nvram", "brooktree", "rom", "none"}
  BY SMT DEF Device
<1>2. ReadWord(t, a, v) =
        CASE d = "ram" -> Answer(t, ram)
          [] d \in {"madam", "clio", "diag"} -> Answer(seen, v)
          [] d = "sport" -> IF near THEN Answer(seen, 0) ELSE Answer(t, Bad)
          [] d = "nvram" -> Answer(t, nvram)
          [] d = "brooktree" -> Answer(t, Brooktree)
          [] d = "rom" -> Answer(t, rom)
          [] d = "none" -> Answer(t, Bad)
  BY DEF ReadWord
<1>3. Only(t, seen, C)
  BY Aside DEF Access
<1>4. Only(t, t, C)
  BY Aside
<1> HIDE DEF d, seen, near, ram, nvram, rom
<1>5. ReadWord(t, a, v).s = t \/ ReadWord(t, a, v).s = seen
  BY <1>1, <1>2, SMT DEF Answer
<1> QED
  BY <1>3, <1>4, <1>5

LEMMA WriteWordOnly ==
  ASSUME NEW t, Fit(t), NEW a, NEW v, NEW C
  PROVE  Only(t, WriteWord(t, a, v), C)
<1> DEFINE al == Align(a)
           d == Device(al, TRUE)
           seen == Access(t, d, "write", al)
           skip == d = "clio" /\ al = \h3400028 /\ v = \h30
           ram == Put(t.ram, al, v)
           nvram == Put(t.nvram, NvramIndex(al), v % Bytes)
           next == Wrap(seen.user[15] + 4)
<1>1. WriteWord(t, a, v) =
        CASE d = "ram" -> [t EXCEPT !.ram = ram]
          [] skip -> [seen EXCEPT !.user[15] = next]
          [] d = "nvram" -> [t EXCEPT !.nvram = nvram]
          [] d \in {"brooktree", "none"} -> t
          [] OTHER -> seen
  BY DEF WriteWord
<1>2. Only(t, seen, C)
  BY Aside DEF Access
<1>3. Only(t, t, C) /\ Only(t, [t EXCEPT !.ram = ram], C) /\ Only(t, [t EXCEPT !.nvram = nvram], C)
  BY Aside
<1>4. Only(t, [seen EXCEPT !.user[15] = next], C)
  <2> HIDE DEF seen, next
  <2> QED
    BY <1>2, StillFit, PcOnly, Together
<1> HIDE DEF d, seen, skip, ram, nvram, next
<1> QED
  BY <1>1, <1>2, <1>3, <1>4, SMT

LEMMA WriteByteOnly ==
  ASSUME NEW t, Fit(t), NEW a, NEW v, NEW C
  PROVE  Only(t, WriteByte(t, a, v), C)
<1> DEFINE old == Cell(t.ram, Align(a))
           ram == Put(t.ram, Align(a), old + ((v % Bytes) - ByteOf(old, a)) * Place(a))
           nvram == Put(t.nvram, NvramIndex(a), v % Bytes)
           inRam == Device(a, TRUE) = "ram"
           inNvram == Within(a, \h3100000, Megabyte) /\ Bit(a, 18) = 1
<1>1. WriteByte(t, a, v) =
        CASE inRam -> [t EXCEPT !.ram = ram]
          [] inNvram -> [t EXCEPT !.nvram = nvram]
          [] OTHER -> t
  BY DEF WriteByte
<1>2. Only(t, t, C) /\ Only(t, [t EXCEPT !.ram = ram], C) /\ Only(t, [t EXCEPT !.nvram = nvram], C)
  BY Aside
<1> HIDE DEF inRam, inNvram, ram, nvram
<1> QED
  BY <1>1, <1>2, SMT

LEMMA FetchOnly ==
  ASSUME NEW t, Fit(t), NEW byte \in BOOLEAN, NEW a, NEW v, NEW C
  PROVE  Only(t, Fetch(t, byte, a, v).s, C)
BY ReadWordOnly, Aside DEF Fetch, Answer

LEMMA StoreAtOnly ==
  ASSUME NEW t, Fit(t), NEW byte \in BOOLEAN, NEW a, NEW v, NEW C
  PROVE  Only(t, StoreAt(t, byte, a, v), C)
BY WriteByteOnly, WriteWordOnly DEF StoreAt

LEMMA OperandOnly ==
  ASSUME NEW t, Fit(t), NEW o, NEW C
  PROVE  Only(t, Operand(t, o).s, C)
BY Aside DEF Operand, Answer

(* What the steps of an instruction leave, one after the other.            *)
LEMMA Then ==
  ASSUME NEW t, Fit(t), NEW u, NEW C, Only(t, u, C)
  PROVE  /\ Fit(u) /\ Mode(u) = Mode(t)
         /\ \A x : Only(u, x, C) => Only(t, x, C)
         /\ \A x : Lands(u, x, C) => Lands(t, x, C)
BY StillFit, Together, OnlyThenLands DEF Only, Mode

LEMMA ThenSpend ==
  ASSUME NEW t, Fit(t), NEW u, NEW C, Only(t, u, C), NEW n PROVE Only(t, Spend(u, n), C)
<1>1. Only(u, Spend(u, n), C)
  BY Then, Aside DEF Spend
<1> QED
  BY <1>1, Then

LEMMA ThenSet ==
  ASSUME NEW t, Fit(t), NEW u, NEW C, Only(t, u, C), NEW n \in Regs, NEW v,
         n # 15 => Physical(Mode(t), n) \in C
  PROVE  Only(t, SetReg(u, n, v), C)
<1>1. CASE n = 15
  <2>1. Only(u, SetReg(u, 15, v), C)
    BY Then, PcOnly DEF SetReg
  <2> QED
    BY <1>1, <2>1, Then
<1>2. CASE n # 15
  <2>1. Only(u, SetReg(u, n, v), {Physical(Mode(u), n)})
    BY Then, SetRegWithin
  <2>2. {Physical(Mode(u), n)} \subseteq C
    BY <1>2, Then
  <2>3. Only(u, SetReg(u, n, v), C)
    BY <2>1, <2>2, Wider
  <2> QED
    BY <2>3, Then
<1> QED
  BY <1>1, <1>2

LEMMA ThenSetUser ==
  ASSUME NEW t, Fit(t), NEW u, NEW C, Only(t, u, C), NEW n \in Regs, NEW v, <<"user", n>> \in C
  PROVE  Only(t, LoadUser(u, Mode(u), n, v), C)
<1>1. Only(u, LoadUser(u, Mode(u), n, v), {<<"user", n>>})
  BY Then, LoadUserWithin
<1>2. {<<"user", n>>} \subseteq C
  OBVIOUS
<1>3. Only(u, LoadUser(u, Mode(u), n, v), C)
  BY <1>1, <1>2, Wider
<1> QED
  BY <1>3, Then

LEMMA ThenPut ==
  ASSUME NEW t, Fit(t), NEW u, NEW C, Only(t, u, C), NEW n \in Regs, NEW v,
         n # 15 => <<"user", n>> \in C
  PROVE  Only(t, PutUser(u, n, v), C)
<1>1. CASE n = 15
  <2>1. Only(u, SetReg(u, 15, v), C)
    BY Then, PcOnly DEF SetReg
  <2> QED
    BY <1>1, <2>1, Then DEF PutUser
<1>2. CASE n # 15
  BY <1>2, ThenSetUser DEF PutUser
<1> QED
  BY <1>1, <1>2

LEMMA ThenPsr ==
  ASSUME NEW t, Fit(t), NEW u, NEW C, Only(t, u, C), NEW p, StatusShaped(p), p.mode = u.psr.mode
  PROVE  Only(t, [u EXCEPT !.psr = p], C)
<1>1. Only(u, [u EXCEPT !.psr = p], C)
  BY Then, PsrOnly
<1> QED
  BY <1>1, Then

LEMMA ThenRestore ==
  ASSUME NEW t, Fit(t), NEW u, NEW C, Only(t, u, C) PROVE Lands(t, Restore(u), C)
<1>1. Mode(u) \in Modes /\ StatusShaped(u.spsr[Mode(u)])
  BY Then, ModeIn DEF Fit, Shaped, Mode
<1>2. Lands(u, Restore(u), {})
  BY <1>1, Then, CpsrSetLands DEF Restore
<1>3. Lands(u, Restore(u), C)
  BY <1>2, LandsWider
<1> QED
  BY <1>3, Then

(* The flags of an instruction leave the mode alone.                       *)
LEMMA StatusKept ==
  ASSUME NEW p, StatusShaped(p), NEW y, NEW q, NEW x
  PROVE  /\ StatusShaped(SetZN(p, y)) /\ SetZN(p, y).mode = p.mode
         /\ StatusShaped(FlagsOnly(p, q)) /\ FlagsOnly(p, q).mode = p.mode
         /\ StatusShaped([p EXCEPT !.c = x]) /\ [p EXCEPT !.c = x].mode = p.mode
BY DEF StatusShaped, StatusFields, On, SetZN, FlagsOnly

LEMMA MaskKept ==
  ASSUME NEW p, StatusShaped(p), NEW x
  PROVE  StatusShaped([p EXCEPT !.i = x]) /\ [p EXCEPT !.i = x].mode = p.mode
BY DEF StatusShaped, StatusFields, On

LEMMA FlagsKept ==
  ASSUME NEW p, StatusShaped(p), NEW code \in 0 .. 15, NEW a, NEW b, NEW y
  PROVE  StatusShaped(Flags(p, code, a, b, y)) /\ Flags(p, code, a, b, y).mode = p.mode
<1> DEFINE q == SetZN(p, y)
           minus == [q EXCEPT !.c = SubCarry(H, a, b, y), !.v = SubOverflow(H, a, b, y)]
           reverse == [q EXCEPT !.c = SubCarry(H, b, a, y), !.v = SubOverflow(H, b, a, y)]
           plus == [q EXCEPT !.c = AddCarry(H, a, b, y), !.v = AddOverflow(H, a, b, y)]
           Kept(r) == StatusShaped(r) /\ r.mode = p.mode
<1>1. Kept(q)
  BY StatusKept
<1>2. Kept(minus) /\ Kept(reverse) /\ Kept(plus)
  <2> HIDE DEF q
  <2>1. ASSUME NEW c, NEW v PROVE Kept([q EXCEPT !.c = c, !.v = v])
    BY <1>1 DEF StatusShaped, StatusFields, On
  <2> HIDE DEF Kept
  <2> QED
    BY <2>1
<1>3. Flags(p, code, a, b, y) =
        CASE code \in IsLogic -> q [] code \in {2, 6, 10} -> minus
          [] code \in {3, 7} -> reverse [] code \in {4, 5, 11} -> plus
  BY DEF Flags
<1>4. code \in IsLogic \/ code \in {2, 6, 10} \/ code \in {3, 7} \/ code \in {4, 5, 11}
  BY DEF IsLogic
<1> HIDE DEF q, minus, reverse, plus, Kept
<1>5. Flags(p, code, a, b, y) \in {q, minus, reverse, plus}
  BY <1>3, <1>4
<1>6. Kept(Flags(p, code, a, b, y))
  BY <1>1, <1>2, <1>5
<1> QED
  BY <1>6 DEF Kept
-----------------------------------------------------------------------------
(* The instructions, each within the registers that it names, as its mode  *)
(* sees them and, where it reaches for them, as the user does.             *)
Reach(i, t) ==
  {Physical(Mode(t), n) : n \in Targets(i)}
    \union (IF ReachesUser(i) THEN {<<"user", n>> : n \in Targets(i)} ELSE {})

LEMMA TargetsAre ==
  ASSUME NEW i
  PROVE  /\ i.op = "alu" =>
              Targets(i) = IF i.code \in IsCompare /\ (i.s \/ i.code \in {9, 11}) THEN {} ELSE {i.rd}
         /\ i.op = "mul" \/ i.op = "swap" => Targets(i) = {i.rd}
         /\ i.op = "transfer" =>
              Targets(i) = (IF i.load THEN {i.rd} ELSE {})
                             \union (IF i.wb \/ ~i.pre THEN {i.rn} ELSE {})
         /\ i.op = "block" =>
              Targets(i) = (IF i.load THEN i.list ELSE {}) \union (IF i.wb THEN {i.rn} ELSE {})
         /\ i.op = "branch" => Targets(i) = IF i.link THEN {14} ELSE {}
         /\ i.op \in Traps => Targets(i) = IF Done(i) THEN {0} ELSE {}
<1> DEFINE alu == IF i.code \in IsCompare /\ (i.s \/ i.code \in {9, 11}) THEN {} ELSE {i.rd}
           one == {i.rd}
           transfer == (IF i.load THEN {i.rd} ELSE {}) \union (IF i.wb \/ ~i.pre THEN {i.rn} ELSE {})
           block == (IF i.load THEN i.list ELSE {}) \union (IF i.wb THEN {i.rn} ELSE {})
           branch == IF i.link THEN {14} ELSE {}
           trap == IF Done(i) THEN {0} ELSE {}
<1>1. Targets(i) =
        CASE i.op = "alu" -> alu [] i.op \in {"mul", "swap"} -> one [] i.op = "transfer" -> transfer
          [] i.op = "block" -> block [] i.op = "branch" -> branch [] i.op \in Traps -> trap
  BY DEF Targets
<1> HIDE DEF alu, one, transfer, block, branch, trap
<1>2. /\ i.op = "alu" => Targets(i) = alu
      /\ i.op = "mul" \/ i.op = "swap" => Targets(i) = one
      /\ i.op = "transfer" => Targets(i) = transfer
      /\ i.op = "block" => Targets(i) = block
      /\ i.op = "branch" => Targets(i) = branch
      /\ i.op \in Traps => Targets(i) = trap
  BY <1>1, SMT DEF Traps
<1> QED
  BY <1>2 DEF alu, one, transfer, block, branch, trap

LEMMA Reached ==
  ASSUME NEW t, NEW i, NEW n \in Targets(i)
  PROVE  Physical(Mode(t), n) \in Reach(i, t) /\ (ReachesUser(i) => <<"user", n>> \in Reach(i, t))
BY DEF Reach

LEMMA MultiplyOnly ==
  ASSUME NEW t, Fit(t), NEW i \in MulInsns PROVE Only(t, Multiply(t, i), Reach(i, t))
<1> DEFINE C == Reach(i, t)
<1> DEFINE y == IF i.acc
                THEN Add(H, IF i.rd = i.rm THEN 0 ELSE LowProduct(W, t.user[i.rm], t.user[i.rs]),
                         Reg(t, i.rn, 8), 0)
                ELSE IF i.rd = i.rm THEN 0 ELSE LowProduct(W, t.user[i.rm], t.user[i.rs])
           u == IF i.s THEN [t EXCEPT !.psr = SetZN(t.psr, y)] ELSE t
           n == MulCycles(t.user[i.rs])
<1>1. Multiply(t, i) = SetReg(Spend(u, n), i.rd, y)
  BY DEF Multiply
<1>2. i.rd \in Regs /\ i.s \in BOOLEAN /\ i.op = "mul"
  BY DEF MulInsns
<1>c. Physical(Mode(t), i.rd) \in C
  BY <1>2, Reached, TargetsAre
<1> HIDE DEF y, n, C
<1>3. Only(t, t, C) /\ Only(t, [t EXCEPT !.psr = SetZN(t.psr, y)], C)
  <2>1. StatusShaped(SetZN(t.psr, y)) /\ SetZN(t.psr, y).mode = t.psr.mode
    BY StatusKept DEF Fit, Shaped
  <2> QED
    BY <2>1, Aside, PsrOnly
<1>4. Only(t, u, C)
  BY <1>2, <1>3
<1> HIDE DEF u
<1> QED
  BY <1>1, <1>2, <1>c, <1>4, ThenSpend, ThenSet DEF C

LEMMA SwapOnly ==
  ASSUME NEW t, Fit(t), NEW i \in SwapInsns, NEW v PROVE Only(t, Swap(t, i, v), Reach(i, t))
<1> DEFINE C == Reach(i, t)
           a == Reg(t, i.rn, 4)
           r == Fetch(t, i.byte, a, v)
           u == StoreAt(r.s, i.byte, a, Reg(t, i.rm, 8))
           x == Turned(i, a, r.val)
<1>1. Swap(t, i, v) = SetReg(Spend(u, 9), i.rd, x)
  BY DEF Swap, SwapFrom, SwapAt
<1>2. i.rd \in Regs /\ i.byte \in BOOLEAN /\ i.op = "swap"
  BY DEF SwapInsns
<1>c. Physical(Mode(t), i.rd) \in C
  BY <1>2, Reached, TargetsAre
<1> HIDE DEF C
<1>3. Only(t, r.s, C)
  BY <1>2, FetchOnly
<1> HIDE DEF r, x
<1>4. Only(t, u, C)
  BY <1>2, <1>3, Then, StoreAtOnly
<1> HIDE DEF u
<1> QED
  BY <1>1, <1>2, <1>c, <1>4, ThenSpend, ThenSet DEF C

LEMMA TransferOnly ==
  ASSUME NEW t, Fit(t), NEW i \in TransferInsns, NEW v PROVE Only(t, Transfer(t, i, v), Reach(i, t))
<1> DEFINE o == Operand(t, i.o2)
           C == Reach(i, t)
           base == Reg(t, i.rn, Ahead(i.o2))
           moved == Moved(i, base, o.val)
           a == IF i.pre THEN moved ELSE base
           r == Fetch(o.s, i.byte, a, v)
           x == Turned(i, a, r.val)
           u == Based(r.s, i, moved)
           w == StoreAt(o.s, i.byte, a, StoredOne(t, i))
<1>1. Transfer(t, i, v) = IF i.load THEN LoadOne(t, i, u, x) ELSE Spend(Based(w, i, moved), 7)
  BY DEF Transfer, TransferBy, Indexed, TransferAt, LoadFrom
<1>2. /\ i.rd \in Regs /\ i.rn \in Regs /\ i.byte \in BOOLEAN
      /\ i.load \in BOOLEAN /\ i.op = "transfer"
  BY DEF TransferInsns
<1>3. /\ i.load => Physical(Mode(t), i.rd) \in C /\ (AsUser(i) => <<"user", i.rd>> \in C)
      /\ i.wb \/ ~i.pre => Physical(Mode(t), i.rn) \in C
  BY <1>2, Reached, TargetsAre DEF ReachesUser, AsUser
<1>4. Only(t, o.s, C)
  BY OperandOnly
<1>5. Only(t, r.s, C)
  <2>1. Only(o.s, r.s, C)
    BY <1>2, <1>4, Then, FetchOnly
  <2> QED
    BY <1>4, <2>1, Then
<1>6. Only(t, w, C)
  <2>1. Only(o.s, w, C)
    BY <1>2, <1>4, Then, StoreAtOnly
  <2> QED
    BY <1>4, <2>1, Then
<1> HIDE DEF C, moved, r, x, w
<1>7. Only(t, u, C)
  BY <1>2, <1>3, <1>5, ThenSet DEF Based
<1> HIDE DEF u
<1>8. ASSUME i.load PROVE Only(t, LoadOne(t, i, u, x), C)
  <2>1. Mode(u) = Mode(t)
    BY <1>7, Then
  <2>2. AsUser(i) => Only(t, LoadUser(u, Mode(t), i.rd, x), C)
    BY <1>2, <1>3, <1>7, <1>8, <2>1, ThenSetUser
  <2>3. Only(t, SetReg(u, i.rd, x), C)
    BY <1>2, <1>3, <1>7, <1>8, ThenSet
  <2> QED
    BY <2>2, <2>3, ThenSpend DEF LoadOne
<1>9. Only(t, Spend(Based(w, i, moved), 7), C)
  <2>1. Only(t, Based(w, i, moved), C)
    BY <1>2, <1>3, <1>6, ThenSet DEF Based
  <2> QED
    BY <2>1, ThenSpend
<1> QED
  BY <1>1, <1>2, <1>8, <1>9 DEF C

LEMMA SpsrLands ==
  ASSUME NEW t, Fit(t), NEW m \in Modes, NEW p, StatusShaped(p), NEW C
  PROVE  Lands(t, [t EXCEPT !.spsr[m] = p], C)
<1> DEFINE u == [t EXCEPT !.spsr[m] = p]
<1>1. /\ DOMAIN u = Fields /\ u.user = t.user /\ u.cash = t.cash
      /\ u.bank = t.bank /\ u.psr = t.psr /\ u.spsr = [t.spsr EXCEPT ![m] = p]
  BY DEF Fields, Shaped, Fit
<1>2. DOMAIN u.spsr = Modes /\ \A k \in Modes : StatusShaped(u.spsr[k])
  BY <1>1 DEF Fit, Shaped
<1> HIDE DEF u
<1>3. Shaped(u) /\ Mode(u) = Mode(t)
  BY <1>1, <1>2 DEF Fit, Shaped, Mode
<1>4. \A k \in Modes, n \in Others : Seen(u, k, n) = Seen(t, k, n)
  BY <1>1, <1>3 DEF Seen, View
<1>5. \A bits \in ModeNumbers : bits \union {4} = bits
  BY DEF ModeNumbers, Modes, Banked, Pairs, ModeBits
<1>6. Lands(t, u, C)
  BY <1>1, <1>3, <1>4, <1>5 DEF Fit, Shaped, Lands, Framed, Changes
<1> QED
  BY <1>6 DEF u

LEMMA MoveToPsrLands ==
  ASSUME NEW t, Fit(t), NEW i \in AluInsns, NEW val, NEW C
  PROVE  Lands(t, MoveToPsr(t, i, val), C)
<1> DEFINE q == Psr(val) m == Mode(t)
<1>1. StatusShaped(q)
  BY DEF Psr, StatusShaped, StatusFields, On
<1>2. m \in Modes
  BY ModeIn DEF Fit, Mode
<1>3. StatusShaped(t.psr) /\ StatusShaped(t.spsr[m])
  BY <1>2 DEF Fit, Shaped
<1> HIDE DEF q, m
<1>4. Lands(t, [t EXCEPT !.spsr[m] = FlagsOnly(t.spsr[m], q)], C)
  <2>1. StatusShaped(FlagsOnly(t.spsr[m], q))
    BY <1>3, StatusKept
  <2> QED
    BY <1>2, <2>1, SpsrLands
<1>5. Lands(t, [t EXCEPT !.psr = FlagsOnly(t.psr, q)], C)
  <2>1. StatusShaped(FlagsOnly(t.psr, q)) /\ FlagsOnly(t.psr, q).mode = t.psr.mode
    BY <1>3, StatusKept
  <2> QED
    BY <2>1, PsrOnly, LandsOnly
<1>6. Lands(t, [t EXCEPT !.spsr[m] = q], C)
  BY <1>1, <1>2, SpsrLands
<1>7. Lands(t, CpsrSet(t, q), C)
  <2>1. Lands(t, CpsrSet(t, q), {})
    BY <1>1, CpsrSetLands
  <2> QED
    BY <2>1, LandsWider
<1>8. MoveToPsr(t, i, val) =
        IF i.rn % 2 = 0 \/ m = "user"
        THEN IF i.code = 11 THEN [t EXCEPT !.spsr[m] = FlagsOnly(t.spsr[m], q)]
             ELSE [t EXCEPT !.psr = FlagsOnly(t.psr, q)]
        ELSE IF i.code = 11 THEN [t EXCEPT !.spsr[m] = q] ELSE CpsrSet(t, q)
  BY DEF MoveToPsr, q, m
<1> QED
  BY <1>4, <1>5, <1>6, <1>7, <1>8

LEMMA AluLands ==
  ASSUME NEW t, Fit(t), NEW i \in AluInsns PROVE Lands(t, Alu(t, i), Reach(i, t))
<1> DEFINE o == Operand(t, i.o2)
           C == Reach(i, t)
           a == Reg(t, i.rn, Ahead(i.o2))
           u == Carried(i, o.s)
           y == Result(i.code, a, o.val, u.psr.c)
           f == Flagged(i, u, a, o.val, y)
           w == Settled(i, u, o.val, f, y)
           n == IF i.o2.kind = "by" THEN 1 ELSE 0
<1>1. Alu(t, i) = Spend(w, n)
  BY DEF Alu, AluWith, Combined, Computed
<1>2. SUFFICES Lands(t, w, C)
  BY <1>1, SpendLands
<1>3. i.code \in 0 .. 15 /\ i.s \in BOOLEAN /\ i.rd \in Regs /\ i.op = "alu"
  BY DEF AluInsns
<1>4. Only(t, o.s, C)
  BY OperandOnly
<1>5. Only(t, u, C)
  <2>1. StatusShaped(o.s.psr)
    BY <1>4, Then DEF Fit, Shaped
  <2> HIDE DEF o, C
  <2>2. Only(t, [o.s EXCEPT !.psr.c = o.s.carry_out], C)
    BY <1>4, <2>1, StatusKept, ThenPsr
  <2> QED
    BY <1>4, <2>2 DEF Carried
<1> HIDE DEF o, a, u, y, C
<1>6. Only(t, f, C)
  <2>1. StatusShaped(u.psr)
    BY <1>5, Then DEF Fit, Shaped
  <2>2. Only(t, [u EXCEPT !.psr = Flags(u.psr, i.code, a, o.val, y)], C)
    BY <1>3, <1>5, <2>1, FlagsKept, ThenPsr
  <2> QED
    BY <1>5, <2>2 DEF Flagged
<1> HIDE DEF f
<1>7. CASE i.code \in {9, 11} /\ ~i.s
  <2>1. w = MoveToPsr(u, i, o.val)
    BY <1>7 DEF Settled, IsCompare
  <2>2. Lands(u, w, C)
    BY <1>5, <2>1, Then, MoveToPsrLands
  <2> QED
    BY <1>5, <2>2, Then
<1>8. CASE ~(i.code \in {9, 11} /\ ~i.s)
  <2>1. ASSUME i.code \in IsCompare => ~i.s PROVE Physical(Mode(t), i.rd) \in C
    BY <1>3, <1>8, <2>1, Reached, TargetsAre DEF C
  <2>2. CASE i.code \in {8, 10} /\ ~i.s
    <3>1. w = MoveFromPsr(u, i)
      BY <2>2 DEF Settled, IsCompare
    <3>2. Only(t, MoveFromPsr(u, i), C)
      BY <1>3, <1>5, <2>1, <2>2, ThenSet DEF MoveFromPsr
    <3> QED
      BY <3>1, <3>2, LandsOnly
  <2>3. CASE i.code \in IsCompare /\ i.s
    <3>1. w = f
      BY <2>3 DEF Settled, IsCompare
    <3> QED
      BY <1>6, <3>1, LandsOnly
  <2>4. CASE i.code \notin IsCompare /\ i.rd # 15
    <3>1. w = SetReg(f, i.rd, y)
      BY <2>4 DEF Settled, IsCompare
    <3> QED
      BY <1>3, <1>6, <2>1, <2>4, <3>1, ThenSet, LandsOnly
  <2>5. CASE i.code \notin IsCompare /\ i.rd = 15
    <3> DEFINE g == SetReg(f, 15, y)
    <3>1. w = Spend(IF i.s THEN Restore(g) ELSE g, 5)
      BY <2>5 DEF Settled, IsCompare
    <3>2. Only(t, g, C)
      BY <1>3, <1>6, <2>1, <2>5, ThenSet
    <3> HIDE DEF g
    <3>3. Lands(t, g, C) /\ Lands(t, Restore(g), C)
      BY <3>2, LandsOnly, ThenRestore
    <3> QED
      BY <3>1, <3>3, SpendLands
  <2> HIDE DEF w
  <2> QED
    BY <1>3, <1>8, <2>2, <2>3, <2>4, <2>5 DEF IsCompare
<1> HIDE DEF w
<1> QED
  BY <1>7, <1>8
-----------------------------------------------------------------------------
(* Block transfers.  The registers are done in order; what one function    *)
(* leaves after n of them ...                                              *)
LoadRun(f, k, i, x, base, v) ==
  f = [n \in 0 .. k |-> IF n = 0 THEN x ELSE LoadOf(i, f[n - 1], base, n - 1, v)]
StoreRun(f, k, i, x, base) ==
  f = [n \in 0 .. k |-> IF n = 0 THEN x ELSE StoreOf(i, f[n - 1], base, n - 1)]

LEMMA LoadRunExists ==
  ASSUME NEW n \in Nat, NEW i, NEW x, NEW base, NEW v
  PROVE  \E f : LoadRun(f, n, i, x, base, v)
<1> DEFINE Missing == {k \in Nat : ~\E f : LoadRun(f, k, i, x, base, v)}
<1>1. SUFFICES ASSUME Missing # {} PROVE FALSE
  OBVIOUS
<1>2. PICK m \in Missing : \A k \in Missing : m <= k
  BY <1>1, Least
<1>3. m # 0
  <2>1. LoadRun([k \in 0 .. 0 |-> x], 0, i, x, base, v)
    BY DEF LoadRun
  <2> QED
    BY <1>2, <2>1
<1>4. m - 1 \in Nat /\ m - 1 \notin Missing
  BY <1>2, <1>3
<1>5. PICK f : LoadRun(f, m - 1, i, x, base, v)
  BY <1>4
<1> DEFINE g == [k \in 0 .. m |-> IF k = m THEN LoadOf(i, f[m - 1], base, m - 1, v) ELSE f[k]]
<1>6. ASSUME NEW k \in 0 .. m
      PROVE  g[k] = IF k = 0 THEN x ELSE LoadOf(i, g[k - 1], base, k - 1, v)
  <2>1. CASE k = m
    <3>1. g[k] = LoadOf(i, f[m - 1], base, m - 1, v) /\ g[k - 1] = f[m - 1]
      BY <1>2, <1>3, <2>1
    <3> QED
      BY <1>3, <2>1, <3>1
  <2>2. CASE k # m
    <3>1. k \in 0 .. m - 1 /\ g[k] = f[k]
      BY <1>2, <1>6, <2>2
    <3>2. f[k] = IF k = 0 THEN x ELSE LoadOf(i, f[k - 1], base, k - 1, v)
      BY <1>5, <3>1 DEF LoadRun
    <3>3. k # 0 => g[k - 1] = f[k - 1]
      BY <1>2, <3>1
    <3> HIDE DEF g
    <3> QED
      BY <3>1, <3>2, <3>3
  <2> QED
    BY <2>1, <2>2
<1>7. LoadRun(g, m, i, x, base, v)
  BY <1>6 DEF LoadRun
<1> QED
  BY <1>2, <1>7

LEMMA StoreRunExists ==
  ASSUME NEW n \in Nat, NEW i, NEW x, NEW base
  PROVE  \E f : StoreRun(f, n, i, x, base)
<1> DEFINE Missing == {k \in Nat : ~\E f : StoreRun(f, k, i, x, base)}
<1>1. SUFFICES ASSUME Missing # {} PROVE FALSE
  OBVIOUS
<1>2. PICK m \in Missing : \A k \in Missing : m <= k
  BY <1>1, Least
<1>3. m # 0
  <2>1. StoreRun([k \in 0 .. 0 |-> x], 0, i, x, base)
    BY DEF StoreRun
  <2> QED
    BY <1>2, <2>1
<1>4. m - 1 \in Nat /\ m - 1 \notin Missing
  BY <1>2, <1>3
<1>5. PICK f : StoreRun(f, m - 1, i, x, base)
  BY <1>4
<1> DEFINE g == [k \in 0 .. m |-> IF k = m THEN StoreOf(i, f[m - 1], base, m - 1) ELSE f[k]]
<1>6. ASSUME NEW k \in 0 .. m
      PROVE  g[k] = IF k = 0 THEN x ELSE StoreOf(i, g[k - 1], base, k - 1)
  <2>1. CASE k = m
    <3>1. g[k] = StoreOf(i, f[m - 1], base, m - 1) /\ g[k - 1] = f[m - 1]
      BY <1>2, <1>3, <2>1
    <3> QED
      BY <1>3, <2>1, <3>1
  <2>2. CASE k # m
    <3>1. k \in 0 .. m - 1 /\ g[k] = f[k]
      BY <1>2, <1>6, <2>2
    <3>2. f[k] = IF k = 0 THEN x ELSE StoreOf(i, f[k - 1], base, k - 1)
      BY <1>5, <3>1 DEF StoreRun
    <3>3. k # 0 => g[k - 1] = f[k - 1]
      BY <1>2, <3>1
    <3> HIDE DEF g
    <3> QED
      BY <3>1, <3>2, <3>3
  <2> QED
    BY <2>1, <2>2
<1>7. StoreRun(g, m, i, x, base)
  BY <1>6 DEF StoreRun
<1> QED
  BY <1>2, <1>7

(* ... is within the registers the instruction may reach.                  *)
LEMMA GivenOnly ==
  ASSUME NEW t, Fit(t), NEW i \in BlockInsns, NEW u, Only(t, u, Reach(i, t)), NEW n \in Regs, NEW x
  PROVE  /\ n \in Targets(i) => Only(t, Given(i, u, n, x), Reach(i, t))
         /\ Only(t, NewBase(i, u, x), Reach(i, t))
<1>1. i.op = "block" /\ i.rn \in Regs /\ i.user \in BOOLEAN /\ i.wb \in BOOLEAN
  BY DEF BlockInsns
<1>2. \A k \in Targets(i) :
        Physical(Mode(t), k) \in Reach(i, t) /\ (i.user => <<"user", k>> \in Reach(i, t))
  BY <1>1, Reached DEF ReachesUser
<1>3. \A k \in Regs : k \in Targets(i) => Only(t, SetReg(u, k, x), Reach(i, t))
  BY <1>2, ThenSet
<1>4. i.user => \A k \in Regs : k \in Targets(i) => Only(t, PutUser(u, k, x), Reach(i, t))
  BY <1>2, ThenPut
<1>5. n \in Targets(i) => Only(t, Given(i, u, n, x), Reach(i, t))
  BY <1>3, <1>4 DEF Given, ForUser
<1>6. Only(t, NewBase(i, u, x), Reach(i, t))
  <2>1. i.wb => i.rn \in Targets(i)
    BY <1>1, TargetsAre
  <2> QED
    BY <1>1, <1>3, <1>4, <2>1 DEF NewBase
<1> QED
  BY <1>5, <1>6

LEMMA LoadOfOnly ==
  ASSUME NEW t, Fit(t), NEW i \in BlockInsns, i.load, NEW u, Only(t, u, Reach(i, t)),
         NEW n \in Regs, NEW base, NEW v
  PROVE  Only(t, LoadOf(i, u, base, n, v), Reach(i, t))
<1> DEFINE r == ReadWord(u, WordOf(i, base, n), v)
<1>1. Only(u, r.s, Reach(i, t))
  BY Then, ReadWordOnly
<1> HIDE DEF r
<1>2. Only(t, r.s, Reach(i, t))
  BY <1>1, Then
<1>3. n \in i.list => n \in Targets(i)
  BY TargetsAre DEF BlockInsns
<1>4. n \in i.list => Only(t, GivenWord(i, r, n), Reach(i, t))
  BY <1>2, <1>3, GivenOnly DEF GivenWord
<1> QED
  BY <1>4 DEF LoadOf, r

LEMMA StoreOfOnly ==
  ASSUME NEW t, Fit(t), NEW i \in BlockInsns, NEW u, Only(t, u, Reach(i, t)), NEW n \in Regs,
         NEW base
  PROVE  Only(t, StoreOf(i, u, base, n), Reach(i, t))
<1> DEFINE x == IF n = 15 THEN Wrap(u.user[15] + 8)
                ELSE IF i.user THEN GetUser(u, n) ELSE u.user[n]
<1> HIDE DEF x
<1>1. Only(u, WriteWord(u, WordOf(i, base, n), x), Reach(i, t))
  BY Then, WriteWordOnly
<1>2. Only(t, WriteWord(u, WordOf(i, base, n), x), Reach(i, t))
  BY <1>1, Then
<1> QED
  BY <1>2 DEF StoreOf, x

LEMMA LoadRunOnly ==
  ASSUME NEW t, Fit(t), NEW i \in BlockInsns, i.load, NEW x, Only(t, x, Reach(i, t)), NEW base,
         NEW v, NEW f, LoadRun(f, 16, i, x, base, v)
  PROVE  Only(t, f[16], Reach(i, t))
<1> DEFINE Wrong == {n \in Nat : n <= 16 /\ ~Only(t, f[n], Reach(i, t))}
<1>1. SUFFICES ASSUME Wrong # {} PROVE FALSE
  OBVIOUS
<1>2. PICK m \in Wrong : \A n \in Wrong : m <= n
  BY <1>1, Least
<1>3. f[m] = IF m = 0 THEN x ELSE LoadOf(i, f[m - 1], base, m - 1, v)
  <2>1. m \in 0 .. 16
    BY <1>2
  <2> QED
    BY <2>1 DEF LoadRun
<1>4. m # 0
  BY <1>2, <1>3
<1>5. m - 1 \in Nat /\ m - 1 <= 15 /\ m - 1 \notin Wrong
  BY <1>2, <1>4
<1>6. m - 1 \in Regs /\ Only(t, f[m - 1], Reach(i, t))
  BY <1>5 DEF Regs
<1>7. Only(t, f[m], Reach(i, t))
  BY <1>3, <1>4, <1>6, LoadOfOnly
<1> QED
  BY <1>2, <1>7

LEMMA StoreRunOnly ==
  ASSUME NEW t, Fit(t), NEW i \in BlockInsns, NEW x, Only(t, x, Reach(i, t)), NEW base,
         NEW f, StoreRun(f, 15, i, x, base)
  PROVE  Only(t, f[15], Reach(i, t))
<1> DEFINE Wrong == {n \in Nat : n <= 15 /\ ~Only(t, f[n], Reach(i, t))}
<1>1. SUFFICES ASSUME Wrong # {} PROVE FALSE
  OBVIOUS
<1>2. PICK m \in Wrong : \A n \in Wrong : m <= n
  BY <1>1, Least
<1>3. f[m] = IF m = 0 THEN x ELSE StoreOf(i, f[m - 1], base, m - 1)
  <2>1. m \in 0 .. 15
    BY <1>2
  <2> QED
    BY <2>1 DEF StoreRun
<1>4. m # 0
  BY <1>2, <1>3
<1>5. m - 1 \in Nat /\ m - 1 <= 14 /\ m - 1 \notin Wrong
  BY <1>2, <1>4
<1>6. m - 1 \in Regs /\ Only(t, f[m - 1], Reach(i, t))
  BY <1>5 DEF Regs
<1>7. Only(t, f[m], Reach(i, t))
  BY <1>3, <1>4, <1>6, StoreOfOnly
<1> QED
  BY <1>2, <1>7

LEMMA LoadBlockLands ==
  ASSUME NEW t, Fit(t), NEW i \in BlockInsns, i.load, NEW v
  PROVE  Lands(t, LoadBlock(t, i, v), Reach(i, t))
<1> DEFINE base == Reg(t, i.rn, 8)
           x == IF i.wb THEN Given(i, t, i.rn, Beyond(i, base)) ELSE t
           f == CHOOSE f : LoadRun(f, 16, i, x, base, v)
           n == Cardinality(i.list) + 4 + (IF 15 \in i.list THEN 5 ELSE 0)
<1>1. LoadBlock(t, i, v) = Spend(RestoredBy(i, f[16]), n)
  BY DEF LoadBlock, LoadRun
<1>2. LoadRun(f, 16, i, x, base, v)
  BY LoadRunExists
<1>3. i.rn \in Regs /\ i.wb \in BOOLEAN
  BY DEF BlockInsns
<1>4. Only(t, t, Reach(i, t))
  BY Aside
<1> HIDE DEF f, n
<1>5. Only(t, x, Reach(i, t))
  <2>1. i.wb => i.rn \in Targets(i)
    BY TargetsAre DEF BlockInsns
  <2> QED
    BY <1>3, <1>4, <2>1, GivenOnly
<1> HIDE DEF x, base
<1>6. Only(t, f[16], Reach(i, t))
  BY <1>2, <1>5, LoadRunOnly
<1>7. Lands(t, RestoredBy(i, f[16]), Reach(i, t))
  BY <1>6, LandsOnly, ThenRestore DEF RestoredBy
<1> QED
  BY <1>1, <1>7, SpendLands

LEMMA StoreBlockOnly ==
  ASSUME NEW t, Fit(t), NEW i \in BlockInsns
  PROVE  Only(t, StoreBlock(t, i), Reach(i, t))
<1> DEFINE base == Reg(t, i.rn, 8)
           x == IF \E n \in i.list : n < i.rn THEN NewBase(i, t, Beyond(i, base)) ELSE t
           f == CHOOSE f : StoreRun(f, 15, i, x, base)
           n == Cardinality(i.list) + 6
           u == NewBase(i, f[15], Beyond(i, base))
<1>1. StoreBlock(t, i) = Spend(StoreOf(i, u, base, 15), n)
  BY DEF StoreBlock, StoreRun
<1>2. StoreRun(f, 15, i, x, base)
  BY StoreRunExists
<1>3. i.rn \in Regs
  BY DEF BlockInsns
<1>4. Only(t, t, Reach(i, t))
  BY Aside
<1> HIDE DEF f, n
<1>5. Only(t, x, Reach(i, t))
  BY <1>3, <1>4, GivenOnly
<1> HIDE DEF x, base
<1>6. Only(t, f[15], Reach(i, t))
  BY <1>2, <1>5, StoreRunOnly
<1>7. Only(t, u, Reach(i, t))
  BY <1>3, <1>6, GivenOnly
<1> HIDE DEF u
<1>8. Only(t, StoreOf(i, u, base, 15), Reach(i, t))
  BY <1>7, StoreOfOnly DEF Regs
<1> QED
  BY <1>1, <1>8, ThenSpend
-----------------------------------------------------------------------------
(* Exceptions.                                                             *)
LEMMA TrapKeepsStatus ==
  ASSUME NEW t, Framed(t), NEW m \in Banked, NEW back, NEW vector
  PROVE  LET u == Trap(t, m, back, vector) IN
         DOMAIN u = Fields /\ u.spsr[m] = t.psr
<1> DEFINE p == [t EXCEPT !.spsr[m] = t.psr, !.psr.i = TRUE]
           w == SetMode(p, ModeBits[m])
<1>1. DOMAIN p = Fields /\ StatusShaped(p.psr) /\ p.spsr[m] = t.psr
  BY DEF Framed, Fields, StatusShaped, StatusFields, On, Modes
<1> HIDE DEF p
<1>2. DOMAIN w = Fields /\ w.spsr = p.spsr
  BY <1>1, SetModeFields
<1> HIDE DEF w
<1>3. Trap(t, m, back, vector) = [w EXCEPT !.user[14] = back, !.user[15] = vector]
  BY DEF Trap, w, p
<1> QED
  BY <1>1, <1>2, <1>3 DEF Fields

LEMMA TrapLands ==
  ASSUME NEW t, Fit(t), NEW m \in Banked, NEW back, NEW vector
  PROVE  LET u == Trap(t, m, back, vector) IN
         Fit(u) /\ Lands(t, u, {<<m, 14>>}) /\ u.user[15] = vector
<1> DEFINE p == [t EXCEPT !.spsr[m] = t.psr, !.psr.i = TRUE]
           w == SetMode(p, ModeBits[m])
           u == SetReg(w, 14, back)
           x == [u EXCEPT !.user[15] = vector]
<1>1. m \in Modes
  BY DEF Modes
<1>2. /\ DOMAIN p = Fields /\ p.user = t.user /\ p.cash = t.cash /\ p.bank = t.bank
      /\ p.psr = [t.psr EXCEPT !.i = TRUE] /\ p.spsr = [t.spsr EXCEPT ![m] = t.psr]
  BY DEF Fit, Shaped, Fields
<1>3. /\ StatusShaped(p.psr) /\ p.psr.mode = t.psr.mode
      /\ DOMAIN p.spsr = Modes /\ \A k \in Modes : StatusShaped(p.spsr[k])
  <2>1. StatusShaped(t.psr) /\ DOMAIN t.spsr = Modes /\ \A k \in Modes : StatusShaped(t.spsr[k])
    BY DEF Fit, Shaped
  <2>2. StatusShaped([t.psr EXCEPT !.i = TRUE]) /\ [t.psr EXCEPT !.i = TRUE].mode = t.psr.mode
    BY <2>1, MaskKept
  <2> HIDE DEF p
  <2>3. StatusShaped(p.psr) /\ p.psr.mode = t.psr.mode
    BY <1>2, <2>2
  <2>4. DOMAIN p.spsr = Modes /\ \A k \in Modes : StatusShaped(p.spsr[k])
    BY <1>2, <2>1
  <2> QED
    BY <2>3, <2>4
<1> HIDE DEF p
<1>4. Fit(p) /\ Mode(p) = Mode(t)
  BY <1>2, <1>3 DEF Fit, Shaped, Mode
<1>5. \A k \in Modes, n \in Others : Seen(p, k, n) = Seen(t, k, n)
  BY <1>2, <1>4 DEF Seen, View
<1>6. ModeBits[m] \in ModeNumbers /\ ModeOf(ModeBits[m]) = m
  BY <1>1, ModeOfMode
<1>7. Fit(w) /\ Mode(w) = m
  <2>1. Shaped(w)
    BY <1>4, <1>6, SetModeShaped DEF Fit
  <2>2. w.psr.mode = ModeBits[m]
    BY <1>2, <1>3, SetModeFields
  <2> HIDE DEF w
  <2> QED
    BY <1>6, <2>1, <2>2 DEF Fit, Mode
<1>8. \A k \in Modes, n \in Others : Seen(w, k, n) = Seen(p, k, n)
  BY <1>4, <1>6, SetModeSeen DEF Others
<1> HIDE DEF w
<1>9. Physical(m, 14) = <<m, 14>>
  BY DEF Physical, Own, Banked, Pairs
<1>10. Only(w, u, {<<m, 14>>})
  <2>1. 14 \in Regs
    BY DEF Regs
  <2> QED
    BY <1>7, <1>9, <2>1, SetRegWithin
<1>11. Fit(u)
  BY <1>7, <1>10, StillFit
<1>12. Only(w, x, {<<m, 14>>})
  BY <1>10, <1>11, PcOnly, Together
<1>13. Fit(x)
  BY <1>7, <1>12, StillFit
<1>14. Changes(t, x, {<<m, 14>>})
  BY <1>5, <1>8, <1>12 DEF Only, Changes
<1>15. x.user[15] = vector
  BY <1>11 DEF Fit, Shaped, Fields, On, Regs
<1>16. Trap(t, m, back, vector) = x
  <2>1. DOMAIN w = Fields
    BY <1>7 DEF Fit, Shaped
  <2>2. Trap(t, m, back, vector) = [w EXCEPT !.user[14] = back, !.user[15] = vector]
    BY DEF Trap, w, p
  <2> QED
    BY <2>1, <2>2 DEF Fields, SetReg
<1> HIDE DEF x
<1>17. Framed(x)
  <2>1. \A bits \in ModeNumbers : bits \union {4} = bits
    BY DEF ModeNumbers, Modes, Banked, Pairs, ModeBits
  <2> QED
    BY <1>13, <2>1 DEF Fit, Shaped, Framed
<1> QED
  BY <1>13, <1>14, <1>15, <1>16, <1>17 DEF Lands, Fit

LEMMA FiqLands ==
  ASSUME NEW t, Fit(t)
  PROVE  Fit(Fiq(t)) /\ Changes(t, Fiq(t), {<<"fiq", 14>>}) /\ Fiq(t).user[15] = \h1C
<1> DEFINE back == Wrap(t.user[15] + 4)
           vector == \h1C
           u == Trap(t, "fiq", back, vector)
<1>1. Fiq(t) = [u EXCEPT !.psr.f = TRUE]
  BY DEF Fiq
<1> HIDE DEF back, vector
<1>2. Fit(u) /\ Lands(t, u, {<<"fiq", 14>>}) /\ u.user[15] = vector
  BY TrapLands DEF Banked
<1> HIDE DEF u
<1>3. Only(u, [u EXCEPT !.psr = [u.psr EXCEPT !.f = TRUE]], {<<"fiq", 14>>})
  <2>1. StatusShaped([u.psr EXCEPT !.f = TRUE]) /\ [u.psr EXCEPT !.f = TRUE].mode = u.psr.mode
    BY <1>2 DEF Fit, Shaped, StatusShaped, StatusFields, On
  <2> QED
    BY <1>2, <2>1, PsrOnly
<1>4. Only(u, Fiq(t), {<<"fiq", 14>>})
  BY <1>1, <1>3
<1>5. Fit(Fiq(t))
  BY <1>2, <1>4, StillFit
<1>6. Changes(t, Fiq(t), {<<"fiq", 14>>})
  BY <1>2, <1>4 DEF Fit, Lands, Only, Changes
<1>7. Fiq(t).user = u.user
  BY <1>1, <1>2 DEF Fit, Shaped, Fields
<1> QED
  BY <1>2, <1>5, <1>6, <1>7 DEF vector

LEMMA FiqSaves ==
  ASSUME NEW t, Framed(t) PROVE Fiq(t).spsr["fiq"] = t.psr
<1> DEFINE back == Wrap(t.user[15] + 4)
           vector == \h1C
           u == Trap(t, "fiq", back, vector)
<1>1. Fiq(t) = [u EXCEPT !.psr.f = TRUE]
  BY DEF Fiq
<1> HIDE DEF back, vector
<1>2. DOMAIN u = Fields /\ u.spsr["fiq"] = t.psr
  BY TrapKeepsStatus DEF Banked
<1> HIDE DEF u
<1> QED
  BY <1>1, <1>2 DEF Fields
-----------------------------------------------------------------------------
LEMMA BranchOnly ==
  ASSUME NEW t, Fit(t), NEW i, i.op = "branch"
  PROVE  Only(t, Branch(t, i), Reach(i, t))
<1> DEFINE C == Reach(i, t)
           u == IF i.link THEN SetReg(t, 14, t.user[15]) ELSE t
           pc == Wrap(t.user[15] + 4 + i.offset)
<1>1. Branch(t, i) = Spend(SetReg(u, 15, pc), 5)
  BY DEF Branch
<1>2. Only(t, t, C)
  BY Aside
<1>3. Only(t, u, C)
  <2>1. i.link => Physical(Mode(t), 14) \in C
    BY Reached, TargetsAre
  <2> QED
    BY <1>2, <2>1, ThenSet DEF Regs
<1> HIDE DEF u, pc
<1> QED
  BY <1>1, <1>3, ThenSet, ThenSpend DEF Regs

(* The register that an exception gives to the mode it enters.             *)
TrapReach(i) == {<<Entered(i), 14>>}

LEMMA SwiLands ==
  ASSUME NEW t, Fit(t), NEW i, i.op = "swi"
  PROVE  Lands(t, Swi(t, i), IF Done(i) THEN Reach(i, t) ELSE TrapReach(i))
<1>1. TrapReach(i) = {<<"svc", 14>>}
  BY DEF TrapReach, Entered
<1>2. CASE Done(i)
  <2> DEFINE C == Reach(i, t)
             u == SetReg(t, 0, HleAnswer(t.ram, i.number, t.user))
             m == HleStore(t.ram, i.number, t.user)
  <2>1. Swi(t, i) = Spend([u EXCEPT !.ram = m], 5)
    BY <1>2 DEF Swi, Done
  <2>2. Only(t, t, C)
    BY Aside
  <2>3. Physical(Mode(t), 0) \in C
    BY <1>2, Reached, TargetsAre DEF Traps
  <2> HIDE DEF C
  <2>4. Only(t, u, C)
    BY <2>2, <2>3, ThenSet DEF Regs
  <2> HIDE DEF u, m
  <2>5. Only(u, [u EXCEPT !.ram = m], C)
    BY <2>4, Then, Aside
  <2>6. Only(t, [u EXCEPT !.ram = m], C)
    BY <2>4, <2>5, Then
  <2>7. Only(t, Swi(t, i), C)
    BY <2>1, <2>6, ThenSpend
  <2> QED
    BY <1>2, <2>7, LandsOnly DEF C
<1>3. CASE ~Done(i)
  <2>1. Swi(t, i) = Spend(Trap(t, "svc", t.user[15], 8), 5)
    BY <1>3 DEF Swi, Done
  <2>2. Lands(t, Trap(t, "svc", t.user[15], 8), TrapReach(i))
    BY <1>1, TrapLands DEF Banked, Pairs
  <2>3. Lands(t, Swi(t, i), TrapReach(i))
    BY <2>1, <2>2, SpendLands
  <2> QED
    BY <1>3, <2>3
<1> QED
  BY <1>2, <1>3

LEMMA UndefinedLands ==
  ASSUME NEW t, Fit(t), NEW i, i.op \in {"undefined", "coprocessor"}
  PROVE  Lands(t, Undefined(t), TrapReach(i))
<1>1. TrapReach(i) = {<<"und", 14>>}
  BY DEF TrapReach, Entered
<1>2. Lands(t, Trap(t, "und", t.user[15], 4), TrapReach(i))
  BY <1>1, TrapLands DEF Banked, Pairs
<1> QED
  BY <1>2, SpendLands DEF Undefined

(* What an instruction may reach of the registers as it finds them.        *)
Allowed(i, t) ==
  Reach(i, t) \union (IF i.op \in Traps /\ ~Done(i) THEN TrapReach(i) ELSE {})

LEMMA PerformLands ==
  ASSUME NEW t, Fit(t), NEW i \in Instructions, NEW v
  PROVE  Lands(t, Perform(t, i, v), Allowed(i, t))
<1>0. Reach(i, t) \subseteq Allowed(i, t)
  BY DEF Allowed
<1>1. CASE i \in AluInsns
  <2>1. Perform(t, i, v) = Alu(t, i)
    BY <1>1 DEF Perform, AluInsns
  <2> QED
    BY <1>0, <1>1, <2>1, AluLands, LandsWider
<1>2. CASE i \in MulInsns
  <2>1. Perform(t, i, v) = Multiply(t, i)
    BY <1>2 DEF Perform, MulInsns
  <2> QED
    BY <1>0, <1>2, <2>1, MultiplyOnly, LandsOnly, LandsWider
<1>3. CASE i \in SwapInsns
  <2>1. Perform(t, i, v) = Swap(t, i, v)
    BY <1>3 DEF Perform, SwapInsns
  <2> QED
    BY <1>0, <1>3, <2>1, SwapOnly, LandsOnly, LandsWider
<1>4. CASE i \in TransferInsns
  <2>1. Perform(t, i, v) = Transfer(t, i, v)
    BY <1>4 DEF Perform, TransferInsns
  <2> QED
    BY <1>0, <1>4, <2>1, TransferOnly, LandsOnly, LandsWider
<1>5. CASE i \in BlockInsns
  <2>1. i.op = "block" /\ i.load \in BOOLEAN
    BY <1>5 DEF BlockInsns
  <2>2. Perform(t, i, v) = IF i.load THEN LoadBlock(t, i, v) ELSE StoreBlock(t, i)
    BY <2>1 DEF Perform
  <2>3. /\ i.load => Lands(t, LoadBlock(t, i, v), Reach(i, t))
        /\ Lands(t, StoreBlock(t, i), Reach(i, t))
    BY <1>5, LoadBlockLands, StoreBlockOnly, LandsOnly
  <2> QED
    BY <1>0, <2>2, <2>3, LandsWider
<1>6. CASE i.op = "branch"
  <2>1. Perform(t, i, v) = Branch(t, i)
    BY <1>6 DEF Perform
  <2> QED
    BY <1>0, <1>6, <2>1, BranchOnly, LandsOnly, LandsWider
<1>7. CASE i.op = "swi"
  <2> DEFINE C == IF Done(i) THEN Reach(i, t) ELSE TrapReach(i)
  <2>1. C \subseteq Allowed(i, t)
    BY <1>7 DEF Allowed, Traps
  <2>2. Perform(t, i, v) = Swi(t, i)
    BY <1>7 DEF Perform
  <2>3. Lands(t, Swi(t, i), C)
    BY <1>7, SwiLands
  <2> HIDE DEF C
  <2> QED
    BY <2>1, <2>2, <2>3, LandsWider
<1>8. CASE i.op \in {"undefined", "coprocessor"}
  <2>1. TrapReach(i) \subseteq Allowed(i, t)
    BY <1>8 DEF Allowed, Traps, Done
  <2>2. Perform(t, i, v) = Undefined(t)
    BY <1>8 DEF Perform
  <2> QED
    BY <1>8, <2>1, <2>2, UndefinedLands, LandsWider
<1> QED
  <2>1. i \in OtherInsns => i.op \in {"branch", "swi", "undefined", "coprocessor"}
    BY DEF OtherInsns
  <2>2. \/ i \in AluInsns \/ i \in MulInsns \/ i \in SwapInsns \/ i \in TransferInsns
        \/ i \in BlockInsns \/ i \in OtherInsns
    BY Zenon DEF Instructions
  <2>3. i \in OtherInsns =>
          i.op = "branch" \/ i.op = "swi" \/ i.op \in {"undefined", "coprocessor"}
    BY <2>1
  <2> QED
    BY <1>1, <1>2, <1>3, <1>4, <1>5, <1>6, <1>7, <1>8, <2>2, <2>3
-----------------------------------------------------------------------------
(* A step of the machine.                                                  *)
LEMMA FetchedOnly ==
  ASSUME NEW t, Fit(t), NEW C PROVE Only(t, Fetched(t), C)
<1> DEFINE u == [t EXCEPT !.user[15] = Wrap(t.user[15] + 4)]
           w == [u EXCEPT !.cycles = 1]
           x == [w EXCEPT !.io = <<>>]
<1>1. Fetched(t) = x
  BY DEF Fetched, Fit, Shaped, Fields
<1>2. Only(t, u, C)
  BY PcOnly
<1> HIDE DEF u
<1>3. Only(t, w, C)
  BY <1>2, Then, Aside
<1> HIDE DEF w
<1>4. Only(t, x, C)
  BY <1>3, Then, Aside
<1> QED
  BY <1>1, <1>4

LEMMA ExecutedLands ==
  ASSUME NEW t, Fit(t), NEW i \in Instructions, NEW v
  PROVE  /\ Lands(t, Executed(t, i, v), Allowed(i, t))
         /\ ~IsRun(i, t) => Lands(t, Executed(t, i, v), {})
<1> DEFINE u == Fetched(t)
<1>1. Only(t, u, Allowed(i, t)) /\ Only(t, u, {})
  BY FetchedOnly
<1> HIDE DEF u
<1>2. Fit(u) /\ Mode(u) = Mode(t)
  BY <1>1, Then
<1>3. Allowed(i, u) = Allowed(i, t)
  BY <1>2 DEF Allowed, Reach
<1>4. Lands(u, Perform(u, i, v), Allowed(i, t))
  BY <1>2, <1>3, PerformLands
<1>5. Lands(t, Perform(u, i, v), Allowed(i, t))
  BY <1>1, <1>4, Then
<1>6. Lands(t, u, Allowed(i, t)) /\ Lands(t, u, {})
  BY <1>1, LandsOnly
<1>7. Executed(t, i, v) = IF IsRun(i, t) THEN Perform(u, i, v) ELSE u
  BY DEF Executed, u
<1> QED
  BY <1>5, <1>6, <1>7

LEMMA CodeIn == ASSUME NEW i \in Code, sw \in DOMAIN Software PROVE i \in Instructions
<1>1. CASE i \in Nothing
  <2> DEFINE o == [kind |-> "reg", rm |-> 0, type |-> 0, n |-> 0]
  <2>1. o \in [kind : {"reg"}, rm : Regs, type : 0 .. 3, n : 0 .. 31]
    BY DEF Regs
  <2>2. o \in Operands
    BY <2>1, Zenon DEF Operands
  <2> HIDE DEF o
  <2>3. [op |-> "alu", cond |-> 0, code |-> 0, s |-> FALSE, rd |-> 0, rn |-> 0, o2 |-> o]
          \in AluInsns
    BY <2>2 DEF AluInsns, Conds, Regs
  <2>4. i = [op |-> "alu", cond |-> 0, code |-> 0, s |-> FALSE, rd |-> 0, rn |-> 0, o2 |-> o]
    BY <1>1 DEF Nothing, o
  <2>5. i \in AluInsns
    BY <2>3, <2>4
  <2> QED
    BY <2>5, Zenon DEF Instructions
<1>2. CASE i \notin Nothing
  <2>1. s.user[15] \in DOMAIN Software[sw].code /\ i \in Software[sw].code[s.user[15]]
    BY <1>2 DEF Code
  <2> QED
    BY <2>1, ArmAssumption
<1> QED
  BY <1>1, <1>2

(* The inductive invariant: every register file has its registers.         *)
IInv == sw \in DOMAIN Software /\ Shaped(s)

(* BanksKept, of one step.                                                 *)
KeepsBanks ==
  insn' # None =>
    \A m \in Modes, n \in Others :
      View(s', Mode(s'), m, n) # View(s, Mode(s), m, n) =>
        \/ n \in Targets(insn') /\ Physical(m, n) = Physical(Mode(s), n)
        \/ n \in Targets(insn') /\ ReachesUser(insn') /\ Physical(m, n) = <<"user", n>>
        \/ insn'.op \in Traps /\ ~Done(insn') /\ Physical(m, n) = <<Entered(insn'), 14>>
        \/ s'.user[15] = \h1C /\ Physical(m, n) = <<"fiq", 14>>

LEMMA ExecuteStep ==
  ASSUME IInv, ModesValid, ModesValid', Execute
  PROVE  IInv' /\ KeepsBanks
<1>1. PICK i \in Code, v \in DeviceWords, needed \in BOOLEAN :
        LET t == Executed(s, i, v) fiq == needed /\ ~t.psr.f IN
        /\ s' = IF fiq THEN Fiq(t) ELSE t
        /\ insn' = IF IsRun(i, s) THEN i ELSE None
        /\ sw' = sw
  BY ZenonT(60) DEF Execute
<1> DEFINE t == Executed(s, i, v)
<1>2. i \in Instructions
  BY CodeIn DEF IInv
<1>3. Fit(s) /\ sw' = sw
  BY <1>1 DEF IInv, Fit, ModesValid
<1>4. Lands(s, t, Allowed(i, s))
  BY <1>2, <1>3, ExecutedLands
<1>5. s' = t \/ s' = Fiq(t)
  BY <1>1
<1> HIDE DEF t
<1>6. t.psr.mode \in ModeNumbers
  <2>1. CASE s' = t
    BY <2>1 DEF ModesValid
  <2>2. CASE s' = Fiq(t)
    <3>1. s'.spsr["fiq"] = t.psr
      BY <1>4, <2>2, FiqSaves DEF Lands
    <3>2. s'.spsr["fiq"].mode \union {4} \in ModeNumbers
      BY DEF ModesValid, Modes, Banked
    <3> QED
      BY <1>4, <3>1, <3>2 DEF Lands, Framed
  <2> QED
    BY <1>5, <2>1, <2>2
<1>7. Fit(t) /\ Changes(s, t, Allowed(i, s))
  BY <1>4, <1>6 DEF Lands, Fit
<1>8. Shaped(s')
  BY <1>5, <1>7, FiqLands DEF Fit
<1>9. ASSUME NEW m \in Modes, NEW n \in Others, Seen(s', m, n) # Seen(s, m, n)
      PROVE  \/ Physical(m, n) \in Allowed(i, s)
             \/ s'.user[15] = \h1C /\ Physical(m, n) = <<"fiq", 14>>
  <2>1. CASE s' = t
    BY <1>7, <1>9, <2>1 DEF Changes
  <2>2. CASE s' = Fiq(t)
    <3>1. Changes(t, s', {<<"fiq", 14>>}) /\ s'.user[15] = \h1C
      BY <1>7, <2>2, FiqLands
    <3>2. Physical(m, n) \in Allowed(i, s) \/ Seen(t, m, n) = Seen(s, m, n)
      BY <1>7 DEF Changes
    <3>3. Physical(m, n) \in {<<"fiq", 14>>} \/ Seen(s', m, n) = Seen(t, m, n)
      BY <3>1 DEF Changes
    <3> QED
      BY <1>9, <3>1, <3>2, <3>3
  <2> QED
    BY <1>5, <2>1, <2>2
<1>10. ASSUME NEW m \in Modes, NEW n \in Others, Physical(m, n) \in Allowed(i, s)
       PROVE  \/ n \in Targets(i) /\ Physical(m, n) = Physical(Mode(s), n)
              \/ n \in Targets(i) /\ ReachesUser(i) /\ Physical(m, n) = <<"user", n>>
              \/ i.op \in Traps /\ ~Done(i) /\ Physical(m, n) = <<Entered(i), 14>>
  <2>1. ASSUME NEW k \in Targets(i), Physical(m, n) = Physical(Mode(s), k) PROVE k = n
    BY <2>1 DEF Physical
  <2>2. ASSUME NEW k \in Targets(i), Physical(m, n) = <<"user", k>> PROVE k = n
    BY <2>2 DEF Physical
  <2>3. CASE \E k \in Targets(i) : Physical(m, n) = Physical(Mode(s), k)
    BY <2>1, <2>3
  <2>4. CASE ReachesUser(i) /\ \E k \in Targets(i) : Physical(m, n) = <<"user", k>>
    BY <2>2, <2>4
  <2>5. CASE i.op \in Traps /\ ~Done(i) /\ Physical(m, n) \in TrapReach(i)
    BY <2>5 DEF TrapReach
  <2> QED
    BY <1>10, <2>3, <2>4, <2>5 DEF Allowed, Reach
<1>11. KeepsBanks
  <2> SUFFICES ASSUME insn' # None, NEW m \in Modes, NEW n \in Others,
                      Seen(s', m, n) # Seen(s, m, n)
               PROVE  \/ n \in Targets(i) /\ Physical(m, n) = Physical(Mode(s), n)
                      \/ n \in Targets(i) /\ ReachesUser(i) /\ Physical(m, n) = <<"user", n>>
                      \/ i.op \in Traps /\ ~Done(i) /\ Physical(m, n) = <<Entered(i), 14>>
                      \/ s'.user[15] = \h1C /\ Physical(m, n) = <<"fiq", 14>>
    <3>1. insn' # None => insn' = i
      BY <1>1
    <3> QED
      BY <3>1 DEF KeepsBanks, Seen
  <2> QED
    BY <1>9, <1>10
<1> QED
  BY <1>3, <1>8, <1>11 DEF IInv

LEMMA StartShaped ==
  ASSUME NEW t, DOMAIN t = Fields, DOMAIN t.spsr = Modes, StatusShaped(t.psr),
         \A m \in Modes : StatusShaped(t.spsr[m]), Start(t).psr.mode \in ModeNumbers
  PROVE  Shaped(Start(t))
<1> DEFINE user == [n \in Regs |-> IF n = 15 THEN \h3000000 ELSE 0]
           cash == [n \in 8 .. 14 |-> 0]
           bank == [m \in Banked |-> [n \in Own(m) |-> 0]]
           u == [t EXCEPT !.user = user, !.cash = cash, !.bank = bank]
           p == Psr(19)
<1>1. Start(t) = CpsrSet(u, p)
  BY DEF Start
<1>2. On(user, Regs) /\ On(cash, 8 .. 14) /\ BanksShaped(bank)
  BY DEF On, BanksShaped
<1>3. StatusShaped(p)
  BY DEF Psr, StatusShaped, StatusFields, On
<1> HIDE DEF user, cash, bank, p
<1>4. /\ DOMAIN u = Fields /\ u.user = user /\ u.cash = cash /\ u.bank = bank
      /\ u.psr = t.psr /\ u.spsr = t.spsr
  BY DEF Fields
<1> HIDE DEF u
<1>5. Shaped(u)
  BY <1>2, <1>4 DEF Shaped
<1>6. p.mode \union {4} \in ModeNumbers
  <2>1. DOMAIN u = Fields /\ StatusShaped(u.psr)
    BY <1>5 DEF Shaped
  <2>2. CpsrSet(u, p).psr.mode = p.mode \union {4}
    BY <1>3, <2>1, CpsrSetFields
  <2> QED
    BY <1>1, <2>2
<1> QED
  BY <1>1, <1>3, <1>5, <1>6, CpsrSetShaped

LEMMA InitStep == Init /\ ModesValid => IInv
<1> SUFFICES ASSUME Init, ModesValid PROVE IInv
  OBVIOUS
<1> DEFINE t == [user |-> <<>>, cash |-> <<>>, bank |-> <<>>, psr |-> Psr(16),
                 spsr |-> [m \in Modes |-> Psr(0)], carry_out |-> FALSE, ram |-> <<>>,
                 nvram |-> <<>>, cycles |-> 1, io |-> <<>>]
<1>1. s = Start(t) /\ sw \in DOMAIN Software
  BY DEF Init, PowerOn
<1>2. \A w : StatusShaped(Psr(w))
  BY DEF Psr, StatusShaped, StatusFields, On
<1>3. DOMAIN t = Fields /\ DOMAIN t.spsr = Modes /\ t.psr = Psr(16)
      /\ \A m \in Modes : t.spsr[m] = Psr(0)
  BY DEF Fields
<1> HIDE DEF t
<1>4. Start(t).psr.mode \in ModeNumbers
  BY <1>1 DEF ModesValid
<1> QED
  BY <1>1, <1>2, <1>3, <1>4, StartShaped DEF IInv

LEMMA ResetStep ==
  ASSUME IInv, ModesValid, ModesValid', Reset
  PROVE  IInv' /\ KeepsBanks
<1> DEFINE u == Start(s)
           w == [u EXCEPT !.io = <<>>]
           x == [w EXCEPT !.cycles = 1]
<1>1. s' = x /\ insn' = None /\ sw' = sw
  BY DEF Reset
<1>2. DOMAIN u = Fields
  <2> DEFINE t == [s EXCEPT !.user = [n \in Regs |-> IF n = 15 THEN \h3000000 ELSE 0],
                            !.cash = [n \in 8 .. 14 |-> 0],
                            !.bank = [m \in Banked |-> [n \in Own(m) |-> 0]]]
             p == Psr(19)
  <2>1. u = CpsrSet(t, p)
    BY DEF Start
  <2>2. StatusShaped(p)
    BY DEF Psr, StatusShaped, StatusFields, On
  <2> HIDE DEF p
  <2>3. DOMAIN t = Fields /\ t.psr = s.psr
    BY DEF IInv, Shaped, Fields
  <2> HIDE DEF t
  <2> QED
    <3>1. DOMAIN t = Fields /\ StatusShaped(t.psr)
      BY <2>3 DEF IInv, Shaped
    <3>2. DOMAIN CpsrSet(t, p) = Fields
      BY <2>2, <3>1, CpsrSetFields
    <3> QED
      BY <2>1, <3>2
<1> HIDE DEF u
<1>3. /\ DOMAIN x = Fields /\ x.user = u.user /\ x.cash = u.cash /\ x.bank = u.bank
      /\ x.psr = u.psr /\ x.spsr = u.spsr
  BY <1>2 DEF Fields
<1> HIDE DEF x
<1>4. u.psr.mode \in ModeNumbers
  BY <1>1, <1>3 DEF ModesValid
<1>5. Shaped(u)
  BY <1>4, StartShaped DEF IInv, Shaped, u
<1>6. Shaped(x)
  BY <1>3, <1>5 DEF Shaped
<1> QED
  BY <1>1, <1>6 DEF IInv, KeepsBanks

(* A register changes only if it belongs to the mode that an instruction   *)
(* found, or to the user where the instruction reaches for the user's, and *)
(* an exception changes r14 of the mode it enters and nothing else: for    *)
(* all software that gives the status registers no mode that is none.      *)
THEOREM BanksSafe == Spec /\ []ModesValid => BanksKept
<1>1. Init /\ ModesValid => IInv
  BY InitStep
<1>2. ASSUME IInv, ModesValid, ModesValid', [Next]_vars
      PROVE  IInv' /\ [KeepsBanks]_vars
  <2>1. CASE Execute
    BY <1>2, <2>1, ExecuteStep
  <2>2. CASE Reset
    BY <1>2, <2>2, ResetStep
  <2>3. CASE UNCHANGED vars
    BY <1>2, <2>3 DEF vars, IInv
  <2> QED
    BY <1>2, <2>1, <2>2, <2>3 DEF Next
<1> QED
  BY <1>1, <1>2, PTL DEF Spec, BanksKept, KeepsBanks, Others
(* Pow2 and FromBits are recursive functions: for every n there is one     *)
(* that is right up to n, by taking one step more than for the n before.   *)
Powers(f, n) == f = [i \in 0 .. n |-> IF i = 0 THEN 1 ELSE 2 * f[i - 1]]

LEMMA PowersExist ==
  ASSUME NEW n \in Nat
  PROVE  \E f : Powers(f, n)
<1> DEFINE Missing == {k \in Nat : ~\E f : Powers(f, k)}
<1>1. SUFFICES ASSUME Missing # {} PROVE FALSE
  OBVIOUS
<1>2. PICK m \in Missing : \A k \in Missing : m <= k
  BY <1>1, Least
<1>3. m # 0
  <2>1. Powers([i \in 0 .. 0 |-> 1], 0)
    BY DEF Powers
  <2> QED
    BY <1>2, <2>1
<1>4. m - 1 \in Nat /\ m - 1 \notin Missing
  BY <1>2, <1>3
<1>5. PICK f : Powers(f, m - 1)
  BY <1>4
<1> DEFINE g == [i \in 0 .. m |-> IF i = m THEN 2 * f[m - 1] ELSE f[i]]
<1>6. ASSUME NEW i \in 0 .. m
      PROVE  g[i] = IF i = 0 THEN 1 ELSE 2 * g[i - 1]
  <2>1. CASE i = m
    <3>1. g[i] = 2 * f[m - 1] /\ g[i - 1] = f[m - 1]
      BY <1>2, <1>3, <2>1
    <3> QED
      BY <1>3, <2>1, <3>1
  <2>2. CASE i # m
    <3>1. i \in 0 .. m - 1 /\ g[i] = f[i]
      BY <1>2, <1>6, <2>2
    <3>2. f[i] = IF i = 0 THEN 1 ELSE 2 * f[i - 1]
      BY <1>5, <3>1 DEF Powers
    <3>3. i # 0 => g[i - 1] = f[i - 1]
      BY <1>2, <3>1
    <3> QED
      BY <3>1, <3>2, <3>3
  <2> QED
    BY <2>1, <2>2
<1>7. Powers(g, m)
  BY <1>6 DEF Powers
<1> QED
  BY <1>2, <1>7

LEMMA PowersAt ==
  ASSUME NEW f, NEW n \in Nat, Powers(f, n), NEW i \in Nat, i <= n
  PROVE  f[i] = IF i = 0 THEN 1 ELSE 2 * f[i - 1]
<1>1. i \in 0 .. n
  OBVIOUS
<1> QED
  BY <1>1 DEF Powers

(* Two of them agree where both are defined.                               *)
LEMMA PowersAgree ==
  ASSUME NEW f, NEW g, NEW n \in Nat, NEW k \in Nat, Powers(f, n), Powers(g, k),
         NEW i \in Nat, i <= n, i <= k
  PROVE  f[i] = g[i]
<1> DEFINE Differ == {j \in Nat : j <= n /\ j <= k /\ f[j] # g[j]}
<1>1. SUFFICES ASSUME Differ # {} PROVE FALSE
  OBVIOUS
<1>2. PICK m \in Differ : \A j \in Differ : m <= j
  BY <1>1, Least
<1>3. /\ f[m] = IF m = 0 THEN 1 ELSE 2 * f[m - 1]
      /\ g[m] = IF m = 0 THEN 1 ELSE 2 * g[m - 1]
  BY <1>2, PowersAt
<1>4. m # 0 => f[m - 1] = g[m - 1]
  <2>1. ASSUME m # 0 PROVE m - 1 \in Nat /\ m - 1 \notin Differ /\ m - 1 <= n /\ m - 1 <= k
    BY <1>2, <2>1
  <2> QED
    BY <2>1
<1> QED
  BY <1>2, <1>3, <1>4

LEMMA Pow2Unfolds == \A n \in Nat : Pow2[n] = IF n = 0 THEN 1 ELSE 2 * Pow2[n - 1]
<1> DEFINE fn(n) == CHOOSE f : Powers(f, n)
           all == [n \in Nat |-> fn(n)[n]]
           right(f) == f = [n \in Nat |-> IF n = 0 THEN 1 ELSE 2 * f[n - 1]]
<1>1. \A n \in Nat : Powers(fn(n), n)
  BY PowersExist
<1> HIDE DEF fn
<1>2. ASSUME NEW n \in Nat PROVE all[n] = IF n = 0 THEN 1 ELSE 2 * all[n - 1]
  <2>1. fn(n)[n] = IF n = 0 THEN 1 ELSE 2 * fn(n)[n - 1]
    BY <1>1, PowersAt
  <2>2. CASE n = 0
    BY <2>1, <2>2
  <2>3. CASE n # 0
    <3>1. n - 1 \in Nat /\ n - 1 <= n /\ n - 1 <= n - 1
      BY <2>3
    <3>2. fn(n)[n - 1] = fn(n - 1)[n - 1]
      BY <1>1, <3>1, PowersAgree
    <3> QED
      BY <2>1, <2>3, <3>1, <3>2
  <2> QED
    BY <2>2, <2>3
<1>3. right(all)
  BY <1>2
<1>4. Pow2 = CHOOSE f : right(f)
  BY DEF Pow2
<1> HIDE DEF all
<1>5. right(Pow2)
  BY <1>3, <1>4
<1> QED
  BY <1>5

LEMMA Pow2Positive == \A n \in Nat : Pow2[n] \in Nat \ {0}
<1> DEFINE Wrong == {n \in Nat : Pow2[n] \notin Nat \ {0}}
<1>1. SUFFICES ASSUME Wrong # {} PROVE FALSE
  OBVIOUS
<1>2. PICK m \in Wrong : \A n \in Wrong : m <= n
  BY <1>1, Least
<1>3. Pow2[m] = IF m = 0 THEN 1 ELSE 2 * Pow2[m - 1]
  BY <1>2, Pow2Unfolds
<1>4. m # 0 => m - 1 \in Nat /\ m - 1 \notin Wrong
  BY <1>2
<1> QED
  BY <1>2, <1>3, <1>4

LEMMA Pow2Next == \A n \in Nat : Pow2[n + 1] = 2 * Pow2[n]
<1>1. ASSUME NEW n \in Nat PROVE Pow2[n + 1] = 2 * Pow2[n]
  <2>1. n + 1 \in Nat /\ n + 1 # 0 /\ (n + 1) - 1 = n
    OBVIOUS
  <2> QED
    BY <2>1, Pow2Unfolds
<1> QED
  BY <1>1

LEMMA Doubled == ASSUME NEW a \in Nat, NEW b \in Nat, NEW c \in Nat, a = b * c
                 PROVE  2 * a = b * (2 * c)
  OBVIOUS

LEMMA Pow2Sum == \A m, n \in Nat : Pow2[m + n] = Pow2[m] * Pow2[n]
<1>1. ASSUME NEW m \in Nat PROVE \A n \in Nat : Pow2[m + n] = Pow2[m] * Pow2[n]
  <2> DEFINE Wrong == {n \in Nat : Pow2[m + n] # Pow2[m] * Pow2[n]}
  <2>1. SUFFICES ASSUME Wrong # {} PROVE FALSE
    OBVIOUS
  <2>2. PICK k \in Wrong : \A n \in Wrong : k <= n
    BY <2>1, Least
  <2>3. Pow2[m] \in Nat /\ Pow2[0] = 1 /\ m + 0 = m
    BY Pow2Unfolds, Pow2Positive
  <2>4. k # 0
    BY <2>2, <2>3
  <2>5. k - 1 \in Nat /\ k - 1 \notin Wrong
    BY <2>2, <2>4
  <2>6. Pow2[m + (k - 1)] = Pow2[m] * Pow2[k - 1]
    BY <2>5
  <2>7. /\ m + (k - 1) \in Nat /\ (m + (k - 1)) + 1 = m + k /\ (k - 1) + 1 = k
    BY <2>5
  <2>8. Pow2[m + k] = 2 * Pow2[m + (k - 1)] /\ Pow2[k] = 2 * Pow2[k - 1]
    BY <2>5, <2>7, Pow2Next
  <2>9. Pow2[m + (k - 1)] \in Nat /\ Pow2[k - 1] \in Nat
    BY <2>5, <2>7, Pow2Positive
  <2>10. 2 * Pow2[m + (k - 1)] = Pow2[m] * (2 * Pow2[k - 1])
    BY <2>3, <2>6, <2>9, Doubled
  <2> QED
    BY <2>2, <2>8, <2>10
<1> QED
  BY <1>1
-----------------------------------------------------------------------------
(* A word made of w bits is below 2^w.                                     *)
Lower(f, w, bits) ==
  f = [n \in 0 .. w |-> IF n = 0 THEN 0
                        ELSE f[n - 1] + (IF n - 1 \in bits THEN Pow2[n - 1] ELSE 0)]

LEMMA LowerExists ==
  ASSUME NEW bits, NEW w \in Nat
  PROVE  \E f : Lower(f, w, bits)
<1> DEFINE Missing == {k \in Nat : ~\E f : Lower(f, k, bits)}
           part(k) == IF k \in bits THEN Pow2[k] ELSE 0
<1>1. SUFFICES ASSUME Missing # {} PROVE FALSE
  OBVIOUS
<1>2. PICK m \in Missing : \A k \in Missing : m <= k
  BY <1>1, Least
<1>3. m # 0
  <2>1. Lower([i \in 0 .. 0 |-> 0], 0, bits)
    BY DEF Lower
  <2> QED
    BY <1>2, <2>1
<1>4. m - 1 \in Nat /\ m - 1 \notin Missing
  BY <1>2, <1>3
<1>5. PICK f : Lower(f, m - 1, bits)
  BY <1>4
<1> DEFINE g == [i \in 0 .. m |-> IF i = m THEN f[m - 1] + part(m - 1) ELSE f[i]]
<1>6. ASSUME NEW i \in 0 .. m
      PROVE  g[i] = IF i = 0 THEN 0 ELSE g[i - 1] + part(i - 1)
  <2>1. CASE i = m
    <3>1. g[i] = f[m - 1] + part(m - 1) /\ g[i - 1] = f[m - 1]
      BY <1>2, <1>3, <2>1
    <3> QED
      BY <1>3, <2>1, <3>1
  <2>2. CASE i # m
    <3>1. i \in 0 .. m - 1 /\ g[i] = f[i]
      BY <1>2, <1>6, <2>2
    <3>2. f[i] = IF i = 0 THEN 0 ELSE f[i - 1] + part(i - 1)
      BY <1>5, <3>1 DEF Lower
    <3>3. i # 0 => g[i - 1] = f[i - 1]
      BY <1>2, <3>1
    <3> HIDE DEF part, g
    <3> QED
      BY <3>1, <3>2, <3>3
  <2> QED
    BY <2>1, <2>2
<1>7. Lower(g, m, bits)
  BY <1>6 DEF Lower
<1> QED
  BY <1>2, <1>7

LEMMA FromBitsBelow ==
  ASSUME NEW w \in Nat, NEW bits
  PROVE  FromBits(w, bits) \in Nat /\ FromBits(w, bits) < Pow2[w]
<1> DEFINE f == CHOOSE f : Lower(f, w, bits)
           part(k) == IF k \in bits THEN Pow2[k] ELSE 0
<1>1. FromBits(w, bits) = f[w]
  BY DEF FromBits, Lower
<1>2. Lower(f, w, bits)
  BY LowerExists
<1> HIDE DEF f
<1> DEFINE Wrong == {n \in Nat : n <= w /\ ~(f[n] \in Nat /\ f[n] < Pow2[n])}
<1>3. Wrong = {}
  <2>1. SUFFICES ASSUME Wrong # {} PROVE FALSE
    OBVIOUS
  <2>2. PICK m \in Wrong : \A n \in Wrong : m <= n
    BY <2>1, Least
  <2>3. f[m] = IF m = 0 THEN 0 ELSE f[m - 1] + part(m - 1)
    <3>1. m \in 0 .. w
      BY <2>2
    <3> QED
      BY <1>2, <3>1 DEF Lower
  <2>4. CASE m = 0
    <3>1. Pow2[0] \in Nat \ {0} /\ f[0] = 0
      BY <2>3, <2>4, Pow2Positive
    <3> QED
      BY <2>2, <2>4, <3>1
  <2>5. CASE m # 0
    <3>1. m - 1 \in Nat /\ m - 1 <= w /\ m - 1 \notin Wrong /\ (m - 1) + 1 = m
      BY <2>2, <2>5
    <3>2. f[m - 1] \in Nat /\ f[m - 1] < Pow2[m - 1]
      BY <3>1
    <3>3. Pow2[m - 1] \in Nat /\ Pow2[m] = 2 * Pow2[m - 1]
      BY <3>1, Pow2Positive, Pow2Next
    <3>4. part(m - 1) \in Nat /\ part(m - 1) <= Pow2[m - 1]
      BY <3>3
    <3> HIDE DEF part
    <3>5. f[m] = f[m - 1] + part(m - 1)
      BY <2>3, <2>5
    <3>6. f[m] \in Nat /\ f[m] < Pow2[m]
      BY <3>2, <3>3, <3>4, <3>5
    <3> QED
      BY <2>2, <3>6
  <2> QED
    BY <2>4, <2>5
<1> QED
  BY <1>1, <1>3
-----------------------------------------------------------------------------
(* The widths of words and bytes.                                          *)
LEMMA ProductGrows ==
  ASSUME NEW a \in Nat, NEW b \in Nat \ {0} PROVE a * b >= a
  OBVIOUS

LEMMA SmallPowers ==
  Pow2[0] = 1 /\ Pow2[1] = 2 /\ Pow2[2] = 4 /\ Pow2[3] = 8 /\ Pow2[4] = 16 /\ Pow2[5] = 32
<1>1. Pow2[0] = 1
  BY Pow2Unfolds
<1>2. 0 + 1 = 1 /\ 1 + 1 = 2 /\ 2 + 1 = 3 /\ 3 + 1 = 4 /\ 4 + 1 = 5
  OBVIOUS
<1> QED
  BY <1>1, <1>2, Pow2Next

LEMMA Sizes ==
  /\ W \in Nat /\ W >= 27 /\ H \in Nat \ {0} /\ 2 * H \in Nat \ {0} /\ H >= 67108864
  /\ Pow2[W] = 2 * H /\ Pow2[W - 4] \in Nat /\ 16 * Pow2[W - 4] = 2 * H
<1>1. W \in Nat /\ W >= 27
  BY ArmAssumption
<1>2. W - 1 \in Nat /\ W - 4 \in Nat /\ W - 27 \in Nat
  BY <1>1
<1>3. H \in Nat \ {0}
  BY <1>2, Pow2Positive DEF H
<1>4. Pow2[W] = 2 * H
  <2>1. (W - 1) + 1 = W
    BY <1>1
  <2>2. Pow2[(W - 1) + 1] = 2 * Pow2[W - 1]
    BY <1>2, Pow2Next
  <2> QED
    BY <2>1, <2>2 DEF H
<1>5. 16 * Pow2[W - 4] = 2 * H
  <2>1. 4 + (W - 4) = W
    BY <1>1
  <2>2. Pow2[4 + (W - 4)] = Pow2[4] * Pow2[W - 4]
    BY <1>2, Pow2Sum
  <2> QED
    BY <1>4, <2>1, <2>2, SmallPowers
<1>6. H >= 67108864
  <2>1. Pow2[13] = 8192
    <3>1. 5 + 5 = 10 /\ 10 + 3 = 13 /\ 32 * 32 = 1024 /\ 1024 * 8 = 8192
      OBVIOUS
    <3>2. Pow2[5 + 5] = Pow2[5] * Pow2[5] /\ Pow2[10 + 3] = Pow2[10] * Pow2[3]
      BY Pow2Sum
    <3> QED
      BY <3>1, <3>2, SmallPowers
  <2>2. Pow2[26] = 67108864
    <3>1. 13 + 13 = 26 /\ 8192 * 8192 = 67108864
      OBVIOUS
    <3>2. Pow2[13 + 13] = Pow2[13] * Pow2[13]
      BY Pow2Sum
    <3> QED
      BY <2>1, <3>1, <3>2
  <2>3. 26 + (W - 27) = W - 1
    BY <1>1
  <2>4. Pow2[26 + (W - 27)] = Pow2[26] * Pow2[W - 27]
    BY <1>2, Pow2Sum
  <2>5. Pow2[26] \in Nat /\ Pow2[W - 27] \in Nat \ {0}
    BY <1>2, Pow2Positive
  <2>6. Pow2[26] * Pow2[W - 27] >= Pow2[26]
    BY <2>5, ProductGrows
  <2> QED
    BY <2>2, <2>3, <2>4, <2>6 DEF H
<1>7. Pow2[W - 4] \in Nat
  BY <1>2, Pow2Positive
<1>8. 2 * H \in Nat \ {0}
  BY <1>3
<1> QED
  BY <1>1, <1>3, <1>4, <1>5, <1>6, <1>7, <1>8

LEMMA DataIs == \A x : x \in Data <=> x \in Nat /\ x < 2 * H
BY Sizes DEF Data, Word

LEMMA SmallData == \A x \in Nat : x < 134217728 => x \in Data
BY Sizes, DataIs

LEMMA Wrapped == ASSUME NEW x \in Int PROVE Wrap(x) \in Data
BY Sizes, DataIs DEF Wrap

LEMMA WrapSame == ASSUME NEW x \in Data PROVE Wrap(x) = x
BY Sizes, DataIs DEF Wrap

LEMMA ByteSizes == B \in Nat /\ 4 * B <= W /\ B >= 1 /\ Bytes \in Nat \ {0}
<1>1. W \in Nat /\ W >= 27
  BY Sizes
<1>2. B \in Nat /\ 4 * B <= W /\ B >= 1
  BY <1>1 DEF B
<1> QED
  BY <1>2, Pow2Positive DEF Bytes
-----------------------------------------------------------------------------
(* What the operators compute from words are words.                        *)
LEMMA LogicWords ==
  ASSUME NEW a, NEW b
  PROVE  And(a, b) \in Data /\ OrWords(W, a, b) \in Data /\ XorWords(W, a, b) \in Data
BY Sizes, DataIs, FromBitsBelow DEF And, AndWords, OrWords, XorWords

LEMMA SumWords ==
  ASSUME NEW a \in Data, NEW b \in Data, NEW c \in {0, 1}
  PROVE  Add(H, a, b, c) \in Data /\ Sub(H, a, b, c) \in Data /\ Complement(H, b) \in Data
BY Sizes, DataIs DEF Add, Sub, Cut, Complement

LEMMA ResultWord ==
  ASSUME NEW code \in 0 .. 15, NEW a \in Data, NEW b \in Data, NEW c
  PROVE  Result(code, a, b, c) \in Data
<1> DEFINE r1 == And(a, b)
           r2 == XorWords(W, a, b)
           r3 == Sub(H, a, b, 1)
           r4 == Sub(H, b, a, 1)
           r5 == Add(H, a, b, 0)
           r6 == Add(H, a, b, Carry(c))
           r7 == Sub(H, a, b, Carry(c))
           r8 == Sub(H, b, a, Carry(c))
           r9 == OrWords(W, a, b)
           r10 == And(a, Complement(H, b))
           r11 == Complement(H, b)
<1>1. Carry(c) \in {0, 1}
  BY DEF Carry
<1>2. r1 \in Data /\ r2 \in Data /\ r9 \in Data /\ r10 \in Data
  BY LogicWords
<1>3. /\ r3 \in Data /\ r4 \in Data /\ r5 \in Data /\ r11 \in Data
      /\ r6 \in Data /\ r7 \in Data /\ r8 \in Data
  BY <1>1, SumWords
<1>4. Result(code, a, b, c) =
        CASE code \in {0, 8} -> r1 [] code \in {1, 9} -> r2 [] code \in {2, 10} -> r3
          [] code = 3 -> r4 [] code \in {4, 11} -> r5 [] code = 5 -> r6 [] code = 6 -> r7
          [] code = 7 -> r8 [] code = 12 -> r9 [] code = 13 -> b [] code = 14 -> r10
          [] code = 15 -> r11
  BY DEF Result
<1> HIDE DEF r1, r2, r3, r4, r5, r6, r7, r8, r9, r10, r11
<1>5. Result(code, a, b, c) \in {r1, r2, r3, r4, r5, r6, r7, r8, r9, b, r10, r11}
  BY <1>4, SMT
<1> QED
  BY <1>2, <1>3, <1>5

(* Products of natural numbers.                                            *)
LEMMA Monotonic ==
  ASSUME NEW q \in Nat, NEW r \in Nat, NEW p \in Nat \ {0}, r < q
  PROVE  r * p \in Nat /\ r * p < q * p /\ r * p + p <= q * p
<1>1. q - r \in Nat /\ q - r >= 1
  OBVIOUS
<1>2. (q - r) * p >= p
  BY <1>1
<1>3. (q - r) * p = q * p - r * p
  OBVIOUS
<1> QED
  BY <1>2, <1>3

LEMMA Split ==
  ASSUME NEW n \in Nat, n <= W
  PROVE  /\ W - n \in Nat /\ Pow2[n] \in Nat \ {0} /\ Pow2[W - n] \in Nat \ {0}
         /\ Pow2[W - n] * Pow2[n] = 2 * H
<1>1. W - n \in Nat /\ (W - n) + n = W
  BY Sizes
<1>2. Pow2[(W - n) + n] = Pow2[W - n] * Pow2[n]
  BY <1>1, Pow2Sum
<1> QED
  BY <1>1, <1>2, Sizes, Pow2Positive

LEMMA Remainder ==
  ASSUME NEW x \in Int, NEW d \in Nat \ {0}
  PROVE  /\ x % d \in Nat /\ x % d < d /\ x \div d \in Int
         /\ x \in Nat => x \div d \in Nat /\ x \div d <= x
OBVIOUS

LEMMA ShiftWord ==
  ASSUME NEW x \in Nat, NEW n \in Nat, n <= W
  PROVE  ShiftLeft(W, x, n) \in Data
<1>1. /\ Pow2[n] \in Nat \ {0} /\ Pow2[W - n] \in Nat \ {0}
      /\ Pow2[W - n] * Pow2[n] = 2 * H
  BY Split
<1>2. x % Pow2[W - n] \in Nat /\ x % Pow2[W - n] < Pow2[W - n]
  BY <1>1, Remainder
<1>3. /\ (x % Pow2[W - n]) * Pow2[n] \in Nat
      /\ (x % Pow2[W - n]) * Pow2[n] < Pow2[W - n] * Pow2[n]
  BY <1>1, <1>2, Monotonic
<1> QED
  BY <1>1, <1>3, DataIs DEF ShiftLeft

LEMMA QuotientBelow ==
  ASSUME NEW x \in Nat, NEW d \in Nat \ {0}, NEW q \in Nat, x < q * d
  PROVE  x \div d \in Nat /\ x \div d < q
<1> DEFINE k == x \div d
<1>1. k \in Nat /\ k * d <= x
  OBVIOUS
<1> HIDE DEF k
<1>2. k < q
  <2>1. SUFFICES ASSUME q <= k PROVE FALSE
    BY <1>1
  <2>2. q * d <= k * d
    BY <1>1, <2>1, Monotonic
  <2> QED
    BY <1>1, <2>2
<1> QED
  BY <1>1, <1>2 DEF k

LEMMA RotateWord ==
  ASSUME NEW x \in Data, NEW n \in Nat, n < W
  PROVE  RotateRight(W, x, n) \in Data
<1>1. x \in Nat /\ x < 2 * H
  BY DataIs
<1>2. CASE n = 0
  <2>1. Pow2[n] = 1 /\ (W - n) % W = 0
    BY <1>2, Sizes, SmallPowers
  <2>2. RotateRight(W, x, n) = x \div 1 + ShiftLeft(W, x % 1, 0)
    BY <2>1 DEF RotateRight
  <2>3. ShiftLeft(W, x % 1, 0) = 0
    <3>1. x % 1 = 0
      BY <1>1, Remainder
    <3>2. Pow2[W - 0] \in Nat \ {0} /\ Pow2[0] = 1
      BY Split, SmallPowers, Sizes
    <3> QED
      BY <3>1, <3>2 DEF ShiftLeft
  <2>4. x \div 1 = x
    BY <1>1, SMT
  <2> QED
    BY <1>1, <2>2, <2>3, <2>4
<1>3. CASE n # 0
  <2> DEFINE p == Pow2[n]
             q == Pow2[W - n]
             low == x % p
             high == x \div p
  <2>1. p \in Nat \ {0} /\ q \in Nat \ {0} /\ q * p = 2 * H
    BY Split, Sizes
  <2>2. (W - n) % W = W - n /\ W - n \in Nat /\ W - n <= W /\ W - (W - n) = n
    BY <1>3, Sizes
  <2>3. RotateRight(W, x, n) = high + (low % p) * q
    BY <2>2 DEF RotateRight, ShiftLeft
  <2> HIDE DEF p, q
  <2>4. low \in Nat /\ low < p
    BY <1>1, <2>1, Remainder
  <2>5. high \in Nat /\ high < q
    BY <1>1, <2>1, QuotientBelow
  <2> HIDE DEF low, high
  <2>9. low % p = low
    BY <2>1, <2>4
  <2>6. low * q \in Nat /\ low * q + q <= p * q
    BY <2>1, <2>4, Monotonic
  <2>7. p * q = q * p
    BY <2>1
  <2>8. high + low * q \in Nat /\ high + low * q < 2 * H
    BY <2>1, <2>5, <2>6, <2>7, Sizes
  <2> QED
    BY <2>3, <2>8, <2>9, DataIs
<1> QED
  BY <1>2, <1>3

LEMMA BitIs == ASSUME NEW x \in Nat, NEW k \in Nat PROVE Bit(x, k) \in {0, 1}
<1>1. Pow2[k] \in Nat \ {0}
  BY Pow2Positive
<1>2. x \div Pow2[k] \in Nat
  BY <1>1, Remainder
<1> QED
  BY <1>2 DEF Bit

LEMMA ShiftedWord ==
  ASSUME NEW type \in 0 .. 4, NEW x \in Data, NEW n \in Nat, NEW c
  PROVE  Shifted(type, x, n, c).val \in Data
<1> DEFINE sign == Bit(x, W - 1)
           v0 == IF n >= W THEN 0 ELSE ShiftLeft(W, x, n)
           c0 == n <= W /\ Bit(x, W - n) = 1
           v1 == IF n >= W THEN 0 ELSE x \div Pow2[n]
           c1 == n <= W /\ Bit(x, n - 1) = 1
           v2 == IF n >= W THEN sign * (2 * H - 1) ELSE ShiftSigned(W, x, n)
           c2 == (IF n > W THEN sign ELSE Bit(x, n - 1)) = 1
           v3 == RotateRight(W, x, n % W)
           c3 == Bit(x, (n - 1) % W) = 1
           v4 == (x \div 2) + (IF c THEN H ELSE 0)
           c4 == x % 2 = 1
<1>1. Shifted(type, x, n, c) =
        CASE n = 0 /\ type # 4 -> [val |-> x, carry |-> c]
          [] n > 0 /\ type = 0 -> [val |-> v0, carry |-> c0]
          [] n > 0 /\ type = 1 -> [val |-> v1, carry |-> c1]
          [] n > 0 /\ type = 2 -> [val |-> v2, carry |-> c2]
          [] n > 0 /\ type = 3 -> [val |-> v3, carry |-> c3]
          [] type = 4 -> [val |-> v4, carry |-> c4]
  BY DEF Shifted
<1>2. x \in Nat /\ x < 2 * H /\ 0 \in Data
  BY Sizes, DataIs
<1>3. v0 \in Data
  BY <1>2, ShiftWord, Sizes
<1>4. v1 \in Data
  <2>1. CASE n < W
    <3>1. Pow2[n] \in Nat \ {0}
      BY Pow2Positive
    <3>2. x \div Pow2[n] \in Nat /\ x \div Pow2[n] <= x
      BY <1>2, <3>1, Remainder
    <3>3. x \div Pow2[n] < 2 * H
      BY <1>2, <3>2, Sizes
    <3> QED
      BY <2>1, <3>2, <3>3, DataIs, Sizes
  <2> QED
    BY <1>2, <2>1, Sizes
<1>5. v2 \in Data
  <2>1. sign \in {0, 1}
    BY <1>2, BitIs, Sizes
  <2>2. CASE n >= W
    <3> HIDE DEF sign
    <3>1. 0 * (2 * H - 1) = 0 /\ 1 * (2 * H - 1) = 2 * H - 1
      BY Sizes
    <3>2. 2 * H - 1 \in Data
      BY Sizes, DataIs
    <3> QED
      BY <1>2, <2>1, <2>2, <3>1, <3>2
  <2>3. CASE ~(n >= W)
    <3>1. Pow2[n] \in Nat \ {0}
      BY Pow2Positive
    <3>2. Signed(Pow2[W - 1], x) \in Int
      BY <1>2, Sizes, DataIs DEF Signed, H
    <3> DEFINE z == Signed(Pow2[W - 1], x) \div Pow2[n]
    <3>3. z \in Int
      BY <3>1, <3>2, Remainder
    <3>4. ShiftSigned(W, x, n) = z % (2 * H)
      BY Sizes DEF ShiftSigned
    <3> HIDE DEF z
    <3>5. ShiftSigned(W, x, n) \in Data
      BY <3>3, <3>4, Wrapped DEF Wrap
    <3> QED
      BY <2>3, <3>5
  <2> QED
    BY <2>2, <2>3
<1>6. v3 \in Data
  <2>1. n % W \in Nat /\ n % W < W
    BY Sizes, Remainder
  <2> QED
    BY <2>1, RotateWord
<1>7. v4 \in Data
  <2>1. x \div 2 \in Nat /\ x \div 2 < H
    BY <1>2, Sizes
  <2> QED
    BY <2>1, Sizes, DataIs
<1> HIDE DEF v0, v1, v2, v3, v4, c0, c1, c2, c3, c4
<1>8. Shifted(type, x, n, c).val \in {x, v0, v1, v2, v3, v4}
  <2>1. \/ Shifted(type, x, n, c) = [val |-> x, carry |-> c]
        \/ Shifted(type, x, n, c) = [val |-> v0, carry |-> c0]
        \/ Shifted(type, x, n, c) = [val |-> v1, carry |-> c1]
        \/ Shifted(type, x, n, c) = [val |-> v2, carry |-> c2]
        \/ Shifted(type, x, n, c) = [val |-> v3, carry |-> c3]
        \/ Shifted(type, x, n, c) = [val |-> v4, carry |-> c4]
    BY <1>1, SMT
  <2> QED
    BY <2>1
<1> QED
  BY <1>3, <1>4, <1>5, <1>6, <1>7, <1>8
-----------------------------------------------------------------------------
(* A product is a word; a multiplication takes 2 to 16 cycles.             *)
Sums(f, n, x, y, w) ==
  f = [k \in 0 .. n |->
        IF k = 0 THEN 0
        ELSE (f[k - 1] + (IF Bit(y, k - 1) = 1 THEN ShiftLeft(w, x, k - 1) ELSE 0)) % Pow2[w]]

LEMMA SumsExist ==
  ASSUME NEW n \in Nat, NEW x, NEW y, NEW w
  PROVE  \E f : Sums(f, n, x, y, w)
<1> DEFINE Missing == {k \in Nat : ~\E f : Sums(f, k, x, y, w)}
           more(z, k) == (z + (IF Bit(y, k) = 1 THEN ShiftLeft(w, x, k) ELSE 0)) % Pow2[w]
<1>1. SUFFICES ASSUME Missing # {} PROVE FALSE
  OBVIOUS
<1>2. PICK m \in Missing : \A k \in Missing : m <= k
  BY <1>1, Least
<1>3. m # 0
  <2>1. Sums([i \in 0 .. 0 |-> 0], 0, x, y, w)
    BY DEF Sums
  <2> QED
    BY <1>2, <2>1
<1>4. m - 1 \in Nat /\ m - 1 \notin Missing
  BY <1>2, <1>3
<1>5. PICK f : Sums(f, m - 1, x, y, w)
  BY <1>4
<1> DEFINE g == [i \in 0 .. m |-> IF i = m THEN more(f[m - 1], m - 1) ELSE f[i]]
<1>6. ASSUME NEW i \in 0 .. m
      PROVE  g[i] = IF i = 0 THEN 0 ELSE more(g[i - 1], i - 1)
  <2>1. CASE i = m
    <3>1. g[i] = more(f[m - 1], m - 1) /\ g[i - 1] = f[m - 1]
      BY <1>2, <1>3, <2>1
    <3> QED
      BY <1>3, <2>1, <3>1
  <2>2. CASE i # m
    <3>1. i \in 0 .. m - 1 /\ g[i] = f[i]
      BY <1>2, <1>6, <2>2
    <3>2. f[i] = IF i = 0 THEN 0 ELSE more(f[i - 1], i - 1)
      BY <1>5, <3>1 DEF Sums
    <3>3. i # 0 => g[i - 1] = f[i - 1]
      BY <1>2, <3>1
    <3> HIDE DEF more, g
    <3> QED
      BY <3>1, <3>2, <3>3
  <2> QED
    BY <2>1, <2>2
<1>7. Sums(g, m, x, y, w)
  BY <1>6 DEF Sums
<1> QED
  BY <1>2, <1>7

LEMMA ProductWord ==
  ASSUME NEW x \in Data, NEW y \in Data PROVE LowProduct(W, x, y) \in Data
<1> DEFINE f == CHOOSE f : Sums(f, W, x, y, W)
           part(k) == IF Bit(y, k) = 1 THEN ShiftLeft(W, x, k) ELSE 0
<1>1. LowProduct(W, x, y) = f[W]
  BY DEF LowProduct, Sums
<1>2. Sums(f, W, x, y, W)
  BY SumsExist, Sizes
<1> HIDE DEF f
<1> DEFINE Wrong == {n \in Nat : n <= W /\ f[n] \notin Data}
<1>3. Wrong = {}
  <2>1. SUFFICES ASSUME Wrong # {} PROVE FALSE
    OBVIOUS
  <2>2. PICK m \in Wrong : \A n \in Wrong : m <= n
    BY <2>1, Least
  <2>3. f[m] = IF m = 0 THEN 0 ELSE (f[m - 1] + part(m - 1)) % Pow2[W]
    <3>1. m \in 0 .. W
      BY <2>2, Sizes
    <3> QED
      BY <1>2, <3>1 DEF Sums
  <2>4. m # 0
    BY <2>2, <2>3, SmallData
  <2>5. m - 1 \in Nat /\ m - 1 <= W /\ m - 1 \notin Wrong
    BY <2>2, <2>4, Sizes
  <2>6. f[m - 1] \in Data /\ part(m - 1) \in Data
    <3>1. x \in Nat
      BY DataIs
    <3> QED
      BY <2>5, <3>1, ShiftWord, SmallData
  <2> HIDE DEF part
  <2>7. f[m - 1] + part(m - 1) \in Int
    BY <2>6, DataIs
  <2>8. f[m] = Wrap(f[m - 1] + part(m - 1))
    BY <2>3, <2>4, Sizes DEF Wrap
  <2> QED
    BY <2>2, <2>7, <2>8, Wrapped
<1>4. W \in Nat /\ W <= W /\ W \notin Wrong
  BY <1>3, Sizes
<1> QED
  BY <1>1, <1>4

LEMMA MulCyclesAre == ASSUME NEW x \in Data PROVE MulCycles(x) \in 2 .. 16
<1>1. CalcBits(x) \in Nat /\ CalcBits(x) >= 1
  <2>1. CASE x = 0
    BY <2>1 DEF CalcBits
  <2>2. CASE x # 0
    <3> DEFINE Above == {k \in Nat : x < Pow2[k]}
               fits(k) == Pow2[k] <= x /\ x < Pow2[k + 1]
    <3>1. W \in Above
      BY Sizes, DataIs
    <3>2. PICK m \in Above : \A n \in Above : m <= n
      BY <3>1, Least
    <3>3. m # 0
      BY <2>2, <3>2, SmallPowers, DataIs
    <3>4. m - 1 \in Nat /\ (m - 1) + 1 = m /\ m - 1 \notin Above /\ m - 1 \in 0 .. W - 1
      BY <3>1, <3>2, <3>3, Sizes
    <3>5. fits(m - 1)
      BY <3>2, <3>4, Pow2Positive, DataIs
    <3>6. (CHOOSE k \in 0 .. W - 1 : fits(k)) \in 0 .. W - 1
      BY <3>4, <3>5
    <3>7. CalcBits(x) = 1 + (CHOOSE k \in 0 .. W - 1 : fits(k))
      BY <2>2 DEF CalcBits
    <3> HIDE DEF fits
    <3> QED
      BY <3>6, <3>7, Sizes
  <2> QED
    BY <2>1, <2>2
<1> HIDE DEF CalcBits
<1>2. (CalcBits(x) + 5) \div 2 \in Nat /\ (CalcBits(x) + 5) \div 2 >= 3
  BY <1>1
<1> QED
  BY <1>2 DEF MulCycles

(* The status as a word.                                                   *)
LEMMA StatusWord == ASSUME NEW p PROVE PsrWord(p) \in Data
<1> DEFINE top == Pow2[W - 4]
           irq == IF p.i THEN 128 ELSE 0
           fiq == IF p.f THEN 64 ELSE 0
           mode == FromBits(5, p.mode)
<1>1. mode \in Nat /\ mode < 32
  BY FromBitsBelow, SmallPowers
<1>2. irq \in Nat /\ fiq \in Nat /\ irq + fiq <= 192
  OBVIOUS
<1>3. NZCV(p) \in Nat /\ NZCV(p) < 16
  BY DEF NZCV
<1>4. top \in Nat \ {0} /\ 16 * top = 2 * H /\ top >= 8388608
  BY Sizes
<1>5. PsrWord(p) = NZCV(p) * top + irq + fiq + mode
  BY DEF PsrWord
<1> HIDE DEF top, irq, fiq, mode
<1>6. NZCV(p) * top \in Nat /\ NZCV(p) * top + top <= 16 * top
  BY <1>3, <1>4, Monotonic
<1> QED
  BY <1>1, <1>2, <1>4, <1>5, <1>6, DataIs

(* Bytes in a word.                                                        *)
LEMMA Places ==
  ASSUME NEW a \in Nat
  PROVE  /\ Place(a) \in Nat \ {0}
         /\ \E r \in Nat \ {0} : (r * Bytes) * Place(a) = 2 * H
<1> DEFINE e == B * (3 - (a % 4))
<1>1. B \in Nat /\ 4 * B <= W
  BY ByteSizes
<1>2. a % 4 \in {0, 1, 2, 3}
  OBVIOUS
<1>3. e \in Nat /\ e + B <= 4 * B
  BY <1>1, <1>2
<1>4. Place(a) = Pow2[e]
  BY DEF Place
<1> HIDE DEF e
<1> DEFINE g == W - (e + B)
<1>5. g \in Nat /\ g + B \in Nat /\ (g + B) + e = W
  BY <1>1, <1>3, Sizes
<1> HIDE DEF g
<1>6. Pow2[(g + B) + e] = Pow2[g + B] * Pow2[e] /\ Pow2[g + B] = Pow2[g] * Pow2[B]
  BY <1>1, <1>3, <1>5, Pow2Sum
<1>7. Pow2[g] \in Nat \ {0} /\ Pow2[e] \in Nat \ {0}
  BY <1>3, <1>5, Pow2Positive
<1>8. (Pow2[g] * Bytes) * Place(a) = 2 * H
  BY <1>4, <1>5, <1>6, Sizes DEF Bytes
<1> QED
  BY <1>4, <1>7, <1>8

LEMMA ByteWord ==
  ASSUME NEW x \in Data, NEW a \in Nat PROVE ByteOf(x, a) \in Nat /\ ByteOf(x, a) < Bytes
<1>1. Place(a) \in Nat \ {0} /\ Bytes \in Nat \ {0} /\ x \in Nat
  BY Places, ByteSizes, DataIs
<1>2. x \div Place(a) \in Nat
  BY <1>1, Remainder
<1> QED
  BY <1>1, <1>2, Remainder DEF ByteOf

LEMMA BytesSmall == \A b \in Nat : b < Bytes => b \in Data
<1>1. PICK r \in Nat \ {0} : (r * Bytes) * Place(0) = 2 * H
  BY Places
<1>2. Place(0) \in Nat \ {0} /\ Bytes \in Nat \ {0}
  BY Places, ByteSizes
<1>3. r * Bytes \in Nat /\ r * Bytes >= Bytes
  BY <1>2
<1>4. (r * Bytes) * Place(0) >= r * Bytes
  BY <1>2, <1>3, ProductGrows
<1> QED
  BY <1>1, <1>2, <1>3, <1>4, DataIs, Sizes

LEMMA PatchedWord ==
  ASSUME NEW old \in Data, NEW a \in Nat, NEW byte \in Nat, byte < Bytes
  PROVE  old + (byte - ByteOf(old, a)) * Place(a) \in Data
<1> DEFINE p == Place(a)
           q == Bytes
           x == old \div p
           d == x % q
           h == x \div q
<1>1. PICK r \in Nat \ {0} : (r * q) * p = 2 * H
  BY Places
<1>2. p \in Nat \ {0} /\ q \in Nat \ {0} /\ old \in Nat /\ old < 2 * H /\ byte < q
  BY Places, ByteSizes, DataIs
<1>3. ByteOf(old, a) = d
  BY DEF ByteOf
<1> HIDE DEF p, q
<1>4. r * q \in Nat
  BY <1>2
<1>5. x \in Nat /\ x < r * q /\ p * x <= old /\ old < p * x + p
  <2>1. x \in Nat /\ x < r * q
    BY <1>1, <1>2, <1>4, QuotientBelow
  <2>2. p * x <= old /\ old < p * x + p
    BY <1>2
  <2> QED
    BY <2>1, <2>2
<1> HIDE DEF x
<1>6. h \in Nat /\ h < r /\ x = q * h + d /\ d \in Nat /\ d < q
  <2>1. h \in Nat /\ h < r
    BY <1>2, <1>5, QuotientBelow
  <2>2. d \in Nat /\ d < q
    BY <1>2, <1>5, Remainder
  <2>3. x = q * h + d
    BY <1>2, <1>5
  <2> QED
    BY <2>1, <2>2, <2>3
<1> HIDE DEF h, d
<1> DEFINE y == q * h + byte
<1>7. q * h \in Nat /\ h * q + q <= r * q /\ h * q = q * h
  BY <1>2, <1>6, Monotonic
<1>8. y \in Nat /\ y < r * q
  BY <1>2, <1>4, <1>7
<1>9. y = x + (byte - d)
  BY <1>2, <1>6, <1>7
<1> HIDE DEF y
<1>10. p * y = p * x + (byte - d) * p
  BY <1>2, <1>5, <1>6, <1>8, <1>9
<1>11. y * p + p <= (r * q) * p /\ p * y = y * p /\ p * y \in Nat
  BY <1>2, <1>4, <1>8, Monotonic
<1> DEFINE add == (byte - d) * p
<1>12. add \in Int
  BY <1>2, <1>6
<1> HIDE DEF add
<1>13. p * x \in Nat /\ p * y = p * x + add
  BY <1>2, <1>5, <1>10 DEF add
<1>14. old + add \in Nat /\ old + add < 2 * H
  BY <1>1, <1>2, <1>5, <1>11, <1>12, <1>13
<1> QED
  BY <1>3, <1>14, DataIs DEF add, p
-----------------------------------------------------------------------------
(* Memory whose cells are words, and what the matrix calls make of it.     *)
MemoryWords(m) == \A a \in DOMAIN m : m[a] \in Data

LEMMA CellWord == ASSUME NEW m, MemoryWords(m), NEW a PROVE Cell(m, a) \in Data
BY SmallData DEF MemoryWords, Cell

LEMMA NumberInt == ASSUME NEW m, MemoryWords(m), NEW a PROVE Number(m, a) \in Int
<1>1. Cell(m, a) \in Nat
  BY CellWord, DataIs
<1> QED
  BY <1>1, Sizes DEF Number, Signed

LEMMA PutWords ==
  ASSUME NEW m, MemoryWords(m), NEW a, NEW v \in Data PROVE MemoryWords(Put(m, a, v))
BY CellWord DEF MemoryWords, Put

LEMMA StoreWords ==
  ASSUME NEW m, MemoryWords(m), NEW a \in Int, NEW n \in Nat, NEW v,
         DOMAIN v = 1 .. n, \A i \in 1 .. n : v[i] \in Data
  PROVE  MemoryWords(Store(m, a, v))
<1> DEFINE u == Store(m, a, v)
<1>1. ASSUME NEW x \in DOMAIN u PROVE u[x] \in Data
  <2>1. u[x] = IF \E i \in DOMAIN v : x = a + 4 * (i - 1) THEN v[1 + ((x - a) \div 4)] ELSE Cell(m, x)
    BY DEF Store
  <2>2. CASE \E i \in DOMAIN v : x = a + 4 * (i - 1)
    <3>1. PICK i \in 1 .. n : x = a + 4 * (i - 1)
      BY <2>2
    <3>2. x - a = 4 * (i - 1)
      BY <3>1
    <3>3. 1 + ((x - a) \div 4) = i
      BY <3>1, <3>2
    <3> HIDE DEF u
    <3> QED
      BY <2>1, <2>2, <3>3
  <2>3. CASE ~\E i \in DOMAIN v : x = a + 4 * (i - 1)
    <3> HIDE DEF u
    <3> QED
      BY <2>1, <2>3, CellWord
  <2> QED
    BY <2>2, <2>3
<1> QED
  BY <1>1 DEF MemoryWords

LEMMA OneIs == One \in Nat \ {0} /\ F \in Nat /\ F + 1 < 2 * H
<1>1. F \in Nat /\ F + 1 <= W
  BY Sizes DEF F
<1>2. One \in Nat \ {0}
  BY <1>1, Pow2Positive DEF One
<1>3. W < 2 * H
  <2> DEFINE Wrong == {n \in Nat : ~(n < Pow2[n])}
  <2>1. SUFFICES ASSUME Wrong # {} PROVE FALSE
    BY Sizes
  <2>2. PICK m \in Wrong : \A n \in Wrong : m <= n
    BY <2>1, Least
  <2>3. m # 0
    BY <2>2, SmallPowers
  <2>4. m - 1 \in Nat /\ (m - 1) + 1 = m /\ m - 1 \notin Wrong
    BY <2>2, <2>3
  <2>5. m - 1 < Pow2[m - 1] /\ Pow2[m] = 2 * Pow2[m - 1] /\ Pow2[m - 1] \in Nat
    BY <2>4, Pow2Next, Pow2Positive
  <2> QED
    BY <2>2, <2>4, <2>5
<1> QED
  BY <1>1, <1>2, <1>3, Sizes

LEMMA FracWord == ASSUME NEW x \in Int PROVE Frac(x) \in Data
<1>1. x \div One \in Int
  BY OneIs, Remainder
<1> QED
  BY <1>1, Wrapped DEF Frac

Numbers(v, n) == v = [i \in 1 .. n |-> v[i]] /\ \A i \in 1 .. n : v[i] \in Int

LEMMA VectorNumbers ==
  ASSUME NEW m, MemoryWords(m), NEW a, NEW n \in Nat PROVE Numbers(Vector(m, a, n), n)
BY NumberInt DEF Numbers, Vector

LEMMA TimesInt == ASSUME NEW x \in Int, NEW y \in Int PROVE x * y \in Int
OBVIOUS

LEMMA DotInt ==
  ASSUME NEW n \in {3, 4}, NEW u, NEW v, Numbers(u, n), Numbers(v, n) PROVE Dot(u, v) \in Int
<1> DEFINE f == [i \in DOMAIN u |-> u[i] * v[i]]
<1>1. DOMAIN u = 1 .. n
  BY DEF Numbers
<1>2. ASSUME NEW i \in 1 .. n PROVE f[i] \in Int
  <2>1. u[i] \in Int /\ v[i] \in Int
    BY DEF Numbers
  <2>2. f[i] = u[i] * v[i]
    BY <1>1
  <2> HIDE DEF f
  <2> QED
    BY <2>1, <2>2, TimesInt
<1>3. DOMAIN f = 1 .. n /\ Dot(u, v) = Sum(f)
  BY <1>1 DEF Dot
<1> HIDE DEF f
<1>4. f[1] \in Int /\ f[2] \in Int /\ f[3] \in Int /\ (4 \in DOMAIN f => f[4] \in Int)
  BY <1>2, <1>3
<1> QED
  BY <1>3, <1>4 DEF Sum

LEMMA RowWords ==
  ASSUME NEW n \in {3, 4}, NEW m, MemoryWords(m), NEW v, Numbers(v, n), NEW a
  PROVE  DOMAIN Row(v, Matrix(m, a, n)) = 1 .. n
         /\ \A j \in 1 .. n : Row(v, Matrix(m, a, n))[j] \in Data
<1> DEFINE mat == Matrix(m, a, n)
<1>1. DOMAIN v = 1 .. n /\ n \in Nat
  BY DEF Numbers
<1>2. ASSUME NEW j \in 1 .. n PROVE Numbers(Column(mat, j), n)
  <2>1. DOMAIN mat = 1 .. n
    BY DEF Matrix
  <2>2. ASSUME NEW i \in 1 .. n PROVE mat[i][j] \in Int
    <3>1. mat[i] = Vector(m, a + 4 * n * (i - 1), n)
      BY DEF Matrix
    <3>2. Numbers(Vector(m, a + 4 * n * (i - 1), n), n)
      BY <1>1, VectorNumbers
    <3> QED
      BY <3>1, <3>2 DEF Numbers
  <2> HIDE DEF mat
  <2> QED
    BY <2>1, <2>2 DEF Column, Numbers
<1> HIDE DEF mat
<1>3. ASSUME NEW j \in 1 .. n PROVE Frac(Dot(v, Column(mat, j))) \in Data
  BY <1>2, DotInt, FracWord
<1>4. DOMAIN Row(v, mat) = 1 .. n /\ \A j \in 1 .. n : Row(v, mat)[j] \in Data
  BY <1>1, <1>3 DEF Row
<1> QED
  BY <1>4 DEF mat

LEMMA MulVecWords ==
  ASSUME NEW n \in {3, 4}, NEW m, MemoryWords(m), NEW dest \in Int, NEW src, NEW a
  PROVE  MemoryWords(MulVec(m, dest, src, a, n))
<1>1. n \in Nat /\ Numbers(Vector(m, src, n), n)
  BY VectorNumbers
<1> QED
  BY <1>1, RowWords, StoreWords DEF MulVec

LEMMA MulMatWords ==
  ASSUME NEW n \in {3, 4}, NEW m, MemoryWords(m), NEW dest \in Int, NEW src, NEW a
  PROVE  MemoryWords(MulMat(m, dest, src, a, n))
<1> DEFINE rows(k) == Row(Matrix(m, src, n)[1 + ((k - 1) \div n)], Matrix(m, a, n))
           v == [k \in 1 .. n * n |-> rows(k)[1 + ((k - 1) % n)]]
<1>1. ASSUME NEW k \in 1 .. n * n PROVE v[k] \in Data
  <2> DEFINE i == 1 + ((k - 1) \div n)
             j == 1 + ((k - 1) % n)
  <2>1. n = 3 \/ n = 4
    OBVIOUS
  <2>2. i \in 1 .. n /\ j \in 1 .. n
    <3>1. CASE n = 3
      BY <3>1
    <3>2. CASE n = 4
      BY <3>2
    <3> QED
      BY <2>1, <3>1, <3>2
  <2>3. v[k] = Row(Matrix(m, src, n)[i], Matrix(m, a, n))[j]
    OBVIOUS
  <2> HIDE DEF i, j, v
  <2>4. Matrix(m, src, n)[i] = Vector(m, src + 4 * n * (i - 1), n)
    BY <2>2 DEF Matrix
  <2>5. Numbers(Vector(m, src + 4 * n * (i - 1), n), n)
    BY VectorNumbers
  <2> QED
    BY <2>2, <2>3, <2>4, <2>5, RowWords
<1>2. DOMAIN v = 1 .. n * n /\ n * n \in Nat
  OBVIOUS
<1>3. MulMat(m, dest, src, a, n) = Store(m, dest, v)
  BY DEF MulMat
<1> HIDE DEF v
<1> QED
  BY <1>1, <1>2, <1>3, StoreWords

LEMMA CrossWords ==
  ASSUME NEW m, MemoryWords(m), NEW dest \in Int, NEW v1, NEW v2
  PROVE  MemoryWords(Cross(m, dest, v1, v2))
<1> DEFINE u == Vector(m, v1, 3)
           v == Vector(m, v2, 3)
           minor(i, j) == Frac(u[i] * v[j] - u[j] * v[i])
           x == <<minor(2, 3), minor(3, 1), minor(1, 2)>>
<1>1. Numbers(u, 3) /\ Numbers(v, 3)
  BY VectorNumbers
<1> HIDE DEF u, v
<1>2. ASSUME NEW i \in 1 .. 3, NEW j \in 1 .. 3 PROVE minor(i, j) \in Data
  <2>1. u[i] \in Int /\ u[j] \in Int /\ v[i] \in Int /\ v[j] \in Int
    BY <1>1 DEF Numbers
  <2>2. u[i] * v[j] - u[j] * v[i] \in Int
    BY <2>1
  <2> QED
    BY <2>2, FracWord
<1>3. minor(2, 3) \in Data /\ minor(3, 1) \in Data /\ minor(1, 2) \in Data
  BY <1>2
<1>4. Cross(m, dest, v1, v2) = Store(m, dest, x)
  BY DEF Cross, u, v
<1> HIDE DEF minor
<1>5. DOMAIN x = 1 .. 3 /\ \A i \in 1 .. 3 : x[i] \in Data
  BY <1>3
<1> HIDE DEF x
<1> QED
  BY <1>4, <1>5, StoreWords

LEMMA DivZWords ==
  ASSUME NEW m, MemoryWords(m), NEW dest \in Int, NEW src, NEW a, NEW scaler \in Int
  PROVE  MemoryWords(DivZ(m, dest, src, a, scaler))
<1> DEFINE p == MulVec(m, dest, src, a, 3)
           z == Number(p, dest + 8)
           mul == Quotient(scaler * One, z)
           v == [i \in 1 .. 2 |-> Frac(Number(p, dest + 4 * (i - 1)) * mul)]
<1>1. MemoryWords(p)
  BY MulVecWords
<1> HIDE DEF p
<1>2. z \in Int
  BY <1>1, NumberInt
<1> HIDE DEF z
<1>3. ASSUME z # 0 PROVE mul \in Int
  <2>1. scaler * One \in Int
    BY OneIs
  <2>2. \A x \in Int : Size(x) \in Nat
    BY DEF Size
  <2>3. Size(z) \in Nat \ {0}
    BY <1>2, <1>3 DEF Size
  <2>4. Size(scaler * One) \div Size(z) \in Int
    BY <2>1, <2>2, <2>3, Remainder
  <2> QED
    BY <2>4 DEF Quotient
<1> HIDE DEF mul
<1>4. ASSUME z # 0 PROVE MemoryWords(Store(p, dest, v))
  <2>1. ASSUME NEW i \in 1 .. 2 PROVE v[i] \in Data
    <3>1. Number(p, dest + 4 * (i - 1)) * mul \in Int
      BY <1>1, <1>3, <1>4, NumberInt, TimesInt
    <3> QED
      BY <3>1, FracWord
  <2>2. DOMAIN v = 1 .. 2
    OBVIOUS
  <2> HIDE DEF v
  <2> QED
    BY <1>1, <2>1, <2>2, StoreWords
<1>5. DivZ(m, dest, src, a, scaler) = IF z = 0 THEN p ELSE Store(p, dest, v)
  BY DEF DivZ, p, z, mul
<1> HIDE DEF v
<1> QED
  BY <1>1, <1>4, <1>5
-----------------------------------------------------------------------------
(* The calls that are done many times over, and the square root.           *)
Runs(f, n, m, call, r) ==
  f = [k \in 0 .. n |-> IF k = 0 THEN m ELSE Each(f[k - 1], call, r, k - 1)]

LEMMA RunsExist ==
  ASSUME NEW n \in Nat, NEW m, NEW call, NEW r
  PROVE  \E f : Runs(f, n, m, call, r)
<1> DEFINE Missing == {k \in Nat : ~\E f : Runs(f, k, m, call, r)}
<1>1. SUFFICES ASSUME Missing # {} PROVE FALSE
  OBVIOUS
<1>2. PICK l \in Missing : \A k \in Missing : l <= k
  BY <1>1, Least
<1>3. l # 0
  <2>1. Runs([i \in 0 .. 0 |-> m], 0, m, call, r)
    BY DEF Runs
  <2> QED
    BY <1>2, <2>1
<1>4. l - 1 \in Nat /\ l - 1 \notin Missing
  BY <1>2, <1>3
<1>5. PICK f : Runs(f, l - 1, m, call, r)
  BY <1>4
<1> DEFINE g == [i \in 0 .. l |-> IF i = l THEN Each(f[l - 1], call, r, l - 1) ELSE f[i]]
<1>6. ASSUME NEW i \in 0 .. l
      PROVE  g[i] = IF i = 0 THEN m ELSE Each(g[i - 1], call, r, i - 1)
  <2>1. CASE i = l
    <3>1. g[i] = Each(f[l - 1], call, r, l - 1) /\ g[i - 1] = f[l - 1]
      BY <1>2, <1>3, <2>1
    <3> QED
      BY <1>3, <2>1, <3>1
  <2>2. CASE i # l
    <3>1. i \in 0 .. l - 1 /\ g[i] = f[i]
      BY <1>2, <1>6, <2>2
    <3>2. f[i] = IF i = 0 THEN m ELSE Each(f[i - 1], call, r, i - 1)
      BY <1>5, <3>1 DEF Runs
    <3>3. i # 0 => g[i - 1] = f[i - 1]
      BY <1>2, <3>1
    <3> HIDE DEF g
    <3> QED
      BY <3>1, <3>2, <3>3
  <2> QED
    BY <2>1, <2>2
<1>7. Runs(g, l, m, call, r)
  BY <1>6 DEF Runs
<1> QED
  BY <1>2, <1>7

LEMMA ManyUnfolds ==
  ASSUME NEW m, NEW call, NEW r, NEW count \in Int
  PROVE  LET n == IF count < 0 THEN 0 ELSE count IN
         \E f : Runs(f, n, m, call, r) /\ Many(m, call, r, count) = f[n]
<1> DEFINE n == IF count < 0 THEN 0 ELSE count
           f == CHOOSE f : Runs(f, n, m, call, r)
<1>1. n \in Nat
  OBVIOUS
<1>2. Many(m, call, r, count) = f[n]
  BY DEF Many, Runs
<1> HIDE DEF n
<1>3. Runs(f, n, m, call, r)
  BY <1>1, RunsExist
<1> QED
  BY <1>2, <1>3 DEF n

LEMMA EachWords ==
  ASSUME NEW m, MemoryWords(m), NEW call \in {2, 5, 6, 9, 18}, NEW r,
         r[0] \in Data, r[1] \in Data, r[2] \in Data, r[3] \in Data, NEW k \in Nat
  PROVE  MemoryWords(Each(m, call, r, k))
<1>1. /\ r[0] + 12 * k \in Int /\ r[0] + 16 * k \in Int
      /\ Signed(H, r[2]) \in Int /\ Signed(H, r[3]) \in Int
  BY DataIs, Sizes DEF Signed
<1> DEFINE product == Frac(Number(m, r[1] + 4 * k) * Number(m, r[2] + 4 * k))
           scaled == Frac(Number(m, r[1] + 4 * k) * Signed(H, r[2]))
<1>2. product \in Data /\ scaled \in Data
  BY <1>1, NumberInt, TimesInt, FracWord
<1>3. CASE call = 2
  BY <1>1, <1>3, MulVecWords DEF Each
<1>4. CASE call = 9
  BY <1>1, <1>4, MulVecWords DEF Each
<1>5. CASE call = 5
  <2>1. Each(m, call, r, k) = Put(m, r[0] + 4 * k, product)
    BY <1>5 DEF Each
  <2> HIDE DEF product
  <2> QED
    BY <1>2, <2>1, PutWords
<1>6. CASE call = 6
  <2>1. Each(m, call, r, k) = Put(m, r[0] + 4 * k, scaled)
    BY <1>6 DEF Each
  <2> HIDE DEF scaled
  <2> QED
    BY <1>2, <2>1, PutWords
<1>7. CASE call = 18
  BY <1>1, <1>7, DivZWords DEF Each
<1> QED
  BY <1>3, <1>4, <1>5, <1>6, <1>7

LEMMA ManyWords ==
  ASSUME NEW m, MemoryWords(m), NEW call \in {2, 5, 6, 9, 18}, NEW r,
         r[0] \in Data, r[1] \in Data, r[2] \in Data, r[3] \in Data, NEW count \in Int
  PROVE  MemoryWords(Many(m, call, r, count))
<1> DEFINE n == IF count < 0 THEN 0 ELSE count
<1>1. n \in Nat
  OBVIOUS
<1>2. PICK f : Runs(f, n, m, call, r) /\ Many(m, call, r, count) = f[n]
  BY ManyUnfolds
<1> HIDE DEF n
<1> DEFINE Wrong == {k \in Nat : k <= n /\ ~MemoryWords(f[k])}
<1>3. SUFFICES ASSUME Wrong # {} PROVE FALSE
  BY <1>1, <1>2
<1>4. PICK l \in Wrong : \A k \in Wrong : l <= k
  BY <1>3, Least
<1>5. f[l] = IF l = 0 THEN m ELSE Each(f[l - 1], call, r, l - 1)
  <2>1. l \in 0 .. n
    BY <1>1, <1>4
  <2> QED
    BY <1>2, <2>1 DEF Runs
<1>6. l # 0
  BY <1>4, <1>5
<1>7. l - 1 \in Nat /\ l - 1 <= n /\ l - 1 \notin Wrong
  BY <1>1, <1>4, <1>6
<1>8. MemoryWords(f[l - 1])
  BY <1>7
<1>9. MemoryWords(f[l])
  BY <1>5, <1>6, <1>7, <1>8, EachWords
<1> QED
  BY <1>4, <1>9

Roots(f, n, x) ==
  f = [k \in 0 .. n |-> IF k = 0 THEN x ELSE SqrtStep(f[k - 1])]

LEMMA RootsExist ==
  ASSUME NEW n \in Nat, NEW x
  PROVE  \E f : Roots(f, n, x)
<1> DEFINE Missing == {k \in Nat : ~\E f : Roots(f, k, x)}
<1>1. SUFFICES ASSUME Missing # {} PROVE FALSE
  OBVIOUS
<1>2. PICK m \in Missing : \A k \in Missing : m <= k
  BY <1>1, Least
<1>3. m # 0
  <2>1. Roots([i \in 0 .. 0 |-> x], 0, x)
    BY DEF Roots
  <2> QED
    BY <1>2, <2>1
<1>4. m - 1 \in Nat /\ m - 1 \notin Missing
  BY <1>2, <1>3
<1>5. PICK f : Roots(f, m - 1, x)
  BY <1>4
<1> DEFINE g == [i \in 0 .. m |-> IF i = m THEN SqrtStep(f[m - 1]) ELSE f[i]]
<1>6. ASSUME NEW i \in 0 .. m
      PROVE  g[i] = IF i = 0 THEN x ELSE SqrtStep(g[i - 1])
  <2>1. CASE i = m
    <3>1. g[i] = SqrtStep(f[m - 1]) /\ g[i - 1] = f[m - 1]
      BY <1>2, <1>3, <2>1
    <3> QED
      BY <1>3, <2>1, <3>1
  <2>2. CASE i # m
    <3>1. i \in 0 .. m - 1 /\ g[i] = f[i]
      BY <1>2, <1>6, <2>2
    <3>2. f[i] = IF i = 0 THEN x ELSE SqrtStep(f[i - 1])
      BY <1>5, <3>1 DEF Roots
    <3>3. i # 0 => g[i - 1] = f[i - 1]
      BY <1>2, <3>1
    <3> HIDE DEF g
    <3> QED
      BY <3>1, <3>2, <3>3
  <2> QED
    BY <2>1, <2>2
<1>7. Roots(g, m, x)
  BY <1>6 DEF Roots
<1> QED
  BY <1>2, <1>7

LEMMA SqrtWord == ASSUME NEW x PROVE Sqrt(x) \in Data
<1> DEFINE start == [lo |-> Signed(H, x), hi |-> 0, root |-> 0]
           f == CHOOSE f : Roots(f, F + 1, start)
<1>1. Sqrt(x) = f[F + 1].root
  BY DEF Sqrt, Roots
<1>2. F + 1 \in Nat
  BY OneIs
<1>3. start.root = 0
  OBVIOUS
<1> HIDE DEF start
<1>4. Roots(f, F + 1, start)
  BY <1>2, RootsExist
<1> HIDE DEF f
<1> DEFINE Wrong == {k \in Nat : k <= F + 1 /\ ~(f[k].root \in Nat /\ f[k].root <= k)}
<1>5. Wrong = {}
  <2>1. SUFFICES ASSUME Wrong # {} PROVE FALSE
    OBVIOUS
  <2>2. PICK m \in Wrong : \A k \in Wrong : m <= k
    BY <2>1, Least
  <2>3. f[m] = IF m = 0 THEN start ELSE SqrtStep(f[m - 1])
    <3>1. m \in 0 .. F + 1
      BY <1>2, <2>2
    <3> QED
      BY <1>4, <3>1 DEF Roots
  <2>4. m # 0
    BY <1>3, <2>2, <2>3
  <2>5. m - 1 \in Nat /\ m - 1 <= F + 1 /\ m - 1 \notin Wrong
    BY <1>2, <2>2, <2>4
  <2>6. f[m - 1].root \in Nat /\ f[m - 1].root <= m - 1
    BY <2>5
  <2>7. SqrtStep(f[m - 1]).root \in {f[m - 1].root, f[m - 1].root + 1}
    BY DEF SqrtStep
  <2> QED
    BY <2>2, <2>3, <2>4, <2>6, <2>7
<1>6. F + 1 \notin Wrong
  BY <1>5
<1>7. f[F + 1].root \in Nat /\ f[F + 1].root <= F + 1
  BY <1>2, <1>6
<1> QED
  BY <1>1, <1>2, <1>7, OneIs, Sizes, DataIs

LEMMA AnswerWord ==
  ASSUME NEW m, MemoryWords(m), NEW call, NEW r, r[0] \in Data
  PROVE  HleAnswer(m, call, r) \in Data
<1> DEFINE dot == DotProduct(m, r[0], r[1], 3)
           abs3 == AbsVec(m, r[0], 3)
           abs4 == AbsVec(m, r[0], 4)
<1>1. dot \in Data
  <2>1. Numbers(Vector(m, r[0], 3), 3) /\ Numbers(Vector(m, r[1], 3), 3)
    BY VectorNumbers
  <2>2. Dot(Vector(m, r[0], 3), Vector(m, r[1], 3)) \in Int
    BY <2>1, DotInt
  <2> QED
    BY <2>2, FracWord DEF DotProduct
<1>2. abs3 \in Data /\ abs4 \in Data
  BY SqrtWord DEF AbsVec
<1>3. HleAnswer(m, call, r) =
        CASE call = 12 -> dot [] call = 15 -> abs3 [] call = 16 -> abs4 [] OTHER -> r[0]
  BY DEF HleAnswer
<1> HIDE DEF dot, abs3, abs4
<1> QED
  BY <1>1, <1>2, <1>3, SMT

LEMMA HleWords ==
  ASSUME NEW m, MemoryWords(m), NEW call, NEW r,
         r[0] \in Data, r[1] \in Data, r[2] \in Data, r[3] \in Data
  PROVE  MemoryWords(HleStore(m, call, r))
<1> DEFINE args == [j \in 0 .. 3 |-> Cell(m, r[0] + 4 * j)]
           m0 == MulVec(m, r[0], r[1], r[2], 3)
           m1 == MulMat(m, r[0], r[1], r[2], 3)
           m2 == Many(m, call, r, Signed(H, r[3]))
           m7 == MulVec(m, r[0], r[1], r[2], 4)
           m8 == MulMat(m, r[0], r[1], r[2], 4)
           m14 == Cross(m, r[0], r[1], r[2])
           m17 == DivZ(m, r[0], r[1], r[2], Signed(H, r[3]))
           m18 == Many(m, call, args, Cell(m, r[0] + 16))
<1>1. r[0] \in Int /\ Signed(H, r[3]) \in Int
  BY DataIs, Sizes DEF Signed
<1>2. /\ MemoryWords(m0) /\ MemoryWords(m1) /\ MemoryWords(m7) /\ MemoryWords(m8)
      /\ MemoryWords(m14) /\ MemoryWords(m17)
  BY <1>1, MulVecWords, MulMatWords, CrossWords, DivZWords
<1>3. call \in {2, 5, 6, 9} => MemoryWords(m2)
  BY <1>1, ManyWords
<1>4. call = 18 => MemoryWords(m18)
  <2>1. args[0] \in Data /\ args[1] \in Data /\ args[2] \in Data /\ args[3] \in Data
    BY CellWord
  <2>2. Cell(m, r[0] + 16) \in Int
    BY CellWord, DataIs
  <2> HIDE DEF args
  <2> QED
    BY <2>1, <2>2, ManyWords
<1>5. HleStore(m, call, r) =
        CASE call = 0 -> m0 [] call = 1 -> m1 [] call \in {2, 5, 6, 9} -> m2 [] call = 7 -> m7
          [] call = 8 -> m8 [] call = 14 -> m14 [] call = 17 -> m17 [] call = 18 -> m18
          [] OTHER -> m
  BY DEF HleStore
<1> HIDE DEF m0, m1, m2, m7, m8, m14, m17, m18
<1> QED
  BY <1>2, <1>3, <1>4, <1>5, SMT
-----------------------------------------------------------------------------
(* A machine whose registers and memory hold words, and whose instruction  *)
(* has taken from 1 to k cycles so far.                                    *)
Worded(t) ==
  /\ \A n \in Regs : t.user[n] \in Data
  /\ \A n \in 8 .. 14 : t.cash[n] \in Data
  /\ \A m \in Banked : \A n \in Own(m) : t.bank[m][n] \in Data
  /\ MemoryWords(t.ram) /\ MemoryWords(t.nvram)
Taken(t, k) == t.cycles \in Nat /\ 1 <= t.cycles /\ t.cycles <= k
Sound(t, k) == Worded(t) /\ Taken(t, k)

LEMMA SameSound ==
  ASSUME NEW t, NEW k, Sound(t, k), NEW u, u.user = t.user, u.cash = t.cash, u.bank = t.bank,
         u.ram = t.ram, u.nvram = t.nvram, u.cycles = t.cycles
  PROVE  Sound(u, k)
BY DEF Sound, Worded, Taken

LEMMA AsideSound ==
  ASSUME NEW t, Fit(t), NEW k, Sound(t, k), NEW x
  PROVE  /\ Sound([t EXCEPT !.io = x], k) /\ Sound([t EXCEPT !.carry_out = x], k)
         /\ Sound([t EXCEPT !.psr = x], k) /\ Sound([t EXCEPT !.spsr = x], k)
<1>1. DOMAIN t = Fields
  BY DEF Fit, Shaped
<1>2. Sound([t EXCEPT !.io = x], k)
  BY <1>1, SameSound DEF Fields
<1>3. Sound([t EXCEPT !.carry_out = x], k)
  BY <1>1, SameSound DEF Fields
<1>4. Sound([t EXCEPT !.psr = x], k)
  BY <1>1, SameSound DEF Fields
<1>5. Sound([t EXCEPT !.spsr = x], k)
  BY <1>1, SameSound DEF Fields
<1> QED
  BY <1>2, <1>3, <1>4, <1>5

LEMMA SpendSound ==
  ASSUME NEW t, DOMAIN t = Fields, NEW k \in Nat, Sound(t, k), NEW n \in Nat
  PROVE  Sound(Spend(t, n), k + n)
<1> DEFINE u == Spend(t, n)
<1>1. /\ u.user = t.user /\ u.cash = t.cash /\ u.bank = t.bank /\ u.ram = t.ram
      /\ u.nvram = t.nvram /\ u.cycles = t.cycles + n
  BY DEF Spend, Fields
<1> HIDE DEF u
<1>2. Taken(u, k + n)
  BY <1>1 DEF Sound, Taken
<1>3. Worded(u)
  BY <1>1 DEF Sound, Worded
<1> QED
  BY <1>2, <1>3 DEF Sound, u

LEMMA MoreSound ==
  ASSUME NEW t, NEW k \in Nat, NEW l \in Nat, k <= l, Sound(t, k) PROVE Sound(t, l)
BY DEF Sound, Taken

LEMMA SetRegSound ==
  ASSUME NEW t, Fit(t), NEW k, Sound(t, k), NEW n \in Regs, NEW v \in Data
  PROVE  Sound(SetReg(t, n, v), k)
<1> DEFINE u == SetReg(t, n, v)
<1>1. /\ u.user = [t.user EXCEPT ![n] = v] /\ u.cash = t.cash /\ u.bank = t.bank /\ u.ram = t.ram
      /\ u.nvram = t.nvram /\ u.cycles = t.cycles
  BY DEF SetReg, Fit, Shaped, Fields
<1> HIDE DEF u
<1>2. \A j \in Regs : u.user[j] \in Data
  BY <1>1 DEF Sound, Worded, Fit, Shaped, On
<1> QED
  BY <1>1, <1>2 DEF Sound, Worded, Taken, u

LEMMA LoadUserSound ==
  ASSUME NEW t, Fit(t), NEW k, Sound(t, k), NEW n \in Regs, NEW v \in Data
  PROVE  Sound(LoadUser(t, Mode(t), n, v), k)
<1> DEFINE u == LoadUser(t, Mode(t), n, v)
<1>1. CASE n \notin Own(Mode(t))
  <2>1. u = SetReg(t, n, v)
    BY <1>1 DEF LoadUser, SetReg
  <2> QED
    BY <2>1, SetRegSound
<1>2. CASE n \in Own(Mode(t))
  <2>1. /\ u.cash = [t.cash EXCEPT ![n] = v] /\ u.user = t.user /\ u.bank = t.bank
        /\ u.ram = t.ram /\ u.nvram = t.nvram /\ u.cycles = t.cycles
    BY <1>2 DEF Fields, LoadUser, Shaped, Fit
  <2> HIDE DEF u
  <2>2. \A j \in 8 .. 14 : u.cash[j] \in Data
    BY <2>1 DEF Sound, Worded, Fit, Shaped, On
  <2> QED
    BY <2>1, <2>2 DEF Sound, Worded, Taken, u
<1> QED
  BY <1>1, <1>2

LEMMA RamSound ==
  ASSUME NEW t, Fit(t), NEW k, Sound(t, k), NEW m, MemoryWords(m)
  PROVE  Sound([t EXCEPT !.ram = m], k) /\ Sound([t EXCEPT !.nvram = m], k)
<1>1. ASSUME NEW u, u.user = t.user, u.cash = t.cash, u.bank = t.bank, u.cycles = t.cycles,
             MemoryWords(u.ram), MemoryWords(u.nvram)
      PROVE  Sound(u, k)
  BY <1>1 DEF Sound, Worded, Taken
<1>2. DOMAIN t = Fields
  BY DEF Fit, Shaped
<1>3. MemoryWords(t.ram) /\ MemoryWords(t.nvram)
  BY DEF Sound, Worded
<1>4. Sound([t EXCEPT !.ram = m], k)
  BY <1>1, <1>2, <1>3 DEF Fields
<1>5. Sound([t EXCEPT !.nvram = m], k)
  BY <1>1, <1>2, <1>3 DEF Fields
<1> QED
  BY <1>4, <1>5

LEMMA PcSound ==
  ASSUME NEW t, Fit(t), NEW k, Sound(t, k), NEW v \in Data
  PROVE  Sound([t EXCEPT !.user[15] = v], k)
<1>1. [t EXCEPT !.user[15] = v] = SetReg(t, 15, v)
  BY DEF SetReg
<1> QED
  BY <1>1, SetRegSound DEF Regs

LEMMA RegWord ==
  ASSUME NEW t, NEW k, Sound(t, k), NEW n \in Regs, NEW ahead \in Nat
  PROVE  Reg(t, n, ahead) \in Data /\ t.user[n] \in Data
<1>1. t.user[n] \in Data
  BY DEF Sound, Worded
<1>2. t.user[n] + (IF n = 15 THEN ahead ELSE 0) \in Int
  BY <1>1, DataIs
<1> QED
  BY <1>1, <1>2, Wrapped DEF Reg

(* A change of mode.                                                       *)
LEMMA SetModeSound ==
  ASSUME NEW t, Fit(t), NEW k, Sound(t, k), NEW bits \in ModeNumbers
  PROVE  Sound(SetMode(t, bits), k)
<1> DEFINE f == Bank(t)
           from == Mode(t)
           to == ModeOf(bits)
           g == ChangeMode(f, from, to)
           u == SetMode(t, bits)
           Words(h) == /\ \A n \in Regs : h.user[n] \in Data
                       /\ \A n \in 8 .. 14 : h.cash[n] \in Data
                       /\ \A m \in Banked : \A n \in Own(m) : h.bank[m][n] \in Data
<1>1. from \in Modes /\ to \in Modes
  BY ModeIn DEF Fit, Mode
<1>2. FileShaped(f) /\ Words(f)
  BY DEF Fit, Shaped, FileShaped, Bank, Sound, Worded
<1> HIDE DEF f, from, to
<1>3. \A m : Own(m) \subseteq Regs /\ Own(m) \subseteq 8 .. 14
  BY DEF Own, Regs
<1>4. \A m \in Banked : \A n \in Own(m) : Save(f, from)[m][n] \in Data
  <2>1. ASSUME NEW m \in Banked
        PROVE Save(f, from)[m] = IF m = from THEN [n \in Own(from) |-> f.user[n]] ELSE f.bank[m]
    BY <1>2 DEF FileShaped, BanksShaped, Save, On
  <2> QED
    BY <1>2, <1>3, <2>1
<1>5. Words(ToUser(f, from))
  BY <1>2, <1>3, <1>4 DEF ToUser
<1>6. Words(ToFiq(f, from))
  <2>1. "fiq" \in Banked
    BY DEF Banked
  <2> QED
    BY <1>2, <1>3, <1>4, <2>1 DEF ToFiq, Regs
<1>7. to \in Pairs => Words(ToPair(f, from, to))
  <2>1. Pairs \subseteq Banked
    BY DEF Banked
  <2> QED
    BY <1>2, <1>3, <1>4, <2>1 DEF ToPair, Regs
<1>8. Words(g)
  <2>1. to = "user" \/ to = "fiq" \/ to \in Pairs
    BY <1>1 DEF Modes, Banked
  <2>2. "user" # "fiq" /\ "user" \notin Pairs /\ "fiq" \notin Pairs
    BY DEF Pairs
  <2> HIDE DEF Words
  <2> QED
    BY <1>5, <1>6, <1>7, <2>1, <2>2 DEF ChangeMode
<1>9. /\ u.user = g.user /\ u.cash = g.cash /\ u.bank = g.bank
  BY SetModeFields DEF Fit, Shaped, f, from, to
<1>10. u.ram = t.ram /\ u.nvram = t.nvram /\ u.cycles = t.cycles
  <2> HIDE DEF g
  <2>1. u = [t EXCEPT !.user = g.user, !.cash = g.cash, !.bank = g.bank, !.psr.mode = bits]
    BY DEF SetMode, g, f, from, to, Bank
  <2> HIDE DEF u
  <2> QED
    BY <2>1 DEF Fit, Shaped, Fields
<1> HIDE DEF g, u
<1> QED
  BY <1>8, <1>9, <1>10 DEF Sound, Worded, Taken, u

LEMMA CpsrSetSound ==
  ASSUME NEW t, Fit(t), NEW k, Sound(t, k), NEW p, StatusShaped(p), p.mode \union {4} \in ModeNumbers
  PROVE  Sound(CpsrSet(t, p), k)
<1> DEFINE v == SetMode(t, p.mode \union {4})
<1>1. Sound(v, k) /\ Fit(v)
  <2>1. Shaped(v) /\ v.psr.mode = p.mode \union {4}
    <3>1. Shaped(t) /\ StatusShaped(t.psr) /\ DOMAIN t = Fields
      BY DEF Fit, Shaped
    <3>2. Shaped(v)
      BY <3>1, SetModeShaped
    <3>3. v.psr.mode = p.mode \union {4}
      BY <3>1, SetModeFields
    <3> QED
      BY <3>2, <3>3
  <2> QED
    BY <2>1, SetModeSound DEF Fit
<1> DEFINE q == [p EXCEPT !.mode = p.mode \union {4}]
<1>2. CpsrSet(t, p) = [v EXCEPT !.psr = q]
  BY DEF CpsrSet
<1> HIDE DEF v, q
<1>3. Sound([v EXCEPT !.psr = q], k)
  BY <1>1, AsideSound
<1> QED
  BY <1>2, <1>3

LEMMA TrapSound ==
  ASSUME NEW t, Fit(t), NEW k, Sound(t, k), NEW m \in Banked, NEW back \in Data, NEW vector \in Data
  PROVE  Sound(Trap(t, m, back, vector), k)
<1> DEFINE p == [t EXCEPT !.spsr[m] = t.psr, !.psr.i = TRUE]
           w == SetMode(p, ModeBits[m])
           u == SetReg(w, 14, back)
<1>1. m \in Modes
  BY DEF Modes
<1>2. /\ DOMAIN p = Fields /\ p.user = t.user /\ p.cash = t.cash /\ p.bank = t.bank
      /\ p.psr = [t.psr EXCEPT !.i = TRUE] /\ p.spsr = [t.spsr EXCEPT ![m] = t.psr]
      /\ p.ram = t.ram /\ p.nvram = t.nvram /\ p.cycles = t.cycles
  BY DEF Fit, Shaped, Fields
<1>3. /\ StatusShaped(p.psr) /\ p.psr.mode = t.psr.mode
      /\ DOMAIN p.spsr = Modes /\ \A j \in Modes : StatusShaped(p.spsr[j])
  <2>1. StatusShaped(t.psr) /\ DOMAIN t.spsr = Modes /\ \A j \in Modes : StatusShaped(t.spsr[j])
    BY DEF Fit, Shaped
  <2>2. StatusShaped([t.psr EXCEPT !.i = TRUE]) /\ [t.psr EXCEPT !.i = TRUE].mode = t.psr.mode
    BY <2>1, MaskKept
  <2> HIDE DEF p
  <2>3. StatusShaped(p.psr) /\ p.psr.mode = t.psr.mode
    BY <1>2, <2>2
  <2>4. DOMAIN p.spsr = Modes /\ \A j \in Modes : StatusShaped(p.spsr[j])
    BY <1>2, <2>1
  <2> QED
    BY <2>3, <2>4
<1> HIDE DEF p
<1>4. Fit(p) /\ Sound(p, k)
  BY <1>2, <1>3, SameSound DEF Fit, Shaped
<1>5. ModeBits[m] \in ModeNumbers
  BY <1>1, ModeOfMode
<1>6. Fit(w) /\ Sound(w, k)
  <2>1. Shaped(w)
    BY <1>4, <1>5, SetModeShaped DEF Fit
  <2>2. w.psr.mode = ModeBits[m]
    BY <1>2, <1>3, SetModeFields
  <2> QED
    BY <1>4, <1>5, <2>1, <2>2, SetModeSound DEF Fit
<1> HIDE DEF w
<1>7. Fit(u) /\ Sound(u, k)
  <2>1. 14 \in Regs
    BY DEF Regs
  <2> QED
    <3>1. Only(w, u, {Physical(Mode(w), 14)})
      BY <1>6, <2>1, SetRegWithin
    <3>2. Fit(u)
      BY <1>6, <3>1, StillFit
    <3>3. Sound(u, k)
      BY <1>6, <2>1, SetRegSound
    <3> QED
      BY <3>2, <3>3
<1>8. Trap(t, m, back, vector) = [u EXCEPT !.user[15] = vector]
  <2>1. DOMAIN w = Fields
    BY <1>6 DEF Fit, Shaped
  <2>2. Trap(t, m, back, vector) = [w EXCEPT !.user[14] = back, !.user[15] = vector]
    BY DEF Trap, w, p
  <2> QED
    BY <2>1, <2>2 DEF Fields, SetReg
<1> HIDE DEF u
<1> QED
  BY <1>7, <1>8, PcSound
-----------------------------------------------------------------------------
(* The small changes keep a machine sound, and the instructions made of    *)
(* them do, within their time.                                             *)
Fine(t, k) == Fit(t) /\ Sound(t, k)

LEMMA FineSet ==
  ASSUME NEW t, NEW k, Fine(t, k), NEW n \in Regs, NEW v \in Data PROVE Fine(SetReg(t, n, v), k)
<1>1. Only(t, SetReg(t, n, v), {Physical(Mode(t), n)})
  BY SetRegWithin DEF Fine
<1>2. Fit(SetReg(t, n, v))
  BY <1>1, StillFit DEF Fine
<1> QED
  BY <1>2, SetRegSound DEF Fine

LEMMA FineUser ==
  ASSUME NEW t, NEW k, Fine(t, k), NEW n \in Regs, NEW v \in Data
  PROVE  Fine(LoadUser(t, Mode(t), n, v), k) /\ Fine(PutUser(t, n, v), k)
<1>1. Only(t, LoadUser(t, Mode(t), n, v), {<<"user", n>>})
  BY LoadUserWithin DEF Fine
<1>2. Fit(LoadUser(t, Mode(t), n, v))
  BY <1>1, StillFit DEF Fine
<1>3. Fine(LoadUser(t, Mode(t), n, v), k)
  BY <1>2, LoadUserSound DEF Fine
<1>4. Fine(SetReg(t, n, v), k)
  BY FineSet
<1> QED
  BY <1>3, <1>4 DEF PutUser

LEMMA FinePsr ==
  ASSUME NEW t, NEW k, Fine(t, k), NEW p, StatusShaped(p), p.mode = t.psr.mode
  PROVE  Fine([t EXCEPT !.psr = p], k)
<1>1. Only(t, [t EXCEPT !.psr = p], {})
  BY PsrOnly DEF Fine
<1>2. Fit([t EXCEPT !.psr = p])
  BY <1>1, StillFit DEF Fine
<1> QED
  BY <1>2, AsideSound DEF Fine

LEMMA FineSpend ==
  ASSUME NEW t, NEW k \in Nat, Fine(t, k), NEW n \in Nat PROVE Fine(Spend(t, n), k + n)
<1>1. Only(t, t, {})
  BY Aside DEF Fine
<1>2. Only(t, Spend(t, n), {})
  BY <1>1, ThenSpend DEF Fine
<1>3. Fit(Spend(t, n))
  BY <1>2, StillFit DEF Fine
<1> QED
  BY <1>3, SpendSound DEF Fine, Fit, Shaped

LEMMA FineAside ==
  ASSUME NEW t, NEW k, Fine(t, k), NEW x
  PROVE  /\ Fine([t EXCEPT !.io = x], k) /\ Fine([t EXCEPT !.carry_out = x], k)
         /\ MemoryWords(x) => Fine([t EXCEPT !.ram = x], k) /\ Fine([t EXCEPT !.nvram = x], k)
<1>1. /\ Only(t, [t EXCEPT !.ram = x], {}) /\ Only(t, [t EXCEPT !.nvram = x], {})
      /\ Only(t, [t EXCEPT !.io = x], {}) /\ Only(t, [t EXCEPT !.carry_out = x], {})
  BY Aside DEF Fine
<1>2. /\ Fit([t EXCEPT !.ram = x]) /\ Fit([t EXCEPT !.nvram = x])
      /\ Fit([t EXCEPT !.io = x]) /\ Fit([t EXCEPT !.carry_out = x])
  BY <1>1, StillFit DEF Fine
<1>3. Sound([t EXCEPT !.io = x], k) /\ Sound([t EXCEPT !.carry_out = x], k)
  BY AsideSound DEF Fine
<1>4. MemoryWords(x) => Sound([t EXCEPT !.ram = x], k) /\ Sound([t EXCEPT !.nvram = x], k)
  BY RamSound DEF Fine
<1> QED
  BY <1>2, <1>3, <1>4 DEF Fine

LEMMA FineReg ==
  ASSUME NEW t, NEW k, Fine(t, k), NEW n \in Regs, NEW ahead \in Nat
  PROVE  Reg(t, n, ahead) \in Data /\ t.user[n] \in Data /\ ReadUser(t, Mode(t), n) \in Data
<1>1. Reg(t, n, ahead) \in Data /\ t.user[n] \in Data
  BY RegWord DEF Fine
<1>2. \A j \in 8 .. 14 : t.cash[j] \in Data
  BY DEF Fine, Sound, Worded
<1>3. Own(Mode(t)) \subseteq 8 .. 14
  BY DEF Own
<1> QED
  BY <1>1, <1>2, <1>3 DEF ReadUser

LEMMA FineMemory ==
  ASSUME NEW t, NEW k, Fine(t, k)
  PROVE  MemoryWords(t.ram) /\ MemoryWords(t.nvram) /\ MemoryWords(Rom)
BY ArmAssumption DEF Fine, Sound, Worded, MemoryWords

LEMMA AlignIs == ASSUME NEW a \in Nat PROVE Align(a) \in Nat /\ Align(a) <= a
BY DEF Align

LEMMA FineRead ==
  ASSUME NEW t, NEW k, Fine(t, k), NEW a, NEW v \in Data
  PROVE  Fine(ReadWord(t, a, v).s, k) /\ ReadWord(t, a, v).val \in Data
<1> DEFINE al == Align(a)
           d == Device(al, FALSE)
           seen == Access(t, d, "read", al)
           near == Within(al, \h3200000, \h2000)
           ram == Cell(t.ram, al)
           nvram == Cell(t.nvram, NvramIndex(al))
           rom == Cell(Rom, al % Megabyte)
<1>1. d \in {"ram", "madam", "clio", "sport", "diag", "nvram", "brooktree", "rom", "none"}
  BY SMT DEF Device
<1>2. ReadWord(t, a, v) =
        CASE d = "ram" -> Answer(t, ram)
          [] d \in {"madam", "clio", "diag"} -> Answer(seen, v)
          [] d = "sport" -> IF near THEN Answer(seen, 0) ELSE Answer(t, Bad)
          [] d = "nvram" -> Answer(t, nvram)
          [] d = "brooktree" -> Answer(t, Brooktree)
          [] d = "rom" -> Answer(t, rom)
          [] d = "none" -> Answer(t, Bad)
  BY DEF ReadWord
<1>3. Fine(seen, k)
  BY FineAside DEF Access
<1>4. ram \in Data /\ nvram \in Data /\ rom \in Data
  BY FineMemory, CellWord
<1>5. Bad \in Data
  BY Wrapped DEF Bad
<1>6. Brooktree \in Data /\ 0 \in Data
  BY SmallData DEF Brooktree
<1> HIDE DEF d, seen, near, ram, nvram, rom
<1>7. /\ ReadWord(t, a, v).s \in {t, seen}
      /\ ReadWord(t, a, v).val \in {ram, v, 0, Bad, nvram, Brooktree, rom}
  BY <1>1, <1>2, SMT DEF Answer
<1> QED
  BY <1>3, <1>4, <1>5, <1>6, <1>7

LEMMA FineWrite ==
  ASSUME NEW t, NEW k, Fine(t, k), NEW a, NEW v \in Data
  PROVE  Fine(WriteWord(t, a, v), k)
<1> DEFINE al == Align(a)
           d == Device(al, TRUE)
           seen == Access(t, d, "write", al)
           skip == d = "clio" /\ al = \h3400028 /\ v = \h30
           ram == Put(t.ram, al, v)
           nvram == Put(t.nvram, NvramIndex(al), v % Bytes)
           next == Wrap(seen.user[15] + 4)
<1>1. WriteWord(t, a, v) =
        CASE d = "ram" -> [t EXCEPT !.ram = ram]
          [] skip -> [seen EXCEPT !.user[15] = next]
          [] d = "nvram" -> [t EXCEPT !.nvram = nvram]
          [] d \in {"brooktree", "none"} -> t
          [] OTHER -> seen
  BY DEF WriteWord
<1>2. Fine(seen, k)
  BY FineAside DEF Access
<1>3. MemoryWords(ram)
  BY FineMemory, PutWords
<1>4. MemoryWords(nvram)
  <2>1. v % Bytes \in Data
    BY ByteSizes, DataIs, Remainder, BytesSmall
  <2> QED
    BY <2>1, FineMemory, PutWords
<1>5. Fine([t EXCEPT !.ram = ram], k) /\ Fine([t EXCEPT !.nvram = nvram], k)
  BY <1>3, <1>4, FineAside
<1>6. Fine([seen EXCEPT !.user[15] = next], k)
  <2> HIDE DEF seen
  <2>1. 15 \in Regs
    BY DEF Regs
  <2>2. seen.user[15] \in Nat
    BY <1>2, <2>1, FineReg, DataIs
  <2>3. next \in Data
    BY <2>2, Wrapped
  <2>4. [seen EXCEPT !.user[15] = next] = SetReg(seen, 15, next)
    BY DEF SetReg
  <2> QED
    BY <1>2, <2>1, <2>3, <2>4, FineSet
<1> HIDE DEF d, seen, skip, ram, nvram, next
<1> QED
  BY <1>1, <1>2, <1>5, <1>6, SMT

LEMMA FineReadByte ==
  ASSUME NEW t, NEW k, Fine(t, k), NEW a \in Data PROVE ReadByte(t, a) \in Data
<1> DEFINE ram == ByteOf(Cell(t.ram, Align(a)), a)
           rom == ByteOf(Cell(Rom, Align(a) % Megabyte), a)
           nvram == Cell(t.nvram, NvramIndex(a))
           inRam == Device(a, FALSE) = "ram"
           inRom == Device(a, FALSE) = "rom"
           inNvram == Within(a, \h3100000, Megabyte) /\ Bit(a, 18) = 1
<1>1. ReadByte(t, a) = CASE inRam -> ram [] inRom -> rom [] inNvram -> nvram [] OTHER -> Bad
  BY DEF ReadByte
<1>2. a \in Nat
  BY DataIs
<1>3. Cell(t.ram, Align(a)) \in Data /\ Cell(Rom, Align(a) % Megabyte) \in Data /\ nvram \in Data
  BY FineMemory, CellWord
<1>4. ram \in Data /\ rom \in Data
  BY <1>2, <1>3, ByteWord, BytesSmall
<1>5. Bad \in Data
  BY Wrapped DEF Bad
<1> HIDE DEF inRam, inRom, inNvram, ram, rom, nvram
<1> QED
  BY <1>1, <1>3, <1>4, <1>5, SMT

LEMMA FineWriteByte ==
  ASSUME NEW t, NEW k, Fine(t, k), NEW a \in Data, NEW v \in Data
  PROVE  Fine(WriteByte(t, a, v), k)
<1> DEFINE old == Cell(t.ram, Align(a))
           byte == v % Bytes
           x == old + (byte - ByteOf(old, a)) * Place(a)
           ram == Put(t.ram, Align(a), x)
           nvram == Put(t.nvram, NvramIndex(a), byte)
           inRam == Device(a, TRUE) = "ram"
           inNvram == Within(a, \h3100000, Megabyte) /\ Bit(a, 18) = 1
<1>1. WriteByte(t, a, v) =
        CASE inRam -> [t EXCEPT !.ram = ram]
          [] inNvram -> [t EXCEPT !.nvram = nvram]
          [] OTHER -> t
  BY DEF WriteByte
<1>2. a \in Nat /\ byte \in Nat /\ byte < Bytes
  BY ByteSizes, DataIs, Remainder
<1>3. old \in Data
  BY FineMemory, CellWord
<1> HIDE DEF byte, old
<1>4. x \in Data /\ byte \in Data
  BY <1>2, <1>3, PatchedWord, BytesSmall
<1> HIDE DEF x
<1>5. MemoryWords(ram) /\ MemoryWords(nvram)
  BY <1>4, FineMemory, PutWords
<1> HIDE DEF inRam, inNvram, ram, nvram
<1>6. Fine([t EXCEPT !.ram = ram], k) /\ Fine([t EXCEPT !.nvram = nvram], k)
  BY <1>5, FineAside
<1> QED
  BY <1>1, <1>6, SMT

LEMMA FineFetch ==
  ASSUME NEW t, NEW k, Fine(t, k), NEW byte \in BOOLEAN, NEW a \in Data, NEW v \in Data
  PROVE  Fine(Fetch(t, byte, a, v).s, k) /\ Fetch(t, byte, a, v).val \in Data
BY FineRead, FineReadByte DEF Fetch, Answer

LEMMA FineStoreAt ==
  ASSUME NEW t, NEW k, Fine(t, k), NEW byte \in BOOLEAN, NEW a \in Data, NEW v \in Data
  PROVE  Fine(StoreAt(t, byte, a, v), k)
BY FineWrite, FineWriteByte DEF StoreAt

LEMMA TurnedWord ==
  ASSUME NEW i, NEW a \in Data, NEW x \in Data PROVE Turned(i, a, x) \in Data
<1>1. B \in Nat /\ 4 * B <= W /\ B >= 1 /\ a \in Nat
  BY ByteSizes, DataIs
<1>2. a % 4 \in {0, 1, 2, 3}
  BY <1>1
<1>3. B * (a % 4) \in Nat /\ B * (a % 4) < W
  BY <1>1, <1>2, Sizes
<1> QED
  BY <1>3, RotateWord DEF Turned

LEMMA FineOperand ==
  ASSUME NEW t, NEW k, Fine(t, k), NEW o \in Operands
  PROVE  Fine(Operand(t, o).s, k) /\ Operand(t, o).val \in Data
<1> DEFINE x == Reg(t, o.rm, Ahead(o))
           sh == IF o.kind = "by" THEN [type |-> o.type, n |-> Reg(t, o.rs, 4) % 256]
                 ELSE ImmediateShift(o.type, o.n)
           r == Shifted(sh.type, x, sh.n, t.psr.c)
<1>1. Operand(t, o) = IF o.kind = "imm" THEN Answer(t, o.val)
                      ELSE Answer([t EXCEPT !.carry_out = r.carry], r.val)
  BY DEF Operand
<1>2. CASE o \in [kind : {"imm"}, val : Data]
  <2>1. o.kind = "imm" /\ o.val \in Data
    BY <1>2
  <2> HIDE DEF r
  <2> QED
    BY <1>1, <2>1 DEF Answer
<1>3. CASE o \notin [kind : {"imm"}, val : Data]
  <2>1. \/ o.kind = "reg" /\ o.rm \in Regs /\ o.type \in 0 .. 3 /\ o.n \in 0 .. 31
        \/ o.kind = "by" /\ o.rm \in Regs /\ o.rs \in Regs /\ o.type \in 0 .. 3
    BY <1>3 DEF Operands
  <2>2. x \in Data
    BY <2>1, FineReg DEF Ahead
  <2>3. sh.type \in 0 .. 4 /\ sh.n \in Nat
    <3>1. CASE o.kind = "by"
      <4>1. Reg(t, o.rs, 4) \in Nat
        BY <2>1, <3>1, FineReg, DataIs
      <4>2. Reg(t, o.rs, 4) % 256 \in Nat
        BY <4>1
      <4> QED
        BY <2>1, <3>1, <4>2
    <3>2. CASE o.kind = "reg"
      BY <2>1, <3>2, Sizes DEF ImmediateShift
    <3> QED
      BY <2>1, <3>1, <3>2
  <2> HIDE DEF sh, x
  <2>4. r.val \in Data
    BY <2>2, <2>3, ShiftedWord
  <2> HIDE DEF r
  <2>5. Fine([t EXCEPT !.carry_out = r.carry], k)
    BY FineAside
  <2> QED
    BY <1>1, <2>1, <2>4, <2>5 DEF Answer
<1> QED
  BY <1>2, <1>3
-----------------------------------------------------------------------------
LEMMA ListSize ==
  ASSUME NEW list \in SUBSET Regs PROVE Cardinality(list) \in Nat /\ Cardinality(list) <= 16
<1>1. IsFiniteSet(0 .. 15) /\ Cardinality(0 .. 15) = 16
  <2> DEFINE a == 0
             b == 15
  <2>1. /\ IsFiniteSet(a .. b)
        /\ Cardinality(a .. b) = (IF a > b THEN 0 ELSE b - a + 1)
    <3>1. a \in Int /\ b \in Int
      OBVIOUS
    <3> HIDE DEF a, b
    <3> QED
      BY <3>1, FS_Interval, ZenonT(60)
  <2> QED
    BY <2>1
<1> QED
  BY <1>1, FS_Subset, FS_CardinalityType DEF Regs

LEMMA MultiplySound ==
  ASSUME NEW t, Fine(t, 1), NEW i \in MulInsns PROVE Sound(Multiply(t, i), 17)
<1> DEFINE product == IF i.rd = i.rm THEN 0 ELSE LowProduct(W, t.user[i.rm], t.user[i.rs])
           y == IF i.acc THEN Add(H, product, Reg(t, i.rn, 8), 0) ELSE product
           u == IF i.s THEN [t EXCEPT !.psr = SetZN(t.psr, y)] ELSE t
           n == MulCycles(t.user[i.rs])
<1>1. Multiply(t, i) = SetReg(Spend(u, n), i.rd, y)
  BY DEF Multiply
<1>2. i.rd \in Regs /\ i.rm \in Regs /\ i.rs \in Regs /\ i.rn \in Regs
  BY DEF MulInsns
<1>3. /\ t.user[i.rm] \in Data /\ t.user[i.rs] \in Data /\ Reg(t, i.rn, 8) \in Data
  BY <1>2, FineReg
<1>4. product \in Data
  BY <1>3, ProductWord, SmallData
<1> HIDE DEF product
<1>5. y \in Data
  BY <1>3, <1>4, SumWords
<1>6. n \in Nat /\ n <= 16
  BY <1>3, MulCyclesAre
<1> HIDE DEF y, n
<1>7. Fine(u, 1)
  <2>1. StatusShaped(SetZN(t.psr, y)) /\ SetZN(t.psr, y).mode = t.psr.mode
    BY StatusKept DEF Fine, Fit, Shaped
  <2> QED
    BY <2>1, FinePsr
<1> HIDE DEF u
<1>8. Fine(Spend(u, n), 1 + n)
  BY <1>6, <1>7, FineSpend
<1>9. Sound(SetReg(Spend(u, n), i.rd, y), 1 + n)
  BY <1>2, <1>5, <1>8, FineSet DEF Fine
<1> QED
  BY <1>1, <1>6, <1>9, MoreSound

LEMMA SwapSound ==
  ASSUME NEW t, Fine(t, 1), NEW i \in SwapInsns, NEW v \in Data PROVE Sound(Swap(t, i, v), 10)
<1> DEFINE a == Reg(t, i.rn, 4)
           r == Fetch(t, i.byte, a, v)
           u == StoreAt(r.s, i.byte, a, Reg(t, i.rm, 8))
           x == Turned(i, a, r.val)
<1>1. Swap(t, i, v) = SetReg(Spend(u, 9), i.rd, x)
  BY DEF Swap, SwapFrom, SwapAt
<1>2. i.rd \in Regs /\ i.byte \in BOOLEAN /\ i.rn \in Regs /\ i.rm \in Regs
  BY DEF SwapInsns
<1>3. a \in Data /\ Reg(t, i.rm, 8) \in Data
  BY <1>2, FineReg
<1> HIDE DEF a
<1>4. Fine(r.s, 1) /\ r.val \in Data
  BY <1>2, <1>3, FineFetch
<1> HIDE DEF r
<1>5. Fine(u, 1) /\ x \in Data
  BY <1>2, <1>3, <1>4, FineStoreAt, TurnedWord
<1> HIDE DEF u, x
<1>6. Fine(Spend(u, 9), 10)
  BY <1>5, FineSpend
<1> QED
  BY <1>1, <1>2, <1>5, <1>6, FineSet DEF Fine

LEMMA TransferSound ==
  ASSUME NEW t, Fine(t, 1), NEW i \in TransferInsns, NEW v \in Data
  PROVE  Sound(Transfer(t, i, v), 11)
<1> DEFINE o == Operand(t, i.o2)
           base == Reg(t, i.rn, Ahead(i.o2))
           moved == Moved(i, base, o.val)
           a == IF i.pre THEN moved ELSE base
           r == Fetch(o.s, i.byte, a, v)
           x == Turned(i, a, r.val)
           u == Based(r.s, i, moved)
           z == StoredOne(t, i)
           w == StoreAt(o.s, i.byte, a, z)
           n == IF i.rd = 15 THEN 10 ELSE 5
<1>1. Transfer(t, i, v) = IF i.load THEN LoadOne(t, i, u, x) ELSE Spend(Based(w, i, moved), 7)
  BY DEF Transfer, TransferBy, Indexed, TransferAt, LoadFrom
<1>2. /\ i.rd \in Regs /\ i.rn \in Regs /\ i.byte \in BOOLEAN
      /\ i.load \in BOOLEAN /\ i.o2 \in Operands
  BY DEF TransferInsns
<1>3. base \in Data /\ z \in Data
  BY <1>2, FineReg DEF Ahead, StoredOne
<1>4. Fine(o.s, 1) /\ o.val \in Data
  BY <1>2, FineOperand
<1>5. Mode(o.s) = Mode(t)
  BY OperandOnly, Then DEF Fine
<1> HIDE DEF o, base, z
<1>6. moved \in Data
  BY <1>3, <1>4, SumWords DEF Moved
<1> HIDE DEF moved
<1>7. a \in Data
  BY <1>3, <1>6
<1> HIDE DEF a
<1>8. Fine(r.s, 1) /\ r.val \in Data /\ Mode(r.s) = Mode(t)
  <2>1. Only(o.s, r.s, {})
    BY <1>2, <1>4, FetchOnly DEF Fine
  <2>2. Mode(r.s) = Mode(o.s)
    BY <1>4, <2>1, Then DEF Fine
  <2> QED
    BY <1>2, <1>4, <1>5, <1>7, <2>2, FineFetch
<1>9. Fine(w, 1)
  BY <1>2, <1>3, <1>4, <1>7, FineStoreAt
<1> HIDE DEF r, w
<1>10. x \in Data
  BY <1>7, <1>8, TurnedWord
<1>11. Fine(u, 1) /\ Mode(u) = Mode(t)
  BY <1>2, <1>6, <1>8, FineSet DEF Based, SetReg, Mode, Fine, Fit, Shaped, Fields
<1>12. Fine(Based(w, i, moved), 1)
  BY <1>2, <1>6, <1>9, FineSet DEF Based
<1> HIDE DEF u, x, n
<1>13. Sound(LoadOne(t, i, u, x), 11)
  <2> DEFINE y == IF AsUser(i) THEN LoadUser(u, Mode(t), i.rd, x) ELSE SetReg(u, i.rd, x)
  <2>1. Fine(y, 1)
    BY <1>2, <1>10, <1>11, FineSet, FineUser
  <2>2. n \in Nat /\ n <= 10
    BY DEF n
  <2>3. LoadOne(t, i, u, x) = Spend(y, n)
    BY DEF LoadOne, n
  <2> HIDE DEF y
  <2>4. Fine(Spend(y, n), 1 + n)
    BY <2>1, <2>2, FineSpend
  <2> QED
    BY <2>2, <2>3, <2>4, MoreSound DEF Fine
<1>14. Sound(Spend(Based(w, i, moved), 7), 11)
  BY <1>12, FineSpend, MoreSound DEF Fine
<1> QED
  BY <1>1, <1>2, <1>13, <1>14

LEMMA BranchSound ==
  ASSUME NEW t, Fine(t, 1), NEW i, i.offset \in Int PROVE Sound(Branch(t, i), 6)
<1> DEFINE u == IF i.link THEN SetReg(t, 14, t.user[15]) ELSE t
           pc == Wrap(t.user[15] + 4 + i.offset)
<1>1. Branch(t, i) = Spend(SetReg(u, 15, pc), 5)
  BY DEF Branch
<1>2. 14 \in Regs /\ 15 \in Regs
  BY DEF Regs
<1>3. t.user[15] \in Data
  BY <1>2, FineReg
<1>4. pc \in Data
  BY <1>3, DataIs, Wrapped
<1>5. Fine(u, 1)
  BY <1>2, <1>3, FineSet
<1> HIDE DEF u, pc
<1>6. Fine(SetReg(u, 15, pc), 1)
  BY <1>2, <1>4, <1>5, FineSet
<1> QED
  BY <1>1, <1>6, FineSpend DEF Fine

LEMMA UndefinedSound == ASSUME NEW t, Fine(t, 1) PROVE Sound(Undefined(t), 6)
<1> DEFINE u == Trap(t, "und", t.user[15], 4)
<1>1. "und" \in Banked /\ 15 \in Regs
  BY DEF Banked, Pairs, Regs
<1>2. t.user[15] \in Data /\ 4 \in Data
  BY <1>1, FineReg, SmallData
<1>3. Fine(u, 1)
  BY <1>1, <1>2, TrapSound, TrapLands DEF Fine
<1> HIDE DEF u
<1> QED
  BY <1>3, FineSpend DEF Fine, Undefined, u

LEMMA SwiSound == ASSUME NEW t, Fine(t, 1), NEW i PROVE Sound(Swi(t, i), 6)
<1>1. "svc" \in Banked /\ 15 \in Regs
  BY DEF Banked, Pairs, Regs
<1>2. CASE Software[sw].hle /\ i.number \in Hle
  <2> DEFINE x == HleAnswer(t.ram, i.number, t.user)
             u == SetReg(t, 0, x)
             m == HleStore(t.ram, i.number, t.user)
  <2>1. Swi(t, i) = Spend([u EXCEPT !.ram = m], 5)
    BY <1>2 DEF Swi
  <2>2. 0 \in Regs /\ 1 \in Regs /\ 2 \in Regs /\ 3 \in Regs
    BY DEF Regs
  <2>3. /\ MemoryWords(t.ram) /\ t.user[0] \in Data /\ t.user[1] \in Data
        /\ t.user[2] \in Data /\ t.user[3] \in Data
    BY <2>2, FineMemory, FineReg
  <2>4. x \in Data
    BY <2>3, AnswerWord
  <2>5. MemoryWords(m)
    BY <2>3, HleWords
  <2> HIDE DEF x, m
  <2>6. Fine(u, 1)
    BY <2>2, <2>4, FineSet
  <2> HIDE DEF u
  <2>7. Fine([u EXCEPT !.ram = m], 1)
    BY <2>5, <2>6, FineAside
  <2> QED
    BY <2>1, <2>7, FineSpend DEF Fine
<1>3. CASE ~(Software[sw].hle /\ i.number \in Hle)
  <2> DEFINE u == Trap(t, "svc", t.user[15], 8)
  <2>1. Swi(t, i) = Spend(u, 5)
    BY <1>3 DEF Swi
  <2>2. t.user[15] \in Data /\ 8 \in Data
    BY <1>1, FineReg, SmallData
  <2>3. Fine(u, 1)
    BY <1>1, <2>2, TrapSound, TrapLands DEF Fine
  <2> HIDE DEF u
  <2> QED
    BY <2>1, <2>3, FineSpend DEF Fine
<1> QED
  BY <1>2, <1>3
-----------------------------------------------------------------------------
(* An instruction may give the status a mode that is none; nothing is said *)
(* of the machine then.                                                    *)
Ends(t, k) == DOMAIN t = Fields /\ (t.psr.mode \in ModeNumbers => Sound(t, k))

LEMMA FineEnds == ASSUME NEW t, NEW k, Fine(t, k) PROVE Ends(t, k)
BY DEF Fine, Fit, Shaped, Ends

LEMMA SpendEnds ==
  ASSUME NEW t, NEW k \in Nat, Ends(t, k), NEW n \in Nat PROVE Ends(Spend(t, n), k + n)
<1>1. DOMAIN Spend(t, n) = Fields /\ Spend(t, n).psr = t.psr
  BY DEF Ends, Spend, Fields
<1>2. Sound(t, k) => Sound(Spend(t, n), k + n)
  BY SpendSound DEF Ends
<1> QED
  BY <1>1, <1>2 DEF Ends

LEMMA MoreEnds ==
  ASSUME NEW t, NEW k \in Nat, NEW l \in Nat, k <= l, Ends(t, k) PROVE Ends(t, l)
BY MoreSound DEF Ends

LEMMA CpsrSetEnds ==
  ASSUME NEW t, NEW k, Fine(t, k), NEW p, StatusShaped(p) PROVE Ends(CpsrSet(t, p), k)
<1>1. DOMAIN CpsrSet(t, p) = Fields /\ CpsrSet(t, p).psr.mode = p.mode \union {4}
  BY CpsrSetFields DEF Fine, Fit, Shaped
<1>2. p.mode \union {4} \in ModeNumbers => Sound(CpsrSet(t, p), k)
  BY CpsrSetSound DEF Fine
<1> QED
  BY <1>1, <1>2 DEF Ends

LEMMA RestoreEnds == ASSUME NEW t, NEW k, Fine(t, k) PROVE Ends(Restore(t), k)
<1>1. Mode(t) \in Modes /\ StatusShaped(t.spsr[Mode(t)])
  BY ModeIn DEF Fine, Fit, Shaped, Mode
<1> QED
  BY <1>1, CpsrSetEnds DEF Restore

LEMMA MoveToPsrEnds ==
  ASSUME NEW t, NEW k, Fine(t, k), NEW i \in AluInsns, NEW val
  PROVE  Ends(MoveToPsr(t, i, val), k)
<1> DEFINE q == Psr(val) m == Mode(t)
<1>1. StatusShaped(q)
  BY DEF Psr, StatusShaped, StatusFields, On
<1> HIDE DEF q, m
<1>2. ASSUME NEW x PROVE Ends([t EXCEPT !.spsr[m] = x], k)
  <2> DEFINE sp == [t.spsr EXCEPT ![m] = x]
  <2>1. Sound([t EXCEPT !.spsr = sp], k)
    BY AsideSound DEF Fine
  <2>2. [t EXCEPT !.spsr[m] = x] = [t EXCEPT !.spsr = sp]
    BY DEF Fine, Fit, Shaped, Fields
  <2>3. DOMAIN [t EXCEPT !.spsr = sp] = Fields
    BY DEF Fine, Fit, Shaped
  <2> HIDE DEF sp
  <2> QED
    BY <2>1, <2>2, <2>3 DEF Ends
<1>3. Ends([t EXCEPT !.psr = FlagsOnly(t.psr, q)], k)
  <2>1. StatusShaped(FlagsOnly(t.psr, q)) /\ FlagsOnly(t.psr, q).mode = t.psr.mode
    BY StatusKept DEF Fine, Fit, Shaped
  <2> QED
    BY <2>1, FinePsr, FineEnds
<1>4. Ends(CpsrSet(t, q), k)
  BY <1>1, CpsrSetEnds
<1>5. MoveToPsr(t, i, val) =
        IF i.rn % 2 = 0 \/ m = "user"
        THEN IF i.code = 11 THEN [t EXCEPT !.spsr[m] = FlagsOnly(t.spsr[m], q)]
             ELSE [t EXCEPT !.psr = FlagsOnly(t.psr, q)]
        ELSE IF i.code = 11 THEN [t EXCEPT !.spsr[m] = q] ELSE CpsrSet(t, q)
  BY DEF MoveToPsr, q, m
<1> QED
  BY <1>2, <1>3, <1>4, <1>5

LEMMA AluEnds ==
  ASSUME NEW t, Fine(t, 1), NEW i \in AluInsns PROVE Ends(Alu(t, i), 7)
<1> DEFINE o == Operand(t, i.o2)
           a == Reg(t, i.rn, Ahead(i.o2))
           u == Carried(i, o.s)
           y == Result(i.code, a, o.val, u.psr.c)
           f == Flagged(i, u, a, o.val, y)
           w == Settled(i, u, o.val, f, y)
           n == IF i.o2.kind = "by" THEN 1 ELSE 0
<1>1. Alu(t, i) = Spend(w, n)
  BY DEF Alu, AluWith, Combined, Computed
<1>2. n \in Nat /\ 6 + n <= 7
  OBVIOUS
<1>3. /\ i.code \in 0 .. 15 /\ i.s \in BOOLEAN /\ i.rd \in Regs /\ i.rn \in Regs
      /\ i.o2 \in Operands
  BY DEF AluInsns
<1>4. Fine(o.s, 1) /\ o.val \in Data
  BY <1>3, FineOperand
<1>5. a \in Data
  BY <1>3, FineReg DEF Ahead
<1> HIDE DEF o, a
<1>6. Fine(u, 1)
  <2>1. StatusShaped([o.s.psr EXCEPT !.c = o.s.carry_out])
        /\ [o.s.psr EXCEPT !.c = o.s.carry_out].mode = o.s.psr.mode
    BY <1>4, StatusKept DEF Fine, Fit, Shaped
  <2>2. Fine([o.s EXCEPT !.psr = [o.s.psr EXCEPT !.c = o.s.carry_out]], 1)
    BY <1>4, <2>1, FinePsr
  <2>3. Fine([o.s EXCEPT !.psr.c = o.s.carry_out], 1)
    BY <2>2
  <2> QED
    BY <1>4, <2>3 DEF Carried
<1> HIDE DEF u
<1>7. y \in Data
  BY <1>3, <1>4, <1>5, ResultWord
<1> HIDE DEF y
<1>8. Fine(f, 1)
  <2>1. StatusShaped(u.psr)
    BY <1>6 DEF Fine, Fit, Shaped
  <2>2. Fine([u EXCEPT !.psr = Flags(u.psr, i.code, a, o.val, y)], 1)
    BY <1>3, <1>6, <2>1, FlagsKept, FinePsr
  <2> QED
    BY <1>6, <2>2 DEF Flagged
<1> HIDE DEF f
<1>9. Ends(w, 6)
  <2>1. CASE i.code \in {8, 10} /\ ~i.s
    <3>1. w = MoveFromPsr(u, i)
      BY <2>1 DEF Settled, IsCompare
    <3>2. Fine(MoveFromPsr(u, i), 1)
      BY <1>3, <1>6, StatusWord, FineSet DEF MoveFromPsr
    <3> QED
      BY <3>1, <3>2, FineEnds, MoreEnds
  <2>2. CASE i.code \in {9, 11} /\ ~i.s
    <3>1. w = MoveToPsr(u, i, o.val)
      BY <2>2 DEF Settled, IsCompare
    <3> QED
      BY <1>6, <3>1, MoveToPsrEnds, MoreEnds
  <2>3. CASE i.code \in IsCompare /\ i.s
    <3>1. w = f
      BY <2>3 DEF Settled, IsCompare
    <3> QED
      BY <1>8, <3>1, FineEnds, MoreEnds
  <2>4. CASE i.code \notin IsCompare /\ i.rd # 15
    <3>1. w = SetReg(f, i.rd, y)
      BY <2>4 DEF Settled, IsCompare
    <3>2. Fine(SetReg(f, i.rd, y), 1)
      BY <1>3, <1>7, <1>8, FineSet
    <3> QED
      BY <3>1, <3>2, FineEnds, MoreEnds
  <2>5. CASE i.code \notin IsCompare /\ i.rd = 15
    <3> DEFINE g == SetReg(f, 15, y)
    <3>1. w = Spend(IF i.s THEN Restore(g) ELSE g, 5)
      BY <2>5 DEF Settled, IsCompare
    <3>2. Fine(g, 1)
      BY <1>3, <1>7, <1>8, <2>5, FineSet
    <3> HIDE DEF g
    <3>3. Ends(g, 1) /\ Ends(Restore(g), 1)
      BY <3>2, FineEnds, RestoreEnds
    <3>4. Ends(Spend(g, 5), 6) /\ Ends(Spend(Restore(g), 5), 6)
      BY <3>3, SpendEnds
    <3> QED
      BY <3>1, <3>4
  <2> HIDE DEF w
  <2> QED
    BY <1>3, <2>1, <2>2, <2>3, <2>4, <2>5 DEF IsCompare
<1> HIDE DEF w, n
<1> QED
  BY <1>1, <1>2, <1>9, SpendEnds, MoreEnds

(* The block transfers.                                                    *)
LEMMA BlockWords ==
  ASSUME NEW i \in BlockInsns, NEW base \in Data
  PROVE  /\ Beyond(i, base) \in Data /\ Cardinality(i.list) \in Nat /\ Cardinality(i.list) <= 16
         /\ i.rn \in Regs /\ i.wb \in BOOLEAN /\ i.user \in BOOLEAN
<1>1. i.list \in SUBSET Regs /\ i.rn \in Regs /\ i.wb \in BOOLEAN /\ i.user \in BOOLEAN
  BY DEF BlockInsns
<1>2. Cardinality(i.list) \in Nat /\ Cardinality(i.list) <= 16
  BY <1>1, ListSize
<1>3. base + Span(i) \in Int /\ base - Span(i) \in Int
  BY <1>2, DataIs DEF Span
<1> QED
  BY <1>1, <1>2, <1>3, Wrapped DEF Beyond

LEMMA FineGiven ==
  ASSUME NEW t, NEW k, Fine(t, k), NEW i \in BlockInsns, NEW n \in Regs, NEW x \in Data
  PROVE  Fine(Given(i, t, n, x), k) /\ Fine(NewBase(i, t, x), k)
<1>1. i.rn \in Regs
  BY DEF BlockInsns
<1> QED
  BY <1>1, FineSet, FineUser DEF Given, NewBase

LEMMA FineLoadOf ==
  ASSUME NEW t, NEW k, Fine(t, k), NEW i \in BlockInsns, NEW base, NEW n \in Regs, NEW v \in Data
  PROVE  Fine(LoadOf(i, t, base, n, v), k)
<1> DEFINE r == ReadWord(t, WordOf(i, base, n), v)
<1>1. Fine(r.s, k) /\ r.val \in Data
  BY FineRead
<1> HIDE DEF r
<1>2. Fine(GivenWord(i, r, n), k)
  BY <1>1, FineGiven DEF GivenWord
<1> QED
  BY <1>2 DEF LoadOf, r

LEMMA FineStoreOf ==
  ASSUME NEW t, NEW k, Fine(t, k), NEW i \in BlockInsns, NEW base, NEW n \in Regs
  PROVE  Fine(StoreOf(i, t, base, n), k)
<1> DEFINE x == IF n = 15 THEN Wrap(t.user[15] + 8)
                ELSE IF i.user THEN GetUser(t, n) ELSE t.user[n]
<1>1. 15 \in Regs
  BY DEF Regs
<1>2. t.user[15] \in Data
  BY <1>1, FineReg
<1>3. Wrap(t.user[15] + 8) \in Data
  BY <1>2, DataIs, Wrapped
<1>4. t.user[n] \in Data /\ GetUser(t, n) \in Data
  BY FineReg DEF GetUser
<1>5. x \in Data
  BY <1>3, <1>4
<1> HIDE DEF x
<1>6. Fine(WriteWord(t, WordOf(i, base, n), x), k)
  BY <1>5, FineWrite
<1> QED
  BY <1>6 DEF StoreOf, x

LEMMA LoadRunFine ==
  ASSUME NEW i \in BlockInsns, NEW x, NEW k, Fine(x, k), NEW base, NEW v \in Data,
         NEW f, LoadRun(f, 16, i, x, base, v)
  PROVE  Fine(f[16], k)
<1> DEFINE Wrong == {n \in Nat : n <= 16 /\ ~Fine(f[n], k)}
<1>1. SUFFICES ASSUME Wrong # {} PROVE FALSE
  OBVIOUS
<1>2. PICK m \in Wrong : \A n \in Wrong : m <= n
  BY <1>1, Least
<1>3. f[m] = IF m = 0 THEN x ELSE LoadOf(i, f[m - 1], base, m - 1, v)
  <2>1. m \in 0 .. 16
    BY <1>2
  <2> QED
    BY <2>1 DEF LoadRun
<1>4. m # 0
  BY <1>2, <1>3
<1>5. m - 1 \in Nat /\ m - 1 <= 15 /\ m - 1 \notin Wrong
  BY <1>2, <1>4
<1>6. m - 1 \in Regs /\ Fine(f[m - 1], k)
  BY <1>5 DEF Regs
<1>7. Fine(f[m], k)
  BY <1>3, <1>4, <1>6, FineLoadOf
<1> QED
  BY <1>2, <1>7

LEMMA StoreRunFine ==
  ASSUME NEW i \in BlockInsns, NEW x, NEW k, Fine(x, k), NEW base,
         NEW f, StoreRun(f, 15, i, x, base)
  PROVE  Fine(f[15], k)
<1> DEFINE Wrong == {n \in Nat : n <= 15 /\ ~Fine(f[n], k)}
<1>1. SUFFICES ASSUME Wrong # {} PROVE FALSE
  OBVIOUS
<1>2. PICK m \in Wrong : \A n \in Wrong : m <= n
  BY <1>1, Least
<1>3. f[m] = IF m = 0 THEN x ELSE StoreOf(i, f[m - 1], base, m - 1)
  <2>1. m \in 0 .. 15
    BY <1>2
  <2> QED
    BY <2>1 DEF StoreRun
<1>4. m # 0
  BY <1>2, <1>3
<1>5. m - 1 \in Nat /\ m - 1 <= 14 /\ m - 1 \notin Wrong
  BY <1>2, <1>4
<1>6. m - 1 \in Regs /\ Fine(f[m - 1], k)
  BY <1>5 DEF Regs
<1>7. Fine(f[m], k)
  BY <1>3, <1>4, <1>6, FineStoreOf
<1> QED
  BY <1>2, <1>7

LEMMA LoadBlockEnds ==
  ASSUME NEW t, Fine(t, 1), NEW i \in BlockInsns, NEW v \in Data
  PROVE  Ends(LoadBlock(t, i, v), 26)
<1> DEFINE base == Reg(t, i.rn, 8)
           x == IF i.wb THEN Given(i, t, i.rn, Beyond(i, base)) ELSE t
           f == CHOOSE f : LoadRun(f, 16, i, x, base, v)
           n == Cardinality(i.list) + 4 + (IF 15 \in i.list THEN 5 ELSE 0)
<1>1. LoadBlock(t, i, v) = Spend(RestoredBy(i, f[16]), n)
  BY DEF LoadBlock, LoadRun
<1>2. LoadRun(f, 16, i, x, base, v)
  BY LoadRunExists
<1>3. i.rn \in Regs
  BY DEF BlockInsns
<1>4. base \in Data
  BY <1>3, FineReg
<1> HIDE DEF f, base
<1>5. /\ Beyond(i, base) \in Data
      /\ n \in Nat /\ 1 + n <= 26
  BY <1>4, BlockWords
<1> HIDE DEF n
<1>6. Fine(x, 1)
  BY <1>3, <1>5, FineGiven
<1> HIDE DEF x
<1>7. Fine(f[16], 1)
  BY <1>2, <1>6, LoadRunFine
<1>8. Ends(RestoredBy(i, f[16]), 1)
  BY <1>7, FineEnds, RestoreEnds DEF RestoredBy
<1> QED
  BY <1>1, <1>5, <1>8, SpendEnds, MoreEnds

LEMMA StoreBlockSound ==
  ASSUME NEW t, Fine(t, 1), NEW i \in BlockInsns PROVE Fine(StoreBlock(t, i), 26)
<1> DEFINE base == Reg(t, i.rn, 8)
           back == Beyond(i, base)
           x == IF \E n \in i.list : n < i.rn THEN NewBase(i, t, back) ELSE t
           f == CHOOSE f : StoreRun(f, 15, i, x, base)
           n == Cardinality(i.list) + 6
           u == NewBase(i, f[15], back)
<1>1. StoreBlock(t, i) = Spend(StoreOf(i, u, base, 15), n)
  BY DEF StoreBlock, StoreRun
<1>2. StoreRun(f, 15, i, x, base)
  BY StoreRunExists
<1>3. i.rn \in Regs /\ 15 \in Regs
  BY DEF BlockInsns, Regs
<1>4. base \in Data
  BY <1>3, FineReg
<1> HIDE DEF f, base
<1>5. back \in Data /\ n \in Nat /\ 1 + n <= 26
  BY <1>4, BlockWords
<1> HIDE DEF n, back
<1>6. Fine(x, 1)
  BY <1>3, <1>5, FineGiven
<1> HIDE DEF x
<1>7. Fine(f[15], 1)
  BY <1>2, <1>6, StoreRunFine
<1>8. Fine(u, 1)
  BY <1>3, <1>5, <1>7, FineGiven
<1> HIDE DEF u
<1>9. Fine(StoreOf(i, u, base, 15), 1)
  BY <1>3, <1>8, FineStoreOf
<1>10. Fine(Spend(StoreOf(i, u, base, 15), n), 1 + n)
  BY <1>5, <1>9, FineSpend
<1> QED
  BY <1>1, <1>5, <1>10, MoreSound DEF Fine
-----------------------------------------------------------------------------
(* An instruction, an interrupt, a reset.                                  *)
LEMMA SoundEnds ==
  ASSUME NEW t, DOMAIN t = Fields, NEW k, Sound(t, k) PROVE Ends(t, k)
BY DEF Ends

LEMMA PerformEnds ==
  ASSUME NEW t, Fine(t, 1), NEW i \in Instructions, NEW v \in Data
  PROVE  Ends(Perform(t, i, v), 26)
<1>1. DOMAIN Perform(t, i, v) = Fields
  BY PerformLands DEF Fine, Lands, Framed
<1>2. \A k \in Nat : k <= 26 /\ Sound(Perform(t, i, v), k) => Ends(Perform(t, i, v), 26)
  BY <1>1, MoreSound, SoundEnds
<1>3. CASE i \in AluInsns
  <2>1. Perform(t, i, v) = Alu(t, i)
    BY <1>3 DEF Perform, AluInsns
  <2> QED
    BY <1>3, <2>1, AluEnds, MoreEnds
<1>4. CASE i \in MulInsns
  <2>1. Perform(t, i, v) = Multiply(t, i)
    BY <1>4 DEF Perform, MulInsns
  <2> QED
    BY <1>2, <1>4, <2>1, MultiplySound
<1>5. CASE i \in SwapInsns
  <2>1. Perform(t, i, v) = Swap(t, i, v)
    BY <1>5 DEF Perform, SwapInsns
  <2> QED
    BY <1>2, <1>5, <2>1, SwapSound
<1>6. CASE i \in TransferInsns
  <2>1. Perform(t, i, v) = Transfer(t, i, v)
    BY <1>6 DEF Perform, TransferInsns
  <2> QED
    BY <1>2, <1>6, <2>1, TransferSound
<1>7. CASE i \in BlockInsns
  <2>1. i.op = "block" /\ i.load \in BOOLEAN
    BY <1>7 DEF BlockInsns
  <2>2. Perform(t, i, v) = IF i.load THEN LoadBlock(t, i, v) ELSE StoreBlock(t, i)
    BY <2>1 DEF Perform
  <2> QED
    BY <1>7, <2>2, LoadBlockEnds, StoreBlockSound, FineEnds
<1>8. CASE i \in OtherInsns
  <2>1. \/ i.op = "branch" /\ i.offset \in Int
        \/ i.op = "swi"
        \/ i.op \in {"undefined", "coprocessor"}
    BY <1>8 DEF OtherInsns
  <2>2. CASE i.op = "branch" /\ i.offset \in Int
    <3>1. Perform(t, i, v) = Branch(t, i)
      BY <2>2 DEF Perform
    <3> QED
      BY <1>2, <2>2, <3>1, BranchSound
  <2>3. CASE i.op = "swi"
    <3>1. Perform(t, i, v) = Swi(t, i)
      BY <2>3 DEF Perform
    <3> QED
      BY <1>2, <3>1, SwiSound
  <2>4. CASE i.op \in {"undefined", "coprocessor"}
    <3>1. Perform(t, i, v) = Undefined(t)
      BY <2>4 DEF Perform
    <3> QED
      BY <1>2, <3>1, UndefinedSound
  <2> QED
    BY <2>1, <2>2, <2>3, <2>4
<1> QED
  BY <1>3, <1>4, <1>5, <1>6, <1>7, <1>8, Zenon DEF Instructions

LEMMA FetchedFine == ASSUME NEW t, NEW k, Fine(t, k) PROVE Fine(Fetched(t), 1)
<1> DEFINE pc == Wrap(t.user[15] + 4)
           u == SetReg(t, 15, pc)
<1>1. 15 \in Regs
  BY DEF Regs
<1>2. t.user[15] \in Data
  BY <1>1, FineReg
<1>3. pc \in Data
  BY <1>2, DataIs, Wrapped
<1>4. Fetched(t) = [u EXCEPT !.cycles = 1, !.io = <<>>]
  BY DEF Fetched, SetReg, Fine, Fit, Shaped, Fields
<1> HIDE DEF pc
<1>5. Fine(u, k)
  BY <1>1, <1>3, FineSet
<1> HIDE DEF u
<1>6. DOMAIN u = Fields
  BY <1>5 DEF Fine, Fit, Shaped
<1>7. /\ Fetched(t).user = u.user /\ Fetched(t).cash = u.cash /\ Fetched(t).bank = u.bank
      /\ Fetched(t).ram = u.ram /\ Fetched(t).nvram = u.nvram /\ Fetched(t).cycles = 1
  BY <1>4, <1>6 DEF Fields
<1>8. Only(t, Fetched(t), {}) /\ Fit(Fetched(t))
  BY FetchedOnly, StillFit DEF Fine
<1>9. Sound(Fetched(t), 1)
  BY <1>5, <1>7 DEF Fine, Sound, Worded, Taken
<1> QED
  BY <1>8, <1>9 DEF Fine

LEMMA ExecutedEnds ==
  ASSUME NEW t, NEW k, Fine(t, k), NEW i \in Instructions, NEW v \in Data
  PROVE  Ends(Executed(t, i, v), 26)
<1> DEFINE u == Fetched(t)
<1>1. Fine(u, 1)
  BY FetchedFine
<1> HIDE DEF u
<1>2. Ends(Perform(u, i, v), 26) /\ Ends(u, 26)
  BY <1>1, PerformEnds, FineEnds, MoreEnds
<1>3. Executed(t, i, v) = IF IsRun(i, t) THEN Perform(u, i, v) ELSE u
  BY DEF Executed, u
<1> QED
  BY <1>2, <1>3

LEMMA FiqSound == ASSUME NEW t, NEW k, Fine(t, k) PROVE Sound(Fiq(t), k)
<1> DEFINE back == Wrap(t.user[15] + 4)
           vector == \h1C
           u == Trap(t, "fiq", back, vector)
<1>1. Fiq(t) = [u EXCEPT !.psr.f = TRUE]
  BY DEF Fiq
<1>2. 15 \in Regs
  BY DEF Regs
<1>3. t.user[15] \in Data /\ vector \in Data
  BY <1>2, FineReg, SmallData
<1>4. back \in Data
  BY <1>3, DataIs, Wrapped
<1> HIDE DEF back, vector
<1>5. Sound(u, k) /\ Fit(u)
  BY <1>3, <1>4, TrapSound, TrapLands DEF Banked, Fine
<1> HIDE DEF u
<1>6. Sound([u EXCEPT !.psr = [u.psr EXCEPT !.f = TRUE]], k)
  BY <1>5, AsideSound
<1> QED
  BY <1>1, <1>6

LEMMA StartSound ==
  ASSUME NEW t, DOMAIN t = Fields, DOMAIN t.spsr = Modes, StatusShaped(t.psr),
         \A m \in Modes : StatusShaped(t.spsr[m]), Start(t).psr.mode \in ModeNumbers,
         t.psr.mode \in ModeNumbers, MemoryWords(t.ram), MemoryWords(t.nvram), NEW k, Taken(t, k)
  PROVE  Sound(Start(t), k)
<1> DEFINE user == [n \in Regs |-> IF n = 15 THEN \h3000000 ELSE 0]
           cash == [n \in 8 .. 14 |-> 0]
           bank == [m \in Banked |-> [n \in Own(m) |-> 0]]
           u == [t EXCEPT !.user = user, !.cash = cash, !.bank = bank]
           p == Psr(19)
<1>1. Start(t) = CpsrSet(u, p)
  BY DEF Start
<1>2. On(user, Regs) /\ On(cash, 8 .. 14) /\ BanksShaped(bank)
  BY DEF On, BanksShaped
<1>3. StatusShaped(p)
  BY DEF Psr, StatusShaped, StatusFields, On
<1>4. /\ \A n \in Regs : user[n] \in Data
      /\ \A n \in 8 .. 14 : cash[n] \in Data
      /\ \A m \in Banked : \A n \in Own(m) : bank[m][n] \in Data
  BY SmallData
<1> HIDE DEF user, cash, bank, p
<1>5. /\ DOMAIN u = Fields /\ u.user = user /\ u.cash = cash /\ u.bank = bank
      /\ u.psr = t.psr /\ u.spsr = t.spsr /\ u.ram = t.ram /\ u.nvram = t.nvram
      /\ u.cycles = t.cycles
  BY DEF Fields
<1> HIDE DEF u
<1>6. Fine(u, k)
  BY <1>2, <1>4, <1>5 DEF Fine, Fit, Shaped, Sound, Worded, Taken
<1>7. Ends(CpsrSet(u, p), k)
  BY <1>3, <1>6, CpsrSetEnds
<1> QED
  BY <1>1, <1>7 DEF Ends

LEMMA FirstMode == Psr(16).mode = {4} /\ {4} \in ModeNumbers
<1>1. Psr(16).mode = {k \in 0 .. 4 : Bit(16, k) = 1}
  BY DEF Psr, BitsOf
<1>2. /\ Bit(16, 0) = 0 /\ Bit(16, 1) = 0 /\ Bit(16, 2) = 0 /\ Bit(16, 3) = 0 /\ Bit(16, 4) = 1
  BY SmallPowers DEF Bit
<1>3. Psr(16).mode = {4}
  BY <1>1, <1>2
<1>4. ModeBits["user"] = {4} /\ "user" \in Modes
  BY DEF ModeBits, Modes
<1> QED
  BY <1>3, <1>4 DEF ModeNumbers

(* The registers are words, and the time an instruction takes has its      *)
(* bounds, whatever runs.                                                  *)
WordsInv == IInv /\ Sound(s, 26)

LEMMA NoWords == MemoryWords(<<>>)
BY DEF MemoryWords

LEMMA InitWords == Init /\ ModesValid => WordsInv
<1> SUFFICES ASSUME Init, ModesValid PROVE WordsInv
  OBVIOUS
<1> DEFINE t == [user |-> <<>>, cash |-> <<>>, bank |-> <<>>, psr |-> Psr(16),
                 spsr |-> [m \in Modes |-> Psr(0)], carry_out |-> FALSE, ram |-> <<>>,
                 nvram |-> <<>>, cycles |-> 1, io |-> <<>>]
<1>1. s = Start(t)
  BY DEF Init, PowerOn
<1>2. \A w : StatusShaped(Psr(w))
  BY DEF Psr, StatusShaped, StatusFields, On
<1>3. /\ DOMAIN t = Fields /\ DOMAIN t.spsr = Modes /\ t.psr = Psr(16)
      /\ \A m \in Modes : t.spsr[m] = Psr(0)
      /\ t.ram = <<>> /\ t.nvram = <<>> /\ t.cycles = 1
  BY DEF Fields
<1> HIDE DEF t
<1>4. Start(t).psr.mode \in ModeNumbers
  BY <1>1 DEF ModesValid
<1>5. Taken(t, 26)
  BY <1>3 DEF Taken
<1>6. Sound(s, 26)
  <2>1. /\ StatusShaped(t.psr) /\ \A m \in Modes : StatusShaped(t.spsr[m])
        /\ t.psr.mode \in ModeNumbers /\ MemoryWords(t.ram) /\ MemoryWords(t.nvram)
    BY <1>2, <1>3, NoWords, FirstMode
  <2>2. DOMAIN t = Fields /\ DOMAIN t.spsr = Modes
    BY <1>3
  <2> QED
    BY <1>1, <1>4, <1>5, <2>1, <2>2, StartSound
<1> QED
  BY <1>6, InitStep DEF WordsInv

LEMMA ExecuteWords ==
  ASSUME WordsInv, ModesValid, ModesValid', Execute PROVE WordsInv'
<1>1. PICK i \in Code, v \in DeviceWords, needed \in BOOLEAN :
        LET t == Executed(s, i, v) fiq == needed /\ ~t.psr.f IN
        s' = IF fiq THEN Fiq(t) ELSE t
  BY ZenonT(60) DEF Execute
<1> DEFINE t == Executed(s, i, v)
<1>2. i \in Instructions /\ v \in Data
  BY CodeIn, ArmAssumption DEF WordsInv, IInv
<1>3. Fine(s, 26)
  BY DEF WordsInv, IInv, Fine, Fit, ModesValid
<1>4. Ends(t, 26) /\ Lands(s, t, Allowed(i, s))
  BY <1>2, <1>3, ExecutedEnds, ExecutedLands DEF Fine
<1>5. s' = t \/ s' = Fiq(t)
  BY <1>1
<1> HIDE DEF t
<1>6. t.psr.mode \in ModeNumbers
  <2>1. CASE s' = t
    BY <2>1 DEF ModesValid
  <2>2. CASE s' = Fiq(t)
    <3>1. s'.spsr["fiq"] = t.psr
      BY <1>4, <2>2, FiqSaves DEF Lands
    <3>2. s'.spsr["fiq"].mode \union {4} \in ModeNumbers
      BY DEF ModesValid, Modes, Banked
    <3> QED
      BY <1>4, <3>1, <3>2 DEF Lands, Framed
  <2> QED
    BY <1>5, <2>1, <2>2
<1>7. Fine(t, 26)
  BY <1>4, <1>6 DEF Lands, Fit, Fine, Ends
<1>8. Sound(s', 26)
  BY <1>5, <1>7, FiqSound DEF Fine
<1>9. IInv'
  BY ExecuteStep DEF WordsInv
<1> QED
  BY <1>8, <1>9 DEF WordsInv

LEMMA ResetWords ==
  ASSUME WordsInv, ModesValid, ModesValid', Reset PROVE WordsInv'
<1> DEFINE u == Start(s)
           w == [u EXCEPT !.io = <<>>]
           x == [w EXCEPT !.cycles = 1]
<1>1. s' = x
  BY DEF Reset
<1>2. Shaped(s) /\ Sound(s, 26) /\ s.psr.mode \in ModeNumbers
  BY DEF WordsInv, IInv, ModesValid
<1>3. ModesValid' => x.psr.mode \in ModeNumbers
  BY <1>1 DEF ModesValid
<1>4. DOMAIN u = Fields
  <2> DEFINE y == [s EXCEPT !.user = [n \in Regs |-> IF n = 15 THEN \h3000000 ELSE 0],
                            !.cash = [n \in 8 .. 14 |-> 0],
                            !.bank = [m \in Banked |-> [n \in Own(m) |-> 0]]]
             p == Psr(19)
  <2>1. u = CpsrSet(y, p)
    BY DEF Start
  <2>2. StatusShaped(p)
    BY DEF Psr, StatusShaped, StatusFields, On
  <2> HIDE DEF p
  <2>3. DOMAIN y = Fields /\ y.psr = s.psr
    BY <1>2 DEF Shaped, Fields
  <2> HIDE DEF y
  <2>4. DOMAIN y = Fields /\ StatusShaped(y.psr)
    BY <1>2, <2>3 DEF Shaped
  <2> HIDE DEF u
  <2>5. DOMAIN CpsrSet(y, p) = Fields
    BY <2>2, <2>4, CpsrSetFields
  <2> QED
    BY <2>1, <2>5
<1> HIDE DEF u
<1>5. /\ x.user = u.user /\ x.cash = u.cash /\ x.bank = u.bank /\ x.psr = u.psr
      /\ x.ram = u.ram /\ x.nvram = u.nvram /\ x.cycles = 1
  BY <1>4 DEF Fields
<1> HIDE DEF x
<1>6. Sound(u, 26)
  <2>1. u.psr.mode \in ModeNumbers
    BY <1>3, <1>5
  <2>2. MemoryWords(s.ram) /\ MemoryWords(s.nvram) /\ Taken(s, 26)
    BY <1>2 DEF Sound, Worded
  <2> QED
    BY <1>2, <2>1, <2>2, StartSound DEF Shaped, u
<1>7. Sound(x, 26)
  BY <1>5, <1>6 DEF Sound, Worded, Taken
<1>8. IInv'
  BY ResetStep DEF WordsInv
<1> QED
  BY <1>1, <1>7, <1>8 DEF WordsInv

LEMMA WordsAre == WordsInv /\ ModesValid => TypeOK
<1> SUFFICES ASSUME WordsInv, ModesValid PROVE TypeOK
  OBVIOUS
<1>1. Shaped(s) /\ Worded(s) /\ Taken(s, 26)
  BY DEF WordsInv, IInv, Sound
<1>2. s.user \in [Regs -> Data] /\ s.cash \in [8 .. 14 -> Data]
  BY <1>1 DEF Shaped, Worded, On
<1>3. \A m \in Banked : s.bank[m] \in [Own(m) -> Data]
  BY <1>1 DEF Shaped, Worded, On, BanksShaped
<1>4. s.bank = [m \in Banked |-> s.bank[m]]
  BY <1>1 DEF Shaped, On, BanksShaped
<1>5. IsFile([user |-> s.user, cash |-> s.cash, bank |-> s.bank], Data)
  BY <1>2, <1>3, <1>4 DEF IsFile
<1>6. s.cycles \in 1 .. 26
  BY <1>1 DEF Taken
<1> QED
  BY <1>5, <1>6 DEF TypeOK

LEMMA WordsKept == ASSUME WordsInv, ModesValid, ModesValid', [Next]_vars PROVE WordsInv'
<1>1. CASE Execute
  BY <1>1, ExecuteWords
<1>2. CASE Reset
  BY <1>2, ResetWords
<1>3. CASE UNCHANGED vars
  BY <1>3 DEF vars, IInv, WordsInv
<1> QED
  BY <1>1, <1>2, <1>3 DEF Next

(* Every register of every bank holds a word, the register file stays      *)
(* whole, and an instruction takes from 1 to 26 cycles, which the frame    *)
(* loop relies on: for all software that gives the status registers no     *)
(* mode that is none.                                                      *)
THEOREM TypesHold == Spec /\ []ModesValid => []TypeOK
<1>1. Init /\ ModesValid => WordsInv
  BY InitWords
<1>2. WordsInv /\ ModesValid /\ ModesValid' /\ [Next]_vars => WordsInv'
  BY WordsKept
<1>3. WordsInv /\ ModesValid => TypeOK
  BY WordsAre
<1> QED
  BY <1>1, <1>2, <1>3, PTL DEF Spec
-----------------------------------------------------------------------------
(* What the conditions ask of the flags.                                   *)
LEMMA Powers16 ==
  /\ Pow2[0] = 1 /\ Pow2[1] = 2 /\ Pow2[2] = 4 /\ Pow2[3] = 8 /\ Pow2[4] = 16 /\ Pow2[5] = 32
  /\ Pow2[6] = 64 /\ Pow2[7] = 128 /\ Pow2[8] = 256 /\ Pow2[9] = 512 /\ Pow2[10] = 1024
  /\ Pow2[11] = 2048 /\ Pow2[12] = 4096 /\ Pow2[13] = 8192 /\ Pow2[14] = 16384
  /\ Pow2[15] = 32768
<1>1. \A n \in Nat : Pow2[n + 1] = 2 * Pow2[n]
  BY Pow2Next
<1>2. /\ Pow2[6] = 2 * Pow2[5] /\ Pow2[7] = 2 * Pow2[6] /\ Pow2[8] = 2 * Pow2[7]
      /\ Pow2[9] = 2 * Pow2[8] /\ Pow2[10] = 2 * Pow2[9]
  <2>1. 5 + 1 = 6 /\ 6 + 1 = 7 /\ 7 + 1 = 8 /\ 8 + 1 = 9 /\ 9 + 1 = 10
    OBVIOUS
  <2> QED
    BY <1>1, <2>1
<1>3. /\ Pow2[11] = 2 * Pow2[10] /\ Pow2[12] = 2 * Pow2[11] /\ Pow2[13] = 2 * Pow2[12]
      /\ Pow2[14] = 2 * Pow2[13] /\ Pow2[15] = 2 * Pow2[14]
  <2>1. 10 + 1 = 11 /\ 11 + 1 = 12 /\ 12 + 1 = 13 /\ 13 + 1 = 14 /\ 14 + 1 = 15
    OBVIOUS
  <2> QED
    BY <1>1, <2>1
<1> QED
  BY SmallPowers, <1>2, <1>3

LEMMA Crossing ==
  ASSUME NEW k \in 0 .. 15
  PROVE  /\ Bit(\hf0f0, k) = 1 <=> k \in {4, 5, 6, 7, 12, 13, 14, 15}
         /\ Bit(\h0f0f, k) = 1 <=> k \notin {4, 5, 6, 7, 12, 13, 14, 15}
         /\ Bit(\hcccc, k) = 1 <=> k \in {2, 3, 6, 7, 10, 11, 14, 15}
         /\ Bit(\h3333, k) = 1 <=> k \notin {2, 3, 6, 7, 10, 11, 14, 15}
         /\ Bit(\h0c0c, k) = 1 <=> k \in {2, 3, 10, 11}
         /\ Bit(\hf3f3, k) = 1 <=> k \notin {2, 3, 10, 11}
         /\ Bit(\haa55, k) = 1 <=> k \in {0, 2, 4, 6, 9, 11, 13, 15}
         /\ Bit(\h55aa, k) = 1 <=> k \notin {0, 2, 4, 6, 9, 11, 13, 15}
         /\ Bit(\h0a05, k) = 1 <=> k \in {0, 2, 9, 11}
         /\ Bit(\hf5fa, k) = 1 <=> k \notin {0, 2, 9, 11}
<1>1. \/ k = 0 \/ k = 1 \/ k = 2 \/ k = 3 \/ k = 4 \/ k = 5 \/ k = 6 \/ k = 7
      \/ k = 8 \/ k = 9 \/ k = 10 \/ k = 11 \/ k = 12 \/ k = 13 \/ k = 14 \/ k = 15
  OBVIOUS
<1>2. Bit(\hf0f0, k) = 1 <=> k \in {4, 5, 6, 7, 12, 13, 14, 15}
  BY <1>1, Powers16 DEF Bit
<1>3. Bit(\h0f0f, k) = 1 <=> k \notin {4, 5, 6, 7, 12, 13, 14, 15}
  BY <1>1, Powers16 DEF Bit
<1>4. Bit(\hcccc, k) = 1 <=> k \in {2, 3, 6, 7, 10, 11, 14, 15}
  BY <1>1, Powers16 DEF Bit
<1>5. Bit(\h3333, k) = 1 <=> k \notin {2, 3, 6, 7, 10, 11, 14, 15}
  BY <1>1, Powers16 DEF Bit
<1>6. Bit(\h0c0c, k) = 1 <=> k \in {2, 3, 10, 11}
  BY <1>1, Powers16 DEF Bit
<1>7. Bit(\hf3f3, k) = 1 <=> k \notin {2, 3, 10, 11}
  BY <1>1, Powers16 DEF Bit
<1>8. Bit(\haa55, k) = 1 <=> k \in {0, 2, 4, 6, 9, 11, 13, 15}
  BY <1>1, Powers16 DEF Bit
<1>9. Bit(\h55aa, k) = 1 <=> k \notin {0, 2, 4, 6, 9, 11, 13, 15}
  BY <1>1, Powers16 DEF Bit
<1>10. Bit(\h0a05, k) = 1 <=> k \in {0, 2, 9, 11}
  BY <1>1, Powers16 DEF Bit
<1>11. Bit(\hf5fa, k) = 1 <=> k \notin {0, 2, 9, 11}
  BY <1>1, Powers16 DEF Bit
<1> QED
  BY <1>2, <1>3, <1>4, <1>5, <1>6, <1>7, <1>8, <1>9, <1>10, <1>11

LEMMA Asked ==
  ASSUME NEW p, p.n \in BOOLEAN, p.z \in BOOLEAN, p.c \in BOOLEAN, p.v \in BOOLEAN
  PROVE  /\ Passes(0, p) <=> p.z
         /\ Passes(1, p) <=> ~p.z
         /\ Passes(2, p) <=> p.c
         /\ Passes(3, p) <=> ~p.c
         /\ Passes(8, p) <=> p.c /\ ~p.z
         /\ Passes(9, p) <=> ~(p.c /\ ~p.z)
         /\ Passes(10, p) <=> (p.n = p.v)
         /\ Passes(11, p) <=> ~(p.n = p.v)
         /\ Passes(12, p) <=> ~p.z /\ (p.n = p.v)
         /\ Passes(13, p) <=> ~(~p.z /\ (p.n = p.v))
<1> DEFINE n == p.n z == p.z c == p.c v == p.v
           k == (IF n THEN 8 ELSE 0) + (IF z THEN 4 ELSE 0) + (IF c THEN 2 ELSE 0)
                  + (IF v THEN 1 ELSE 0)
<1>1. NZCV(p) = k
  BY DEF NZCV
<1>2. n \in BOOLEAN /\ z \in BOOLEAN /\ c \in BOOLEAN /\ v \in BOOLEAN
  OBVIOUS
<1>3. /\ Passes(0, p) <=> Bit(\hf0f0, NZCV(p)) = 1
      /\ Passes(1, p) <=> Bit(\h0f0f, NZCV(p)) = 1
      /\ Passes(2, p) <=> Bit(\hcccc, NZCV(p)) = 1
      /\ Passes(3, p) <=> Bit(\h3333, NZCV(p)) = 1
      /\ Passes(8, p) <=> Bit(\h0c0c, NZCV(p)) = 1
      /\ Passes(9, p) <=> Bit(\hf3f3, NZCV(p)) = 1
      /\ Passes(10, p) <=> Bit(\haa55, NZCV(p)) = 1
      /\ Passes(11, p) <=> Bit(\h55aa, NZCV(p)) = 1
      /\ Passes(12, p) <=> Bit(\h0a05, NZCV(p)) = 1
      /\ Passes(13, p) <=> Bit(\hf5fa, NZCV(p)) = 1
  BY DEF Passes, CondFlagsCross
<1> HIDE DEF n, z, c, v
<1>4. /\ k \in 0 .. 15
      /\ k \in {4, 5, 6, 7, 12, 13, 14, 15} <=> z
      /\ k \in {2, 3, 6, 7, 10, 11, 14, 15} <=> c
      /\ k \in {2, 3, 10, 11} <=> c /\ ~z
      /\ k \in {0, 2, 4, 6, 9, 11, 13, 15} <=> (n = v)
      /\ k \in {0, 2, 9, 11} <=> ~z /\ (n = v)
  BY <1>2
<1> HIDE DEF k
<1>5. /\ Bit(\hf0f0, k) = 1 <=> z
      /\ Bit(\h0f0f, k) = 1 <=> ~z
      /\ Bit(\hcccc, k) = 1 <=> c
      /\ Bit(\h3333, k) = 1 <=> ~c
      /\ Bit(\h0c0c, k) = 1 <=> c /\ ~z
      /\ Bit(\hf3f3, k) = 1 <=> ~(c /\ ~z)
      /\ Bit(\haa55, k) = 1 <=> (n = v)
      /\ Bit(\h55aa, k) = 1 <=> ~(n = v)
      /\ Bit(\h0a05, k) = 1 <=> ~z /\ (n = v)
      /\ Bit(\hf5fa, k) = 1 <=> ~(~z /\ (n = v))
  BY <1>4, Crossing
<1> QED
  BY <1>1, <1>2, <1>3, <1>5 DEF n, z, c, v

(* The flags of a status mean what a comparison of c[1] with c[2] found.   *)
Means(c, p) ==
  c # None =>
    LET a == c[1] b == c[2] sa == Signed(H, a) sb == Signed(H, b) IN
    /\ (Passes(0, p) <=> a = b) /\ (Passes(1, p) <=> a # b)
    /\ (Passes(2, p) <=> a >= b) /\ (Passes(3, p) <=> a < b)
    /\ (Passes(8, p) <=> a > b) /\ (Passes(9, p) <=> a <= b)
    /\ (Passes(10, p) <=> sa >= sb) /\ (Passes(11, p) <=> sa < sb)
    /\ (Passes(12, p) <=> sa > sb) /\ (Passes(13, p) <=> sa <= sb)
SameFlags(p, q) == p.n = q.n /\ p.z = q.z /\ p.c = q.c /\ p.v = q.v

LEMMA MeansSame ==
  ASSUME NEW c, NEW p, NEW q, Means(c, p), SameFlags(p, q) PROVE Means(c, q)
<1>1. NZCV(p) = NZCV(q)
  BY DEF NZCV, SameFlags
<1>2. \A k : Passes(k, p) = Passes(k, q)
  BY <1>1 DEF Passes
<1> QED
  BY <1>2 DEF Means

LEMMA Compares ==
  ASSUME NEW a \in Data, NEW b \in Data, NEW p, StatusShaped(p)
  PROVE  Means(<<a, b>>, Flags(p, 10, a, b, Sub(H, a, b, 1)))
<1> DEFINE y == Sub(H, a, b, 1)
           sa == Signed(H, a)
           sb == Signed(H, b)
           carry == SubCarry(H, a, b, y)
           over == SubOverflow(H, a, b, y)
           top == TopSet(H, y)
           zero == y = 0
           q == [p EXCEPT !.z = zero, !.n = top]
           r == [q EXCEPT !.c = carry, !.v = over]
<1>1. H \in Nat /\ H > 0 /\ a \in 0 .. 2 * H - 1 /\ b \in 0 .. 2 * H - 1
  BY Sizes, DataIs
<1>2. /\ a >= b <=> carry
      /\ a > b <=> carry /\ ~zero
      /\ a = b <=> zero
      /\ sa < sb <=> ~(top <=> over)
      /\ carry \in BOOLEAN /\ over \in BOOLEAN /\ top \in BOOLEAN /\ zero \in BOOLEAN
      /\ sa \in Int /\ sb \in Int
      /\ sa = sb <=> zero
  BY <1>1, SMT DEF Sub, Cut, SubCarry, SubOverflow, Signed, TopSet
<1>3. Flags(p, 10, a, b, y) = r
  BY DEF Flags, SetZN, IsLogic
<1> HIDE DEF y, sa, sb, carry, over, top, zero
<1>4. r.n = top /\ r.z = zero /\ r.c = carry /\ r.v = over
  BY DEF StatusShaped, StatusFields, On
<1> HIDE DEF q, r
<1>5. /\ Passes(0, r) <=> zero
      /\ Passes(1, r) <=> ~zero
      /\ Passes(2, r) <=> carry
      /\ Passes(3, r) <=> ~carry
      /\ Passes(8, r) <=> carry /\ ~zero
      /\ Passes(9, r) <=> ~(carry /\ ~zero)
      /\ Passes(10, r) <=> (top = over)
      /\ Passes(11, r) <=> ~(top = over)
      /\ Passes(12, r) <=> ~zero /\ (top = over)
      /\ Passes(13, r) <=> ~(~zero /\ (top = over))
  BY <1>2, <1>4, Asked
<1>6. a \in Int /\ b \in Int
  BY <1>1
<1>7. sa > sb <=> ~zero /\ (top = over)
  BY <1>2, <1>6
<1>8. Means(<<a, b>>, r)
  BY <1>2, <1>5, <1>6, <1>7 DEF Means, sa, sb
<1> QED
  BY <1>3, <1>8 DEF y
-----------------------------------------------------------------------------
(* An instruction that is not told to leaves the whole status as it was.   *)
Steady(t, u) == DOMAIN u = Fields /\ u.psr = t.psr

LEMMA SteadySmall ==
  ASSUME NEW t, DOMAIN t = Fields, NEW x, NEW n, NEW v, NEW m
  PROVE  /\ Steady(t, t) /\ Steady(t, SetReg(t, n, v)) /\ Steady(t, LoadUser(t, m, n, v))
         /\ Steady(t, PutUser(t, n, v)) /\ Steady(t, Spend(t, n))
         /\ Steady(t, [t EXCEPT !.ram = x]) /\ Steady(t, [t EXCEPT !.nvram = x])
         /\ Steady(t, [t EXCEPT !.io = x]) /\ Steady(t, [t EXCEPT !.carry_out = x])
         /\ Steady(t, [t EXCEPT !.cycles = x])
<1>1. Steady(t, t)
  BY DEF Steady
<1>2. Steady(t, SetReg(t, n, v)) /\ Steady(t, SetReg(t, 15, v))
  BY DEF Steady, SetReg, Fields
<1>3. \A k : Steady(t, LoadUser(t, k, n, v))
  BY DEF Steady, LoadUser, Fields
<1>4. Steady(t, PutUser(t, n, v))
  BY <1>2, <1>3 DEF PutUser
<1>5. Steady(t, Spend(t, n))
  BY DEF Steady, Spend, Fields
<1>6. Steady(t, [t EXCEPT !.ram = x]) /\ Steady(t, [t EXCEPT !.nvram = x])
  BY DEF Steady, Fields
<1>7. Steady(t, [t EXCEPT !.io = x]) /\ Steady(t, [t EXCEPT !.carry_out = x])
  BY DEF Steady, Fields
<1>8. Steady(t, [t EXCEPT !.cycles = x])
  BY DEF Steady, Fields
<1> QED
  BY <1>1, <1>2, <1>3, <1>4, <1>5, <1>6, <1>7, <1>8

LEMMA SteadyTogether ==
  ASSUME NEW t, NEW u, NEW w, Steady(t, u), Steady(u, w) PROVE Steady(t, w)
BY DEF Steady

LEMMA SteadyRead ==
  ASSUME NEW t, DOMAIN t = Fields, NEW a, NEW v
  PROVE  Steady(t, ReadWord(t, a, v).s)
<1> DEFINE al == Align(a)
           d == Device(al, FALSE)
           seen == Access(t, d, "read", al)
           near == Within(al, \h3200000, \h2000)
           ram == Cell(t.ram, al)
           nvram == Cell(t.nvram, NvramIndex(al))
           rom == Cell(Rom, al % Megabyte)
<1>1. d \in {"ram", "madam", "clio", "sport", "diag", "nvram", "brooktree", "rom", "none"}
  BY SMT DEF Device
<1>2. ReadWord(t, a, v) =
        CASE d = "ram" -> Answer(t, ram)
          [] d \in {"madam", "clio", "diag"} -> Answer(seen, v)
          [] d = "sport" -> IF near THEN Answer(seen, 0) ELSE Answer(t, Bad)
          [] d = "nvram" -> Answer(t, nvram)
          [] d = "brooktree" -> Answer(t, Brooktree)
          [] d = "rom" -> Answer(t, rom)
          [] d = "none" -> Answer(t, Bad)
  BY DEF ReadWord
<1>3. Steady(t, seen) /\ Steady(t, t)
  BY SteadySmall DEF Access
<1> HIDE DEF d, seen, near, ram, nvram, rom
<1>4. ReadWord(t, a, v).s = t \/ ReadWord(t, a, v).s = seen
  BY <1>1, <1>2, SMT DEF Answer
<1> QED
  BY <1>3, <1>4

LEMMA SteadyWrite ==
  ASSUME NEW t, DOMAIN t = Fields, NEW a, NEW v
  PROVE  Steady(t, WriteWord(t, a, v))
<1> DEFINE al == Align(a)
           d == Device(al, TRUE)
           seen == Access(t, d, "write", al)
           skip == d = "clio" /\ al = \h3400028 /\ v = \h30
           ram == Put(t.ram, al, v)
           nvram == Put(t.nvram, NvramIndex(al), v % Bytes)
           next == Wrap(seen.user[15] + 4)
<1>1. WriteWord(t, a, v) =
        CASE d = "ram" -> [t EXCEPT !.ram = ram]
          [] skip -> [seen EXCEPT !.user[15] = next]
          [] d = "nvram" -> [t EXCEPT !.nvram = nvram]
          [] d \in {"brooktree", "none"} -> t
          [] OTHER -> seen
  BY DEF WriteWord
<1>2. /\ Steady(t, seen) /\ Steady(t, t)
      /\ Steady(t, [t EXCEPT !.ram = ram]) /\ Steady(t, [t EXCEPT !.nvram = nvram])
  BY SteadySmall DEF Access
<1>3. Steady(t, [seen EXCEPT !.user[15] = next])
  <2> HIDE DEF seen, next
  <2>1. Steady(seen, SetReg(seen, 15, next))
    BY <1>2, SteadySmall DEF Steady
  <2> QED
    BY <1>2, <2>1, SteadyTogether DEF SetReg
<1> HIDE DEF d, seen, skip, ram, nvram, next
<1> QED
  BY <1>1, <1>2, <1>3, SMT

LEMMA SteadyByte ==
  ASSUME NEW t, DOMAIN t = Fields, NEW a, NEW v
  PROVE  Steady(t, WriteByte(t, a, v))
<1> DEFINE old == Cell(t.ram, Align(a))
           ram == Put(t.ram, Align(a), old + ((v % Bytes) - ByteOf(old, a)) * Place(a))
           nvram == Put(t.nvram, NvramIndex(a), v % Bytes)
           inRam == Device(a, TRUE) = "ram"
           inNvram == Within(a, \h3100000, Megabyte) /\ Bit(a, 18) = 1
<1>1. WriteByte(t, a, v) =
        CASE inRam -> [t EXCEPT !.ram = ram]
          [] inNvram -> [t EXCEPT !.nvram = nvram]
          [] OTHER -> t
  BY DEF WriteByte
<1>2. Steady(t, t) /\ Steady(t, [t EXCEPT !.ram = ram]) /\ Steady(t, [t EXCEPT !.nvram = nvram])
  BY SteadySmall
<1> HIDE DEF inRam, inNvram, ram, nvram
<1> QED
  BY <1>1, <1>2, SMT

LEMMA SteadyMemory ==
  ASSUME NEW t, DOMAIN t = Fields, NEW byte \in BOOLEAN, NEW a, NEW v, NEW o
  PROVE  /\ Steady(t, Fetch(t, byte, a, v).s) /\ Steady(t, StoreAt(t, byte, a, v))
         /\ Steady(t, Operand(t, o).s)
<1>1. Steady(t, Fetch(t, byte, a, v).s)
  BY SteadyRead, SteadySmall DEF Fetch, Answer
<1>2. Steady(t, StoreAt(t, byte, a, v))
  BY SteadyWrite, SteadyByte DEF StoreAt
<1>3. Steady(t, Operand(t, o).s)
  <2>1. Steady(t, t) /\ \A x : Steady(t, [t EXCEPT !.carry_out = x])
    BY SteadySmall
  <2> QED
    BY <2>1 DEF Operand, Answer
<1> QED
  BY <1>1, <1>2, <1>3

LEMMA SteadyThen ==
  ASSUME NEW t, NEW u, Steady(t, u), NEW n, NEW v, NEW i
  PROVE  /\ Steady(t, SetReg(u, n, v)) /\ Steady(t, LoadUser(u, Mode(t), n, v))
         /\ Steady(t, PutUser(u, n, v)) /\ Steady(t, Spend(u, n))
         /\ Steady(t, Given(i, u, n, v)) /\ Steady(t, NewBase(i, u, v))
         /\ Steady(t, Based(u, i, v))
<1>1. DOMAIN u = Fields
  BY DEF Steady
<1>2. /\ \A k : Steady(u, SetReg(u, k, v)) /\ Steady(u, PutUser(u, k, v))
      /\ Steady(u, Spend(u, n)) /\ Steady(u, LoadUser(u, Mode(t), n, v))
  BY <1>1, SteadySmall
<1>3. /\ \A k : Steady(t, SetReg(u, k, v)) /\ Steady(t, PutUser(u, k, v))
      /\ Steady(t, Spend(u, n)) /\ Steady(t, LoadUser(u, Mode(t), n, v))
  BY <1>2, SteadyTogether
<1> QED
  BY <1>3 DEF Given, NewBase, Based

LEMMA SteadyMultiply ==
  ASSUME NEW t, DOMAIN t = Fields, NEW i, ~i.s
  PROVE  Steady(t, Multiply(t, i))
<1> DEFINE product == IF i.rd = i.rm THEN 0 ELSE LowProduct(W, t.user[i.rm], t.user[i.rs])
           y == IF i.acc THEN Add(H, product, Reg(t, i.rn, 8), 0) ELSE product
           n == MulCycles(t.user[i.rs])
<1>1. Multiply(t, i) = SetReg(Spend(t, n), i.rd, y)
  BY DEF Multiply
<1> HIDE DEF y, n
<1>2. Steady(t, t)
  BY SteadySmall
<1>3. Steady(t, Spend(t, n))
  BY <1>2, SteadyThen
<1>4. Steady(t, SetReg(Spend(t, n), i.rd, y))
  BY <1>3, SteadyThen
<1> QED
  BY <1>1, <1>4

LEMMA SteadySwap ==
  ASSUME NEW t, DOMAIN t = Fields, NEW i \in SwapInsns, NEW v
  PROVE  Steady(t, Swap(t, i, v))
<1> DEFINE a == Reg(t, i.rn, 4)
           r == Fetch(t, i.byte, a, v)
           val == Reg(t, i.rm, 8)
           u == StoreAt(r.s, i.byte, a, val)
           x == Turned(i, a, r.val)
<1>1. Swap(t, i, v) = SetReg(Spend(u, 9), i.rd, x)
  BY DEF Swap, SwapFrom, SwapAt
<1>2. i.byte \in BOOLEAN
  BY DEF SwapInsns
<1> HIDE DEF a, val
<1>3. Steady(t, r.s)
  BY <1>2, SteadyMemory
<1> HIDE DEF r, x
<1>4. Steady(r.s, u)
  BY <1>2, <1>3, SteadyMemory DEF Steady
<1>5. Steady(t, u)
  BY <1>3, <1>4, SteadyTogether
<1> HIDE DEF u
<1>6. Steady(t, Spend(u, 9))
  BY <1>5, SteadyThen
<1>7. Steady(t, SetReg(Spend(u, 9), i.rd, x))
  BY <1>6, SteadyThen
<1> QED
  BY <1>1, <1>7

LEMMA SteadyTransfer ==
  ASSUME NEW t, DOMAIN t = Fields, NEW i \in TransferInsns, NEW v
  PROVE  Steady(t, Transfer(t, i, v))
<1> DEFINE o == Operand(t, i.o2)
           base == Reg(t, i.rn, Ahead(i.o2))
           moved == Moved(i, base, o.val)
           a == IF i.pre THEN moved ELSE base
           r == Fetch(o.s, i.byte, a, v)
           x == Turned(i, a, r.val)
           stored == StoredOne(t, i)
           w == StoreAt(o.s, i.byte, a, stored)
           u == Based(r.s, i, moved)
           z == Based(w, i, moved)
<1>1. Transfer(t, i, v) = IF i.load THEN LoadOne(t, i, u, x) ELSE Spend(z, 7)
  BY DEF Transfer, TransferBy, Indexed, TransferAt, LoadFrom
<1>2. i.byte \in BOOLEAN
  BY DEF TransferInsns
<1>3. Steady(t, o.s)
  BY <1>2, SteadyMemory
<1> HIDE DEF o, a, stored
<1>4. Steady(o.s, r.s) /\ Steady(o.s, w)
  <2>1. DOMAIN o.s = Fields
    BY <1>3 DEF Steady
  <2>2. Steady(o.s, r.s)
    BY <1>2, <2>1, SteadyMemory
  <2>3. Steady(o.s, w)
    BY <1>2, <2>1, SteadyMemory
  <2> QED
    BY <2>2, <2>3
<1>5. Steady(t, r.s) /\ Steady(t, w)
  BY <1>3, <1>4, SteadyTogether
<1> HIDE DEF r, w, x, moved
<1>6. Steady(t, u) /\ Steady(t, z)
  BY <1>5, SteadyThen
<1> HIDE DEF u, z
<1>7. Steady(t, LoadUser(u, Mode(t), i.rd, x)) /\ Steady(t, SetReg(u, i.rd, x))
  BY <1>6, SteadyThen
<1>8. Steady(t, LoadOne(t, i, u, x)) /\ Steady(t, Spend(z, 7))
  BY <1>6, <1>7, SteadyThen DEF LoadOne
<1> QED
  BY <1>1, <1>8

LEMMA SteadyBranch ==
  ASSUME NEW t, DOMAIN t = Fields, NEW i
  PROVE  Steady(t, Branch(t, i))
<1> DEFINE u == IF i.link THEN SetReg(t, 14, t.user[15]) ELSE t
           pc == Wrap(t.user[15] + 4 + i.offset)
<1>1. Branch(t, i) = Spend(SetReg(u, 15, pc), 5)
  BY DEF Branch
<1>2. Steady(t, u)
  BY SteadySmall
<1> HIDE DEF u, pc
<1>3. Steady(t, SetReg(u, 15, pc))
  BY <1>2, SteadyThen
<1> QED
  BY <1>1, <1>3, SteadyThen

LEMMA SteadyLoadOf ==
  ASSUME NEW t, NEW u, Steady(t, u), NEW i, NEW base, NEW n, NEW v
  PROVE  Steady(t, LoadOf(i, u, base, n, v))
<1> DEFINE r == ReadWord(u, WordOf(i, base, n), v)
<1>1. Steady(u, r.s)
  BY SteadyRead DEF Steady
<1> HIDE DEF r
<1>2. Steady(t, r.s)
  BY <1>1, SteadyTogether
<1>3. Steady(t, GivenWord(i, r, n))
  BY <1>2, SteadyThen DEF GivenWord
<1> QED
  BY <1>3 DEF LoadOf, r

LEMMA SteadyStoreOf ==
  ASSUME NEW t, NEW u, Steady(t, u), NEW i, NEW base, NEW n
  PROVE  Steady(t, StoreOf(i, u, base, n))
<1> DEFINE x == IF n = 15 THEN Wrap(u.user[15] + 8)
                ELSE IF i.user THEN GetUser(u, n) ELSE u.user[n]
<1> HIDE DEF x
<1>1. Steady(u, WriteWord(u, WordOf(i, base, n), x))
  BY SteadyWrite DEF Steady
<1>2. Steady(t, WriteWord(u, WordOf(i, base, n), x))
  BY <1>1, SteadyTogether
<1> QED
  BY <1>2 DEF StoreOf, x

LEMMA SteadyLoadRun ==
  ASSUME NEW t, NEW i, NEW x, Steady(t, x), NEW base, NEW v, NEW f, LoadRun(f, 16, i, x, base, v)
  PROVE  Steady(t, f[16])
<1> DEFINE Wrong == {n \in Nat : n <= 16 /\ ~Steady(t, f[n])}
<1>1. SUFFICES ASSUME Wrong # {} PROVE FALSE
  OBVIOUS
<1>2. PICK m \in Wrong : \A n \in Wrong : m <= n
  BY <1>1, Least
<1>3. f[m] = IF m = 0 THEN x ELSE LoadOf(i, f[m - 1], base, m - 1, v)
  <2>1. m \in 0 .. 16
    BY <1>2
  <2> QED
    BY <2>1 DEF LoadRun
<1>4. m # 0
  BY <1>2, <1>3
<1>5. m - 1 \in Nat /\ m - 1 <= 16 /\ m - 1 \notin Wrong
  BY <1>2, <1>4
<1>6. Steady(t, f[m])
  BY <1>3, <1>4, <1>5, SteadyLoadOf
<1> QED
  BY <1>2, <1>6

LEMMA SteadyStoreRun ==
  ASSUME NEW t, NEW i, NEW x, Steady(t, x), NEW base, NEW f, StoreRun(f, 15, i, x, base)
  PROVE  Steady(t, f[15])
<1> DEFINE Wrong == {n \in Nat : n <= 15 /\ ~Steady(t, f[n])}
<1>1. SUFFICES ASSUME Wrong # {} PROVE FALSE
  OBVIOUS
<1>2. PICK m \in Wrong : \A n \in Wrong : m <= n
  BY <1>1, Least
<1>3. f[m] = IF m = 0 THEN x ELSE StoreOf(i, f[m - 1], base, m - 1)
  <2>1. m \in 0 .. 15
    BY <1>2
  <2> QED
    BY <2>1 DEF StoreRun
<1>4. m # 0
  BY <1>2, <1>3
<1>5. m - 1 \in Nat /\ m - 1 <= 15 /\ m - 1 \notin Wrong
  BY <1>2, <1>4
<1>6. Steady(t, f[m])
  BY <1>3, <1>4, <1>5, SteadyStoreOf
<1> QED
  BY <1>2, <1>6

LEMMA SteadyLoadBlock ==
  ASSUME NEW t, DOMAIN t = Fields, NEW i, ~i.user, NEW v
  PROVE  Steady(t, LoadBlock(t, i, v))
<1> DEFINE base == Reg(t, i.rn, 8)
           x == IF i.wb THEN Given(i, t, i.rn, Beyond(i, base)) ELSE t
           f == CHOOSE f : LoadRun(f, 16, i, x, base, v)
           n == Cardinality(i.list) + 4 + (IF 15 \in i.list THEN 5 ELSE 0)
<1>1. LoadBlock(t, i, v) = Spend(RestoredBy(i, f[16]), n)
  BY DEF LoadBlock, LoadRun
<1>2. LoadRun(f, 16, i, x, base, v)
  BY LoadRunExists
<1>3. Steady(t, t)
  BY SteadySmall
<1> HIDE DEF f, n
<1>4. Steady(t, x)
  BY <1>3, SteadyThen
<1> HIDE DEF x, base
<1>5. Steady(t, f[16])
  BY <1>2, <1>4, SteadyLoadRun
<1>6. Steady(t, RestoredBy(i, f[16]))
  BY <1>5 DEF RestoredBy
<1> QED
  BY <1>1, <1>6, SteadyThen

LEMMA SteadyStoreBlock ==
  ASSUME NEW t, DOMAIN t = Fields, NEW i
  PROVE  Steady(t, StoreBlock(t, i))
<1> DEFINE base == Reg(t, i.rn, 8)
           x == IF \E n \in i.list : n < i.rn THEN NewBase(i, t, Beyond(i, base)) ELSE t
           f == CHOOSE f : StoreRun(f, 15, i, x, base)
           n == Cardinality(i.list) + 6
           u == NewBase(i, f[15], Beyond(i, base))
<1>1. StoreBlock(t, i) = Spend(StoreOf(i, u, base, 15), n)
  BY DEF StoreBlock, StoreRun
<1>2. StoreRun(f, 15, i, x, base)
  BY StoreRunExists
<1>3. Steady(t, t)
  BY SteadySmall
<1> HIDE DEF f, n
<1>4. Steady(t, x)
  BY <1>3, SteadyThen
<1> HIDE DEF x, base
<1>5. Steady(t, f[15])
  BY <1>2, <1>4, SteadyStoreRun
<1>6. Steady(t, u)
  BY <1>5, SteadyThen
<1> HIDE DEF u
<1>7. Steady(t, StoreOf(i, u, base, 15))
  BY <1>6, SteadyStoreOf
<1> QED
  BY <1>1, <1>7, SteadyThen

LEMMA SteadyAlu ==
  ASSUME NEW t, DOMAIN t = Fields, NEW i \in AluInsns, ~i.s, i.code \notin {9, 11}
  PROVE  Steady(t, Alu(t, i))
<1> DEFINE o == Operand(t, i.o2)
           a == Reg(t, i.rn, Ahead(i.o2))
           u == Carried(i, o.s)
           y == Result(i.code, a, o.val, u.psr.c)
           f == Flagged(i, u, a, o.val, y)
           w == Settled(i, u, o.val, f, y)
           n == IF i.o2.kind = "by" THEN 1 ELSE 0
<1>1. Alu(t, i) = Spend(w, n)
  BY DEF Alu, AluWith, Combined, Computed
<1>2. Steady(t, o.s)
  BY SteadyMemory
<1>3. Steady(t, u)
  BY <1>2 DEF Carried
<1> HIDE DEF o, a, u, y, n
<1>4. Steady(t, f)
  BY <1>3 DEF Flagged
<1> HIDE DEF f
<1>5. i.code \in 0 .. 15
  BY DEF AluInsns
<1>6. CASE i.code \in {8, 10}
  <2>1. w = MoveFromPsr(u, i)
    BY <1>6 DEF Settled, IsCompare
  <2>2. Steady(t, MoveFromPsr(u, i))
    BY <1>3, SteadyThen DEF MoveFromPsr
  <2> QED
    BY <1>1, <2>1, <2>2, SteadyThen
<1>7. CASE i.code \notin {8, 10} /\ i.rd # 15
  <2>1. w = SetReg(f, i.rd, y)
    BY <1>5, <1>7 DEF Settled, IsCompare
  <2>2. Steady(t, SetReg(f, i.rd, y))
    BY <1>4, SteadyThen
  <2> QED
    BY <1>1, <2>1, <2>2, SteadyThen
<1>8. CASE i.code \notin {8, 10} /\ i.rd = 15
  <2> DEFINE g == SetReg(f, 15, y)
  <2>1. w = Spend(g, 5)
    BY <1>5, <1>8 DEF Settled, IsCompare
  <2>2. Steady(t, g)
    BY <1>4, SteadyThen
  <2> HIDE DEF g
  <2>3. Steady(t, Spend(g, 5))
    BY <2>2, SteadyThen
  <2> QED
    BY <1>1, <2>1, <2>3, SteadyThen
<1> QED
  BY <1>6, <1>7, <1>8

LEMMA SteadyPerform ==
  ASSUME NEW t, DOMAIN t = Fields, NEW i \in Instructions, NEW v, ~Status(i), i.op \notin Traps
  PROVE  Steady(t, Perform(t, i, v))
<1>1. CASE i \in AluInsns
  <2>1. Perform(t, i, v) = Alu(t, i) /\ i.op = "alu"
    BY <1>1 DEF Perform, AluInsns
  <2> QED
    BY <1>1, <2>1, SteadyAlu DEF Status
<1>2. CASE i \in MulInsns
  <2>1. Perform(t, i, v) = Multiply(t, i) /\ i.op = "mul"
    BY <1>2 DEF Perform, MulInsns
  <2> QED
    BY <1>2, <2>1, SteadyMultiply DEF Status
<1>3. CASE i \in SwapInsns
  <2>1. Perform(t, i, v) = Swap(t, i, v)
    BY <1>3 DEF Perform, SwapInsns
  <2> QED
    BY <1>3, <2>1, SteadySwap
<1>4. CASE i \in TransferInsns
  <2>1. Perform(t, i, v) = Transfer(t, i, v)
    BY <1>4 DEF Perform, TransferInsns
  <2> QED
    BY <1>4, <2>1, SteadyTransfer
<1>5. CASE i \in BlockInsns
  <2>1. i.op = "block" /\ i.load \in BOOLEAN
    BY <1>5 DEF BlockInsns
  <2>2. Perform(t, i, v) = IF i.load THEN LoadBlock(t, i, v) ELSE StoreBlock(t, i)
    BY <2>1 DEF Perform
  <2>3. i.load => ~i.user
    BY <2>1 DEF Status
  <2> QED
    BY <2>2, <2>3, SteadyLoadBlock, SteadyStoreBlock
<1>6. CASE i.op = "branch"
  <2>1. Perform(t, i, v) = Branch(t, i)
    BY <1>6 DEF Perform
  <2> QED
    BY <2>1, SteadyBranch
<1> QED
  <2>1. i \in OtherInsns => i.op \in {"branch", "swi", "undefined", "coprocessor"}
    BY DEF OtherInsns
  <2>2. \/ i \in AluInsns \/ i \in MulInsns \/ i \in SwapInsns \/ i \in TransferInsns
        \/ i \in BlockInsns \/ i \in OtherInsns
    BY Zenon DEF Instructions
  <2>3. i \in OtherInsns => i.op = "branch"
    BY <2>1 DEF Traps
  <2> QED
    BY <1>1, <1>2, <1>3, <1>4, <1>5, <1>6, <2>2, <2>3

LEMMA SteadyFetched == ASSUME NEW t, DOMAIN t = Fields PROVE Steady(t, Fetched(t))
BY DEF Steady, Fetched, Fields

(* A comparison leaves the flags of its operands.                          *)
LEMMA ComparedFlags ==
  ASSUME NEW t, Fine(t, 1), NEW i \in AluInsns, i.code = 10, i.s
  PROVE  Means(<<Reg(t, i.rn, Ahead(i.o2)), Operand(t, i.o2).val>>, Alu(t, i).psr)
<1> DEFINE o == Operand(t, i.o2)
           a == Reg(t, i.rn, Ahead(i.o2))
           u == Carried(i, o.s)
           y == Result(i.code, a, o.val, u.psr.c)
           f == Flagged(i, u, a, o.val, y)
           w == Settled(i, u, o.val, f, y)
           n == IF i.o2.kind = "by" THEN 1 ELSE 0
<1>1. Alu(t, i) = Spend(w, n)
  BY DEF Alu, AluWith, Combined, Computed
<1>2. i.rn \in Regs /\ i.o2 \in Operands
  BY DEF AluInsns
<1>3. Fine(o.s, 1) /\ o.val \in Data
  BY <1>2, FineOperand
<1>4. a \in Data
  BY <1>2, FineReg DEF Ahead
<1>5. u = o.s
  BY DEF Carried, IsLogic
<1>6. y = Sub(H, a, o.val, 1)
  BY DEF Result
<1> HIDE DEF o, a, u, y, n
<1>7. f = [u EXCEPT !.psr = Flags(u.psr, 10, a, o.val, y)]
  BY DEF Flagged
<1>8. w = f
  BY DEF Settled, IsCompare
<1>9. DOMAIN u = Fields /\ StatusShaped(u.psr)
  BY <1>3, <1>5 DEF Fine, Fit, Shaped
<1>10. Alu(t, i).psr = Flags(u.psr, 10, a, o.val, y)
  BY <1>1, <1>7, <1>8, <1>9 DEF Spend, Fields
<1>11. Means(<<a, o.val>>, Flags(u.psr, 10, a, o.val, Sub(H, a, o.val, 1)))
  BY <1>3, <1>4, <1>9, Compares
<1>12. Means(<<a, o.val>>, Alu(t, i).psr)
  BY <1>6, <1>10, <1>11
<1> QED
  BY <1>12 DEF a, o
-----------------------------------------------------------------------------
(* The status that a fast interrupt saved stays, unless its handler writes *)
(* it.                                                                     *)
LEMMA SavedSmall ==
  ASSUME NEW t, DOMAIN t = Fields, NEW n, NEW v
  PROVE  /\ SetReg(t, n, v).spsr = t.spsr /\ Spend(t, n).spsr = t.spsr
         /\ [t EXCEPT !.psr = v].spsr = t.spsr /\ DOMAIN SetReg(t, n, v) = Fields
         /\ DOMAIN Spend(t, n) = Fields /\ DOMAIN [t EXCEPT !.psr = v] = Fields
BY DEF SetReg, Spend, Fields

LEMMA SavedMove ==
  ASSUME NEW t, Fit(t), NEW i \in AluInsns, NEW val, i.code = 11 => Mode(t) # "fiq"
  PROVE  MoveToPsr(t, i, val).spsr["fiq"] = t.spsr["fiq"]
<1> DEFINE q == Psr(val) m == Mode(t)
<1>1. StatusShaped(q)
  BY DEF Psr, StatusShaped, StatusFields, On
<1>2. DOMAIN t = Fields /\ StatusShaped(t.psr) /\ DOMAIN t.spsr = Modes
  BY DEF Fit, Shaped
<1> HIDE DEF q, m
<1>3. ASSUME NEW x, m # "fiq" PROVE [t EXCEPT !.spsr[m] = x].spsr["fiq"] = t.spsr["fiq"]
  BY <1>2, <1>3 DEF Fields
<1>4. \A x : [t EXCEPT !.psr = x].spsr = t.spsr
  BY <1>2, SavedSmall
<1>5. CpsrSet(t, q).spsr = t.spsr
  BY <1>1, <1>2, CpsrSetFields
<1>6. MoveToPsr(t, i, val) =
        IF i.rn % 2 = 0 \/ m = "user"
        THEN IF i.code = 11 THEN [t EXCEPT !.spsr[m] = FlagsOnly(t.spsr[m], q)]
             ELSE [t EXCEPT !.psr = FlagsOnly(t.psr, q)]
        ELSE IF i.code = 11 THEN [t EXCEPT !.spsr[m] = q] ELSE CpsrSet(t, q)
  BY DEF MoveToPsr, q, m
<1>7. i.code = 11 => m # "fiq"
  BY DEF m
<1> QED
  BY <1>3, <1>4, <1>5, <1>6, <1>7

LEMMA SavedRestore ==
  ASSUME NEW t, Fit(t) PROVE Restore(t).spsr = t.spsr /\ DOMAIN Restore(t) = Fields
<1>1. StatusShaped(t.spsr[Mode(t)]) /\ DOMAIN t = Fields /\ StatusShaped(t.psr)
  BY ModeIn DEF Fit, Shaped, Mode
<1> QED
  BY <1>1, CpsrSetFields DEF Restore

LEMMA SavedAlu ==
  ASSUME NEW t, Fit(t), NEW i \in AluInsns, ~(Saves(i) /\ Mode(t) = "fiq")
  PROVE  Alu(t, i).spsr["fiq"] = t.spsr["fiq"]
<1> DEFINE o == Operand(t, i.o2)
           C == {}
           a == Reg(t, i.rn, Ahead(i.o2))
           u == Carried(i, o.s)
           y == Result(i.code, a, o.val, u.psr.c)
           f == Flagged(i, u, a, o.val, y)
           w == Settled(i, u, o.val, f, y)
           n == IF i.o2.kind = "by" THEN 1 ELSE 0
<1>1. Alu(t, i) = Spend(w, n)
  BY DEF Alu, AluWith, Combined, Computed
<1>2. i.code \in 0 .. 15 /\ i.s \in BOOLEAN /\ i.rd \in Regs /\ i.op = "alu"
  BY DEF AluInsns
<1>3. Only(t, o.s, C)
  BY OperandOnly
<1>4. Only(t, u, C)
  <2>1. StatusShaped(o.s.psr)
    BY <1>3, Then DEF Fit, Shaped
  <2> HIDE DEF o, C
  <2>2. Only(t, [o.s EXCEPT !.psr.c = o.s.carry_out], C)
    BY <1>3, <2>1, StatusKept, ThenPsr
  <2> QED
    BY <1>3, <2>2 DEF Carried
<1> HIDE DEF o, a, u, y, C, n
<1>5. Only(t, f, C)
  <2>1. StatusShaped(u.psr)
    BY <1>4, Then DEF Fit, Shaped
  <2>2. Only(t, [u EXCEPT !.psr = Flags(u.psr, i.code, a, o.val, y)], C)
    BY <1>2, <1>4, <2>1, FlagsKept, ThenPsr
  <2> QED
    BY <1>4, <2>2 DEF Flagged
<1> HIDE DEF f
<1>6. /\ Fit(u) /\ Mode(u) = Mode(t) /\ u.spsr = t.spsr /\ DOMAIN u = Fields
      /\ Fit(f) /\ f.spsr = t.spsr /\ DOMAIN f = Fields
  BY <1>4, <1>5, StillFit DEF Only, Mode, Fit, Shaped
<1>7. DOMAIN w = Fields /\ w.spsr["fiq"] = t.spsr["fiq"]
  <2>1. CASE i.code \in {9, 11} /\ ~i.s
    <3>1. w = MoveToPsr(u, i, o.val)
      BY <2>1 DEF Settled, IsCompare
    <3>2. i.code = 11 => Mode(u) # "fiq"
      BY <1>2, <1>6, <2>1 DEF Saves
    <3>3. DOMAIN w = Fields
      <4>1. Lands(u, MoveToPsr(u, i, o.val), {})
        BY <1>6, MoveToPsrLands
      <4> QED
        BY <3>1, <4>1 DEF Lands, Framed
    <3> QED
      BY <1>6, <3>1, <3>2, <3>3, SavedMove
  <2>2. CASE i.code \in {8, 10} /\ ~i.s
    <3>1. w = MoveFromPsr(u, i)
      BY <2>2 DEF Settled, IsCompare
    <3> QED
      BY <1>6, <3>1, SavedSmall DEF MoveFromPsr
  <2>3. CASE i.code \in IsCompare /\ i.s
    <3>1. w = f
      BY <2>3 DEF Settled, IsCompare
    <3> QED
      BY <1>6, <3>1
  <2>4. CASE i.code \notin IsCompare /\ i.rd # 15
    <3>1. w = SetReg(f, i.rd, y)
      BY <2>4 DEF Settled, IsCompare
    <3> QED
      BY <1>6, <3>1, SavedSmall
  <2>5. CASE i.code \notin IsCompare /\ i.rd = 15
    <3> DEFINE g == SetReg(f, 15, y)
    <3>1. w = Spend(IF i.s THEN Restore(g) ELSE g, 5)
      BY <2>5 DEF Settled, IsCompare
    <3>2. Only(t, g, {<<"none", 0>>})
      <4>1. Only(t, f, {<<"none", 0>>})
        BY <1>5, Wider DEF C
      <4> QED
        BY <4>1, ThenSet DEF Regs
    <3>3. Fit(g) /\ g.spsr = t.spsr /\ DOMAIN g = Fields
      BY <3>2, StillFit DEF Only, Fit, Shaped
    <3> HIDE DEF g
    <3>4. Restore(g).spsr = t.spsr /\ DOMAIN Restore(g) = Fields
      BY <3>3, SavedRestore
    <3> QED
      BY <3>1, <3>3, <3>4, SavedSmall
  <2> HIDE DEF w
  <2> QED
    BY <1>2, <2>1, <2>2, <2>3, <2>4, <2>5 DEF IsCompare
<1> HIDE DEF w
<1> QED
  BY <1>1, <1>7, SavedSmall

LEMMA SavedBlock ==
  ASSUME NEW t, Fit(t), NEW i \in BlockInsns, i.load, NEW v
  PROVE  LoadBlock(t, i, v).spsr = t.spsr
<1> DEFINE base == Reg(t, i.rn, 8)
           x == IF i.wb THEN Given(i, t, i.rn, Beyond(i, base)) ELSE t
           f == CHOOSE f : LoadRun(f, 16, i, x, base, v)
           n == Cardinality(i.list) + 4 + (IF 15 \in i.list THEN 5 ELSE 0)
<1>1. LoadBlock(t, i, v) = Spend(RestoredBy(i, f[16]), n)
  BY DEF LoadBlock, LoadRun
<1>2. LoadRun(f, 16, i, x, base, v)
  BY LoadRunExists
<1>3. i.rn \in Regs /\ i.wb \in BOOLEAN
  BY DEF BlockInsns
<1>4. Only(t, t, Reach(i, t))
  BY Aside
<1> HIDE DEF f, n
<1>5. Only(t, x, Reach(i, t))
  <2>1. i.wb => i.rn \in Targets(i)
    BY TargetsAre DEF BlockInsns
  <2> QED
    BY <1>3, <1>4, <2>1, GivenOnly
<1> HIDE DEF x, base
<1>6. Only(t, f[16], Reach(i, t))
  BY <1>2, <1>5, LoadRunOnly
<1>7. Fit(f[16]) /\ f[16].spsr = t.spsr /\ DOMAIN f[16] = Fields
  BY <1>6, StillFit DEF Only, Fit, Shaped
<1>8. RestoredBy(i, f[16]).spsr = t.spsr /\ DOMAIN RestoredBy(i, f[16]) = Fields
  BY <1>7, SavedRestore DEF RestoredBy
<1> QED
  BY <1>1, <1>8, SavedSmall

LEMMA SavedTrap ==
  ASSUME NEW t, Fit(t), NEW m \in Banked, m # "fiq", NEW back, NEW vector
  PROVE  LET u == Trap(t, m, back, vector) IN
         DOMAIN u = Fields /\ u.spsr["fiq"] = t.spsr["fiq"]
<1> DEFINE p == [t EXCEPT !.spsr[m] = t.psr, !.psr.i = TRUE]
           w == SetMode(p, ModeBits[m])
<1>1. DOMAIN t = Fields /\ StatusShaped(t.psr) /\ DOMAIN t.spsr = Modes /\ "fiq" \in Modes
  BY DEF Fit, Shaped, Modes, Banked
<1>2. DOMAIN p = Fields /\ p.psr = [t.psr EXCEPT !.i = TRUE] /\ p.spsr["fiq"] = t.spsr["fiq"]
  BY <1>1 DEF Fields
<1>3. StatusShaped(p.psr)
  <2>1. StatusShaped([t.psr EXCEPT !.i = TRUE])
    BY <1>1, MaskKept
  <2> HIDE DEF p
  <2> QED
    BY <1>2, <2>1
<1> HIDE DEF p
<1>4. DOMAIN w = Fields /\ w.spsr = p.spsr
  BY <1>2, <1>3, SetModeFields
<1> HIDE DEF w
<1>5. Trap(t, m, back, vector) = [w EXCEPT !.user[14] = back, !.user[15] = vector]
  BY DEF Trap, w, p
<1> QED
  BY <1>2, <1>4, <1>5 DEF Fields

LEMMA SavedPerform ==
  ASSUME NEW t, Fit(t), NEW i \in Instructions, NEW v, ~(Saves(i) /\ Mode(t) = "fiq")
  PROVE  Perform(t, i, v).spsr["fiq"] = t.spsr["fiq"]
<1>1. CASE i \in AluInsns
  <2>1. Perform(t, i, v) = Alu(t, i)
    BY <1>1 DEF Perform, AluInsns
  <2> QED
    BY <1>1, <2>1, SavedAlu
<1>2. CASE i \in MulInsns
  <2>1. Perform(t, i, v) = Multiply(t, i)
    BY <1>2 DEF Perform, MulInsns
  <2> QED
    BY <1>2, <2>1, MultiplyOnly DEF Only
<1>3. CASE i \in SwapInsns
  <2>1. Perform(t, i, v) = Swap(t, i, v)
    BY <1>3 DEF Perform, SwapInsns
  <2> QED
    BY <1>3, <2>1, SwapOnly DEF Only
<1>4. CASE i \in TransferInsns
  <2>1. Perform(t, i, v) = Transfer(t, i, v)
    BY <1>4 DEF Perform, TransferInsns
  <2> QED
    BY <1>4, <2>1, TransferOnly DEF Only
<1>5. CASE i \in BlockInsns
  <2>1. i.op = "block" /\ i.load \in BOOLEAN
    BY <1>5 DEF BlockInsns
  <2>2. Perform(t, i, v) = IF i.load THEN LoadBlock(t, i, v) ELSE StoreBlock(t, i)
    BY <2>1 DEF Perform
  <2>3. StoreBlock(t, i).spsr = t.spsr
    BY <1>5, StoreBlockOnly DEF Only
  <2> QED
    BY <1>5, <2>1, <2>2, <2>3, SavedBlock
<1>6. CASE i.op = "branch"
  <2>1. Perform(t, i, v) = Branch(t, i)
    BY <1>6 DEF Perform
  <2> QED
    BY <1>6, <2>1, BranchOnly DEF Only
<1>7. CASE i.op = "swi"
  <2>1. Perform(t, i, v) = Swi(t, i)
    BY <1>7 DEF Perform
  <2>2. CASE Done(i)
    <3> DEFINE u == SetReg(t, 0, HleAnswer(t.ram, i.number, t.user))
               m == HleStore(t.ram, i.number, t.user)
    <3>1. Swi(t, i) = Spend([u EXCEPT !.ram = m], 5)
      BY <1>7, <2>2 DEF Swi, Done
    <3>2. DOMAIN u = Fields /\ u.spsr = t.spsr
      BY SavedSmall DEF Fit, Shaped
    <3> HIDE DEF u, m
    <3> DEFINE z == [u EXCEPT !.ram = m]
    <3>3. DOMAIN z = Fields /\ z.spsr = t.spsr
      BY <3>2 DEF Fields
    <3>4. Perform(t, i, v) = Spend(z, 5)
      BY <2>1, <3>1
    <3> HIDE DEF z
    <3> QED
      BY <3>3, <3>4, SavedSmall
  <2>3. CASE ~Done(i)
    <3>1. Swi(t, i) = Spend(Trap(t, "svc", t.user[15], 8), 5)
      BY <1>7, <2>3 DEF Swi, Done
    <3> DEFINE u == Trap(t, "svc", t.user[15], 8)
    <3>2. DOMAIN u = Fields /\ u.spsr["fiq"] = t.spsr["fiq"]
      BY SavedTrap DEF Banked, Pairs
    <3> HIDE DEF u
    <3> QED
      BY <2>1, <3>1, <3>2, SavedSmall DEF u
  <2> QED
    BY <2>2, <2>3
<1>8. CASE i.op \in {"undefined", "coprocessor"}
  <2>1. Perform(t, i, v) = Undefined(t)
    BY <1>8 DEF Perform
  <2> DEFINE u == Trap(t, "und", t.user[15], 4)
  <2>2. DOMAIN u = Fields /\ u.spsr["fiq"] = t.spsr["fiq"]
    BY SavedTrap DEF Banked, Pairs
  <2>3. Undefined(t) = Spend(u, 5)
    BY DEF Undefined
  <2> HIDE DEF u
  <2> QED
    BY <2>1, <2>2, <2>3, SavedSmall
<1> QED
  <2>1. i \in OtherInsns => i.op \in {"branch", "swi", "undefined", "coprocessor"}
    BY DEF OtherInsns
  <2>2. \/ i \in AluInsns \/ i \in MulInsns \/ i \in SwapInsns \/ i \in TransferInsns
        \/ i \in BlockInsns \/ i \in OtherInsns
    BY Zenon DEF Instructions
  <2>3. i \in OtherInsns =>
          i.op = "branch" \/ i.op = "swi" \/ i.op \in {"undefined", "coprocessor"}
    BY <2>1
  <2> QED
    BY <1>1, <1>2, <1>3, <1>4, <1>5, <1>6, <1>7, <1>8, <2>2, <2>3

(* What a fast interrupt leaves, and where the instruction that ends its   *)
(* handler goes.                                                           *)
LEMMA TrapLeaves ==
  ASSUME NEW t, Fit(t), NEW m \in Banked, NEW back, NEW vector
  PROVE  LET u == Trap(t, m, back, vector) IN
         /\ SameFlags(t.psr, u.psr) /\ Mode(u) = m /\ u.user[14] = back
<1> DEFINE p == [t EXCEPT !.spsr[m] = t.psr, !.psr.i = TRUE]
           f == ChangeMode(Bank(p), Mode(p), ModeOf(ModeBits[m]))
           w == SetMode(p, ModeBits[m])
           u == [w EXCEPT !.user[14] = back, !.user[15] = vector]
<1>1. m \in Modes /\ DOMAIN t = Fields /\ StatusShaped(t.psr) /\ DOMAIN t.spsr = Modes
      /\ \A k \in Modes : StatusShaped(t.spsr[k])
  BY DEF Fit, Shaped, Modes
<1>2. /\ DOMAIN p = Fields /\ p.user = t.user /\ p.cash = t.cash /\ p.bank = t.bank
      /\ p.psr = [t.psr EXCEPT !.i = TRUE] /\ p.spsr = [t.spsr EXCEPT ![m] = t.psr]
  BY <1>1 DEF Fields
<1>3. StatusShaped([t.psr EXCEPT !.i = TRUE]) /\ SameFlags(t.psr, [t.psr EXCEPT !.i = TRUE])
  BY <1>1 DEF StatusShaped, StatusFields, On, SameFlags
<1> HIDE DEF p
<1>4. StatusShaped(p.psr) /\ SameFlags(t.psr, p.psr)
  BY <1>2, <1>3
<1>5. Shaped(p)
  BY <1>1, <1>2, <1>4 DEF Fit, Shaped
<1>6. ModeBits[m] \in ModeNumbers /\ ModeOf(ModeBits[m]) = m
  BY <1>1, ModeOfMode
<1>7. Shaped(w) /\ w.psr.mode = ModeBits[m] /\ DOMAIN w = Fields
  BY <1>2, <1>4, <1>5, <1>6, SetModeShaped, SetModeFields
<1>8. SameFlags(p.psr, w.psr)
  <2> HIDE DEF f
  <2>1. w = [p EXCEPT !.user = f.user, !.cash = f.cash, !.bank = f.bank, !.psr.mode = ModeBits[m]]
    BY DEF SetMode, Bank, f
  <2>2. w.psr = [p.psr EXCEPT !.mode = ModeBits[m]]
    BY <1>2, <2>1 DEF Fields
  <2> QED
    BY <1>4, <2>2 DEF SameFlags, StatusShaped, StatusFields, On
<1>9. Trap(t, m, back, vector) = u
  BY DEF Trap, w, p
<1> HIDE DEF w
<1>10. u.psr = w.psr /\ u.user[14] = back
  BY <1>7 DEF Shaped, On, Fields, Regs
<1> HIDE DEF u
<1>11. SameFlags(t.psr, u.psr) /\ Mode(u) = m
  BY <1>4, <1>6, <1>7, <1>8, <1>10 DEF SameFlags, Mode
<1> QED
  BY <1>9, <1>10, <1>11

LEMMA FiqLeaves ==
  ASSUME NEW t, Fit(t)
  PROVE  /\ SameFlags(t.psr, Fiq(t).psr) /\ Mode(Fiq(t)) = "fiq"
         /\ Seen(Fiq(t), "fiq", 14) = Wrap(t.user[15] + 4)
<1> DEFINE back == Wrap(t.user[15] + 4)
           vector == \h1C
           u == Trap(t, "fiq", back, vector)
           w == [u EXCEPT !.psr.f = TRUE]
<1>1. Fiq(t) = w
  BY DEF Fiq
<1> HIDE DEF back, vector
<1>2. SameFlags(t.psr, u.psr) /\ Mode(u) = "fiq" /\ u.user[14] = back
  <2>1. "fiq" \in Banked
    BY DEF Banked
  <2> QED
    BY <2>1, TrapLeaves
<1>3. DOMAIN u = Fields /\ StatusShaped(u.psr)
  BY TrapLands DEF Banked, Fit, Shaped
<1> HIDE DEF u
<1>4. w.user = u.user /\ w.psr = [u.psr EXCEPT !.f = TRUE]
  BY <1>3 DEF Fields
<1> HIDE DEF w
<1>5. SameFlags(t.psr, w.psr) /\ w.psr.mode = u.psr.mode
  BY <1>2, <1>3, <1>4 DEF SameFlags, StatusShaped, StatusFields, On
<1>6. Mode(w) = "fiq"
  BY <1>2, <1>5 DEF Mode
<1>7. Seen(w, "fiq", 14) = back
  BY <1>2, <1>4, <1>6 DEF Seen, View, Own
<1> QED
  BY <1>1, <1>5, <1>6, <1>7 DEF back

LEMMA Back == ASSUME NEW x \in Data PROVE Sub(H, Wrap(Wrap(x + 4) + 0), 4, 1) = x
<1>1. H \in Nat /\ H > 4 /\ x \in 0 .. 2 * H - 1
  BY Sizes, DataIs
<1>2. Wrap(x + 4) = IF x + 4 >= 2 * H THEN x + 4 - 2 * H ELSE x + 4
  <2>1. CASE x + 4 < 2 * H
    <3>1. x + 4 \in Data
      BY <1>1, <2>1, DataIs
    <3> QED
      BY <1>1, <2>1, <3>1, WrapSame
  <2>2. CASE x + 4 >= 2 * H
    <3> DEFINE d == 2 * H
               y == x + 4 - d
    <3>1. d \in Nat \ {0} /\ y \in Nat /\ y < d /\ x + 4 = 1 * d + y
      BY <1>1, <2>2
    <3> HIDE DEF d, y
    <3>2. (x + 4) % d = y
      BY <3>1, SMT
    <3> QED
      BY <1>1, <2>2, <3>2 DEF Wrap, d, y
  <2> QED
    BY <1>1, <2>1, <2>2
<1>3. Wrap(x + 4) \in Data
  BY <1>1, Wrapped
<1> DEFINE z == Wrap(x + 4)
<1> HIDE DEF z
<1>4. z \in Int /\ z \in Data
  BY <1>3, DataIs DEF z
<1>5. Wrap(z + 0) = z
  BY <1>4, WrapSame
<1>6. Sub(H, z, 4, 1) = x
  BY <1>1, <1>2 DEF z, Sub, Cut
<1> QED
  BY <1>5, <1>6 DEF z

LEMMA ReturnsThere ==
  ASSUME NEW t, Fine(t, 1), Mode(t) = "fiq", NEW i \in AluInsns, IsReturn(i), NEW x \in Data,
         t.user[14] = Wrap(x + 4), NEW q, q = t.spsr["fiq"], q.mode \in ModeNumbers
  PROVE  Alu(t, i).psr = q /\ Alu(t, i).user[15] = x
<1> DEFINE o == Operand(t, i.o2)
           a == Reg(t, i.rn, Ahead(i.o2))
           u == Carried(i, o.s)
           y == Result(i.code, a, o.val, u.psr.c)
           f == Flagged(i, u, a, o.val, y)
           w == Settled(i, u, o.val, f, y)
           n == IF i.o2.kind = "by" THEN 1 ELSE 0
           g == SetReg(f, 15, y)
           p == Flags(t.psr, 2, a, 4, y)
           v == SetMode(g, q.mode \union {4})
<1>1. Alu(t, i) = Spend(w, n)
  BY DEF Alu, AluWith, Combined, Computed
<1>2. /\ i.code = 2 /\ i.s /\ i.rd = 15 /\ i.rn = 14 /\ i.o2.kind = "imm" /\ i.o2.val = 4
  BY DEF IsReturn
<1>3. o.s = t /\ o.val = 4 /\ u = t
  BY <1>2 DEF Operand, Answer, Carried, IsLogic
<1>4. a = Wrap(t.user[14] + 0)
  BY <1>2 DEF Reg
<1>5. y = x
  <2>1. y = Sub(H, a, 4, 1)
    BY <1>2, <1>3 DEF Result
  <2> QED
    BY <1>4, <2>1, Back
<1>6. f = [t EXCEPT !.psr = p]
  BY <1>2, <1>3 DEF Flagged
<1>7. w = Spend(Restore(g), 5)
  BY <1>2 DEF Settled, IsCompare
<1> HIDE DEF o, a, u, y, f, w, n
<1>8. Fit(t) /\ DOMAIN t = Fields /\ StatusShaped(t.psr)
  BY DEF Fine, Fit, Shaped
<1>9. Only(t, f, {})
  <2>1. StatusShaped(p) /\ p.mode = t.psr.mode
    BY <1>8, FlagsKept
  <2> HIDE DEF p
  <2> QED
    BY <1>6, <1>8, <2>1, PsrOnly
<1>10. Fit(f) /\ Mode(f) = "fiq" /\ f.spsr = t.spsr
  BY <1>8, <1>9, StillFit DEF Only, Mode
<1>11. Only(f, g, {})
  BY <1>10, PcOnly DEF SetReg
<1>12. Fit(g) /\ Mode(g) = "fiq" /\ g.spsr = t.spsr
  BY <1>10, <1>11, StillFit DEF Only, Mode
<1>13. g.user[15] = x
  <2>1. DOMAIN f = Fields /\ On(f.user, Regs) /\ 15 \in Regs
    BY <1>10 DEF Fit, Shaped, Regs
  <2> QED
    BY <1>5, <2>1 DEF SetReg, On, Fields
<1> HIDE DEF g
<1>14. Restore(g) = CpsrSet(g, q)
  BY <1>12 DEF Restore
<1>15. StatusShaped(q) /\ q.mode \union {4} = q.mode
  <2>1. \A bits \in ModeNumbers : bits \union {4} = bits
    BY DEF ModeNumbers, Modes, Banked, Pairs, ModeBits
  <2> QED
    BY <1>8, <2>1 DEF Fit, Shaped, Modes, Banked
<1>16. [q EXCEPT !.mode = q.mode \union {4}] = q
  BY <1>15 DEF StatusShaped, StatusFields, On
<1>17. DOMAIN v = Fields
  BY <1>12, SetModeFields DEF Fit, Shaped
<1>18. Seen(v, "user", 15) = Seen(g, "user", 15)
  <2> DEFINE bits == q.mode \union {4}
  <2>1. bits \in ModeNumbers
    BY <1>15
  <2> HIDE DEF bits
  <2>2. Seen(SetMode(g, bits), "user", 15) = Seen(g, "user", 15)
    BY <1>12, <2>1, SetModeSeen DEF Modes, Regs
  <2> QED
    BY <2>2 DEF bits
<1>19. v.user[15] = x
  BY <1>13, <1>18 DEF Seen, View, Own
<1>20. CpsrSet(g, q) = [v EXCEPT !.psr = q]
  BY <1>16 DEF CpsrSet
<1> HIDE DEF v
<1>21. CpsrSet(g, q).psr = q /\ CpsrSet(g, q).user[15] = x /\ DOMAIN CpsrSet(g, q) = Fields
  BY <1>17, <1>19, <1>20 DEF Fields
<1> DEFINE z == CpsrSet(g, q)
<1>22. z.psr = q /\ z.user[15] = x /\ DOMAIN z = Fields
  BY <1>21
<1>23. Alu(t, i) = Spend(Spend(z, 5), n)
  BY <1>1, <1>7, <1>14
<1> HIDE DEF z
<1>24. \A k : Spend(z, k).psr = q /\ Spend(z, k).user[15] = x /\ DOMAIN Spend(z, k) = Fields
  BY <1>22 DEF Spend, Fields
<1> DEFINE zz == Spend(z, 5)
<1>25. zz.psr = q /\ zz.user[15] = x /\ DOMAIN zz = Fields
  BY <1>24
<1> HIDE DEF zz
<1>26. Spend(zz, n).psr = q /\ Spend(zz, n).user[15] = x
  BY <1>25 DEF Spend, Fields
<1> QED
  BY <1>23, <1>26 DEF zz

(* What the histories say of the machine.                                  *)
Resumes(l, t) ==
  /\ l = [pc |-> l.pc, psr |-> l.psr, compared |-> l.compared] /\ l.pc \in Data
  /\ Seen(t, "fiq", 14) = Wrap(l.pc + 4) /\ t.spsr["fiq"] = l.psr
  /\ l.psr.mode \in ModeNumbers /\ Means(l.compared, l.psr)
History == Means(compared, s.psr) /\ (left # None => Resumes(left, s))

LEMMA OpAlu == ASSUME NEW i \in Instructions, i.op = "alu" PROVE i \in AluInsns
<1>1. i \in OtherInsns => i.op \in {"branch", "swi", "undefined", "coprocessor"}
  BY DEF OtherInsns
<1>2. /\ i \in MulInsns => i.op = "mul"
      /\ i \in SwapInsns => i.op = "swap"
      /\ i \in TransferInsns => i.op = "transfer"
      /\ i \in BlockInsns => i.op = "block"
  BY DEF MulInsns, SwapInsns, TransferInsns, BlockInsns
<1>3. \/ i \in AluInsns \/ i \in MulInsns \/ i \in SwapInsns \/ i \in TransferInsns
      \/ i \in BlockInsns \/ i \in OtherInsns
  BY Zenon DEF Instructions
<1> QED
  BY <1>1, <1>2, <1>3

(* A handler that leaves r14 and the saved status alone finds them as the  *)
(* interrupt left them.                                                    *)
LEMMA ResumesStill ==
  ASSUME NEW t, Fit(t), NEW i \in Instructions, NEW u, Lands(t, u, Allowed(i, t)),
         u.psr.mode \in ModeNumbers, u.spsr["fiq"] = t.spsr["fiq"],
         Mode(t) = "fiq" => 14 \notin Targets(i), NEW l, Resumes(l, t)
  PROVE  Resumes(l, u)
<1>1. "fiq" \in Modes /\ 14 \in Others /\ Physical("fiq", 14) = <<"fiq", 14>>
  BY DEF Modes, Banked, Others, Regs, Physical, Own
<1>2. <<"fiq", 14>> \notin Allowed(i, t)
  <2>1. ASSUME NEW n \in Targets(i), Physical(Mode(t), n) = <<"fiq", 14>> PROVE FALSE
    BY <2>1 DEF Physical
  <2>2. ~(i.op \in Traps /\ ~Done(i) /\ <<"fiq", 14>> \in TrapReach(i))
    BY DEF TrapReach, Entered, Traps
  <2> QED
    BY <2>1, <2>2 DEF Allowed, Reach
<1>3. Seen(u, "fiq", 14) = Seen(t, "fiq", 14)
  BY <1>1, <1>2 DEF Lands, Changes
<1> QED
  BY <1>3 DEF Resumes

(* FiqReturns, of one step.                                                *)
FiqStep ==
  insn' # None /\ IsReturn(insn') /\ Mode(s) = "fiq" /\ left # None =>
    IF Mode(s') = "fiq" THEN left' = left ELSE s'.user[15] = left.pc /\ s'.psr = left.psr

LEMMA ExecuteHistory ==
  ASSUME WordsInv, History, ModesValid, ModesValid', Execute
  PROVE  History' /\ FiqStep
<1>1. PICK i \in Code, v \in DeviceWords, needed \in BOOLEAN :
        \E fiq \in BOOLEAN :
          LET t == Executed(s, i, v) done == IsRun(i, s) IN
          /\ s' = IF fiq THEN Fiq(t) ELSE t
          /\ insn' = IF done THEN i ELSE None
          /\ compared' = IF done THEN ComparedAfter(i) ELSE compared
          /\ left' = IF fiq THEN [pc |-> t.user[15], psr |-> t.psr, compared |-> compared']
                     ELSE IF done THEN LeftAfter(i, t) ELSE left
  BY ZenonT(60) DEF Execute
<1>2. PICK fiq \in BOOLEAN :
          LET t == Executed(s, i, v) done == IsRun(i, s) IN
          /\ s' = IF fiq THEN Fiq(t) ELSE t
          /\ insn' = IF done THEN i ELSE None
          /\ compared' = IF done THEN ComparedAfter(i) ELSE compared
          /\ left' = IF fiq THEN [pc |-> t.user[15], psr |-> t.psr, compared |-> compared']
                     ELSE IF done THEN LeftAfter(i, t) ELSE left
  BY <1>1
<1> DEFINE t == Executed(s, i, v) u == Fetched(s) done == IsRun(i, s)
           back == [pc |-> t.user[15], psr |-> t.psr, compared |-> compared']
           after == ComparedAfter(i)
           leaves == LeftAfter(i, t)
<1>3. i \in Instructions /\ v \in Data
  BY CodeIn, ArmAssumption DEF WordsInv, IInv
<1>4. Fine(s, 26) /\ Fine(u, 1) /\ Mode(u) = Mode(s) /\ u.psr = s.psr /\ u.spsr = s.spsr
  <2>1. Fine(s, 26)
    BY DEF WordsInv, IInv, Fine, Fit, ModesValid
  <2>2. Only(s, u, {}) /\ Fine(u, 1)
    BY <2>1, FetchedOnly, FetchedFine DEF Fine
  <2>3. Steady(s, u)
    BY <2>1, SteadyFetched DEF Fine, Fit, Shaped
  <2> HIDE DEF u
  <2> QED
    BY <2>1, <2>2, <2>3 DEF Only, Steady, Mode
<1>5. Ends(t, 26) /\ Lands(s, t, Allowed(i, s)) /\ (~done => Lands(s, t, {}))
  BY <1>3, <1>4, ExecutedEnds, ExecutedLands DEF Fine
<1>6. s' = IF fiq THEN Fiq(t) ELSE t
  BY <1>2
<1>7. /\ insn' = IF done THEN i ELSE None
      /\ compared' = IF done THEN after ELSE compared
      /\ left' = IF fiq THEN back ELSE IF done THEN leaves ELSE left
  BY <1>2
<1>8. t = IF done THEN Perform(u, i, v) ELSE u
  BY DEF Executed
<1> HIDE DEF t, u, done
<1>9. t.psr.mode \in ModeNumbers
  <2>1. CASE ~fiq
    BY <1>6, <2>1 DEF ModesValid
  <2>2. CASE fiq
    <3>1. s' = Fiq(t)
      BY <1>6, <2>2
    <3>2. s'.spsr["fiq"] = t.psr
      BY <1>5, <3>1, FiqSaves DEF Lands
    <3>3. s'.spsr["fiq"].mode \union {4} \in ModeNumbers
      BY DEF ModesValid, Modes, Banked
    <3> QED
      BY <1>5, <3>2, <3>3 DEF Lands, Framed
  <2> QED
    BY <2>1, <2>2
<1>10. Fine(t, 26)
  BY <1>5, <1>9 DEF Lands, Fit, Fine, Ends
<1>11. Seen(u, "fiq", 14) = Seen(s, "fiq", 14)
  <2>1. Only(s, u, {})
    BY <1>4, FetchedOnly DEF Fine, u
  <2> QED
    BY <2>1 DEF Only, Changes, Modes, Banked, Others, Regs
<1>12. ASSUME done, Mode(s) = "fiq", left # None, IsReturn(i)
       PROVE  t.psr = left.psr /\ t.user[15] = left.pc /\ after = left.compared
  <2>1. i \in AluInsns
    BY <1>3, <1>12, OpAlu DEF IsReturn
  <2>2. t = Alu(u, i)
    BY <1>8, <1>12, <2>1 DEF Perform, AluInsns
  <2>3. Resumes(left, s)
    BY <1>12 DEF History
  <2>4. u.user[14] = Wrap(left.pc + 4)
    BY <1>4, <1>11, <1>12, <2>3 DEF Resumes, Seen, View, Own
  <2>5. left.pc \in Data /\ left.psr = u.spsr["fiq"] /\ left.psr.mode \in ModeNumbers
    BY <1>4, <2>3 DEF Resumes
  <2>6. t.psr = left.psr /\ t.user[15] = left.pc
    BY <1>4, <1>12, <2>1, <2>2, <2>4, <2>5, ReturnsThere
  <2> QED
    BY <1>12, <2>6 DEF ComparedAfter
<1>13. Means(compared', t.psr)
  <2>1. CASE ~done
    BY <1>4, <1>7, <1>8, <2>1 DEF History
  <2>2. CASE done /\ Mode(s) = "fiq" /\ left # None /\ IsReturn(i)
    BY <1>7, <1>12, <2>2 DEF History, Resumes
  <2>3. CASE done /\ ~(Mode(s) = "fiq" /\ left # None /\ IsReturn(i))
    <3> DEFINE pair == <<Reg(u, i.rn, Ahead(i.o2)), Operand(u, i.o2).val>>
    <3>1. compared' = IF i.op = "alu" /\ i.code = 10 /\ i.s THEN pair
                      ELSE IF Status(i) \/ i.op \in Traps THEN None ELSE compared
      BY <1>7, <2>3 DEF ComparedAfter, u
    <3>2. CASE i.op = "alu" /\ i.code = 10 /\ i.s
      <4>1. i \in AluInsns
        BY <1>3, <3>2, OpAlu
      <4>2. t = Alu(u, i)
        BY <1>8, <2>3, <3>2 DEF Perform
      <4>3. Means(pair, Alu(u, i).psr)
        BY <1>4, <3>2, <4>1, ComparedFlags
      <4> HIDE DEF pair
      <4> QED
        BY <3>1, <3>2, <4>2, <4>3
    <3>3. CASE ~(i.op = "alu" /\ i.code = 10 /\ i.s) /\ (Status(i) \/ i.op \in Traps)
      BY <3>1, <3>3 DEF Means
    <3>4. CASE ~(i.op = "alu" /\ i.code = 10 /\ i.s) /\ ~Status(i) /\ i.op \notin Traps
      <4>1. compared' = compared
        BY <3>1, <3>4
      <4>2. Steady(u, Perform(u, i, v))
        BY <1>3, <1>4, <3>4, SteadyPerform DEF Fine, Fit, Shaped
      <4>3. t.psr = s.psr
        BY <1>4, <1>8, <2>3, <4>2 DEF Steady
      <4> QED
        BY <4>1, <4>3 DEF History
    <3> QED
      BY <3>2, <3>3, <3>4
  <2> QED
    BY <2>1, <2>2, <2>3
<1>14. CASE fiq
  <2>1. s' = Fiq(t) /\ left' = back
    BY <1>6, <1>7, <1>14
  <2>2. SameFlags(t.psr, s'.psr) /\ Seen(s', "fiq", 14) = Wrap(t.user[15] + 4) /\ Mode(s') = "fiq"
    BY <1>10, <2>1, FiqLeaves DEF Fine
  <2>3. s'.spsr["fiq"] = t.psr
    BY <1>5, <2>1, FiqSaves DEF Lands
  <2>4. t.user[15] \in Data
    BY <1>10, FineReg DEF Regs
  <2>5. Means(compared', s'.psr)
    BY <1>13, <2>2, MeansSame
  <2>6. Resumes(back, s')
    BY <1>9, <1>13, <2>2, <2>3, <2>4 DEF Resumes
  <2>7. ASSUME done, Mode(s) = "fiq", left # None, IsReturn(i) PROVE left' = left
    <3>1. back = [pc |-> left.pc, psr |-> left.psr, compared |-> left.compared]
      BY <1>7, <1>12, <2>7
    <3>2. left = [pc |-> left.pc, psr |-> left.psr, compared |-> left.compared]
      BY <2>7 DEF History, Resumes
    <3> QED
      BY <2>1, <3>1, <3>2
  <2>8. insn' # None => insn' = i /\ done
    BY <1>7
  <2>9. FiqStep
    BY <2>2, <2>7, <2>8 DEF FiqStep
  <2> HIDE DEF back
  <2> QED
    BY <2>1, <2>5, <2>6, <2>9 DEF History
<1>15. CASE ~fiq
  <2>1. s' = t /\ left' = IF done THEN leaves ELSE left
    BY <1>6, <1>7, <1>15
  <2>2. insn' # None => insn' = i /\ done
    BY <1>7
  <2>3. leaves = left \/ leaves = None
    BY DEF LeftAfter
  <2>4. ASSUME left' # None PROVE Resumes(left, s') /\ left' = left
    <3>1. CASE ~done
      <4>1. Resumes(left, s)
        BY <2>1, <2>4, <3>1 DEF History
      <4>2. Seen(t, "fiq", 14) = Seen(s, "fiq", 14) /\ t.spsr = s.spsr
        BY <1>4, <1>8, <1>11, <3>1
      <4> QED
        BY <2>1, <3>1, <4>1, <4>2 DEF Resumes
    <3>2. CASE done
      <4>1. left' = left /\ left # None /\ ~Returned(i, t)
        BY <2>1, <2>4, <3>2 DEF LeftAfter, leaves
      <4>2. Resumes(left, s)
        BY <4>1 DEF History
      <4>3. Mode(s) = "fiq" => 14 \notin Targets(i) /\ ~Saves(i)
        BY <4>1 DEF Returned
      <4>4. t.spsr["fiq"] = s.spsr["fiq"]
        BY <1>3, <1>4, <1>8, <3>2, <4>3, SavedPerform DEF Fine
      <4>5. Resumes(left, t)
        BY <1>3, <1>4, <1>5, <1>9, <4>2, <4>3, <4>4, ResumesStill DEF Fine
      <4> QED
        BY <2>1, <4>1, <4>5
    <3> QED
      BY <3>1, <3>2
  <2>5. History'
    BY <1>13, <2>1, <2>4 DEF History
  <2>6. ASSUME done, Mode(s) = "fiq", left # None, IsReturn(i), Mode(s') = "fiq" PROVE left' = left
    <3>1. i.op = "alu" /\ i.code = 2 /\ i.rd = 15
      BY <2>6 DEF IsReturn
    <3>2. Targets(i) = {15} /\ ~Saves(i)
      BY <3>1, TargetsAre DEF IsCompare, Saves
    <3>3. ~Returned(i, t)
      BY <2>1, <2>6, <3>2 DEF Returned
    <3> QED
      BY <2>1, <2>6, <3>3 DEF LeftAfter, leaves
  <2>7. FiqStep
    BY <1>12, <2>1, <2>2, <2>6 DEF FiqStep
  <2> QED
    BY <2>5, <2>7
<1> QED
  BY <1>14, <1>15

LEMMA InitHistory == Init => History
BY DEF Init, History, Means

LEMMA ResetHistory == Reset => History' /\ FiqStep
BY DEF Reset, History, Means, FiqStep

LEMMA HistoryKept ==
  ASSUME WordsInv, History, ModesValid, ModesValid', [Next]_vars
  PROVE  History' /\ [FiqStep]_vars
<1>1. CASE Execute
  BY <1>1, ExecuteHistory
<1>2. CASE Reset
  BY <1>2, ResetHistory
<1>3. CASE UNCHANGED vars
  BY <1>3 DEF vars, History
<1> QED
  BY <1>1, <1>2, <1>3 DEF Next

LEMMA HistorySays == History => ConditionsMean
BY DEF History, Means, ConditionsMean

(* After a comparison every condition has its meaning until an instruction *)
(* sets the flags, also if fast interrupts come in between and their       *)
(* handlers compare for themselves.                                        *)
THEOREM ConditionsHold == Spec /\ []ModesValid => []ConditionsMean
<1>1. Init /\ ModesValid => WordsInv /\ History
  BY InitWords, InitHistory
<1>2. WordsInv /\ History /\ ModesValid /\ ModesValid' /\ [Next]_vars => WordsInv' /\ History'
  BY WordsKept, HistoryKept
<1>3. WordsInv /\ History => ConditionsMean
  BY HistorySays
<1> QED
  BY <1>1, <1>2, <1>3, PTL DEF Spec

(* A handler of fast interrupts that leaves r14 and the saved status alone *)
(* returns to where the interrupt came, with the status it came with, or   *)
(* to the next interrupt, which will return there.                         *)
THEOREM FiqsReturn == Spec /\ []ModesValid => FiqReturns
<1>1. Init /\ ModesValid => WordsInv /\ History
  BY InitWords, InitHistory
<1>2. WordsInv /\ History /\ ModesValid /\ ModesValid' /\ [Next]_vars
        => WordsInv' /\ History' /\ [FiqStep]_vars
  BY WordsKept, HistoryKept
<1> QED
  BY <1>1, <1>2, PTL DEF Spec, FiqReturns, FiqStep
-----------------------------------------------------------------------------
(* The modes stay valid if the software gives the status registers no mode *)
(* that is none: exceptions and returns from them bring no other.          *)
Valid(t) == t.psr.mode \in ModeNumbers /\ \A m \in Modes : t.spsr[m].mode \union {4} \in ModeNumbers

LEMMA WithFour == \A bits \in ModeNumbers : bits \union {4} = bits
BY DEF ModeNumbers, Modes, Banked, Pairs, ModeBits

LEMMA ValidOnly == ASSUME NEW t, Valid(t), NEW u, NEW C, Only(t, u, C) PROVE Valid(u)
BY DEF Only, Valid

LEMMA ValidSmall ==
  ASSUME NEW t, DOMAIN t = Fields, Valid(t), NEW n, NEW v
  PROVE  Valid(SetReg(t, n, v)) /\ Valid(Spend(t, n)) /\ DOMAIN Spend(t, n) = Fields
BY DEF SetReg, Spend, Fields, Valid

LEMMA ValidSet ==
  ASSUME NEW t, Fit(t), Valid(t), NEW p, StatusShaped(p), p.mode \union {4} \in ModeNumbers
  PROVE  Valid(CpsrSet(t, p)) /\ DOMAIN CpsrSet(t, p) = Fields
<1> DEFINE u == CpsrSet(t, p)
<1>1. DOMAIN u = Fields /\ u.psr.mode = p.mode \union {4} /\ u.spsr = t.spsr
  BY CpsrSetFields DEF Fit, Shaped
<1> HIDE DEF u
<1> QED
  BY <1>1 DEF Valid, u

LEMMA ValidRestore ==
  ASSUME NEW t, Fit(t), Valid(t) PROVE Valid(Restore(t)) /\ DOMAIN Restore(t) = Fields
<1>1. Mode(t) \in Modes
  BY ModeIn DEF Fit, Mode
<1>2. StatusShaped(t.spsr[Mode(t)]) /\ t.spsr[Mode(t)].mode \union {4} \in ModeNumbers
  BY <1>1 DEF Fit, Shaped, Valid
<1> QED
  BY <1>2, ValidSet DEF Restore

(* What the software must see to: it writes a mode that is one.            *)
Writes(t, i) ==
  i.op = "alu" /\ i.code \in {9, 11} /\ ~i.s /\ ~(i.rn % 2 = 0 \/ Mode(t) = "user")
    => Psr(Operand(t, i.o2).val).mode \union {4} \in ModeNumbers

LEMMA ValidMove ==
  ASSUME NEW t, Fit(t), Valid(t), NEW i \in AluInsns, NEW val,
         ~(i.rn % 2 = 0 \/ Mode(t) = "user") => Psr(val).mode \union {4} \in ModeNumbers
  PROVE  Valid(MoveToPsr(t, i, val)) /\ DOMAIN MoveToPsr(t, i, val) = Fields
<1> DEFINE q == Psr(val) m == Mode(t)
<1>1. StatusShaped(q)
  BY DEF Psr, StatusShaped, StatusFields, On
<1>2. /\ DOMAIN t = Fields /\ StatusShaped(t.psr) /\ DOMAIN t.spsr = Modes /\ m \in Modes
      /\ \A k \in Modes : StatusShaped(t.spsr[k])
  BY ModeIn DEF Fit, Shaped, Mode
<1>3. ~(i.rn % 2 = 0 \/ m = "user") => q.mode \union {4} \in ModeNumbers
  OBVIOUS
<1>4. MoveToPsr(t, i, val) =
        IF i.rn % 2 = 0 \/ m = "user"
        THEN IF i.code = 11 THEN [t EXCEPT !.spsr[m] = FlagsOnly(t.spsr[m], q)]
             ELSE [t EXCEPT !.psr = FlagsOnly(t.psr, q)]
        ELSE IF i.code = 11 THEN [t EXCEPT !.spsr[m] = q] ELSE CpsrSet(t, q)
  BY DEF MoveToPsr
<1> HIDE DEF q, m
<1>5. ASSUME NEW x, x.mode \union {4} \in ModeNumbers
      PROVE  Valid([t EXCEPT !.spsr[m] = x]) /\ DOMAIN [t EXCEPT !.spsr[m] = x] = Fields
  <2> DEFINE u == [t EXCEPT !.spsr[m] = x]
  <2>1. DOMAIN u = Fields /\ u.psr = t.psr /\ u.spsr = [t.spsr EXCEPT ![m] = x]
    BY <1>2 DEF Fields
  <2> HIDE DEF u
  <2>2. \A k \in Modes : u.spsr[k].mode \union {4} \in ModeNumbers
    BY <1>2, <1>5, <2>1 DEF Valid
  <2>3. Valid(u) /\ DOMAIN u = Fields
    BY <2>1, <2>2 DEF Valid
  <2> QED
    BY <2>3 DEF u
<1>6. FlagsOnly(t.spsr[m], q).mode = t.spsr[m].mode /\ FlagsOnly(t.psr, q).mode = t.psr.mode
  BY <1>2, StatusKept
<1> DEFINE x == FlagsOnly(t.spsr[m], q) y == FlagsOnly(t.psr, q)
<1>7. x.mode \union {4} \in ModeNumbers /\ y.mode \in ModeNumbers
  BY <1>2, <1>6 DEF Valid
<1> HIDE DEF x, y
<1>8. Valid([t EXCEPT !.psr = y]) /\ DOMAIN [t EXCEPT !.psr = y] = Fields
  BY <1>2, <1>7 DEF Valid, Fields
<1>9. ~(i.rn % 2 = 0 \/ m = "user") => Valid(CpsrSet(t, q)) /\ DOMAIN CpsrSet(t, q) = Fields
  BY <1>1, <1>3, ValidSet
<1> QED
  BY <1>3, <1>4, <1>5, <1>7, <1>8, <1>9 DEF x, y

LEMMA ValidAlu ==
  ASSUME NEW t, Fit(t), Valid(t), NEW i \in AluInsns, Writes(t, i)
  PROVE  Valid(Alu(t, i))
<1> DEFINE o == Operand(t, i.o2)
           C == {}
           a == Reg(t, i.rn, Ahead(i.o2))
           u == Carried(i, o.s)
           y == Result(i.code, a, o.val, u.psr.c)
           f == Flagged(i, u, a, o.val, y)
           w == Settled(i, u, o.val, f, y)
           n == IF i.o2.kind = "by" THEN 1 ELSE 0
<1>1. Alu(t, i) = Spend(w, n)
  BY DEF Alu, AluWith, Combined, Computed
<1>2. i.code \in 0 .. 15 /\ i.s \in BOOLEAN /\ i.rd \in Regs /\ i.op = "alu"
  BY DEF AluInsns
<1>3. Only(t, o.s, C)
  BY OperandOnly
<1>4. Only(t, u, C)
  <2>1. StatusShaped(o.s.psr)
    BY <1>3, Then DEF Fit, Shaped
  <2> HIDE DEF o, C
  <2>2. Only(t, [o.s EXCEPT !.psr.c = o.s.carry_out], C)
    BY <1>3, <2>1, StatusKept, ThenPsr
  <2> QED
    BY <1>3, <2>2 DEF Carried
<1>w. i.code \in {9, 11} /\ ~i.s /\ ~(i.rn % 2 = 0 \/ Mode(t) = "user")
        => Psr(o.val).mode \union {4} \in ModeNumbers
  BY <1>2 DEF Writes
<1> HIDE DEF o, a, u, y, C, n
<1>5. Only(t, f, C)
  <2>1. StatusShaped(u.psr)
    BY <1>4, Then DEF Fit, Shaped
  <2>2. Only(t, [u EXCEPT !.psr = Flags(u.psr, i.code, a, o.val, y)], C)
    BY <1>2, <1>4, <2>1, FlagsKept, ThenPsr
  <2> QED
    BY <1>4, <2>2 DEF Flagged
<1> HIDE DEF f
<1>6. /\ Fit(u) /\ Mode(u) = Mode(t) /\ Valid(u) /\ DOMAIN u = Fields
      /\ Fit(f) /\ Valid(f) /\ DOMAIN f = Fields
  BY <1>4, <1>5, StillFit, ValidOnly DEF Only, Mode, Fit, Shaped
<1>7. DOMAIN w = Fields /\ Valid(w)
  <2>1. CASE i.code \in {9, 11} /\ ~i.s
    <3>1. w = MoveToPsr(u, i, o.val)
      BY <2>1 DEF Settled, IsCompare
    <3> QED
      BY <1>6, <1>w, <2>1, <3>1, ValidMove
  <2>2. CASE i.code \in {8, 10} /\ ~i.s
    <3>1. w = MoveFromPsr(u, i)
      BY <2>2 DEF Settled, IsCompare
    <3> QED
      BY <1>6, <3>1, ValidSmall, SavedSmall DEF MoveFromPsr
  <2>3. CASE i.code \in IsCompare /\ i.s
    <3>1. w = f
      BY <2>3 DEF Settled, IsCompare
    <3> QED
      BY <1>6, <3>1
  <2>4. CASE i.code \notin IsCompare /\ i.rd # 15
    <3>1. w = SetReg(f, i.rd, y)
      BY <2>4 DEF Settled, IsCompare
    <3> QED
      BY <1>6, <3>1, ValidSmall, SavedSmall
  <2>5. CASE i.code \notin IsCompare /\ i.rd = 15
    <3> DEFINE g == SetReg(f, 15, y)
    <3>1. w = Spend(IF i.s THEN Restore(g) ELSE g, 5)
      BY <2>5 DEF Settled, IsCompare
    <3>2. Only(f, g, {})
      BY <1>6, PcOnly DEF SetReg
    <3>3. Fit(g) /\ Valid(g) /\ DOMAIN g = Fields
      BY <1>6, <3>2, StillFit, ValidOnly DEF Only, Shaped
    <3> HIDE DEF g
    <3>4. Valid(Restore(g)) /\ DOMAIN Restore(g) = Fields
      BY <3>3, ValidRestore
    <3> DEFINE z == IF i.s THEN Restore(g) ELSE g
    <3>5. Valid(z) /\ DOMAIN z = Fields /\ w = Spend(z, 5)
      BY <3>1, <3>3, <3>4
    <3> HIDE DEF z
    <3> QED
      BY <3>5, ValidSmall
  <2> HIDE DEF w
  <2> QED
    BY <1>2, <2>1, <2>2, <2>3, <2>4, <2>5 DEF IsCompare
<1> HIDE DEF w
<1> QED
  BY <1>1, <1>7, ValidSmall

LEMMA ValidBlock ==
  ASSUME NEW t, Fit(t), Valid(t), NEW i \in BlockInsns, i.load, NEW v
  PROVE  Valid(LoadBlock(t, i, v))
<1> DEFINE base == Reg(t, i.rn, 8)
           x == IF i.wb THEN Given(i, t, i.rn, Beyond(i, base)) ELSE t
           f == CHOOSE f : LoadRun(f, 16, i, x, base, v)
           n == Cardinality(i.list) + 4 + (IF 15 \in i.list THEN 5 ELSE 0)
<1>1. LoadBlock(t, i, v) = Spend(RestoredBy(i, f[16]), n)
  BY DEF LoadBlock, LoadRun
<1>2. LoadRun(f, 16, i, x, base, v)
  BY LoadRunExists
<1>3. i.rn \in Regs /\ i.wb \in BOOLEAN
  BY DEF BlockInsns
<1>4. Only(t, t, Reach(i, t))
  BY Aside
<1> HIDE DEF f, n
<1>5. Only(t, x, Reach(i, t))
  <2>1. i.wb => i.rn \in Targets(i)
    BY TargetsAre DEF BlockInsns
  <2> QED
    BY <1>3, <1>4, <2>1, GivenOnly
<1> HIDE DEF x, base
<1>6. Only(t, f[16], Reach(i, t))
  BY <1>2, <1>5, LoadRunOnly
<1>7. Fit(f[16]) /\ Valid(f[16]) /\ DOMAIN f[16] = Fields
  BY <1>6, StillFit, ValidOnly DEF Only, Fit, Shaped
<1>8. Valid(RestoredBy(i, f[16])) /\ DOMAIN RestoredBy(i, f[16]) = Fields
  BY <1>7, ValidRestore DEF RestoredBy
<1> QED
  BY <1>1, <1>8, ValidSmall

LEMMA ValidTrap ==
  ASSUME NEW t, Fit(t), Valid(t), NEW m \in Banked, NEW back, NEW vector
  PROVE  LET u == Trap(t, m, back, vector) IN Valid(u) /\ DOMAIN u = Fields
<1> DEFINE p == [t EXCEPT !.spsr[m] = t.psr, !.psr.i = TRUE]
           w == SetMode(p, ModeBits[m])
           u == [w EXCEPT !.user[14] = back, !.user[15] = vector]
<1>1. m \in Modes /\ DOMAIN t = Fields /\ StatusShaped(t.psr) /\ DOMAIN t.spsr = Modes
  BY DEF Fit, Shaped, Modes
<1>2. /\ DOMAIN p = Fields /\ p.psr = [t.psr EXCEPT !.i = TRUE]
      /\ p.spsr = [t.spsr EXCEPT ![m] = t.psr]
  BY <1>1 DEF Fields
<1>3. StatusShaped([t.psr EXCEPT !.i = TRUE])
  BY <1>1 DEF StatusShaped, StatusFields, On
<1> HIDE DEF p
<1>4. w.psr.mode = ModeBits[m] /\ DOMAIN w = Fields /\ w.spsr = p.spsr
  BY <1>2, <1>3, SetModeFields
<1>5. Trap(t, m, back, vector) = u
  BY DEF Trap, w, p
<1> HIDE DEF w
<1>6. u.psr = w.psr /\ u.spsr = w.spsr /\ DOMAIN u = Fields
  BY <1>4 DEF Fields
<1> HIDE DEF u
<1>7. t.psr.mode \in ModeNumbers /\ t.psr.mode \union {4} = t.psr.mode
  BY WithFour DEF Valid
<1>8. \A k \in Modes : u.spsr[k].mode \union {4} \in ModeNumbers
  <2>1. u.spsr = [t.spsr EXCEPT ![m] = t.psr]
    BY <1>2, <1>4, <1>6
  <2>2. \A k \in Modes : t.spsr[k].mode \union {4} \in ModeNumbers
    BY DEF Valid
  <2> QED
    BY <1>1, <1>7, <2>1, <2>2
<1>9. u.psr.mode \in ModeNumbers
  BY <1>1, <1>4, <1>6, ModeOfMode
<1> QED
  BY <1>5, <1>6, <1>8, <1>9 DEF Valid

LEMMA ValidFiq == ASSUME NEW t, Fit(t), Valid(t) PROVE Valid(Fiq(t))
<1> DEFINE back == Wrap(t.user[15] + 4)
           vector == \h1C
           u == Trap(t, "fiq", back, vector)
           w == [u EXCEPT !.psr.f = TRUE]
<1>1. Fiq(t) = w
  BY DEF Fiq
<1> HIDE DEF back, vector
<1>2. Valid(u) /\ DOMAIN u = Fields
  BY ValidTrap DEF Banked
<1>3. StatusShaped(u.psr)
  BY TrapLands DEF Banked, Fit, Shaped
<1> HIDE DEF u
<1>4. w.spsr = u.spsr /\ w.psr = [u.psr EXCEPT !.f = TRUE]
  BY <1>2 DEF Fields
<1> HIDE DEF w
<1>5. w.psr.mode = u.psr.mode
  BY <1>3, <1>4 DEF StatusShaped, StatusFields, On
<1> QED
  BY <1>1, <1>2, <1>4, <1>5 DEF Valid

LEMMA ValidPerform ==
  ASSUME NEW t, Fit(t), Valid(t), NEW i \in Instructions, NEW v, Writes(t, i)
  PROVE  Valid(Perform(t, i, v))
<1>1. CASE i \in AluInsns
  <2>1. Perform(t, i, v) = Alu(t, i)
    BY <1>1 DEF Perform, AluInsns
  <2> QED
    BY <1>1, <2>1, ValidAlu
<1>2. CASE i \in MulInsns
  <2>1. Perform(t, i, v) = Multiply(t, i)
    BY <1>2 DEF Perform, MulInsns
  <2> QED
    BY <1>2, <2>1, MultiplyOnly, ValidOnly
<1>3. CASE i \in SwapInsns
  <2>1. Perform(t, i, v) = Swap(t, i, v)
    BY <1>3 DEF Perform, SwapInsns
  <2> QED
    BY <1>3, <2>1, SwapOnly, ValidOnly
<1>4. CASE i \in TransferInsns
  <2>1. Perform(t, i, v) = Transfer(t, i, v)
    BY <1>4 DEF Perform, TransferInsns
  <2> QED
    BY <1>4, <2>1, TransferOnly, ValidOnly
<1>5. CASE i \in BlockInsns
  <2>1. i.op = "block" /\ i.load \in BOOLEAN
    BY <1>5 DEF BlockInsns
  <2>2. Perform(t, i, v) = IF i.load THEN LoadBlock(t, i, v) ELSE StoreBlock(t, i)
    BY <2>1 DEF Perform
  <2>3. Valid(StoreBlock(t, i))
    BY <1>5, StoreBlockOnly, ValidOnly
  <2> QED
    BY <1>5, <2>1, <2>2, <2>3, ValidBlock
<1>6. CASE i.op = "branch"
  <2>1. Perform(t, i, v) = Branch(t, i)
    BY <1>6 DEF Perform
  <2> QED
    BY <1>6, <2>1, BranchOnly, ValidOnly
<1>7. CASE i.op = "swi"
  <2>1. Perform(t, i, v) = Swi(t, i)
    BY <1>7 DEF Perform
  <2>2. CASE Done(i)
    <3> DEFINE u == SetReg(t, 0, HleAnswer(t.ram, i.number, t.user))
               m == HleStore(t.ram, i.number, t.user)
    <3>1. Swi(t, i) = Spend([u EXCEPT !.ram = m], 5)
      BY <1>7, <2>2 DEF Swi, Done
    <3>2. DOMAIN u = Fields /\ u.spsr = t.spsr /\ Valid(u)
      BY SavedSmall, ValidSmall DEF Fit, Shaped
    <3> HIDE DEF u, m
    <3> DEFINE z == [u EXCEPT !.ram = m]
    <3>3. DOMAIN z = Fields /\ z.spsr = u.spsr /\ z.psr = u.psr
      BY <3>2 DEF Fields
    <3>4. Perform(t, i, v) = Spend(z, 5)
      BY <2>1, <3>1
    <3> HIDE DEF z
    <3>5. Valid(z)
      BY <3>2, <3>3 DEF Valid
    <3> QED
      BY <3>3, <3>4, <3>5, ValidSmall
  <2>3. CASE ~Done(i)
    <3>1. Swi(t, i) = Spend(Trap(t, "svc", t.user[15], 8), 5)
      BY <1>7, <2>3 DEF Swi, Done
    <3> DEFINE u == Trap(t, "svc", t.user[15], 8)
    <3>2. DOMAIN u = Fields /\ Valid(u)
      BY ValidTrap DEF Banked, Pairs
    <3> HIDE DEF u
    <3> QED
      BY <2>1, <3>1, <3>2, ValidSmall DEF u
  <2> QED
    BY <2>2, <2>3
<1>8. CASE i.op \in {"undefined", "coprocessor"}
  <2>1. Perform(t, i, v) = Undefined(t)
    BY <1>8 DEF Perform
  <2> DEFINE u == Trap(t, "und", t.user[15], 4)
  <2>2. DOMAIN u = Fields /\ Valid(u)
    BY ValidTrap DEF Banked, Pairs
  <2>3. Undefined(t) = Spend(u, 5)
    BY DEF Undefined
  <2> HIDE DEF u
  <2> QED
    BY <2>1, <2>2, <2>3, ValidSmall
<1> QED
  <2>1. i \in OtherInsns => i.op \in {"branch", "swi", "undefined", "coprocessor"}
    BY DEF OtherInsns
  <2>2. \/ i \in AluInsns \/ i \in MulInsns \/ i \in SwapInsns \/ i \in TransferInsns
        \/ i \in BlockInsns \/ i \in OtherInsns
    BY Zenon DEF Instructions
  <2>3. i \in OtherInsns =>
          i.op = "branch" \/ i.op = "swi" \/ i.op \in {"undefined", "coprocessor"}
    BY <2>1
  <2> QED
    BY <1>1, <1>2, <1>3, <1>4, <1>5, <1>6, <1>7, <1>8, <2>2, <2>3

LEMMA ValidStart ==
  ASSUME NEW t, DOMAIN t = Fields, StatusShaped(t.psr),
         \A m \in Modes : t.spsr[m].mode \union {4} \in ModeNumbers
  PROVE  Valid(Start(t)) /\ DOMAIN Start(t) = Fields
<1> DEFINE y == [t EXCEPT !.user = [n \in Regs |-> IF n = 15 THEN \h3000000 ELSE 0],
                          !.cash = [n \in 8 .. 14 |-> 0],
                          !.bank = [m \in Banked |-> [n \in Own(m) |-> 0]]]
           p == Psr(19)
           u == CpsrSet(y, p)
<1>1. Start(t) = u
  BY DEF Start
<1>2. StatusShaped(p)
  BY DEF Psr, StatusShaped, StatusFields, On
<1>3. p.mode = {k \in 0 .. 4 : Bit(19, k) = 1}
  BY DEF Psr, BitsOf
<1>4. /\ Bit(19, 0) = 1 /\ Bit(19, 1) = 1 /\ Bit(19, 2) = 0 /\ Bit(19, 3) = 0
      /\ Bit(19, 4) = 1
  BY SmallPowers DEF Bit
<1>5. p.mode \union {4} = {0, 1, 4}
  BY <1>3, <1>4
<1>6. {0, 1, 4} \in ModeNumbers
  <2>1. ModeBits["svc"] = {0, 1, 4} /\ "svc" \in Modes
    BY DEF ModeBits, Modes, Banked, Pairs
  <2> QED
    BY <2>1 DEF ModeNumbers
<1> HIDE DEF p
<1>7. DOMAIN y = Fields /\ y.psr = t.psr /\ y.spsr = t.spsr
  BY DEF Fields
<1> HIDE DEF y
<1>8. DOMAIN u = Fields /\ u.psr.mode = p.mode \union {4} /\ u.spsr = y.spsr
  BY <1>2, <1>7, CpsrSetFields
<1> HIDE DEF u
<1> QED
  BY <1>1, <1>5, <1>6, <1>7, <1>8 DEF Valid

LEMMA InitModes == Init => ModesValid
<1> SUFFICES ASSUME Init PROVE ModesValid
  OBVIOUS
<1> DEFINE t == [user |-> <<>>, cash |-> <<>>, bank |-> <<>>, psr |-> Psr(16),
                 spsr |-> [m \in Modes |-> Psr(0)], carry_out |-> FALSE, ram |-> <<>>,
                 nvram |-> <<>>, cycles |-> 1, io |-> <<>>]
<1>1. s = Start(t)
  BY DEF Init, PowerOn
<1>2. \A w : StatusShaped(Psr(w))
  BY DEF Psr, StatusShaped, StatusFields, On
<1>3. Psr(0).mode \union {4} = {4}
  <2>1. Psr(0).mode = {k \in 0 .. 4 : Bit(0, k) = 1}
    BY DEF Psr, BitsOf
  <2>2. /\ Bit(0, 0) = 0 /\ Bit(0, 1) = 0 /\ Bit(0, 2) = 0 /\ Bit(0, 3) = 0 /\ Bit(0, 4) = 0
    BY SmallPowers DEF Bit
  <2> QED
    BY <2>1, <2>2
<1>4. DOMAIN t = Fields /\ t.psr = Psr(16) /\ \A m \in Modes : t.spsr[m] = Psr(0)
  BY DEF Fields
<1> HIDE DEF t
<1>5. Valid(Start(t))
  BY <1>2, <1>3, <1>4, FirstMode, ValidStart
<1> QED
  BY <1>1, <1>5 DEF Valid, ModesValid

LEMMA ResetModes == ASSUME IInv, ModesValid, Reset PROVE ModesValid'
<1> DEFINE u == Start(s)
           w == [u EXCEPT !.io = <<>>]
           x == [w EXCEPT !.cycles = 1]
<1>1. s' = x
  BY DEF Reset
<1>2. Valid(u) /\ DOMAIN u = Fields
  BY ValidStart DEF IInv, Shaped, ModesValid
<1> HIDE DEF u
<1>3. x.psr = u.psr /\ x.spsr = u.spsr
  BY <1>2 DEF Fields
<1> HIDE DEF x
<1> QED
  BY <1>1, <1>2, <1>3 DEF Valid, ModesValid

(* The software gives the status registers modes only.                     *)
GivesModes == insn' # None => Writes(Fetched(s), insn')

LEMMA ExecuteModes == ASSUME IInv, ModesValid, Execute, GivesModes PROVE ModesValid'
<1>1. PICK i \in Code, v \in DeviceWords, needed \in BOOLEAN :
        LET t == Executed(s, i, v) fiq == needed /\ ~t.psr.f IN
        /\ s' = IF fiq THEN Fiq(t) ELSE t
        /\ insn' = IF IsRun(i, s) THEN i ELSE None
  BY ZenonT(60) DEF Execute
<1> DEFINE t == Executed(s, i, v) u == Fetched(s) done == IsRun(i, s)
<1>2. i \in Instructions
  BY CodeIn DEF IInv
<1>3. Fit(s) /\ Valid(s)
  BY DEF IInv, Fit, ModesValid, Valid
<1>4. Only(s, u, {})
  BY <1>3, FetchedOnly
<1>5. t = IF done THEN Perform(u, i, v) ELSE u
  BY DEF Executed
<1>6. done => Writes(u, i)
  <2>1. None \notin Instructions
    BY <1>2 DEF None, Instructions, AluInsns, MulInsns, SwapInsns, TransferInsns, BlockInsns, OtherInsns
  <2> QED
    BY <1>1, <1>2, <2>1 DEF GivesModes
<1>7. Lands(s, t, Allowed(i, s))
  BY <1>2, <1>3, ExecutedLands
<1>8. s' = t \/ s' = Fiq(t)
  BY <1>1
<1> HIDE DEF t, u, done
<1>9. Fit(u) /\ Valid(u)
  BY <1>3, <1>4, StillFit, ValidOnly
<1>10. Valid(t)
  BY <1>2, <1>5, <1>6, <1>9, ValidPerform
<1>11. Fit(t)
  BY <1>7, <1>10 DEF Lands, Valid, Fit
<1> QED
  BY <1>8, <1>10, <1>11, ValidFiq DEF Valid, ModesValid

LEMMA ModesKept ==
  ASSUME IInv, ModesValid, [Next]_vars, [GivesModes]_vars PROVE ModesValid' /\ IInv'
<1>1. CASE Execute /\ GivesModes
  BY <1>1, ExecuteModes, ExecuteStep
<1>2. CASE Reset
  BY <1>2, ResetModes, ResetStep
<1>3. CASE UNCHANGED vars
  BY <1>3 DEF vars, ModesValid, IInv
<1> QED
  BY <1>1, <1>2, <1>3 DEF Next

(* Exceptions and returns from them never bring a mode that is none: only  *)
(* a program can, that writes one to a status register.                    *)
THEOREM ModesStay == Spec /\ [][GivesModes]_vars => []ModesValid
<1>1. Init => IInv /\ ModesValid
  BY InitModes, InitStep
<1>2. IInv /\ ModesValid /\ [Next]_vars /\ [GivesModes]_vars => IInv' /\ ModesValid'
  BY ModesKept
<1> QED
  BY <1>1, <1>2, PTL DEF Spec
-----------------------------------------------------------------------------
(* The matrix calls on many vectors.  A component of a product, and what   *)
(* storing a vector and multiplying one do to the memory.                  *)
Component(m, src, mat, n, k, j) ==
  Wrap(Sum([i \in 1 .. n |-> Number(m, src + 4 * (n * k + (i - 1)))
                               * Number(m, mat + 4 * (n * (i - 1) + j))]) \div One)

Stored(u, m, a, v, n) ==
  /\ \A j \in 1 .. n : Cell(u, a + 4 * (j - 1)) = v[j]
  /\ \A x \in Int : (\A j \in 1 .. n : x # a + 4 * (j - 1)) => Cell(u, x) = Cell(m, x)

LEMMA StoreCell ==
  ASSUME NEW m, NEW a \in Int, NEW n \in Nat, NEW v, DOMAIN v = 1 .. n
  PROVE  Stored(Store(m, a, v), m, a, v, n)
<1> DEFINE u == Store(m, a, v)
           D == DOMAIN m \union {a + 4 * (i - 1) : i \in DOMAIN v}
<1>1. u = [x \in D |->
            IF \E i \in DOMAIN v : x = a + 4 * (i - 1) THEN v[1 + ((x - a) \div 4)] ELSE Cell(m, x)]
  BY DEF Store
<1>2. ASSUME NEW j \in 1 .. n PROVE Cell(u, a + 4 * (j - 1)) = v[j]
  <2> DEFINE x == a + 4 * (j - 1)
  <2>1. x \in D
    OBVIOUS
  <2>2. 1 + ((x - a) \div 4) = j
    OBVIOUS
  <2>3. \E i \in DOMAIN v : x = a + 4 * (i - 1)
    OBVIOUS
  <2> HIDE DEF D, x
  <2>4. u[x] = v[j]
    BY <1>1, <2>1, <2>2, <2>3
  <2> HIDE DEF u
  <2>5. DOMAIN u = D
    BY <1>1
  <2> QED
    BY <2>1, <2>4, <2>5 DEF Cell, x
<1>3. ASSUME NEW x \in Int, \A j \in 1 .. n : x # a + 4 * (j - 1)
      PROVE  Cell(u, x) = Cell(m, x)
  <2>1. ~ \E i \in DOMAIN v : x = a + 4 * (i - 1)
    BY <1>3
  <2>2. x \in D <=> x \in DOMAIN m
    BY <2>1
  <2> HIDE DEF D, u
  <2>3. DOMAIN u = D
    BY <1>1
  <2>4. x \in D => u[x] = Cell(m, x)
    BY <1>1, <2>1
  <2> QED
    BY <2>2, <2>3, <2>4 DEF Cell
<1> QED
  BY <1>2, <1>3 DEF Stored

Product(u, m, dest, src, mat, n) ==
  /\ \A j \in 0 .. n - 1 : Cell(u, dest + 4 * j) = Component(m, src, mat, n, 0, j)
  /\ \A x \in Int : (\A j \in 0 .. n - 1 : x # dest + 4 * j) => Cell(u, x) = Cell(m, x)

LEMMA MulVecCells ==
  ASSUME NEW n \in {3, 4}, NEW m, NEW dest \in Int, NEW src \in Int, NEW mat \in Int
  PROVE  Product(MulVec(m, dest, src, mat, n), m, dest, src, mat, n)
<1> DEFINE vec == Vector(m, src, n)
           entries == Matrix(m, mat, n)
           row == Row(vec, entries)
           u == MulVec(m, dest, src, mat, n)
<1>1. u = Store(m, dest, row) /\ n \in Nat
  BY DEF MulVec
<1>2. DOMAIN vec = 1 .. n /\ DOMAIN entries = 1 .. n /\ DOMAIN row = 1 .. n
  BY DEF Vector, Matrix, Row
<1>3. ASSUME NEW j \in 0 .. n - 1 PROVE row[j + 1] = Component(m, src, mat, n, 0, j)
  <2> DEFINE f == [i \in DOMAIN vec |-> vec[i] * Column(entries, j + 1)[i]]
             g == [i \in 1 .. n |-> Number(m, src + 4 * (n * 0 + (i - 1)))
                                      * Number(m, mat + 4 * (n * (i - 1) + j))]
  <2>1. ASSUME NEW i \in 1 .. n PROVE f[i] = g[i]
    <3>1. vec[i] = Number(m, src + 4 * (i - 1))
      BY DEF Vector
    <3>2. entries[i][j + 1] = Number(m, mat + 4 * n * (i - 1) + 4 * ((j + 1) - 1))
      <4>1. entries[i] = Vector(m, mat + 4 * n * (i - 1), n)
        BY DEF Matrix
      <4>2. j + 1 \in 1 .. n
        OBVIOUS
      <4> QED
        BY <4>1, <4>2 DEF Vector
    <3>3. Column(entries, j + 1)[i] = entries[i][j + 1]
      BY <1>2 DEF Column
    <3>4. src + 4 * (i - 1) = src + 4 * (n * 0 + (i - 1))
      OBVIOUS
    <3>5. mat + 4 * n * (i - 1) + 4 * ((j + 1) - 1) = mat + 4 * (n * (i - 1) + j)
      <4>1. CASE n = 3
        BY <4>1
      <4>2. CASE n = 4
        BY <4>2
      <4> QED
        BY <4>1, <4>2
    <3>6. f[i] = vec[i] * Column(entries, j + 1)[i]
      BY <1>2
    <3>7. g[i] = Number(m, src + 4 * (n * 0 + (i - 1))) * Number(m, mat + 4 * (n * (i - 1) + j))
      OBVIOUS
    <3> HIDE DEF f, g, vec, entries
    <3> QED
      BY <3>1, <3>2, <3>3, <3>4, <3>5, <3>6, <3>7
  <2>2. DOMAIN f = 1 .. n /\ DOMAIN g = 1 .. n
    BY <1>2
  <2>3. f = [i \in 1 .. n |-> f[i]] /\ g = [i \in 1 .. n |-> g[i]]
    BY <1>2
  <2>4. Component(m, src, mat, n, 0, j) = Wrap(Sum(g) \div One)
    BY DEF Component
  <2>5. row[j + 1] = Frac(Dot(vec, Column(entries, j + 1)))
    <3>1. j + 1 \in DOMAIN vec
      BY <1>2
    <3> QED
      BY <3>1 DEF Row
  <2>6. Frac(Dot(vec, Column(entries, j + 1))) = Wrap(Sum(f) \div One)
    BY DEF Frac, Dot
  <2> HIDE DEF f, g, vec, entries, row
  <2>7. f = g
    BY <2>1, <2>3
  <2> QED
    BY <2>4, <2>5, <2>6, <2>7
<1> HIDE DEF row, u
<1>s. Stored(u, m, dest, row, n)
  BY <1>1, <1>2, StoreCell
<1>4. ASSUME NEW j \in 0 .. n - 1 PROVE Cell(u, dest + 4 * j) = row[j + 1]
  <2>1. j + 1 \in 1 .. n /\ (j + 1) - 1 = j
    OBVIOUS
  <2>2. Cell(u, dest + 4 * ((j + 1) - 1)) = row[j + 1]
    BY <1>s, <2>1 DEF Stored
  <2> QED
    BY <2>1, <2>2
<1>5. ASSUME NEW x \in Int, \A j \in 0 .. n - 1 : x # dest + 4 * j
      PROVE  Cell(u, x) = Cell(m, x)
  <2>1. \A j \in 1 .. n : j - 1 \in 0 .. n - 1
    OBVIOUS
  <2>2. \A j \in 1 .. n : x # dest + 4 * (j - 1)
    BY <1>5, <2>1
  <2> QED
    BY <1>s, <2>2 DEF Stored
<1> QED
  BY <1>3, <1>4, <1>5 DEF u, Product

(* Where component j of vector k of an array of vectors is.                *)
At(a, n, k, j) == a + 4 * (n * k + j)

LEMMA AtPlaces ==
  ASSUME NEW n \in {3, 4}, NEW a \in Int, NEW k \in Nat
  PROVE  /\ At(a, n, k, 0) = IF n = 3 THEN a + 12 * k ELSE a + 16 * k
         /\ At(a, n, k, 0) \in Int
         /\ \A j \in 0 .. n - 1 : At(a, n, k, j) \in Int /\ At(a, n, k, j) = At(a, n, k, 0) + 4 * j
<1>1. CASE n = 3
  BY <1>1 DEF At
<1>2. CASE n = 4
  BY <1>2 DEF At
<1> QED
  BY <1>1, <1>2

(* The places of an array are below its end, and no two are the same.      *)
LEMMA AtWithin ==
  ASSUME NEW n \in {3, 4}, NEW a \in Int, NEW count \in Nat, NEW k \in 0 .. count - 1,
         NEW j \in 0 .. n - 1
  PROVE  a <= At(a, n, k, j) /\ At(a, n, k, j) < a + 4 * n * count
<1>1. CASE n = 3
  BY <1>1 DEF At
<1>2. CASE n = 4
  BY <1>2 DEF At
<1> QED
  BY <1>1, <1>2

LEMMA AtUnique ==
  ASSUME NEW n \in {3, 4}, NEW a \in Int, NEW k \in Nat, NEW q \in Nat, k # q
  PROVE  \A i, j \in 0 .. n - 1 : At(a, n, k, i) # At(a, n, q, j)
<1>1. CASE n = 3
  BY <1>1 DEF At
<1>2. CASE n = 4
  BY <1>2 DEF At
<1> QED
  BY <1>1, <1>2

Same(u, m, src, mat, n, k, j) ==
  \A i \in 0 .. n - 1 : /\ Cell(u, At(src, n, k, i)) = Cell(m, At(src, n, k, i))
                        /\ Cell(u, At(mat, n, i, j)) = Cell(m, At(mat, n, i, j))

(* A component is the same where the vector and the matrix are the same.   *)
LEMMA ComponentSame ==
  ASSUME NEW n \in {3, 4}, NEW m, NEW u, NEW src \in Int, NEW mat \in Int, NEW k \in Nat,
         NEW j \in 0 .. n - 1, Same(u, m, src, mat, n, k, j)
  PROVE  Component(u, At(src, n, k, 0), mat, n, 0, j) = Component(m, src, mat, n, k, j)
<1> DEFINE a == At(src, n, k, 0)
           f == [i \in 1 .. n |-> Number(u, a + 4 * (n * 0 + (i - 1)))
                                    * Number(u, mat + 4 * (n * (i - 1) + j))]
           g == [i \in 1 .. n |-> Number(m, src + 4 * (n * k + (i - 1)))
                                    * Number(m, mat + 4 * (n * (i - 1) + j))]
<1>1. ASSUME NEW i \in 1 .. n PROVE f[i] = g[i]
  <2>1. i - 1 \in 0 .. n - 1
    OBVIOUS
  <2>2. a + 4 * (n * 0 + (i - 1)) = At(src, n, k, i - 1)
    <3>1. At(src, n, k, i - 1) = a + 4 * (i - 1)
      BY <2>1, AtPlaces
    <3>2. n * 0 = 0
      OBVIOUS
    <3> HIDE DEF a
    <3> QED
      BY <3>1, <3>2
  <2>3. Number(u, At(src, n, k, i - 1)) = Number(m, At(src, n, k, i - 1))
    BY <2>1 DEF Number, Same
  <2>4. Number(u, At(mat, n, i - 1, j)) = Number(m, At(mat, n, i - 1, j))
    BY <2>1 DEF Number, Same
  <2>5. At(mat, n, i - 1, j) = mat + 4 * (n * (i - 1) + j)
        /\ At(src, n, k, i - 1) = src + 4 * (n * k + (i - 1))
    BY DEF At
  <2>6. f[i] = Number(u, a + 4 * (n * 0 + (i - 1))) * Number(u, mat + 4 * (n * (i - 1) + j))
    OBVIOUS
  <2>7. g[i] = Number(m, src + 4 * (n * k + (i - 1))) * Number(m, mat + 4 * (n * (i - 1) + j))
    OBVIOUS
  <2> HIDE DEF f, g
  <2> QED
    BY <2>2, <2>3, <2>4, <2>5, <2>6, <2>7
<1>2. f = [i \in 1 .. n |-> f[i]] /\ g = [i \in 1 .. n |-> g[i]]
  OBVIOUS
<1>3. /\ Component(u, a, mat, n, 0, j) = Wrap(Sum(f) \div One)
      /\ Component(m, src, mat, n, k, j) = Wrap(Sum(g) \div One)
  BY DEF Component
<1> HIDE DEF f, g, a
<1>4. f = g
  BY <1>1, <1>2
<1> QED
  BY <1>3, <1>4 DEF a

(* What the memory holds after the first k vectors.                        *)
Multiplied(u, m, dest, src, mat, n, k) ==
  /\ \A q \in 0 .. k - 1, j \in 0 .. n - 1 :
       Cell(u, At(dest, n, q, j)) = Component(m, src, mat, n, q, j)
  /\ \A x \in Int : (\A q \in 0 .. k - 1, j \in 0 .. n - 1 : x # At(dest, n, q, j))
                      => Cell(u, x) = Cell(m, x)

LEMMA MultipliedNext ==
  ASSUME NEW n \in {3, 4}, NEW m, NEW u, NEW dest \in Int, NEW src \in Int, NEW mat \in Int,
         NEW count \in Nat, NEW k \in 0 .. count - 1, Multiplied(u, m, dest, src, mat, n, k),
         dest = src \/ Apart(dest, src, 4 * n * count, 4 * n * count),
         Apart(dest, mat, 4 * n * count, 4 * n * n)
  PROVE  Multiplied(MulVec(u, At(dest, n, k, 0), At(src, n, k, 0), mat, n),
                    m, dest, src, mat, n, k + 1)
<1> DEFINE d == At(dest, n, k, 0)
           e == At(src, n, k, 0)
           w == MulVec(u, d, e, mat, n)
           Free(x) == \A q \in 0 .. k - 1, j \in 0 .. n - 1 : x # At(dest, n, q, j)
<1>1. /\ k \in Nat /\ n \in Nat /\ \A q \in 0 .. k - 1 : q \in Nat /\ q \in 0 .. count - 1
      /\ d \in Int /\ e \in Int /\ \A j \in 0 .. n - 1 : At(dest, n, k, j) = d + 4 * j
  <2>1. k \in Nat /\ n \in Nat /\ \A q \in 0 .. k - 1 : q \in Nat /\ q \in 0 .. count - 1
    OBVIOUS
  <2>2. d \in Int /\ \A j \in 0 .. n - 1 : At(dest, n, k, j) = d + 4 * j
    BY <2>1, AtPlaces
  <2>3. e \in Int
    BY <2>1, AtPlaces
  <2> QED
    BY <2>1, <2>2, <2>3
<1>2. ASSUME NEW x \in Int, Free(x) PROVE Cell(u, x) = Cell(m, x)
  BY <1>2 DEF Multiplied
<1>3. ASSUME NEW i \in 0 .. n - 1 PROVE Free(At(src, n, k, i)) /\ At(src, n, k, i) \in Int
  <2>1. At(src, n, k, i) \in Int
    BY <1>1, AtPlaces
  <2>2. src <= At(src, n, k, i) /\ At(src, n, k, i) < src + 4 * n * count
    BY AtWithin
  <2>3. ASSUME NEW q \in 0 .. k - 1, NEW j \in 0 .. n - 1 PROVE At(src, n, k, i) # At(dest, n, q, j)
    <3>1. q \in Nat /\ q \in 0 .. count - 1 /\ q # k
      BY <1>1
    <3>2. dest <= At(dest, n, q, j) /\ At(dest, n, q, j) < dest + 4 * n * count
          /\ At(dest, n, q, j) \in Int
      BY <3>1, AtWithin, AtPlaces
    <3>3. CASE dest = src
      <4>1. At(dest, n, k, i) # At(dest, n, q, j)
        <5>1. k \in Nat /\ q \in Nat /\ k # q
          BY <1>1, <3>1
        <5>2. \A x, y \in 0 .. n - 1 : At(dest, n, k, x) # At(dest, n, q, y)
          BY <5>1, AtUnique
        <5> QED
          BY <5>2
      <4> QED
        BY <3>3, <4>1
    <3>4. CASE Apart(dest, src, 4 * n * count, 4 * n * count)
      <4> DEFINE z == 4 * n * count
      <4>1. z \in Int
        BY <1>1
      <4> HIDE DEF z
      <4> QED
        BY <2>1, <2>2, <3>2, <3>4, <4>1 DEF Apart, z
    <3> QED
      BY <3>3, <3>4
  <2> QED
    BY <2>1, <2>3
<1>4. ASSUME NEW i \in 0 .. n - 1, NEW j \in 0 .. n - 1
      PROVE  Free(At(mat, n, i, j)) /\ At(mat, n, i, j) \in Int
  <2>1. At(mat, n, i, j) \in Int
    <3>1. i \in Nat
      BY <1>1
    <3> QED
      BY <3>1, AtPlaces
  <2>2. mat <= At(mat, n, i, j) /\ At(mat, n, i, j) < mat + 4 * n * n
    BY AtWithin
  <2>3. ASSUME NEW q \in 0 .. k - 1, NEW l \in 0 .. n - 1 PROVE At(mat, n, i, j) # At(dest, n, q, l)
    <3>1. q \in Nat /\ q \in 0 .. count - 1
      BY <1>1
    <3>2. dest <= At(dest, n, q, l) /\ At(dest, n, q, l) < dest + 4 * n * count
          /\ At(dest, n, q, l) \in Int
      BY <3>1, AtWithin, AtPlaces
    <3> DEFINE z == 4 * n * count y == 4 * n * n
    <3>3. z \in Int /\ y \in Int
      BY <1>1
    <3> HIDE DEF z, y
    <3> QED
      BY <2>1, <2>2, <3>2, <3>3 DEF Apart, z, y
  <2> QED
    BY <2>1, <2>3
<1> HIDE DEF Free
<1>5. ASSUME NEW j \in 0 .. n - 1
      PROVE  Component(u, e, mat, n, 0, j) = Component(m, src, mat, n, k, j)
  <2>1. \A i \in 0 .. n - 1 : Cell(u, At(src, n, k, i)) = Cell(m, At(src, n, k, i))
    BY <1>2, <1>3
  <2>2. \A i \in 0 .. n - 1 : Cell(u, At(mat, n, i, j)) = Cell(m, At(mat, n, i, j))
    BY <1>2, <1>4
  <2>3. Same(u, m, src, mat, n, k, j) /\ k \in Nat
    BY <1>1, <2>1, <2>2 DEF Same
  <2>4. Component(u, At(src, n, k, 0), mat, n, 0, j) = Component(m, src, mat, n, k, j)
    BY <2>3, ComponentSame
  <2> QED
    BY <2>4
<1>6. Product(w, u, d, e, mat, n)
  BY <1>1, MulVecCells
<1> HIDE DEF w, d, e
<1>7. ASSUME NEW q \in 0 .. k, NEW j \in 0 .. n - 1
      PROVE  Cell(w, At(dest, n, q, j)) = Component(m, src, mat, n, q, j)
  <2>1. CASE q = k
    <3>1. At(dest, n, q, j) = d + 4 * j
      BY <1>1, <2>1
    <3>2. Cell(w, d + 4 * j) = Component(u, e, mat, n, 0, j)
      BY <1>6 DEF Product
    <3> QED
      BY <1>5, <2>1, <3>1, <3>2
  <2>2. CASE q # k
    <3>1. q \in 0 .. k - 1 /\ q \in Nat
      BY <1>1, <2>2
    <3>2. \A i \in 0 .. n - 1 : At(dest, n, q, j) # d + 4 * i
      BY <1>1, <2>2, <3>1, AtUnique
    <3>3. At(dest, n, q, j) \in Int
      BY <3>1, AtPlaces
    <3>4. Cell(w, At(dest, n, q, j)) = Cell(u, At(dest, n, q, j))
      BY <1>6, <3>2, <3>3 DEF Product
    <3>5. Cell(u, At(dest, n, q, j)) = Component(m, src, mat, n, q, j)
      BY <3>1 DEF Multiplied
    <3> QED
      BY <3>4, <3>5
  <2> QED
    BY <2>1, <2>2
<1>8. ASSUME NEW x \in Int, \A q \in 0 .. k, j \in 0 .. n - 1 : x # At(dest, n, q, j)
      PROVE  Cell(w, x) = Cell(m, x)
  <2>1. Free(x)
    <3>1. \A q \in 0 .. k - 1 : q \in 0 .. k
      BY <1>1
    <3> QED
      BY <1>8, <3>1 DEF Free
  <2>2. \A j \in 0 .. n - 1 : x # d + 4 * j
    <3>1. k \in 0 .. k
      BY <1>1
    <3> QED
      BY <1>1, <1>8, <3>1
  <2> QED
    BY <1>2, <1>6, <2>1, <2>2 DEF Product
<1>9. 0 .. (k + 1) - 1 = 0 .. k
  BY <1>1
<1>10. Multiplied(w, m, dest, src, mat, n, k + 1)
  BY <1>7, <1>8, <1>9 DEF Multiplied
<1> QED
  BY <1>10 DEF w, d, e

LEMMA ManyProducts ==
  ASSUME NEW n \in {3, 4}, NEW call, call = IF n = 3 THEN 2 ELSE 9, NEW m, NEW r,
         NEW dest \in Int, NEW src \in Int, NEW mat \in Int,
         r[0] = dest, r[1] = src, r[2] = mat, NEW count \in Nat,
         dest = src \/ Apart(dest, src, 4 * n * count, 4 * n * count),
         Apart(dest, mat, 4 * n * count, 4 * n * n)
  PROVE  Multiplied(Many(m, call, r, count), m, dest, src, mat, n, count)
<1>1. (IF count < 0 THEN 0 ELSE count) = count /\ count \in Int
  OBVIOUS
<1>2. PICK f : Runs(f, count, m, call, r) /\ Many(m, call, r, count) = f[count]
  BY <1>1, ManyUnfolds
<1> DEFINE Wrong == {k \in Nat : k <= count /\ ~Multiplied(f[k], m, dest, src, mat, n, k)}
<1>3. ASSUME Wrong # {} PROVE FALSE
  <2>1. PICK k \in Wrong : \A q \in Wrong : k <= q
    BY <1>3, Least
  <2>2. k \in Nat /\ k <= count /\ ~Multiplied(f[k], m, dest, src, mat, n, k)
    BY <2>1
  <2>3. f[k] = IF k = 0 THEN m ELSE Each(f[k - 1], call, r, k - 1)
    BY <1>2, <2>2 DEF Runs
  <2>4. CASE k = 0
    <3>1. 0 .. k - 1 = {}
      BY <2>4
    <3>2. f[k] = m
      BY <2>3, <2>4
    <3> QED
      BY <2>2, <3>1, <3>2 DEF Multiplied
  <2>5. CASE k # 0
    <3> DEFINE q == k - 1
    <3>1. q \in Nat /\ q \in 0 .. count - 1 /\ q + 1 = k /\ q <= count /\ q < k
      BY <2>2, <2>5
    <3>2. f[k] = Each(f[q], call, r, q)
      BY <2>3, <2>5
    <3> HIDE DEF q
    <3>3. Multiplied(f[q], m, dest, src, mat, n, q)
      BY <2>1, <2>2, <3>1
    <3>4. Each(f[q], call, r, q) = MulVec(f[q], At(dest, n, q, 0), At(src, n, q, 0), mat, n)
      <4>1. CASE n = 3
        BY <3>1, <4>1, AtPlaces DEF Each
      <4>2. CASE n = 4
        BY <3>1, <4>2, AtPlaces DEF Each
      <4> QED
        BY <4>1, <4>2
    <3>5. Multiplied(f[k], m, dest, src, mat, n, q + 1)
      BY <3>1, <3>2, <3>3, <3>4, MultipliedNext
    <3> QED
      BY <2>2, <3>1, <3>5
  <2> QED
    BY <2>4, <2>5
<1>4. count \notin Wrong
  BY <1>3
<1> QED
  BY <1>2, <1>4

(* No change of mode, nor a fast interrupt, touches the memory.            *)
LEMMA FiqMemory == ASSUME NEW t, Fit(t) PROVE Fiq(t).ram = t.ram
<1> DEFINE m == "fiq"
           back == Wrap(t.user[15] + 4)
           vector == \h1C
           p == [t EXCEPT !.spsr[m] = t.psr, !.psr.i = TRUE]
           f == ChangeMode(Bank(p), Mode(p), ModeOf(ModeBits[m]))
           w == SetMode(p, ModeBits[m])
           u == [w EXCEPT !.user[14] = back, !.user[15] = vector]
<1>1. Fiq(t) = [u EXCEPT !.psr.f = TRUE]
  BY DEF Fiq, Trap
<1>2. DOMAIN p = Fields /\ p.ram = t.ram
  BY DEF Fit, Shaped, Fields
<1>3. w = [p EXCEPT !.user = f.user, !.cash = f.cash, !.bank = f.bank, !.psr.mode = ModeBits[m]]
  BY DEF SetMode, Bank
<1> HIDE DEF p, f, back, vector, m
<1>4. DOMAIN w = Fields /\ w.ram = p.ram
  BY <1>2, <1>3 DEF Fields
<1> HIDE DEF w
<1>5. DOMAIN u = Fields /\ u.ram = w.ram
  BY <1>4 DEF Fields
<1> HIDE DEF u
<1>6. [u EXCEPT !.psr.f = TRUE].ram = u.ram
  BY <1>5 DEF Fields
<1> QED
  BY <1>1, <1>2, <1>4, <1>5, <1>6

(* A call that the emulator does itself stores what HleStore says.         *)
LEMMA DoneMemory ==
  ASSUME NEW t, DOMAIN t = Fields, NEW i, i.op = "swi", Done(i), NEW v
  PROVE  Perform(t, i, v).ram = HleStore(t.ram, i.number, t.user)
<1> DEFINE a == HleAnswer(t.ram, i.number, t.user)
           u == SetReg(t, 0, a)
           m == HleStore(t.ram, i.number, t.user)
           z == [u EXCEPT !.ram = m]
<1>1. Perform(t, i, v) = Swi(t, i)
  BY DEF Perform
<1>2. Swi(t, i) = Spend(z, 5)
  BY DEF Swi, Done
<1> HIDE DEF a, m
<1>3. DOMAIN u = Fields
  BY DEF SetReg, Fields
<1> HIDE DEF u
<1>4. DOMAIN z = Fields /\ z.ram = m
  BY <1>3 DEF Fields
<1> HIDE DEF z
<1>5. Spend(z, 5).ram = z.ram
  BY <1>4 DEF Spend, Fields
<1> QED
  BY <1>1, <1>2, <1>4, <1>5 DEF m

(* ManyInPlace, of one step.                                               *)
ManyStep ==
  insn' # None /\ insn'.op = "swi" /\ Software[sw].hle /\ insn'.number \in {2, 9} =>
      LET n == IF insn'.number = 2 THEN 3 ELSE 4
          dest == s.user[0] src == s.user[1] mat == s.user[2] count == Signed(H, s.user[3])
          size == 4 * n * count
          v(k, i) == Number(s.ram, src + 4 * (n * k + i))
          entry(i, j) == Number(s.ram, mat + 4 * (n * i + j))
      IN /\ dest = src \/ Apart(dest, src, size, size)
         /\ Apart(dest, mat, size, 4 * n * n)
         => \A k \in 0 .. count - 1, j \in 0 .. n - 1 :
              Number(s'.ram, dest + 4 * (n * k + j)) =
                Signed(H, Wrap(Sum([i \in 1 .. n |-> v(k, i - 1) * entry(i - 1, j)]) \div One))

LEMMA ExecuteMany == ASSUME WordsInv, ModesValid, ModesValid', Execute PROVE ManyStep
<1>1. PICK i \in Code, v \in DeviceWords, needed \in BOOLEAN :
        LET t == Executed(s, i, v) fiq == needed /\ ~t.psr.f IN
        /\ s' = IF fiq THEN Fiq(t) ELSE t
        /\ insn' = IF IsRun(i, s) THEN i ELSE None
  BY ZenonT(60) DEF Execute
<1>2. SUFFICES ASSUME insn' # None, insn'.op = "swi", Software[sw].hle, insn'.number \in {2, 9}
               PROVE  ManyStep
  BY DEF ManyStep
<1>3. insn' = i /\ IsRun(i, s) /\ Done(i) /\ i.op = "swi" /\ i.number \in {2, 9}
  <2>1. insn' = i /\ IsRun(i, s)
    BY <1>1, <1>2
  <2> QED
    BY <1>2, <2>1 DEF Done, Hle
<1> DEFINE t == Executed(s, i, v) u == Fetched(s)
           n == IF i.number = 2 THEN 3 ELSE 4
           count == Signed(H, s.user[3])
<1>4. i \in Instructions /\ v \in Data
  BY CodeIn, ArmAssumption DEF WordsInv, IInv
<1>5. Fine(s, 26) /\ Fit(s) /\ DOMAIN s = Fields
  BY DEF WordsInv, IInv, Fine, Fit, ModesValid, Shaped
<1>6. /\ DOMAIN u = Fields /\ u.ram = s.ram
      /\ \A k \in 0 .. 3 : u.user[k] = s.user[k]
  <2> DEFINE z == [s EXCEPT !.user[15] = Wrap(s.user[15] + 4)]
  <2>1. u = [z EXCEPT !.cycles = 1, !.io = <<>>]
    BY DEF Fetched
  <2>2. DOMAIN z = Fields /\ z.ram = s.ram /\ z.user = [s.user EXCEPT ![15] = Wrap(s.user[15] + 4)]
    BY <1>5 DEF Fields
  <2> HIDE DEF z
  <2>3. DOMAIN u = Fields /\ u.ram = z.ram /\ u.user = z.user
    BY <2>1, <2>2 DEF Fields
  <2> HIDE DEF u
  <2>4. \A k \in 0 .. 3 : z.user[k] = s.user[k]
    BY <1>5, <2>2 DEF Fit, Shaped, On, Regs
  <2> QED
    BY <2>2, <2>3, <2>4
<1>7. t = Perform(u, i, v)
  BY <1>3 DEF Executed
<1>8. Lands(s, t, Allowed(i, s))
  BY <1>4, <1>5, ExecutedLands
<1>9. s' = t \/ s' = Fiq(t)
  BY <1>1
<1> HIDE DEF t, u
<1>10. t.psr.mode \in ModeNumbers
  <2>1. CASE s' = t
    BY <2>1 DEF ModesValid
  <2>2. CASE s' = Fiq(t)
    <3>1. s'.spsr["fiq"] = t.psr
      BY <1>8, <2>2, FiqSaves DEF Lands
    <3>2. s'.spsr["fiq"].mode \union {4} \in ModeNumbers
      BY DEF ModesValid, Modes, Banked
    <3> QED
      BY <1>8, <3>1, <3>2 DEF Lands, Framed
  <2> QED
    BY <1>9, <2>1, <2>2
<1>11. s'.ram = t.ram
  <2>1. Fit(t)
    BY <1>8, <1>10 DEF Lands, Fit
  <2> QED
    BY <1>9, <2>1, FiqMemory
<1>12. t.ram = Many(s.ram, i.number, u.user, count)
  <2>1. t.ram = HleStore(u.ram, i.number, u.user)
    BY <1>3, <1>6, <1>7, DoneMemory
  <2>2. HleStore(u.ram, i.number, u.user) = Many(u.ram, i.number, u.user, Signed(H, u.user[3]))
    BY <1>3 DEF HleStore
  <2> QED
    BY <1>6, <2>1, <2>2
<1>13. s.user[0] \in Int /\ s.user[1] \in Int /\ s.user[2] \in Int /\ count \in Int
  <2>1. s.user[0] \in Data /\ s.user[1] \in Data /\ s.user[2] \in Data /\ s.user[3] \in Data
    BY <1>5, FineReg DEF Regs
  <2> QED
    BY <2>1, DataIs, Sizes DEF Signed
<1>14. n \in {3, 4} /\ i.number = IF n = 3 THEN 2 ELSE 9
  BY <1>3
<1> DEFINE dest == s.user[0] src == s.user[1] mat == s.user[2]
<1> HIDE DEF count, n
<1>15. ASSUME dest = src \/ Apart(dest, src, 4 * n * count, 4 * n * count),
              Apart(dest, mat, 4 * n * count, 4 * n * n),
              NEW k \in 0 .. count - 1, NEW j \in 0 .. n - 1
       PROVE  Number(s'.ram, dest + 4 * (n * k + j)) = Signed(H, Component(s.ram, src, mat, n, k, j))
  <2>1. u.user[0] = dest /\ u.user[1] = src /\ u.user[2] = mat
    BY <1>6
  <2>2. count \in Nat /\ dest \in Int /\ src \in Int /\ mat \in Int
    BY <1>13, <1>15
  <2> HIDE DEF dest, src, mat
  <2>3. Multiplied(Many(s.ram, i.number, u.user, count), s.ram, dest, src, mat, n, count)
    BY <1>14, <1>15, <2>1, <2>2, ManyProducts
  <2>4. Cell(s'.ram, At(dest, n, k, j)) = Component(s.ram, src, mat, n, k, j)
    BY <1>11, <1>12, <1>15, <2>3 DEF Multiplied
  <2> QED
    BY <2>4 DEF Number, At
<1> QED
  BY <1>3, <1>15 DEF ManyStep, Component, n, count

LEMMA ManyKept == ASSUME WordsInv, ModesValid, ModesValid', [Next]_vars PROVE [ManyStep]_vars
<1>1. CASE Execute
  BY <1>1, ExecuteMany
<1>2. CASE Reset
  BY <1>2 DEF Reset, ManyStep
<1> QED
  BY <1>1, <1>2 DEF Next

(* A matrix call on many vectors gives for each the product of the vector  *)
(* that was there, for every number of vectors, every matrix and every     *)
(* width of words: the induction is over the vectors done.                 *)
THEOREM ManyMultiplied == Spec /\ []ModesValid => ManyInPlace
<1>1. Init /\ ModesValid => WordsInv
  BY InitWords
<1>2. WordsInv /\ ModesValid /\ ModesValid' /\ [Next]_vars => WordsInv' /\ [ManyStep]_vars
  BY WordsKept, ManyKept
<1> QED
  BY <1>1, <1>2, PTL DEF Spec, ManyInPlace, ManyStep
-----------------------------------------------------------------------------
(* What an instruction does to the memory.  Spares says that it leaves all *)
(* words but those of A; such changes compose.                             *)
Spares(t, u, A) == DOMAIN u = Fields /\ \A x : x \notin A => Cell(u.ram, x) = Cell(t.ram, x)

LEMMA SparesSame ==
  ASSUME NEW t, NEW u, DOMAIN u = Fields, u.ram = t.ram, NEW A PROVE Spares(t, u, A)
BY DEF Spares

LEMMA SparesTogether ==
  ASSUME NEW t, NEW u, NEW w, NEW A, Spares(t, u, A), Spares(u, w, A) PROVE Spares(t, w, A)
BY DEF Spares

LEMMA SparesPut ==
  ASSUME NEW t, DOMAIN t = Fields, NEW A, NEW a \in A, NEW v
  PROVE  Spares(t, [t EXCEPT !.ram = Put(t.ram, a, v)], A)
<1> DEFINE m == Put(t.ram, a, v) u == [t EXCEPT !.ram = m]
<1>1. ASSUME NEW x, x # a PROVE Cell(m, x) = Cell(t.ram, x)
  BY <1>1 DEF Cell, Put
<1> HIDE DEF m
<1>2. DOMAIN u = Fields /\ u.ram = m
  BY DEF Fields
<1> HIDE DEF u
<1>3. Spares(t, u, A)
  BY <1>1, <1>2 DEF Spares
<1> QED
  BY <1>3 DEF u, m

LEMMA SparesSmall ==
  ASSUME NEW t, DOMAIN t = Fields, NEW x, NEW n, NEW v, NEW m, NEW A
  PROVE  /\ Spares(t, t, A) /\ Spares(t, SetReg(t, n, v), A) /\ Spares(t, LoadUser(t, m, n, v), A)
         /\ Spares(t, PutUser(t, n, v), A) /\ Spares(t, Spend(t, n), A)
         /\ Spares(t, [t EXCEPT !.nvram = x], A) /\ Spares(t, [t EXCEPT !.io = x], A)
         /\ Spares(t, [t EXCEPT !.carry_out = x], A) /\ Spares(t, [t EXCEPT !.psr = x], A)
         /\ Spares(t, [t EXCEPT !.psr.c = x], A) /\ Spares(t, [t EXCEPT !.spsr[m] = x], A)
<1>1. Spares(t, t, A)
  BY DEF Spares
<1>2. Spares(t, SetReg(t, n, v), A) /\ Spares(t, SetReg(t, 15, v), A)
  BY DEF Spares, SetReg, Fields
<1>3. \A k : Spares(t, LoadUser(t, k, n, v), A)
  BY DEF Spares, LoadUser, Fields
<1>4. Spares(t, PutUser(t, n, v), A)
  BY <1>2, <1>3 DEF PutUser
<1>5. Spares(t, Spend(t, n), A)
  BY DEF Spares, Spend, Fields
<1>6. Spares(t, [t EXCEPT !.nvram = x], A) /\ Spares(t, [t EXCEPT !.io = x], A)
  BY DEF Spares, Fields
<1>7. Spares(t, [t EXCEPT !.carry_out = x], A) /\ Spares(t, [t EXCEPT !.psr = x], A)
  BY DEF Spares, Fields
<1>8. Spares(t, [t EXCEPT !.psr.c = x], A) /\ Spares(t, [t EXCEPT !.spsr[m] = x], A)
  BY DEF Spares, Fields
<1> QED
  BY <1>1, <1>2, <1>3, <1>4, <1>5, <1>6, <1>7, <1>8

LEMMA SparesMode ==
  ASSUME NEW t, DOMAIN t = Fields, NEW bits, NEW A PROVE Spares(t, SetMode(t, bits), A)
<1> DEFINE f == ChangeMode(Bank(t), Mode(t), ModeOf(bits))
<1> HIDE DEF f
<1>1. SetMode(t, bits) = [t EXCEPT !.user = f.user, !.cash = f.cash, !.bank = f.bank,
                                  !.psr.mode = bits]
  BY DEF SetMode, Bank, f
<1> QED
  BY <1>1 DEF Spares, Fields

LEMMA SparesSet ==
  ASSUME NEW t, DOMAIN t = Fields, NEW p, NEW A
  PROVE  Spares(t, CpsrSet(t, p), A) /\ Spares(t, Restore(t), A)
<1>1. ASSUME NEW q PROVE Spares(t, CpsrSet(t, q), A)
  <2> DEFINE bits == q.mode \union {4} w == SetMode(t, bits) y == [q EXCEPT !.mode = bits]
  <2>1. CpsrSet(t, q) = [w EXCEPT !.psr = y]
    BY DEF CpsrSet
  <2>2. Spares(t, w, A)
    BY SparesMode
  <2> HIDE DEF w, y
  <2>3. Spares(w, [w EXCEPT !.psr = y], A)
    BY <2>2, SparesSmall DEF Spares
  <2> QED
    BY <2>1, <2>2, <2>3, SparesTogether
<1> QED
  BY <1>1 DEF Restore

LEMMA SparesTrap ==
  ASSUME NEW t, DOMAIN t = Fields, NEW m, NEW back, NEW vector, NEW A
  PROVE  Spares(t, Trap(t, m, back, vector), A)
<1> DEFINE p == [t EXCEPT !.spsr[m] = t.psr, !.psr.i = TRUE]
           w == SetMode(p, ModeBits[m])
           u == [w EXCEPT !.user[14] = back, !.user[15] = vector]
<1>1. Trap(t, m, back, vector) = u
  BY DEF Trap
<1>2. DOMAIN p = Fields /\ p.ram = t.ram
  BY DEF Fields
<1> HIDE DEF p
<1>3. Spares(p, w, A)
  BY <1>2, SparesMode
<1> HIDE DEF w
<1>4. DOMAIN u = Fields /\ u.ram = w.ram
  BY <1>3 DEF Fields, Spares
<1> HIDE DEF u
<1> QED
  BY <1>1, <1>2, <1>3, <1>4 DEF Spares

LEMMA SparesRead ==
  ASSUME NEW t, DOMAIN t = Fields, NEW a, NEW v, NEW A
  PROVE  Spares(t, ReadWord(t, a, v).s, A)
<1> DEFINE al == Align(a)
           d == Device(al, FALSE)
           seen == Access(t, d, "read", al)
           near == Within(al, \h3200000, \h2000)
           ram == Cell(t.ram, al)
           nvram == Cell(t.nvram, NvramIndex(al))
           rom == Cell(Rom, al % Megabyte)
<1>1. d \in {"ram", "madam", "clio", "sport", "diag", "nvram", "brooktree", "rom", "none"}
  BY SMT DEF Device
<1>2. ReadWord(t, a, v) =
        CASE d = "ram" -> Answer(t, ram)
          [] d \in {"madam", "clio", "diag"} -> Answer(seen, v)
          [] d = "sport" -> IF near THEN Answer(seen, 0) ELSE Answer(t, Bad)
          [] d = "nvram" -> Answer(t, nvram)
          [] d = "brooktree" -> Answer(t, Brooktree)
          [] d = "rom" -> Answer(t, rom)
          [] d = "none" -> Answer(t, Bad)
  BY DEF ReadWord
<1>3. Spares(t, seen, A) /\ Spares(t, t, A)
  BY SparesSmall DEF Access
<1> HIDE DEF d, seen, near, ram, nvram, rom
<1>4. ReadWord(t, a, v).s = t \/ ReadWord(t, a, v).s = seen
  BY <1>1, <1>2, SMT DEF Answer
<1> QED
  BY <1>3, <1>4

LEMMA SparesWrite ==
  ASSUME NEW t, DOMAIN t = Fields, NEW a, NEW v, NEW A, Align(a) \in A
  PROVE  Spares(t, WriteWord(t, a, v), A)
<1> DEFINE al == Align(a)
           d == Device(al, TRUE)
           seen == Access(t, d, "write", al)
           skip == d = "clio" /\ al = \h3400028 /\ v = \h30
           ram == Put(t.ram, al, v)
           nvram == Put(t.nvram, NvramIndex(al), v % Bytes)
           next == Wrap(seen.user[15] + 4)
<1>1. WriteWord(t, a, v) =
        CASE d = "ram" -> [t EXCEPT !.ram = ram]
          [] skip -> [seen EXCEPT !.user[15] = next]
          [] d = "nvram" -> [t EXCEPT !.nvram = nvram]
          [] d \in {"brooktree", "none"} -> t
          [] OTHER -> seen
  BY DEF WriteWord
<1>2. /\ Spares(t, seen, A) /\ Spares(t, t, A)
      /\ Spares(t, [t EXCEPT !.ram = ram], A) /\ Spares(t, [t EXCEPT !.nvram = nvram], A)
  BY SparesSmall, SparesPut DEF Access
<1>3. Spares(t, [seen EXCEPT !.user[15] = next], A)
  <2> HIDE DEF seen, next
  <2>1. Spares(seen, SetReg(seen, 15, next), A)
    BY <1>2, SparesSmall DEF Spares
  <2> QED
    BY <1>2, <2>1, SparesTogether DEF SetReg
<1> HIDE DEF d, seen, skip, ram, nvram, next
<1> QED
  BY <1>1, <1>2, <1>3, SMT

LEMMA SparesByte ==
  ASSUME NEW t, DOMAIN t = Fields, NEW a, NEW v, NEW A, Align(a) \in A
  PROVE  Spares(t, WriteByte(t, a, v), A)
<1> DEFINE old == Cell(t.ram, Align(a))
           ram == Put(t.ram, Align(a), old + ((v % Bytes) - ByteOf(old, a)) * Place(a))
           nvram == Put(t.nvram, NvramIndex(a), v % Bytes)
           inRam == Device(a, TRUE) = "ram"
           inNvram == Within(a, \h3100000, Megabyte) /\ Bit(a, 18) = 1
<1>1. WriteByte(t, a, v) =
        CASE inRam -> [t EXCEPT !.ram = ram]
          [] inNvram -> [t EXCEPT !.nvram = nvram]
          [] OTHER -> t
  BY DEF WriteByte
<1>2. /\ Spares(t, t, A) /\ Spares(t, [t EXCEPT !.ram = ram], A)
      /\ Spares(t, [t EXCEPT !.nvram = nvram], A)
  BY SparesSmall, SparesPut
<1> HIDE DEF inRam, inNvram, ram, nvram
<1> QED
  BY <1>1, <1>2, SMT

LEMMA SparesMemory ==
  ASSUME NEW t, DOMAIN t = Fields, NEW byte \in BOOLEAN, NEW a, NEW v, NEW o, NEW A
  PROVE  /\ Spares(t, Fetch(t, byte, a, v).s, A) /\ Spares(t, Operand(t, o).s, A)
         /\ Align(a) \in A => Spares(t, StoreAt(t, byte, a, v), A)
<1>1. Spares(t, Fetch(t, byte, a, v).s, A)
  BY SparesRead, SparesSmall DEF Fetch, Answer
<1>2. Align(a) \in A => Spares(t, StoreAt(t, byte, a, v), A)
  BY SparesWrite, SparesByte DEF StoreAt
<1>3. Spares(t, Operand(t, o).s, A)
  <2>1. Spares(t, t, A) /\ \A x : Spares(t, [t EXCEPT !.carry_out = x], A)
    BY SparesSmall
  <2> QED
    BY <2>1 DEF Operand, Answer
<1> QED
  BY <1>1, <1>2, <1>3

LEMMA SparesThen ==
  ASSUME NEW t, NEW u, NEW A, Spares(t, u, A), NEW n, NEW v, NEW i
  PROVE  /\ Spares(t, SetReg(u, n, v), A) /\ Spares(t, LoadUser(u, Mode(t), n, v), A)
         /\ Spares(t, PutUser(u, n, v), A) /\ Spares(t, Spend(u, n), A)
         /\ Spares(t, Given(i, u, n, v), A) /\ Spares(t, NewBase(i, u, v), A)
         /\ Spares(t, Based(u, i, v), A) /\ Spares(t, Restore(u), A)
         /\ Spares(t, CpsrSet(u, v), A)
<1>1. DOMAIN u = Fields
  BY DEF Spares
<1>2. /\ \A k : Spares(u, SetReg(u, k, v), A) /\ Spares(u, PutUser(u, k, v), A)
      /\ Spares(u, Spend(u, n), A) /\ Spares(u, LoadUser(u, Mode(t), n, v), A)
      /\ Spares(u, Restore(u), A) /\ Spares(u, CpsrSet(u, v), A)
  BY <1>1, SparesSmall, SparesSet
<1>3. /\ \A k : Spares(t, SetReg(u, k, v), A) /\ Spares(t, PutUser(u, k, v), A)
      /\ Spares(t, Spend(u, n), A) /\ Spares(t, LoadUser(u, Mode(t), n, v), A)
      /\ Spares(t, Restore(u), A) /\ Spares(t, CpsrSet(u, v), A)
  BY <1>2, SparesTogether
<1> QED
  BY <1>3 DEF Given, NewBase, Based

LEMMA SparesStatus ==
  ASSUME NEW t, NEW u, NEW A, Spares(t, u, A), NEW m, NEW x
  PROVE  /\ Spares(t, [u EXCEPT !.psr = x], A) /\ Spares(t, [u EXCEPT !.psr.c = x], A)
         /\ Spares(t, [u EXCEPT !.spsr[m] = x], A)
<1>1. DOMAIN u = Fields
  BY DEF Spares
<1>2. /\ Spares(u, [u EXCEPT !.psr = x], A) /\ Spares(u, [u EXCEPT !.psr.c = x], A)
      /\ Spares(u, [u EXCEPT !.spsr[m] = x], A)
  BY <1>1, SparesSmall
<1> QED
  BY <1>2, SparesTogether

LEMMA SparesMultiply ==
  ASSUME NEW t, DOMAIN t = Fields, NEW i, NEW A
  PROVE  Spares(t, Multiply(t, i), A)
<1> DEFINE product == IF i.rd = i.rm THEN 0 ELSE LowProduct(W, t.user[i.rm], t.user[i.rs])
           y == IF i.acc THEN Add(H, product, Reg(t, i.rn, 8), 0) ELSE product
           n == MulCycles(t.user[i.rs])
           p == SetZN(t.psr, y)
           u == IF i.s THEN [t EXCEPT !.psr = p] ELSE t
<1>1. Multiply(t, i) = SetReg(Spend(u, n), i.rd, y)
  BY DEF Multiply
<1> HIDE DEF y, n, p
<1>2. Spares(t, u, A)
  BY SparesSmall
<1> HIDE DEF u
<1>3. Spares(t, Spend(u, n), A)
  BY <1>2, SparesThen
<1>4. Spares(t, SetReg(Spend(u, n), i.rd, y), A)
  BY <1>3, SparesThen
<1> QED
  BY <1>1, <1>4

LEMMA SparesSwap ==
  ASSUME NEW t, DOMAIN t = Fields, NEW i \in SwapInsns, NEW v, NEW A, Align(Reg(t, i.rn, 4)) \in A
  PROVE  Spares(t, Swap(t, i, v), A)
<1> DEFINE a == Reg(t, i.rn, 4)
           r == Fetch(t, i.byte, a, v)
           val == Reg(t, i.rm, 8)
           u == StoreAt(r.s, i.byte, a, val)
           x == Turned(i, a, r.val)
<1>1. Swap(t, i, v) = SetReg(Spend(u, 9), i.rd, x)
  BY DEF Swap, SwapFrom, SwapAt
<1>2. i.byte \in BOOLEAN
  BY DEF SwapInsns
<1>a. Align(a) \in A
  OBVIOUS
<1> HIDE DEF a, val
<1>3. Spares(t, r.s, A)
  BY <1>2, SparesMemory
<1> HIDE DEF r, x
<1>4. Spares(r.s, u, A)
  <2>1. DOMAIN r.s = Fields
    BY <1>3 DEF Spares
  <2> QED
    BY <1>2, <1>a, <2>1, SparesMemory
<1>5. Spares(t, u, A)
  BY <1>3, <1>4, SparesTogether
<1> HIDE DEF u
<1>6. Spares(t, Spend(u, 9), A)
  BY <1>5, SparesThen
<1>7. Spares(t, SetReg(Spend(u, 9), i.rd, x), A)
  BY <1>6, SparesThen
<1> QED
  BY <1>1, <1>7

(* Where a single transfer goes, and the words that an instruction stores  *)
(* to.                                                                     *)
Address(t, i) ==
  LET base == Reg(t, i.rn, Ahead(i.o2))
  IN IF i.pre THEN Moved(i, base, Operand(t, i.o2).val) ELSE base

LEMMA SparesTransfer ==
  ASSUME NEW t, DOMAIN t = Fields, NEW i \in TransferInsns, NEW v, NEW A,
         ~i.load => Align(Address(t, i)) \in A
  PROVE  Spares(t, Transfer(t, i, v), A)
<1> DEFINE o == Operand(t, i.o2)
           base == Reg(t, i.rn, Ahead(i.o2))
           moved == Moved(i, base, o.val)
           a == IF i.pre THEN moved ELSE base
           r == Fetch(o.s, i.byte, a, v)
           x == Turned(i, a, r.val)
           stored == StoredOne(t, i)
           w == StoreAt(o.s, i.byte, a, stored)
           u == Based(r.s, i, moved)
           z == Based(w, i, moved)
<1>1. Transfer(t, i, v) = IF i.load THEN LoadOne(t, i, u, x) ELSE Spend(z, 7)
  BY DEF Transfer, TransferBy, Indexed, TransferAt, LoadFrom
<1>2. i.byte \in BOOLEAN
  BY DEF TransferInsns
<1>3. Spares(t, o.s, A)
  BY <1>2, SparesMemory
<1>a. ~i.load => Align(a) \in A
  BY DEF Address
<1> HIDE DEF o, a, stored
<1>4. Spares(o.s, r.s, A) /\ (~i.load => Spares(o.s, w, A))
  <2>1. DOMAIN o.s = Fields
    BY <1>3 DEF Spares
  <2>2. Spares(o.s, r.s, A)
    BY <1>2, <2>1, SparesMemory
  <2>3. ~i.load => Spares(o.s, w, A)
    BY <1>2, <1>a, <2>1, SparesMemory
  <2> QED
    BY <2>2, <2>3
<1>5. Spares(t, r.s, A) /\ (~i.load => Spares(t, w, A))
  BY <1>3, <1>4, SparesTogether
<1> HIDE DEF r, w, x, moved
<1>6. Spares(t, u, A) /\ (~i.load => Spares(t, z, A))
  BY <1>5, SparesThen
<1> HIDE DEF u, z
<1>7. Spares(t, LoadUser(u, Mode(t), i.rd, x), A) /\ Spares(t, SetReg(u, i.rd, x), A)
  BY <1>6, SparesThen
<1>8. Spares(t, LoadOne(t, i, u, x), A) /\ (~i.load => Spares(t, Spend(z, 7), A))
  BY <1>6, <1>7, SparesThen DEF LoadOne
<1> QED
  BY <1>1, <1>8

LEMMA SparesBranch ==
  ASSUME NEW t, DOMAIN t = Fields, NEW i, NEW A
  PROVE  Spares(t, Branch(t, i), A)
<1> DEFINE u == IF i.link THEN SetReg(t, 14, t.user[15]) ELSE t
           pc == Wrap(t.user[15] + 4 + i.offset)
<1>1. Branch(t, i) = Spend(SetReg(u, 15, pc), 5)
  BY DEF Branch
<1>2. Spares(t, u, A)
  BY SparesSmall
<1> HIDE DEF u, pc
<1>3. Spares(t, SetReg(u, 15, pc), A)
  BY <1>2, SparesThen
<1> QED
  BY <1>1, <1>3, SparesThen

LEMMA SparesLoadOf ==
  ASSUME NEW t, NEW u, NEW A, Spares(t, u, A), NEW i, NEW base, NEW n, NEW v
  PROVE  Spares(t, LoadOf(i, u, base, n, v), A)
<1> DEFINE r == ReadWord(u, WordOf(i, base, n), v)
<1>1. Spares(u, r.s, A)
  BY SparesRead DEF Spares
<1> HIDE DEF r
<1>2. Spares(t, r.s, A)
  BY <1>1, SparesTogether
<1>3. Spares(t, GivenWord(i, r, n), A)
  BY <1>2, SparesThen DEF GivenWord
<1> QED
  BY <1>3 DEF LoadOf, r

LEMMA SparesStoreOf ==
  ASSUME NEW t, NEW u, NEW A, Spares(t, u, A), NEW i, NEW base, NEW n,
         n \in i.list => Align(WordOf(i, base, n)) \in A
  PROVE  Spares(t, StoreOf(i, u, base, n), A)
<1> DEFINE x == IF n = 15 THEN Wrap(u.user[15] + 8)
                ELSE IF i.user THEN GetUser(u, n) ELSE u.user[n]
<1> HIDE DEF x
<1>1. n \in i.list => Spares(u, WriteWord(u, WordOf(i, base, n), x), A)
  BY SparesWrite DEF Spares
<1>2. n \in i.list => Spares(t, WriteWord(u, WordOf(i, base, n), x), A)
  BY <1>1, SparesTogether
<1> QED
  BY <1>2 DEF StoreOf, x

LEMMA SparesLoadRun ==
  ASSUME NEW t, NEW i, NEW x, NEW A, Spares(t, x, A), NEW base, NEW v, NEW f,
         LoadRun(f, 16, i, x, base, v)
  PROVE  Spares(t, f[16], A)
<1> DEFINE Wrong == {n \in Nat : n <= 16 /\ ~Spares(t, f[n], A)}
<1>1. SUFFICES ASSUME Wrong # {} PROVE FALSE
  OBVIOUS
<1>2. PICK m \in Wrong : \A n \in Wrong : m <= n
  BY <1>1, Least
<1>3. f[m] = IF m = 0 THEN x ELSE LoadOf(i, f[m - 1], base, m - 1, v)
  <2>1. m \in 0 .. 16
    BY <1>2
  <2> QED
    BY <2>1 DEF LoadRun
<1>4. m # 0
  BY <1>2, <1>3
<1>5. m - 1 \in Nat /\ m - 1 <= 16 /\ m - 1 \notin Wrong
  BY <1>2, <1>4
<1>6. Spares(t, f[m], A)
  BY <1>3, <1>4, <1>5, SparesLoadOf
<1> QED
  BY <1>2, <1>6

LEMMA SparesStoreRun ==
  ASSUME NEW t, NEW i, NEW x, NEW A, Spares(t, x, A), NEW base, NEW f, StoreRun(f, 15, i, x, base),
         \A n \in i.list : Align(WordOf(i, base, n)) \in A
  PROVE  Spares(t, f[15], A)
<1> DEFINE Wrong == {n \in Nat : n <= 15 /\ ~Spares(t, f[n], A)}
<1>1. SUFFICES ASSUME Wrong # {} PROVE FALSE
  OBVIOUS
<1>2. PICK m \in Wrong : \A n \in Wrong : m <= n
  BY <1>1, Least
<1>3. f[m] = IF m = 0 THEN x ELSE StoreOf(i, f[m - 1], base, m - 1)
  <2>1. m \in 0 .. 15
    BY <1>2
  <2> QED
    BY <2>1 DEF StoreRun
<1>4. m # 0
  BY <1>2, <1>3
<1>5. m - 1 \in Nat /\ m - 1 <= 15 /\ m - 1 \notin Wrong
  BY <1>2, <1>4
<1>6. Spares(t, f[m], A)
  BY <1>3, <1>4, <1>5, SparesStoreOf
<1> QED
  BY <1>2, <1>6

LEMMA SparesLoadBlock ==
  ASSUME NEW t, DOMAIN t = Fields, NEW i, NEW v, NEW A
  PROVE  Spares(t, LoadBlock(t, i, v), A)
<1> DEFINE base == Reg(t, i.rn, 8)
           x == IF i.wb THEN Given(i, t, i.rn, Beyond(i, base)) ELSE t
           f == CHOOSE f : LoadRun(f, 16, i, x, base, v)
           n == Cardinality(i.list) + 4 + (IF 15 \in i.list THEN 5 ELSE 0)
<1>1. LoadBlock(t, i, v) = Spend(RestoredBy(i, f[16]), n)
  BY DEF LoadBlock, LoadRun
<1>2. LoadRun(f, 16, i, x, base, v)
  BY LoadRunExists
<1>3. Spares(t, t, A)
  BY SparesSmall
<1> HIDE DEF f, n
<1>4. Spares(t, x, A)
  BY <1>3, SparesThen
<1> HIDE DEF x, base
<1>5. Spares(t, f[16], A)
  BY <1>2, <1>4, SparesLoadRun
<1>6. Spares(t, RestoredBy(i, f[16]), A)
  BY <1>5, SparesThen DEF RestoredBy
<1> QED
  BY <1>1, <1>6, SparesThen

LEMMA SparesStoreBlock ==
  ASSUME NEW t, DOMAIN t = Fields, NEW i,
         NEW A, \A n \in i.list : Align(WordOf(i, Reg(t, i.rn, 8), n)) \in A
  PROVE  Spares(t, StoreBlock(t, i), A)
<1> DEFINE base == Reg(t, i.rn, 8)
           x == IF \E n \in i.list : n < i.rn THEN NewBase(i, t, Beyond(i, base)) ELSE t
           f == CHOOSE f : StoreRun(f, 15, i, x, base)
           n == Cardinality(i.list) + 6
           u == NewBase(i, f[15], Beyond(i, base))
<1>1. StoreBlock(t, i) = Spend(StoreOf(i, u, base, 15), n)
  BY DEF StoreBlock, StoreRun
<1>2. StoreRun(f, 15, i, x, base)
  BY StoreRunExists
<1>3. Spares(t, t, A)
  BY SparesSmall
<1> HIDE DEF f, n
<1>4. Spares(t, x, A)
  BY <1>3, SparesThen
<1>a. \A k \in i.list : Align(WordOf(i, base, k)) \in A
  OBVIOUS
<1> HIDE DEF x, base
<1>5. Spares(t, f[15], A)
  BY <1>2, <1>4, <1>a, SparesStoreRun
<1>6. Spares(t, u, A)
  BY <1>5, SparesThen
<1> HIDE DEF u
<1>7. Spares(t, StoreOf(i, u, base, 15), A)
  BY <1>6, <1>a, SparesStoreOf
<1> QED
  BY <1>1, <1>7, SparesThen

LEMMA SparesAlu ==
  ASSUME NEW t, DOMAIN t = Fields, NEW i \in AluInsns, NEW A PROVE Spares(t, Alu(t, i), A)
<1> DEFINE o == Operand(t, i.o2)
           a == Reg(t, i.rn, Ahead(i.o2))
           u == Carried(i, o.s)
           y == Result(i.code, a, o.val, u.psr.c)
           f == Flagged(i, u, a, o.val, y)
           w == Settled(i, u, o.val, f, y)
           n == IF i.o2.kind = "by" THEN 1 ELSE 0
<1>1. Alu(t, i) = Spend(w, n)
  BY DEF Alu, AluWith, Combined, Computed
<1>2. Spares(t, o.s, A)
  BY SparesMemory
<1> HIDE DEF o
<1>3. Spares(t, u, A)
  BY <1>2, SparesStatus DEF Carried
<1> HIDE DEF a, u, y, n
<1>4. Spares(t, f, A)
  BY <1>3, SparesStatus DEF Flagged
<1> HIDE DEF f
<1>5. i.code \in 0 .. 15 /\ i.s \in BOOLEAN
  BY DEF AluInsns
<1>6. Spares(t, w, A)
  <2>1. CASE i.code \in {9, 11} /\ ~i.s
    <3> DEFINE q == Psr(o.val) m == Mode(u)
               x1 == FlagsOnly(u.spsr[m], q) x2 == FlagsOnly(u.psr, q)
    <3>1. w = MoveToPsr(u, i, o.val)
      BY <2>1 DEF Settled, IsCompare
    <3>2. MoveToPsr(u, i, o.val) =
            IF i.rn % 2 = 0 \/ m = "user"
            THEN IF i.code = 11 THEN [u EXCEPT !.spsr[m] = x1] ELSE [u EXCEPT !.psr = x2]
            ELSE IF i.code = 11 THEN [u EXCEPT !.spsr[m] = q] ELSE CpsrSet(u, q)
      BY DEF MoveToPsr
    <3> HIDE DEF q, m, x1, x2
    <3>3. /\ Spares(t, [u EXCEPT !.spsr[m] = x1], A) /\ Spares(t, [u EXCEPT !.psr = x2], A)
          /\ Spares(t, [u EXCEPT !.spsr[m] = q], A) /\ Spares(t, CpsrSet(u, q), A)
      BY <1>3, SparesStatus, SparesThen
    <3> HIDE DEF w
    <3> QED
      BY <3>1, <3>2, <3>3
  <2>2. CASE i.code \in {8, 10} /\ ~i.s
    <3>1. w = MoveFromPsr(u, i)
      BY <2>2 DEF Settled, IsCompare
    <3> QED
      BY <1>3, <3>1, SparesThen DEF MoveFromPsr
  <2>3. CASE i.code \in IsCompare /\ i.s
    <3>1. w = f
      BY <2>3 DEF Settled, IsCompare
    <3> QED
      BY <1>4, <3>1
  <2>4. CASE i.code \notin IsCompare /\ i.rd # 15
    <3>1. w = SetReg(f, i.rd, y)
      BY <2>4 DEF Settled, IsCompare
    <3> QED
      BY <1>4, <3>1, SparesThen
  <2>5. CASE i.code \notin IsCompare /\ i.rd = 15
    <3> DEFINE g == SetReg(f, 15, y)
               z == IF i.s THEN Restore(g) ELSE g
    <3>1. w = Spend(z, 5)
      BY <2>5 DEF Settled, IsCompare
    <3>2. Spares(t, g, A)
      BY <1>4, SparesThen
    <3> HIDE DEF g
    <3>3. Spares(t, z, A)
      BY <3>2, SparesThen
    <3> HIDE DEF z
    <3> QED
      BY <3>1, <3>3, SparesThen
  <2> HIDE DEF w
  <2> QED
    BY <1>5, <2>1, <2>2, <2>3, <2>4, <2>5 DEF IsCompare
<1> HIDE DEF w
<1> QED
  BY <1>1, <1>6, SparesThen

(* The words that an instruction may store to.                             *)
Changed(m, n) == {x \in DOMAIN m \union DOMAIN n : Cell(m, x) # Cell(n, x)}
Stores(t, i) ==
  CASE i.op = "swap" -> {Align(Reg(t, i.rn, 4))}
    [] i.op = "transfer" /\ ~i.load -> {Align(Address(t, i))}
    [] i.op = "block" /\ ~i.load -> {Align(WordOf(i, Reg(t, i.rn, 8), n)) : n \in i.list}
    [] i.op = "swi" /\ Done(i) -> Changed(t.ram, HleStore(t.ram, i.number, t.user))
    [] OTHER -> {}

LEMMA SparesSwi ==
  ASSUME NEW t, DOMAIN t = Fields, NEW i, i.op = "swi", NEW A, Stores(t, i) \subseteq A
  PROVE  Spares(t, Swi(t, i), A)
<1>1. CASE Done(i)
  <2> DEFINE a == HleAnswer(t.ram, i.number, t.user)
             u == SetReg(t, 0, a)
             m == HleStore(t.ram, i.number, t.user)
             z == [u EXCEPT !.ram = m]
  <2>1. Swi(t, i) = Spend(z, 5)
    BY <1>1 DEF Swi, Done
  <2>2. Changed(t.ram, m) \subseteq A
    BY <1>1 DEF Stores
  <2> HIDE DEF a, m
  <2>3. DOMAIN u = Fields
    BY DEF SetReg, Fields
  <2> HIDE DEF u
  <2>4. DOMAIN z = Fields /\ z.ram = m
    BY <2>3 DEF Fields
  <2> HIDE DEF z
  <2>5. \A x : x \notin Changed(t.ram, m) => Cell(m, x) = Cell(t.ram, x)
    BY DEF Changed, Cell
  <2>6. Spares(t, z, A)
    BY <2>2, <2>4, <2>5 DEF Spares
  <2> QED
    BY <2>1, <2>6, SparesThen
<1>2. CASE ~Done(i)
  <2> DEFINE u == Trap(t, "svc", t.user[15], 8)
  <2>1. Swi(t, i) = Spend(u, 5)
    BY <1>2 DEF Swi, Done
  <2>2. Spares(t, u, A)
    BY SparesTrap
  <2> HIDE DEF u
  <2> QED
    BY <2>1, <2>2, SparesThen
<1> QED
  BY <1>1, <1>2

LEMMA SparesPerform ==
  ASSUME NEW t, DOMAIN t = Fields, NEW i \in Instructions, NEW v
  PROVE  Spares(t, Perform(t, i, v), Stores(t, i))
<1> DEFINE A == Stores(t, i)
<1>a. A = Stores(t, i)
  OBVIOUS
<1>1. CASE i \in AluInsns
  <2>1. Perform(t, i, v) = Alu(t, i)
    BY <1>1 DEF Perform, AluInsns
  <2> QED
    BY <1>1, <2>1, SparesAlu
<1>2. CASE i \in MulInsns
  <2>1. Perform(t, i, v) = Multiply(t, i)
    BY <1>2 DEF Perform, MulInsns
  <2> QED
    BY <1>2, <2>1, SparesMultiply
<1>3. CASE i \in SwapInsns
  <2>1. Perform(t, i, v) = Swap(t, i, v) /\ i.op = "swap"
    BY <1>3 DEF Perform, SwapInsns
  <2>2. Align(Reg(t, i.rn, 4)) \in A
    BY <2>1 DEF Stores
  <2> HIDE DEF A
  <2> QED
    BY <1>3, <1>a, <2>1, <2>2, SparesSwap
<1>4. CASE i \in TransferInsns
  <2>1. Perform(t, i, v) = Transfer(t, i, v) /\ i.op = "transfer"
    BY <1>4 DEF Perform, TransferInsns
  <2>2. ~i.load => Align(Address(t, i)) \in A
    BY <2>1 DEF Stores
  <2> HIDE DEF A
  <2> QED
    BY <1>4, <1>a, <2>1, <2>2, SparesTransfer
<1>5. CASE i \in BlockInsns
  <2>1. i.op = "block" /\ i.load \in BOOLEAN
    BY <1>5 DEF BlockInsns
  <2>2. Perform(t, i, v) = IF i.load THEN LoadBlock(t, i, v) ELSE StoreBlock(t, i)
    BY <2>1 DEF Perform
  <2>3. ~i.load => \A n \in i.list : Align(WordOf(i, Reg(t, i.rn, 8), n)) \in A
    BY <2>1 DEF Stores
  <2> HIDE DEF A
  <2>4. ~i.load => Spares(t, StoreBlock(t, i), A)
    BY <2>3, SparesStoreBlock
  <2> QED
    BY <1>a, <2>1, <2>2, <2>4, SparesLoadBlock
<1>6. CASE i.op = "branch"
  <2>1. Perform(t, i, v) = Branch(t, i)
    BY <1>6 DEF Perform
  <2> QED
    BY <2>1, SparesBranch
<1>7. CASE i.op = "swi"
  <2>1. Perform(t, i, v) = Swi(t, i)
    BY <1>7 DEF Perform
  <2> QED
    BY <1>7, <2>1, SparesSwi
<1>8. CASE i.op \in {"undefined", "coprocessor"}
  <2> DEFINE u == Trap(t, "und", t.user[15], 4)
  <2>1. Perform(t, i, v) = Spend(u, 5)
    BY <1>8 DEF Perform, Undefined
  <2>2. Spares(t, u, A)
    BY SparesTrap
  <2> HIDE DEF u, A
  <2> QED
    BY <1>a, <2>1, <2>2, SparesThen
<1> QED
  <2>1. i \in OtherInsns => i.op \in {"branch", "swi", "undefined", "coprocessor"}
    BY DEF OtherInsns
  <2>2. \/ i \in AluInsns \/ i \in MulInsns \/ i \in SwapInsns \/ i \in TransferInsns
        \/ i \in BlockInsns \/ i \in OtherInsns
    BY Zenon DEF Instructions
  <2>3. i \in OtherInsns =>
          i.op = "branch" \/ i.op = "swi" \/ i.op \in {"undefined", "coprocessor"}
    BY <2>1
  <2> HIDE DEF A
  <2> QED
    BY <1>1, <1>2, <1>3, <1>4, <1>5, <1>6, <1>7, <1>8, <2>2, <2>3 DEF A
-----------------------------------------------------------------------------
(* Stacks.  How many registers of a list come before one, which is where   *)
(* a block transfer puts it.                                               *)
Before(L, n) == Cardinality({x \in L : x < n})

LEMMA BeforeSteps ==
  ASSUME NEW L \in SUBSET Regs
  PROVE  /\ Before(L, 0) = 0 /\ Before(L, 16) = Cardinality(L)
         /\ \A n \in 0 .. 16 : Before(L, n) \in Nat /\ Before(L, n) <= Cardinality(L)
         /\ \A n \in Regs : Before(L, n + 1) = Before(L, n) + (IF n \in L THEN 1 ELSE 0)
<1>1. IsFiniteSet(L)
  <2> DEFINE a == 0
             b == 15
  <2>1. IsFiniteSet(a .. b)
    <3>1. a \in Int /\ b \in Int
      OBVIOUS
    <3> HIDE DEF a, b
    <3> QED
      BY <3>1, FS_Interval
  <2>2. L \subseteq a .. b
    BY DEF Regs
  <2> HIDE DEF a, b
  <2> QED
    BY <2>1, <2>2, FS_Subset
<1>a. \A x \in L : x \in Nat /\ x < 16 /\ ~(x < 0)
  BY DEF Regs
<1>2. Before(L, 0) = 0
  <2>1. {x \in L : x < 0} = {}
    BY <1>a
  <2> QED
    BY <2>1, FS_EmptySet DEF Before
<1>3. Before(L, 16) = Cardinality(L)
  <2>1. {x \in L : x < 16} = L
    BY <1>a
  <2> QED
    BY <2>1 DEF Before
<1>4. ASSUME NEW n \in 0 .. 16 PROVE Before(L, n) \in Nat /\ Before(L, n) <= Cardinality(L)
  <2> DEFINE S == {x \in L : x < n}
  <2>1. S \subseteq L
    OBVIOUS
  <2> HIDE DEF S
  <2>2. Cardinality(S) \in Nat /\ Cardinality(S) <= Cardinality(L)
    BY <1>1, <2>1, FS_Subset, FS_CardinalityType
  <2> QED
    BY <2>2 DEF Before, S
<1>5. ASSUME NEW n \in Regs PROVE Before(L, n + 1) = Before(L, n) + (IF n \in L THEN 1 ELSE 0)
  <2> DEFINE S == {x \in L : x < n}
             T == {x \in L : x < n + 1}
  <2>1. S \subseteq L /\ n \notin S
    BY <1>a
  <2>a. n \in Nat /\ \A x \in Nat : x < n + 1 <=> x < n \/ x = n
    BY DEF Regs
  <2>2. T = IF n \in L THEN S \union {n} ELSE S
    <3>1. ASSUME NEW x PROVE x \in T <=> x \in L /\ (x < n \/ x = n)
      BY <1>a, <2>a
    <3>2. ASSUME NEW x PROVE x \in S <=> x \in L /\ x < n
      OBVIOUS
    <3> HIDE DEF S, T
    <3> QED
      BY <3>1, <3>2
  <2> HIDE DEF S, T
  <2>3. IsFiniteSet(S)
    BY <1>1, <2>1, FS_Subset
  <2>4. Cardinality(S) \in Nat /\ Cardinality(S \union {n}) = Cardinality(S) + 1
    BY <2>1, <2>3, FS_AddElement, FS_CardinalityType
  <2>5. Cardinality(T) = Cardinality(S) + (IF n \in L THEN 1 ELSE 0)
    BY <2>2, <2>4
  <2> QED
    BY <2>5 DEF Before, S, T
<1> QED
  BY <1>2, <1>3, <1>4, <1>5

LEMMA BeforeLess ==
  ASSUME NEW L \in SUBSET Regs, NEW n \in L, NEW k \in 0 .. 16, n < k
  PROVE  Before(L, n) < Before(L, k) /\ Before(L, n) < Cardinality(L)
<1>1. n \in Regs /\ n \in 0 .. 16 /\ n + 1 \in 0 .. 16
  BY DEF Regs
<1> DEFINE Wrong == {j \in Nat : n < j /\ j <= k /\ ~(Before(L, n) < Before(L, j))}
<1>2. Wrong = {}
  <2>1. SUFFICES ASSUME Wrong # {} PROVE FALSE
    OBVIOUS
  <2>2. PICK m \in Wrong : \A j \in Wrong : m <= j
    BY <2>1, Least
  <2>3. m - 1 \in Regs /\ m - 1 \in 0 .. 16 /\ m \in 0 .. 16
    BY <1>1, <2>2 DEF Regs
  <2>4. Before(L, (m - 1) + 1) = Before(L, m - 1) + (IF m - 1 \in L THEN 1 ELSE 0)
    BY <2>3, BeforeSteps
  <2>5. (m - 1) + 1 = m
    BY <2>2
  <2>6. Before(L, n) \in Nat /\ Before(L, m - 1) \in Nat /\ Before(L, m) \in Nat
    BY <1>1, <2>3, BeforeSteps
  <2>7. CASE m - 1 = n
    BY <2>2, <2>4, <2>5, <2>6, <2>7
  <2>8. CASE m - 1 # n
    <3>1. m - 1 \in Nat /\ n < m - 1 /\ m - 1 <= k /\ m - 1 \notin Wrong
      BY <1>1, <2>2, <2>3, <2>8
    <3>2. Before(L, n) < Before(L, m - 1)
      BY <3>1
    <3> QED
      BY <2>2, <2>4, <2>5, <2>6, <3>2
  <2> QED
    BY <2>7, <2>8
<1>3. Before(L, n) < Before(L, k)
  BY <1>2
<1>4. Before(L, k) <= Cardinality(L) /\ Before(L, n) \in Nat /\ Before(L, k) \in Nat
  BY <1>1, BeforeSteps
<1>5. Cardinality(L) \in Nat
  BY ListSize
<1> QED
  BY <1>3, <1>4, <1>5

LEMMA BeforeOnto ==
  ASSUME NEW L \in SUBSET Regs, NEW k \in Nat, k < Cardinality(L)
  PROVE  \E n \in L : Before(L, n) = k
<1> DEFINE More == {n \in Nat : n <= 16 /\ Before(L, n) > k}
<1>1. 16 \in More
  BY BeforeSteps
<1>2. PICK m \in More : \A n \in More : m <= n
  BY <1>1, Least
<1>3. m # 0
  BY <1>2, BeforeSteps
<1>4. m - 1 \in Regs /\ m - 1 \in 0 .. 16 /\ m \in 0 .. 16 /\ m - 1 \notin More /\ (m - 1) + 1 = m
  BY <1>2, <1>3 DEF Regs
<1>5. Before(L, (m - 1) + 1) = Before(L, m - 1) + (IF m - 1 \in L THEN 1 ELSE 0)
  BY <1>4, BeforeSteps
<1>6. Before(L, m - 1) \in Nat /\ Before(L, m) \in Nat
  BY <1>4, BeforeSteps
<1>7. Before(L, m - 1) <= k /\ Before(L, m) > k
  BY <1>2, <1>4, <1>6
<1> QED
  BY <1>4, <1>5, <1>6, <1>7

LEMMA BeforeOnly ==
  ASSUME NEW L \in SUBSET Regs, NEW n \in L, NEW k \in L, Before(L, n) = Before(L, k) PROVE n = k
<1>1. n \in 0 .. 16 /\ k \in 0 .. 16
  BY DEF Regs
<1>2. Before(L, n) \in Nat
  BY <1>1, BeforeSteps
<1>3. ~(n < k) /\ ~(k < n)
  BY <1>1, <1>2, BeforeLess
<1> QED
  BY <1>1, <1>3

(* A word of the memory, at an address that is one.                        *)
LEMMA StackPlace ==
  ASSUME NEW a \in Int, a >= 0, a < 3 * Megabyte, a % 4 = 0
  PROVE  /\ Wrap(a) = a /\ Align(a) = a /\ \A w : Device(a, w) = "ram"
         /\ \A t, v : WriteWord(t, a, v) = [t EXCEPT !.ram = Put(t.ram, a, v)]
         /\ \A t, v : ReadWord(t, a, v) = Answer(t, Cell(t.ram, a))
<1>1. Align(a) = a
  BY DEF Align
<1>2. a \in Data
  BY SmallData DEF Megabyte
<1>3. Wrap(a) = a
  BY <1>2, WrapSame
<1>4. ASSUME NEW w PROVE Device(a, w) = "ram"
  <2> DEFINE ram == a < 3 * Megabyte
             madam == Within(a, \h3300000, IF w THEN \h800 ELSE Megabyte)
             clio == Within(a, \h3400000, IF w THEN \h10000 ELSE Megabyte)
             sport == Within(a, \h3200000, Megabyte)
             other == Within(a, \h3100000, Megabyte)
             which == IF Bit(a, 19) = 1 THEN "diag"
                      ELSE IF Bit(a, 18) = 1 THEN "nvram" ELSE "brooktree"
             rom == ~w /\ (Within(a, \h3000000, Megabyte) \/ Within(a, \h6000000, Megabyte))
  <2>1. Device(a, w) =
          CASE ram -> "ram" [] madam -> "madam" [] clio -> "clio" [] sport -> "sport"
            [] other -> which [] rom -> "rom" [] OTHER -> "none"
    BY DEF Device
  <2>2. ram
    OBVIOUS
  <2>3. ASSUME NEW b \in Nat, b >= 3 * Megabyte, NEW size PROVE ~Within(a, b, size)
    BY <2>3 DEF Within, Megabyte
  <2>4. \A b \in Nat : b >= 3145728 => \A size : ~Within(a, b, size)
    BY <2>3 DEF Megabyte
  <2>5. ~madam /\ ~clio /\ ~sport /\ ~other /\ ~rom
    BY <2>4
  <2> HIDE DEF ram, madam, clio, sport, other, which, rom
  <2> QED
    BY <2>1, <2>2, <2>5, SMT
<1>5. ASSUME NEW t, NEW v PROVE WriteWord(t, a, v) = [t EXCEPT !.ram = Put(t.ram, a, v)]
  <2> DEFINE d == Device(a, TRUE)
             seen == Access(t, d, "write", a)
             skip == d = "clio" /\ a = \h3400028 /\ v = \h30
             ram == Put(t.ram, a, v)
             nvram == Put(t.nvram, NvramIndex(a), v % Bytes)
             next == Wrap(seen.user[15] + 4)
  <2>1. WriteWord(t, a, v) =
          CASE d = "ram" -> [t EXCEPT !.ram = ram]
            [] skip -> [seen EXCEPT !.user[15] = next]
            [] d = "nvram" -> [t EXCEPT !.nvram = nvram]
            [] d \in {"brooktree", "none"} -> t
            [] OTHER -> seen
    BY <1>1 DEF WriteWord
  <2> HIDE DEF d, seen, skip, ram, nvram, next
  <2>2. d = "ram"
    BY <1>4 DEF d
  <2>a. ~skip
    BY <2>2 DEF skip
  <2>3. WriteWord(t, a, v) = [t EXCEPT !.ram = ram]
    BY <2>1, <2>2, <2>a
  <2> QED
    BY <2>3 DEF ram
<1>6. ASSUME NEW t, NEW v PROVE ReadWord(t, a, v) = Answer(t, Cell(t.ram, a))
  <2> DEFINE d == Device(a, FALSE)
             seen == Access(t, d, "read", a)
             near == Within(a, \h3200000, \h2000)
             ram == Cell(t.ram, a)
             nvram == Cell(t.nvram, NvramIndex(a))
             rom == Cell(Rom, a % Megabyte)
  <2>1. ReadWord(t, a, v) =
          CASE d = "ram" -> Answer(t, ram)
            [] d \in {"madam", "clio", "diag"} -> Answer(seen, v)
            [] d = "sport" -> IF near THEN Answer(seen, 0) ELSE Answer(t, Bad)
            [] d = "nvram" -> Answer(t, nvram)
            [] d = "brooktree" -> Answer(t, Brooktree)
            [] d = "rom" -> Answer(t, rom)
            [] d = "none" -> Answer(t, Bad)
    BY <1>1 DEF ReadWord
  <2>2. d = "ram"
    BY <1>4
  <2> HIDE DEF d, seen, near, ram, nvram, rom
  <2>3. ReadWord(t, a, v) = Answer(t, ram)
    BY <2>1, <2>2
  <2> QED
    BY <2>3 DEF ram
<1> QED
  BY <1>1, <1>3, <1>4, <1>5, <1>6

(* A push: the slots below the stack pointer take the registers, in order. *)
Slot(t, i, n) == t.user[13] - Span(i) + 4 * Before(i.list, n)
Room(t, i) ==
  t.user[13] % 4 = 0 /\ Span(i) <= t.user[13] /\ t.user[13] <= 3 * Megabyte
Filled(t, u, i) ==
  /\ u.user[13] = t.user[13] - Span(i)
  /\ \A n \in i.list : Cell(u.ram, Slot(t, i, n)) =
                         IF n = 15 THEN Wrap(t.user[15] + 8) ELSE t.user[n]

LEMMA Multiples ==
  ASSUME NEW a \in Int, a % 4 = 0, NEW k \in Int PROVE (a + 4 * k) % 4 = 0
OBVIOUS

LEMMA Slots ==
  ASSUME NEW t, t.user[13] \in Data, NEW i \in BlockInsns, IsPush(i), Room(t, i), NEW n \in i.list
  PROVE  /\ Slot(t, i, n) \in Int /\ Slot(t, i, n) >= 0 /\ Slot(t, i, n) < t.user[13]
         /\ Slot(t, i, n) >= t.user[13] - Span(i)
         /\ Slot(t, i, n) < 3 * Megabyte /\ Slot(t, i, n) % 4 = 0
         /\ WordOf(i, t.user[13], n) = Slot(t, i, n)
         /\ Reg(t, i.rn, 8) = t.user[13] /\ Beyond(i, t.user[13]) = t.user[13] - Span(i)
<1> DEFINE sp == t.user[13]
           b == Before(i.list, n)
           c == Cardinality(i.list)
<1>1. i.list \in SUBSET Regs /\ n \in Regs /\ i.op = "block" /\ i.pre /\ ~i.up /\ i.rn = 13
  BY DEF BlockInsns, IsPush
<1>2. c \in Nat
  BY <1>1, ListSize
<1>3. b \in Nat /\ b < c
  <2>1. n \in 0 .. 16 /\ 16 \in 0 .. 16 /\ n < 16
    BY <1>1 DEF Regs
  <2> QED
    BY <1>1, <2>1, BeforeSteps, BeforeLess
<1>4. sp \in Nat /\ sp < 2 * H
  BY DataIs
<1>5. sp % 4 = 0 /\ 4 * c <= sp /\ sp <= 3 * Megabyte
  BY DEF Room, Span
<1>6. Span(i) = 4 * c
  BY DEF Span
<1>7. Slot(t, i, n) = sp + 4 * (b - c)
  BY <1>2, <1>3, <1>4, <1>6 DEF Slot
<1>8. WordOf(i, sp, n) = Wrap(Slot(t, i, n))
  <2>1. Lowest(i, sp) = sp - Span(i)
    BY <1>1 DEF Lowest
  <2> QED
    BY <2>1 DEF WordOf, Slot, Before
<1>9. Reg(t, i.rn, 8) = sp
  <2>1. Reg(t, i.rn, 8) = Wrap(sp + 0)
    BY <1>1 DEF Reg
  <2> QED
    BY <1>4, <2>1, WrapSame
<1>10. Beyond(i, sp) = sp - Span(i)
  <2>1. Beyond(i, sp) = Wrap(sp - Span(i))
    BY <1>1 DEF Beyond
  <2>2. sp - Span(i) \in Data
    BY <1>2, <1>4, <1>5, <1>6, DataIs, Sizes
  <2> QED
    BY <2>1, <2>2, WrapSame
<1> HIDE DEF sp, b, c
<1>11. /\ Slot(t, i, n) \in Int /\ Slot(t, i, n) >= 0 /\ Slot(t, i, n) < sp
       /\ Slot(t, i, n) < 3 * Megabyte /\ Slot(t, i, n) >= sp - Span(i)
  BY <1>2, <1>3, <1>4, <1>5, <1>6, <1>7 DEF Megabyte
<1>12. Slot(t, i, n) % 4 = 0
  <2>1. b - c \in Int /\ sp \in Int
    BY <1>2, <1>3, <1>4
  <2> QED
    BY <1>5, <1>7, <2>1, Multiples
<1>13. WordOf(i, sp, n) = Slot(t, i, n)
  BY <1>8, <1>11, <1>12, StackPlace
<1> QED
  BY <1>9, <1>10, <1>11, <1>12, <1>13 DEF sp

LEMMA PutCell ==
  ASSUME NEW m, NEW a, NEW v
  PROVE  Cell(Put(m, a, v), a) = v /\ \A x : x # a => Cell(Put(m, a, v), x) = Cell(m, x)
BY DEF Cell, Put

(* One register stored ...                                                 *)
Placed(t, i, n, u, w) ==
  /\ DOMAIN w = Fields /\ w.user = u.user
  /\ Cell(w.ram, Slot(t, i, n)) = IF n = 15 THEN Wrap(u.user[15] + 8) ELSE u.user[n]
  /\ \A x : x # Slot(t, i, n) => Cell(w.ram, x) = Cell(u.ram, x)

LEMMA StoreSlot ==
  ASSUME NEW t, t.user[13] \in Data, NEW i \in BlockInsns, IsPush(i), Room(t, i), NEW n \in i.list,
         NEW u, DOMAIN u = Fields
  PROVE  Placed(t, i, n, u, StoreOf(i, u, t.user[13], n))
<1> DEFINE a == Slot(t, i, n)
           x == IF n = 15 THEN Wrap(u.user[15] + 8) ELSE u.user[n]
           m == Put(u.ram, a, x)
           w == StoreOf(i, u, t.user[13], n)
<1>1. i.user = FALSE
  BY DEF BlockInsns, IsPush
<1>2. w = WriteWord(u, a, x)
  BY <1>1, Slots DEF StoreOf
<1>3. w = [u EXCEPT !.ram = m]
  <2>1. a \in Int /\ a >= 0 /\ a < 3 * Megabyte /\ a % 4 = 0
    BY Slots
  <2> HIDE DEF a, x, w
  <2> QED
    BY <1>2, <2>1, StackPlace
<1>4. Cell(m, a) = x /\ \A y : y # a => Cell(m, y) = Cell(u.ram, y)
  BY PutCell
<1> HIDE DEF m, w
<1>5. DOMAIN w = Fields /\ w.user = u.user /\ w.ram = m
  BY <1>3 DEF Fields
<1> QED
  BY <1>4, <1>5 DEF w, Placed

(* ... and all of them.                                                    *)
FilledTo(t, u, i, k) ==
  /\ DOMAIN u = Fields /\ DOMAIN u.user = Regs /\ \A n \in Regs \ {13} : u.user[n] = t.user[n]
  /\ \A n \in i.list : n < k => Cell(u.ram, Slot(t, i, n)) = t.user[n]

LEMMA StoreRunFills ==
  ASSUME NEW t, t.user[13] \in Data, NEW i \in BlockInsns, IsPush(i), Room(t, i),
         NEW x, FilledTo(t, x, i, 0), NEW f, StoreRun(f, 15, i, x, t.user[13])
  PROVE  FilledTo(t, f[15], i, 15)
<1> DEFINE Wrong == {k \in Nat : k <= 15 /\ ~FilledTo(t, f[k], i, k)}
<1>1. SUFFICES ASSUME Wrong # {} PROVE FALSE
  OBVIOUS
<1>2. PICK k \in Wrong : \A n \in Wrong : k <= n
  BY <1>1, Least
<1>3. f[k] = IF k = 0 THEN x ELSE StoreOf(i, f[k - 1], t.user[13], k - 1)
  <2>1. k \in 0 .. 15
    BY <1>2
  <2> QED
    BY <2>1 DEF StoreRun
<1>4. k # 0
  BY <1>2, <1>3
<1>5. k - 1 \in Nat /\ k - 1 <= 14 /\ k - 1 \notin Wrong
  BY <1>2, <1>4
<1> DEFINE u == f[k - 1] j == k - 1
<1>6. FilledTo(t, u, i, j) /\ j \in Nat /\ j <= 14 /\ k = j + 1
  BY <1>2, <1>5
<1>7. f[k] = StoreOf(i, u, t.user[13], j)
  BY <1>3, <1>4
<1>8. \A n \in i.list : n \in Regs
  BY DEF BlockInsns
<1> HIDE DEF u, j
<1>9. CASE j \notin i.list
  <2>1. f[k] = u
    BY <1>7, <1>9 DEF StoreOf
  <2>2. \A n \in i.list : n < k => n < j
    BY <1>6, <1>8, <1>9 DEF Regs
  <2>3. FilledTo(t, f[k], i, k)
    BY <1>6, <2>1, <2>2 DEF FilledTo
  <2> QED
    BY <1>2, <2>3
<1>10. CASE j \in i.list
  <2> DEFINE w == StoreOf(i, u, t.user[13], j)
  <2>1. DOMAIN u = Fields
    BY <1>6 DEF FilledTo
  <2>2. /\ DOMAIN w = Fields /\ w.user = u.user
        /\ Cell(w.ram, Slot(t, i, j)) = IF j = 15 THEN Wrap(u.user[15] + 8) ELSE u.user[j]
        /\ \A y : y # Slot(t, i, j) => Cell(w.ram, y) = Cell(u.ram, y)
    <3>1. Placed(t, i, j, u, w)
      BY <1>10, <2>1, StoreSlot
    <3> HIDE DEF w
    <3> QED
      BY <3>1 DEF Placed
  <2> HIDE DEF w
  <2>3. j \in Regs \ {13} /\ j # 15
    BY <1>6, <1>8, <1>10 DEF IsPush
  <2>4. Cell(w.ram, Slot(t, i, j)) = t.user[j]
    BY <1>6, <2>2, <2>3 DEF FilledTo
  <2>5. ASSUME NEW n \in i.list, n # j PROVE Slot(t, i, n) # Slot(t, i, j)
    <3>1. i.list \in SUBSET Regs
      BY DEF BlockInsns
    <3>2. Before(i.list, n) \in Nat /\ Before(i.list, j) \in Nat
      <4>1. n \in 0 .. 16 /\ j \in 0 .. 16
        BY <1>8, <2>3, <2>5 DEF Regs
      <4> QED
        BY <3>1, <4>1, BeforeSteps
    <3>3. Before(i.list, n) # Before(i.list, j)
      BY <1>10, <2>5, <3>1, BeforeOnly
    <3>4. t.user[13] - Span(i) \in Int
      <4>1. Cardinality(i.list) \in Nat
        BY <3>1, ListSize
      <4> QED
        BY <4>1, DataIs DEF Span
    <3> QED
      BY <3>2, <3>3, <3>4 DEF Slot
  <2>6. ASSUME NEW n \in i.list, n < k PROVE Cell(w.ram, Slot(t, i, n)) = t.user[n]
    <3>1. CASE n = j
      BY <2>4, <3>1
    <3>2. CASE n # j
      <4>1. n < j
        BY <1>6, <1>8, <2>6, <3>2 DEF Regs
      <4>2. Cell(u.ram, Slot(t, i, n)) = t.user[n]
        BY <1>6, <4>1 DEF FilledTo
      <4> QED
        BY <2>2, <2>5, <3>2, <4>2
    <3> QED
      BY <3>1, <3>2
  <2>7. FilledTo(t, w, i, k)
    BY <1>6, <2>2, <2>6 DEF FilledTo
  <2> QED
    BY <1>2, <1>7, <2>7 DEF w
<1> QED
  BY <1>9, <1>10

LEMMA PushFills ==
  ASSUME NEW t, DOMAIN t = Fields, DOMAIN t.user = Regs, t.user[13] \in Data,
         NEW i \in BlockInsns, IsPush(i), Room(t, i)
  PROVE  Filled(t, StoreBlock(t, i), i)
<1> DEFINE base == Reg(t, i.rn, 8)
           back == Beyond(i, base)
           x == IF \E n \in i.list : n < i.rn THEN NewBase(i, t, back) ELSE t
           f == CHOOSE f : StoreRun(f, 15, i, x, base)
           n == Cardinality(i.list) + 6
           u == NewBase(i, f[15], back)
           w == StoreOf(i, u, base, 15)
<1>1. StoreBlock(t, i) = Spend(w, n)
  BY DEF StoreBlock, StoreRun
<1>2. StoreRun(f, 15, i, x, base)
  BY StoreRunExists
<1>3. i.rn = 13 /\ i.wb /\ i.user = FALSE /\ 13 \notin i.list /\ i.list \in SUBSET Regs
  BY DEF IsPush, BlockInsns
<1>4. base = t.user[13] /\ back = t.user[13] - Span(i)
  <2>1. Reg(t, 13, 8) = Wrap(t.user[13] + 0)
    BY DEF Reg
  <2>2. base = t.user[13]
    BY <1>3, <2>1, DataIs, WrapSame
  <2>3. back = Wrap(t.user[13] - Span(i))
    BY <1>3, <2>2 DEF Beyond, IsPush
  <2>4. t.user[13] - Span(i) \in Data
    <3>1. Cardinality(i.list) \in Nat
      BY <1>3, ListSize
    <3> QED
      BY <3>1, DataIs, Sizes DEF Room, Span
  <2> QED
    BY <2>2, <2>3, <2>4, WrapSame
<1> HIDE DEF f, n, base, back
<1>5. \A y, z : NewBase(i, y, z) = SetReg(y, 13, z)
  BY <1>3 DEF NewBase
<1>6. FilledTo(t, x, i, 0)
  <2>1. ~ \E k \in i.list : k < 0
    BY <1>3 DEF Regs
  <2>2. DOMAIN x = Fields /\ DOMAIN x.user = Regs /\ \A k \in Regs \ {13} : x.user[k] = t.user[k]
    BY <1>5 DEF SetReg, Fields
  <2> HIDE DEF x
  <2> QED
    BY <2>1, <2>2 DEF FilledTo
<1> HIDE DEF x
<1>7. FilledTo(t, f[15], i, 15)
  BY <1>2, <1>4, <1>6, StoreRunFills
<1> DEFINE y == f[15]
<1>8. u = SetReg(y, 13, back)
  BY <1>5
<1>a. FilledTo(t, y, i, 15)
  BY <1>7
<1> HIDE DEF u, y
<1>9. /\ DOMAIN u = Fields /\ u.ram = y.ram /\ u.user[13] = back /\ 13 \in Regs
      /\ u.user[15] = t.user[15]
  BY <1>8, <1>a DEF SetReg, Fields, FilledTo, Regs
<1>10. \A k \in i.list : k < 15 => Cell(u.ram, Slot(t, i, k)) = t.user[k]
  BY <1>9, <1>a DEF FilledTo
<1>11. Filled(t, w, i) /\ DOMAIN w = Fields
  <2>1. CASE 15 \notin i.list
    <3>1. w = u
      BY <2>1 DEF StoreOf
    <3>2. \A k \in i.list : k < 15
      BY <1>3, <2>1 DEF Regs
    <3> HIDE DEF w
    <3> QED
      BY <1>4, <1>9, <1>10, <3>1, <3>2 DEF Filled
  <2>2. CASE 15 \in i.list
    <3>1. /\ DOMAIN w = Fields /\ w.user = u.user
          /\ Cell(w.ram, Slot(t, i, 15)) = Wrap(u.user[15] + 8)
          /\ \A z : z # Slot(t, i, 15) => Cell(w.ram, z) = Cell(u.ram, z)
      <4>1. w = StoreOf(i, u, t.user[13], 15)
        BY <1>4
      <4>2. Placed(t, i, 15, u, StoreOf(i, u, t.user[13], 15))
        BY <1>9, <2>2, StoreSlot
      <4> HIDE DEF w
      <4> QED
        BY <4>1, <4>2 DEF Placed
    <3> HIDE DEF w
    <3>2. ASSUME NEW k \in i.list, k # 15 PROVE Cell(w.ram, Slot(t, i, k)) = t.user[k]
      <4>1. k < 15
        BY <1>3, <3>2 DEF Regs
      <4>2. Slot(t, i, k) # Slot(t, i, 15)
        <5>1. Before(i.list, k) # Before(i.list, 15)
          BY <1>3, <2>2, <3>2, BeforeOnly
        <5>2. Before(i.list, k) \in Nat /\ Before(i.list, 15) \in Nat
          <6>1. k \in 0 .. 16 /\ 15 \in 0 .. 16
            BY <1>3, <3>2 DEF Regs
          <6> QED
            BY <1>3, <6>1, BeforeSteps
        <5>3. t.user[13] - Span(i) \in Int
          <6>1. Cardinality(i.list) \in Nat
            BY <1>3, ListSize
          <6> QED
            BY <6>1, DataIs DEF Span
        <5> QED
          BY <5>1, <5>2, <5>3 DEF Slot
      <4> QED
        BY <1>10, <3>1, <4>1, <4>2
    <3> QED
      BY <1>4, <1>9, <3>1, <3>2 DEF Filled
  <2> QED
    BY <2>1, <2>2
<1> HIDE DEF w
<1>12. Spend(w, n).user = w.user /\ Spend(w, n).ram = w.ram
  BY <1>11 DEF Spend, Fields
<1> QED
  BY <1>1, <1>11, <1>12 DEF Filled

(* A pop: the registers take the words above the stack pointer, as far as  *)
(* those are in the memory.                                                *)
PoppedTo(t, u, i, d, k) ==
  /\ DOMAIN u = Fields /\ DOMAIN u.user = Regs /\ u.ram = t.ram
  /\ u.user[13] = Wrap(t.user[13] + Span(i))
  /\ \A n \in i.list : n < k /\ Before(i.list, n) < d =>
       u.user[n] = Cell(t.ram, t.user[13] + 4 * Before(i.list, n))
Above(t, d) == d = 0 \/ (t.user[13] % 4 = 0 /\ t.user[13] + 4 * d <= 3 * Megabyte)

Unread(t, u) == DOMAIN u = Fields /\ u.user = t.user /\ u.ram = t.ram

LEMMA ReadLeaves ==
  ASSUME NEW t, DOMAIN t = Fields, NEW a, NEW v PROVE Unread(t, ReadWord(t, a, v).s)
<1> DEFINE al == Align(a)
           d == Device(al, FALSE)
           seen == Access(t, d, "read", al)
           near == Within(al, \h3200000, \h2000)
           ram == Cell(t.ram, al)
           nvram == Cell(t.nvram, NvramIndex(al))
           rom == Cell(Rom, al % Megabyte)
<1>1. d \in {"ram", "madam", "clio", "sport", "diag", "nvram", "brooktree", "rom", "none"}
  BY SMT DEF Device
<1>2. ReadWord(t, a, v) =
        CASE d = "ram" -> Answer(t, ram)
          [] d \in {"madam", "clio", "diag"} -> Answer(seen, v)
          [] d = "sport" -> IF near THEN Answer(seen, 0) ELSE Answer(t, Bad)
          [] d = "nvram" -> Answer(t, nvram)
          [] d = "brooktree" -> Answer(t, Brooktree)
          [] d = "rom" -> Answer(t, rom)
          [] d = "none" -> Answer(t, Bad)
  BY DEF ReadWord
<1>3. Unread(t, seen) /\ Unread(t, t)
  BY DEF Access, Unread, Fields
<1> HIDE DEF d, seen, near, ram, nvram, rom
<1>4. ReadWord(t, a, v).s = t \/ ReadWord(t, a, v).s = seen
  BY <1>1, <1>2, SMT DEF Answer
<1> QED
  BY <1>3, <1>4

Reads(t, i, n, u, v) ==
  ReadWord(u, WordOf(i, t.user[13], n), v).val =
    Cell(t.ram, t.user[13] + 4 * Before(i.list, n))

LEMMA PopPlace ==
  ASSUME NEW t, t.user[13] \in Data, NEW i \in BlockInsns, IsPop(i), NEW d \in Nat, Above(t, d),
         NEW n \in i.list, Before(i.list, n) < d, NEW u, u.ram = t.ram, NEW v
  PROVE  Reads(t, i, n, u, v)
<1> DEFINE sp == t.user[13]
           b == Before(i.list, n)
           a == sp + 4 * b
<1>1. i.list \in SUBSET Regs /\ ~i.pre /\ i.up
  BY DEF BlockInsns, IsPop
<1>2. b \in Nat /\ b < d
  <2>1. n \in 0 .. 16
    BY <1>1 DEF Regs
  <2> QED
    BY <1>1, <2>1, BeforeSteps
<1>3. sp \in Nat /\ sp % 4 = 0 /\ sp + 4 * d <= 3 * Megabyte
  BY <1>2, DataIs DEF Above
<1>4. WordOf(i, sp, n) = Wrap(a)
  <2>1. Lowest(i, sp) = sp
    BY <1>1 DEF Lowest
  <2> QED
    BY <2>1 DEF WordOf, Before
<1> HIDE DEF sp, b
<1>5. a \in Int /\ a >= 0 /\ a < 3 * Megabyte
  BY <1>2, <1>3 DEF Megabyte
<1>6. a % 4 = 0
  BY <1>2, <1>3, Multiples
<1> HIDE DEF a
<1>7. Wrap(a) = a /\ ReadWord(u, a, v) = Answer(u, Cell(u.ram, a))
  BY <1>5, <1>6, StackPlace
<1>8. ReadWord(u, WordOf(i, sp, n), v).val = Cell(t.ram, a)
  BY <1>4, <1>7 DEF Answer
<1> QED
  BY <1>8 DEF Reads, sp, a, b

LEMMA LoadOfPops ==
  ASSUME NEW t, t.user[13] \in Data, NEW i \in BlockInsns, IsPop(i), NEW d \in Nat, Above(t, d),
         NEW j \in Regs, NEW u, PoppedTo(t, u, i, d, j), NEW v
  PROVE  PoppedTo(t, LoadOf(i, u, t.user[13], j, v), i, d, j + 1)
<1>1. i.list \in SUBSET Regs /\ i.user = FALSE /\ 13 \notin i.list
  BY DEF BlockInsns, IsPop
<1>2. \A n \in i.list : n < j + 1 => n = j \/ n < j
  BY <1>1 DEF Regs
<1> DEFINE w == LoadOf(i, u, t.user[13], j, v)
<1>3. CASE j \notin i.list
  <2>1. w = u
    BY <1>3 DEF LoadOf
  <2> HIDE DEF w
  <2>2. PoppedTo(t, w, i, d, j + 1)
    BY <1>2, <1>3, <2>1 DEF PoppedTo
  <2> QED
    BY <2>2 DEF w
<1>4. CASE j \in i.list
  <2> DEFINE r == ReadWord(u, WordOf(i, t.user[13], j), v)
             x == r.val
             y == r.s
  <2>1. w = SetReg(y, j, x)
    BY <1>1, <1>4 DEF LoadOf, GivenWord, Given, ForUser
  <2>2. Before(i.list, j) < d => x = Cell(t.ram, t.user[13] + 4 * Before(i.list, j))
    <3>1. u.ram = t.ram
      BY DEF PoppedTo
    <3>2. ASSUME Before(i.list, j) < d
          PROVE  Reads(t, i, j, u, v)
      BY <1>4, <3>1, <3>2, PopPlace
    <3> QED
      BY <3>2 DEF Reads
  <2>3. Unread(u, y)
    BY ReadLeaves DEF PoppedTo
  <2> HIDE DEF x, y, w
  <2>4. /\ DOMAIN w = Fields /\ w.ram = y.ram /\ DOMAIN w.user = Regs /\ w.user[j] = x
        /\ \A n \in Regs : n # j => w.user[n] = y.user[n]
    BY <2>1, <2>3 DEF SetReg, Unread, Fields, PoppedTo
  <2>5. w.user[13] = u.user[13]
    BY <1>1, <1>4, <2>3, <2>4 DEF Unread, Regs
  <2>6. ASSUME NEW n \in i.list, n < j + 1, Before(i.list, n) < d
        PROVE  w.user[n] = Cell(t.ram, t.user[13] + 4 * Before(i.list, n))
    <3>1. CASE n = j
      BY <2>2, <2>4, <2>6, <3>1
    <3>2. CASE n # j
      <4>1. n < j /\ n \in Regs
        BY <1>1, <1>2, <2>6, <3>2
      <4>2. w.user[n] = u.user[n]
        BY <2>3, <2>4, <3>2, <4>1 DEF Unread
      <4> QED
        BY <2>6, <4>1, <4>2 DEF PoppedTo
    <3> QED
      BY <3>1, <3>2
  <2>7. PoppedTo(t, w, i, d, j + 1)
    BY <2>3, <2>4, <2>5, <2>6 DEF PoppedTo, Unread
  <2> QED
    BY <2>7 DEF w
<1> QED
  BY <1>3, <1>4

LEMMA LoadRunPops ==
  ASSUME NEW t, t.user[13] \in Data, NEW i \in BlockInsns, IsPop(i), NEW d \in Nat, Above(t, d),
         NEW x, PoppedTo(t, x, i, d, 0), NEW v, NEW f, LoadRun(f, 16, i, x, t.user[13], v)
  PROVE  PoppedTo(t, f[16], i, d, 16)
<1> DEFINE Wrong == {k \in Nat : k <= 16 /\ ~PoppedTo(t, f[k], i, d, k)}
<1>1. SUFFICES ASSUME Wrong # {} PROVE FALSE
  OBVIOUS
<1>2. PICK k \in Wrong : \A n \in Wrong : k <= n
  BY <1>1, Least
<1>3. f[k] = IF k = 0 THEN x ELSE LoadOf(i, f[k - 1], t.user[13], k - 1, v)
  <2>1. k \in 0 .. 16
    BY <1>2
  <2> QED
    BY <2>1 DEF LoadRun
<1>4. k # 0
  BY <1>2, <1>3
<1>5. k - 1 \in Nat /\ k - 1 <= 15 /\ k - 1 \notin Wrong /\ (k - 1) + 1 = k
  BY <1>2, <1>4
<1>6. k - 1 \in Regs /\ PoppedTo(t, f[k - 1], i, d, k - 1)
  BY <1>5 DEF Regs
<1>7. PoppedTo(t, LoadOf(i, f[k - 1], t.user[13], k - 1, v), i, d, (k - 1) + 1)
  BY <1>6, LoadOfPops
<1>8. PoppedTo(t, f[k], i, d, k)
  BY <1>3, <1>4, <1>5, <1>7
<1> QED
  BY <1>2, <1>8

LEMMA PopGives ==
  ASSUME NEW t, DOMAIN t = Fields, DOMAIN t.user = Regs, t.user[13] \in Data,
         NEW i \in BlockInsns, IsPop(i), NEW d \in Nat, Above(t, d), NEW v
  PROVE  PoppedTo(t, LoadBlock(t, i, v), i, d, 16)
<1> DEFINE base == Reg(t, i.rn, 8)
           x == IF i.wb THEN Given(i, t, i.rn, Beyond(i, base)) ELSE t
           f == CHOOSE f : LoadRun(f, 16, i, x, base, v)
           n == Cardinality(i.list) + 4 + (IF 15 \in i.list THEN 5 ELSE 0)
<1>1. LoadBlock(t, i, v) = Spend(RestoredBy(i, f[16]), n)
  BY DEF LoadBlock, LoadRun
<1>2. LoadRun(f, 16, i, x, base, v)
  BY LoadRunExists
<1>3. i.rn = 13 /\ i.wb /\ i.user = FALSE /\ i.up /\ i.list \in SUBSET Regs
  BY DEF IsPop, BlockInsns
<1>4. base = t.user[13]
  <2>1. Reg(t, 13, 8) = Wrap(t.user[13] + 0)
    BY DEF Reg
  <2> QED
    BY <1>3, <2>1, DataIs, WrapSame
<1>5. Beyond(i, base) = Wrap(t.user[13] + Span(i))
  BY <1>3, <1>4 DEF Beyond
<1>6. RestoredBy(i, f[16]) = f[16]
  BY <1>3 DEF RestoredBy
<1> HIDE DEF f, n, base
<1>7. x = SetReg(t, 13, Wrap(t.user[13] + Span(i)))
  BY <1>3, <1>5 DEF Given, ForUser
<1> HIDE DEF x
<1>8. ~ \E k \in i.list : k < 0
  BY <1>3 DEF Regs
<1>9. 13 \in Regs
  BY DEF Regs
<1>10. /\ DOMAIN x = Fields /\ DOMAIN x.user = Regs /\ x.ram = t.ram
       /\ x.user[13] = Wrap(t.user[13] + Span(i))
  BY <1>7, <1>9 DEF SetReg, Fields
<1>11. PoppedTo(t, x, i, d, 0)
  BY <1>8, <1>10 DEF PoppedTo
<1>12. PoppedTo(t, f[16], i, d, 16)
  BY <1>2, <1>4, <1>11, LoadRunPops
<1> DEFINE y == f[16] w == Spend(y, n)
<1>13. PoppedTo(t, y, i, d, 16)
  BY <1>12
<1> HIDE DEF y
<1>14. DOMAIN w = Fields /\ w.user = y.user /\ w.ram = y.ram
  BY <1>13 DEF Spend, Fields, PoppedTo
<1>15. LoadBlock(t, i, v) = w
  BY <1>1, <1>6 DEF y
<1> HIDE DEF w
<1> QED
  BY <1>13, <1>14, <1>15 DEF PoppedTo

(* What a mode has pushed, and the words where it lies.                    *)
Held(t, m, q) ==
  /\ q # <<>> => Seen(t, m, 13) % 4 = 0 /\ Seen(t, m, 13) + 4 * Len(q) <= 3 * Megabyte
  /\ \A k \in 1 .. Len(q) : Cell(t.ram, Seen(t, m, 13) + 4 * (k - 1)) = q[k]
Area(t, m, q) == {Seen(t, m, 13) + 4 * (k - 1) : k \in 1 .. Len(q)}

LEMMA OwnView ==
  ASSUME NEW t, t.psr.mode \in ModeNumbers, NEW n PROVE Seen(t, Mode(t), n) = t.user[n]
<1>1. Mode(t) \in Modes
  BY ModeIn DEF Mode
<1> QED
  BY <1>1 DEF Seen, View, Own

LEMMA HeldSame ==
  ASSUME NEW t, NEW u, NEW m, NEW q, Held(t, m, q), Seen(u, m, 13) = Seen(t, m, 13),
         NEW A, Spares(t, u, A), A \intersect Area(t, m, q) = {}
  PROVE  Held(u, m, q)
<1>1. ASSUME NEW k \in 1 .. Len(q)
      PROVE  Cell(u.ram, Seen(t, m, 13) + 4 * (k - 1)) = Cell(t.ram, Seen(t, m, 13) + 4 * (k - 1))
  <2>1. Seen(t, m, 13) + 4 * (k - 1) \notin A
    BY <1>1 DEF Area
  <2> QED
    BY <2>1 DEF Spares
<1> QED
  BY <1>1 DEF Held

LEMMA HeldNothing == ASSUME NEW t, NEW m PROVE Held(t, m, <<>>)
BY DEF Held

LEMMA WrapTwice == ASSUME NEW x \in Data PROVE Wrap(Wrap(x + 4) + 8) = Wrap(x + 12)
<1>1. x \in Nat /\ x < 2 * H /\ H \in Nat /\ H >= 12
  BY DataIs, Sizes
<1> DEFINE d == 2 * H
<1>2. \A y : Wrap(y) = y % d
  BY DEF Wrap
<1>a. d \in Nat /\ d >= 24
  BY <1>1
<1>3. x \in Nat /\ x < d /\ d \in Nat /\ d >= 24
  BY <1>1, <1>a
<1> HIDE DEF d
<1>4. \A y \in Nat : y < d => y % d = y
  BY <1>3
<1>5. \A y \in Nat : d <= y /\ y < 2 * d => y % d = y - d
  BY <1>3
<1>6. CASE x + 12 < d
  BY <1>2, <1>3, <1>4, <1>6
<1>7. CASE x + 4 < d /\ d <= x + 12
  <2>1. (x + 4) % d = x + 4
    BY <1>3, <1>4, <1>7
  <2> QED
    BY <1>2, <1>3, <2>1
<1>8. CASE d <= x + 4
  <2>1. (x + 4) % d = x + 4 - d /\ (x + 12) % d = x + 12 - d
    BY <1>3, <1>5, <1>8
  <2>2. (x + 4 - d) + 8 = x + 12 - d /\ x + 12 - d \in Nat /\ x + 12 - d < d
    BY <1>3, <1>8
  <2>3. (x + 12 - d) % d = x + 12 - d
    BY <1>4, <2>2
  <2> QED
    BY <1>2, <2>1, <2>2, <2>3
<1> QED
  BY <1>3, <1>6, <1>7, <1>8

(* The registers that a push takes, as the history has them.               *)
Lists(t, i, p) ==
  /\ p \in Seq(Data) /\ Len(p) = Cardinality(i.list)
  /\ \A n \in i.list : p[1 + Before(i.list, n)] =
                         IF n = 15 THEN Wrap(t.user[15] + 8) ELSE t.user[n]

LEMMA PushedLists ==
  ASSUME Fine(s, 26), NEW i \in BlockInsns PROVE Lists(Fetched(s), i, Pushed(i))
<1> DEFINE L == i.list c == Cardinality(L) t == Fetched(s)
           taken(n) == IF n = 15 THEN Wrap(s.user[15] + 12) ELSE s.user[n]
           which(k) == CHOOSE n \in L : Before(L, n) = k - 1
           p == [k \in 1 .. c |-> taken(which(k))]
<1>1. Pushed(i) = p
  BY DEF Pushed, Before
<1>2. L \in SUBSET Regs /\ c \in Nat
  BY ListSize DEF BlockInsns
<1>3. \A n \in Regs : s.user[n] \in Data
  BY FineReg
<1>4. s.user[15] \in Data /\ Wrap(s.user[15] + 12) \in Data
  <2>1. s.user[15] \in Data
    BY <1>3 DEF Regs
  <2> QED
    BY <2>1, DataIs, Wrapped
<1>5. \A n \in L : taken(n) \in Data
  BY <1>2, <1>3, <1>4
<1>6. \A k \in 1 .. c : which(k) \in L /\ Before(L, which(k)) = k - 1
  <2> SUFFICES ASSUME NEW k \in 1 .. c PROVE which(k) \in L /\ Before(L, which(k)) = k - 1
    OBVIOUS
  <2>1. k - 1 \in Nat /\ k - 1 < c
    BY <1>2
  <2>2. \E n \in L : Before(L, n) = k - 1
    BY <1>2, <2>1, BeforeOnto
  <2> QED
    BY <2>2
<1>7. \A n \in L : t.user[n] = IF n = 15 THEN Wrap(s.user[15] + 4) ELSE s.user[n]
  BY <1>2 DEF Fetched, Fine, Fit, Shaped, Fields, On
<1>8. \A n \in L : taken(n) = IF n = 15 THEN Wrap(t.user[15] + 8) ELSE t.user[n]
  BY <1>4, <1>7, WrapTwice
<1> HIDE DEF taken, which, t
<1>9. p \in Seq(Data) /\ Len(p) = c
  BY <1>2, <1>5, <1>6
<1>10. ASSUME NEW n \in L PROVE p[1 + Before(L, n)] = taken(n)
  <2>1. n \in 0 .. 16 /\ 16 \in 0 .. 16 /\ n < 16
    BY <1>2, <1>10 DEF Regs
  <2>2. Before(L, n) \in Nat /\ Before(L, n) < c
    BY <1>2, <1>10, <2>1, BeforeSteps, BeforeLess
  <2> DEFINE k == 1 + Before(L, n)
  <2>3. k \in 1 .. c /\ Before(L, n) = k - 1
    BY <1>2, <2>2
  <2> HIDE DEF k
  <2>4. which(k) = n
    BY <1>2, <1>6, <1>10, <2>3, BeforeOnly
  <2>5. p[k] = taken(n)
    BY <2>3, <2>4
  <2> QED
    BY <2>5 DEF k
<1> QED
  BY <1>1, <1>8, <1>9, <1>10 DEF Lists, t

(* A push and a pop keep what the mode has pushed.                         *)
LEMMA PushHeld ==
  ASSUME NEW t, t.psr.mode \in ModeNumbers, t.user[13] \in Data,
         NEW i \in BlockInsns, Room(t, i), NEW u, u.psr = t.psr, Filled(t, u, i),
         NEW q \in Seq(Data), Held(t, Mode(t), q), NEW A, Spares(t, u, A),
         A \intersect Area(t, Mode(t), q) = {}, NEW p, Lists(t, i, p)
  PROVE  Held(u, Mode(t), p \o q)
<1> DEFINE m == Mode(t) sp == t.user[13] c == Cardinality(i.list) L == i.list
<1>1. L \in SUBSET Regs /\ c \in Nat
  BY ListSize DEF BlockInsns
<1>2. sp \in Nat /\ sp % 4 = 0 /\ 4 * c <= sp /\ sp <= 3 * Megabyte /\ Span(i) = 4 * c
  BY DataIs DEF Room, Span
<1>3. Seen(t, m, 13) = sp
  BY OwnView
<1>4. Seen(u, m, 13) = sp - 4 * c
  <2>1. Mode(u) = m /\ u.psr.mode \in ModeNumbers
    BY DEF Mode
  <2>2. Seen(u, Mode(u), 13) = u.user[13]
    BY <2>1, OwnView
  <2> QED
    BY <1>2, <2>1, <2>2 DEF Filled
<1>5. p \in Seq(Data) /\ Len(p) = c
  BY DEF Lists
<1> DEFINE r == p \o q
<1>6. Len(r) = c + Len(q) /\ Len(q) \in Nat
  BY <1>5
<1>7. ASSUME NEW k \in 1 .. Len(r) PROVE Cell(u.ram, sp - 4 * c + 4 * (k - 1)) = r[k]
  <2>1. CASE k <= c
    <3>1. k - 1 \in Nat /\ k - 1 < c
      BY <1>1, <1>6, <1>7, <2>1
    <3>2. PICK n \in L : Before(L, n) = k - 1
      BY <1>1, <3>1, BeforeOnto
    <3>3. Slot(t, i, n) = sp - 4 * c + 4 * (k - 1)
      BY <1>2, <3>2 DEF Slot
    <3>4. Cell(u.ram, Slot(t, i, n)) = IF n = 15 THEN Wrap(t.user[15] + 8) ELSE t.user[n]
      BY <3>2 DEF Filled
    <3>5. p[1 + Before(L, n)] = IF n = 15 THEN Wrap(t.user[15] + 8) ELSE t.user[n]
      BY <3>2 DEF Lists
    <3>6. 1 + Before(L, n) = k
      BY <3>1, <3>2
    <3>7. r[k] = p[k]
      BY <1>5, <1>6, <1>7, <2>1
    <3> QED
      BY <3>3, <3>4, <3>5, <3>6, <3>7
  <2>2. CASE k > c
    <3> DEFINE j == k - c
    <3>1. j \in 1 .. Len(q)
      BY <1>1, <1>6, <1>7, <2>2
    <3>2. r[k] = q[j]
      BY <1>1, <1>5, <1>6, <1>7, <2>2
    <3>3. sp - 4 * c + 4 * (k - 1) = sp + 4 * (j - 1)
      BY <1>1, <1>2, <1>6, <1>7
    <3> HIDE DEF j, r, sp, m
    <3>4. Cell(t.ram, sp + 4 * (j - 1)) = q[j]
      BY <1>3, <3>1 DEF Held, m
    <3>5. sp + 4 * (j - 1) \notin A
      BY <1>3, <3>1 DEF Area, m
    <3>6. Cell(u.ram, sp + 4 * (j - 1)) = Cell(t.ram, sp + 4 * (j - 1))
      BY <3>5 DEF Spares
    <3> QED
      BY <3>2, <3>3, <3>4, <3>6
  <2> QED
    BY <1>1, <1>7, <2>1, <2>2
<1>8. (sp - 4 * c) % 4 = 0
  <2>1. sp - 4 * c = sp + 4 * (0 - c) /\ 0 - c \in Int /\ sp \in Int
    BY <1>1, <1>2
  <2> HIDE DEF sp, c
  <2>2. (sp + 4 * (0 - c)) % 4 = 0
    BY <1>2, <2>1, Multiples
  <2> QED
    BY <2>1, <2>2
<1>9. sp - 4 * c + 4 * Len(r) <= 3 * Megabyte
  <2>1. q # <<>> => sp + 4 * Len(q) <= 3 * Megabyte
    BY <1>3 DEF Held
  <2>2. q = <<>> => Len(q) = 0
    OBVIOUS
  <2>3. sp - 4 * c + 4 * Len(r) = sp + 4 * Len(q)
    BY <1>1, <1>2, <1>6
  <2> QED
    BY <1>2, <2>1, <2>2, <2>3
<1> HIDE DEF r, sp, c, m
<1>10. Held(u, m, r)
  BY <1>4, <1>7, <1>8, <1>9 DEF Held
<1> QED
  BY <1>10 DEF r, m

LEMMA HeldAbove ==
  ASSUME NEW t, t.psr.mode \in ModeNumbers, NEW q \in Seq(Data), Held(t, Mode(t), q)
  PROVE  Len(q) \in Nat /\ Above(t, Len(q))
<1>1. Seen(t, Mode(t), 13) = t.user[13]
  BY OwnView
<1>2. q = <<>> => Len(q) = 0
  OBVIOUS
<1> QED
  BY <1>1, <1>2 DEF Held, Above

LEMMA PopHeld ==
  ASSUME NEW t, t.psr.mode \in ModeNumbers, t.user[13] \in Data,
         NEW i \in BlockInsns, NEW u, u.psr = t.psr,
         NEW q \in Seq(Data), PoppedTo(t, u, i, Len(q), 16), Held(t, Mode(t), q)
  PROVE  Held(u, Mode(t), SubSeq(q, Cardinality(i.list) + 1, Len(q)))
<1> DEFINE m == Mode(t) sp == t.user[13] c == Cardinality(i.list)
           r == SubSeq(q, c + 1, Len(q))
<1>1. c \in Nat /\ Span(i) = 4 * c
  BY ListSize DEF BlockInsns, Span
<1>2. sp \in Nat /\ Seen(t, m, 13) = sp /\ Len(q) \in Nat
  BY DataIs, OwnView
<1>3. Seen(u, m, 13) = Wrap(sp + 4 * c)
  <2>1. Mode(u) = m /\ u.psr.mode \in ModeNumbers
    BY DEF Mode
  <2>2. Seen(u, Mode(u), 13) = u.user[13]
    BY <2>1, OwnView
  <2> QED
    BY <1>1, <2>1, <2>2 DEF PoppedTo
<1>4. CASE Len(q) <= c
  <2>1. r = <<>>
    BY <1>1, <1>2, <1>4
  <2> QED
    BY <2>1, HeldNothing
<1>5. CASE c < Len(q)
  <2>1. q # <<>> /\ Len(r) = Len(q) - c
    <3>1. Len(r) = Len(q) - c
      BY <1>1, <1>2, <1>5
    <3>2. q = <<>> => Len(q) = 0
      OBVIOUS
    <3>3. Len(q) # 0
      BY <1>1, <1>5
    <3> QED
      BY <3>1, <3>2, <3>3
  <2>2. \A k \in 1 .. Len(r) : r[k] = q[k + c]
    BY <1>1, <1>2, <1>5
  <2> HIDE DEF r
  <2>3. sp % 4 = 0 /\ sp + 4 * Len(q) <= 3 * Megabyte
    BY <1>2, <2>1 DEF Held
  <2> HIDE DEF sp
  <2>4. sp + 4 * c \in Data
    BY <1>1, <1>2, <1>5, <2>3, SmallData DEF Megabyte
  <2>5. Seen(u, m, 13) = sp + 4 * c
    BY <1>3, <2>4, WrapSame
  <2>6. (sp + 4 * c) % 4 = 0
    BY <1>1, <1>2, <2>3, Multiples
  <2>7. sp + 4 * c + 4 * Len(r) <= 3 * Megabyte
    BY <1>1, <1>2, <2>1, <2>3 DEF Megabyte
  <2>8. ASSUME NEW k \in 1 .. Len(r) PROVE Cell(u.ram, sp + 4 * c + 4 * (k - 1)) = r[k]
    <3> DEFINE j == k + c
    <3>1. j \in 1 .. Len(q)
      BY <1>1, <1>2, <1>5, <2>1, <2>8
    <3>2. sp + 4 * c + 4 * (k - 1) = sp + 4 * (j - 1)
      BY <1>1, <1>2, <2>8
    <3>3. r[k] = q[j]
      BY <2>2, <2>8
    <3> HIDE DEF j, m
    <3>4. Cell(t.ram, sp + 4 * (j - 1)) = q[j]
      BY <1>2, <3>1 DEF Held, m
    <3>5. u.ram = t.ram
      BY DEF PoppedTo
    <3> QED
      BY <3>2, <3>3, <3>4, <3>5
  <2> HIDE DEF m, c
  <2>9. Held(u, m, r)
    BY <2>5, <2>6, <2>7, <2>8 DEF Held
  <2> QED
    BY <2>9 DEF m, r, c
<1> QED
  BY <1>1, <1>2, <1>4, <1>5

(* Which instructions reach a stack pointer, and whose.                    *)
LEMMA StackPointers ==
  ASSUME NEW t, t.psr.mode \in ModeNumbers, NEW i, NEW m \in Modes, Physical(m, 13) \in Allowed(i, t)
  PROVE  13 \in Targets(i) /\ (m = Mode(t) \/ (ReachesUser(i) /\ m = "user"))
<1>1. \A k \in Modes : Physical(k, 13) = <<k, 13>>
  BY DEF Physical, Own, Modes, Banked, Pairs
<1>2. Mode(t) \in Modes
  BY ModeIn DEF Mode
<1>3. Physical(m, 13) = <<m, 13>> /\ Physical(Mode(t), 13) = <<Mode(t), 13>>
  BY <1>1, <1>2
<1>4. ASSUME NEW k \in Targets(i), Physical(m, 13) = Physical(Mode(t), k) PROVE k = 13 /\ m = Mode(t)
  BY <1>3, <1>4 DEF Physical
<1>5. ASSUME NEW k \in Targets(i), Physical(m, 13) = <<"user", k>> PROVE k = 13 /\ m = "user"
  BY <1>3, <1>5
<1>6. CASE \E k \in Targets(i) : Physical(m, 13) = Physical(Mode(t), k)
  BY <1>4, <1>6
<1>7. CASE ReachesUser(i) /\ \E k \in Targets(i) : Physical(m, 13) = <<"user", k>>
  BY <1>5, <1>7
<1>8. Physical(m, 13) \notin TrapReach(i)
  BY <1>3 DEF TrapReach
<1> QED
  BY <1>6, <1>7, <1>8 DEF Allowed, Reach

(* What software owes to its stacks: it stores over nothing that is        *)
(* pushed, moves a stack pointer by pushing and popping or sets it anew,   *)
(* and pushes where there is room.                                         *)
KeepsStacks ==
  insn' # None =>
    LET t == Fetched(s) i == insn' IN
    /\ \A m \in Modes : Stores(t, i) \intersect Area(s, m, stack[m]) = {}
    /\ IsPush(i) => Room(t, i)
    /\ 13 \in Targets(i) =>
         \/ IsPush(i) \/ IsPop(i) \/ (i.op = "alu" /\ i.rd = 13)
         \/ stack[Mode(s)] = <<>> /\ (ReachesUser(i) => stack["user"] = <<>>)

StackInv ==
  /\ stack \in [Modes -> Seq(Data)]
  /\ \A m \in Modes : Held(s, m, stack[m])

(* PopsWhatWasPushed, of one step.                                         *)
PopStep ==
  insn' # None /\ IsPop(insn') =>
    \A n \in insn'.list :
      LET k == 1 + Cardinality({x \in insn'.list : x < n})
          word == stack[Mode(s)][k]
          interrupted == s'.user[15] = \h1C /\ left' # None
      IN k <= Len(stack[Mode(s)]) =>
           IF n = 15 THEN s'.user[15] = word \/ (interrupted /\ left'.pc = word)
           ELSE View(s', Mode(s'), Mode(s), n) = word
                  \/ (n = 14 /\ Mode(s) = "fiq" /\ interrupted)

(* An instruction: t is the machine it starts from, u what it leaves.      *)
LEMMA PerformStacks ==
  ASSUME WordsInv, ModesValid, StackInv, NEW i \in Instructions, NEW v,
         NEW t, t = Fetched(s), NEW u, u = Perform(t, i, v), Lands(s, u, Allowed(i, s)),
         u.psr.mode \in ModeNumbers,
         \A m \in Modes : Stores(t, i) \intersect Area(s, m, stack[m]) = {},
         IsPush(i) => Room(t, i),
         13 \in Targets(i) =>
           \/ IsPush(i) \/ IsPop(i) \/ (i.op = "alu" /\ i.rd = 13)
           \/ stack[Mode(s)] = <<>> /\ (ReachesUser(i) => stack["user"] = <<>>)
  PROVE  /\ StackAfter(i) \in [Modes -> Seq(Data)]
         /\ \A m \in Modes : Held(u, m, StackAfter(i)[m])
         /\ IsPop(i) => /\ Mode(u) = Mode(s)
                        /\ \A n \in i.list :
                             1 + Before(i.list, n) <= Len(stack[Mode(s)]) =>
                               u.user[n] = stack[Mode(s)][1 + Before(i.list, n)]
<1> DEFINE A == Stores(t, i) me == Mode(s) q == stack[me] r == StackAfter(i)
           new == IF IsPush(i) THEN Pushed(i) \o q
                  ELSE IF IsPop(i) THEN SubSeq(q, Cardinality(i.list) + 1, Len(q))
                  ELSE IF i.op = "alu" /\ i.rd = 13 THEN <<>> ELSE q
<1>1. r = [stack EXCEPT ![me] = new]
  BY DEF StackAfter
<1>2. Fine(s, 26) /\ Fit(s) /\ me \in Modes /\ s.psr.mode \in ModeNumbers
  <2>1. Fine(s, 26)
    BY DEF WordsInv, IInv, Fine, Fit, ModesValid
  <2> QED
    BY <2>1, ModeIn DEF Fine, Fit, Mode
<1>3. /\ Fine(t, 1) /\ DOMAIN t = Fields /\ t.ram = s.ram /\ t.psr = s.psr /\ Mode(t) = me
      /\ \A m \in Modes : Seen(t, m, 13) = Seen(s, m, 13)
  <2>1. Fine(t, 1) /\ Only(s, t, {})
    BY <1>2, FetchedFine, FetchedOnly
  <2>2. DOMAIN t = Fields /\ Steady(s, t)
    BY <1>2, <2>1, SteadyFetched DEF Fine, Fit, Shaped
  <2>3. t.psr = s.psr /\ Mode(t) = me
    BY <2>2 DEF Steady, Mode
  <2>4. t.ram = s.ram
    BY <1>2 DEF Fetched, Fine, Fit, Shaped, Fields
  <2>5. 13 \in Others
    BY DEF Others, Regs
  <2> QED
    BY <2>1, <2>2, <2>3, <2>4, <2>5 DEF Only, Changes
<1>4. Spares(t, u, A)
  BY <1>3, SparesPerform
<1>5. ASSUME NEW m \in Modes
      PROVE  Held(t, m, stack[m]) /\ A \intersect Area(t, m, stack[m]) = {}
  BY <1>3 DEF Held, Area, StackInv
<1>6. q \in Seq(Data) /\ stack \in [Modes -> Seq(Data)]
  BY <1>2 DEF StackInv
<1>7. ASSUME NEW m \in Modes, Physical(m, 13) \notin Allowed(i, s) PROVE Held(u, m, stack[m])
  <2>1. 13 \in Others
    BY DEF Others, Regs
  <2>2. Seen(u, m, 13) = Seen(t, m, 13)
    BY <1>3, <1>7, <2>1 DEF Lands, Changes
  <2> HIDE DEF A
  <2> QED
    BY <1>4, <1>5, <2>2, HeldSame
<1>8. ASSUME NEW m \in Modes, Physical(m, 13) \in Allowed(i, s)
      PROVE  13 \in Targets(i) /\ (m = me \/ (ReachesUser(i) /\ m = "user"))
  BY <1>2, <1>8, StackPointers
<1>9. IsPush(i) \/ IsPop(i) => i \in BlockInsns
  BY DEF IsPush, IsPop, Instructions, AluInsns, MulInsns, SwapInsns, TransferInsns, OtherInsns
<1>10. t.psr.mode \in ModeNumbers /\ t.user[13] \in Data /\ DOMAIN t.user = Regs
  <2>1. 13 \in Regs
    BY DEF Regs
  <2> QED
    BY <1>2, <1>3, <2>1, FineReg DEF Fine, Fit, Shaped, On
<1>11. IsPop(i) => u.psr = t.psr /\ PoppedTo(t, u, i, Len(q), 16)
  <2> SUFFICES ASSUME IsPop(i) PROVE u.psr = t.psr /\ PoppedTo(t, u, i, Len(q), 16)
    OBVIOUS
  <2>1. i \in BlockInsns /\ u = LoadBlock(t, i, v) /\ ~Status(i) /\ i.op \notin Traps
    BY <1>9 DEF IsPop, Perform, Status, Traps, BlockInsns
  <2>2. Steady(t, u)
    BY <1>3, <2>1, SteadyPerform
  <2>3. Held(t, Mode(t), q)
    BY <1>2, <1>3, <1>5
  <2> HIDE DEF q
  <2>4. Len(q) \in Nat /\ Above(t, Len(q))
    BY <1>6, <1>10, <2>3, HeldAbove
  <2>5. PoppedTo(t, u, i, Len(q), 16)
    BY <1>3, <1>10, <2>1, <2>4, PopGives
  <2> QED
    BY <2>2, <2>5 DEF Steady
<1>12. new \in Seq(Data) /\ Held(u, me, new)
  <2>1. CASE IsPush(i)
    <3>1. i \in BlockInsns /\ u = StoreBlock(t, i) /\ ~Status(i) /\ i.op \notin Traps
      BY <1>9, <2>1 DEF IsPush, Perform, Status, Traps, BlockInsns
    <3>2. Steady(t, u)
      BY <1>3, <3>1, SteadyPerform
    <3>3. Filled(t, u, i)
      BY <1>3, <1>10, <2>1, <3>1, PushFills
    <3>4. Lists(t, i, Pushed(i))
      BY <1>2, <3>1, PushedLists
    <3>5. new = Pushed(i) \o q /\ Pushed(i) \in Seq(Data)
      BY <2>1, <3>4 DEF Lists
    <3>6. Held(t, Mode(t), q) /\ A \intersect Area(t, Mode(t), q) = {} /\ u.psr = t.psr /\ Room(t, i)
      BY <1>2, <1>3, <1>5, <2>1, <3>2 DEF Steady
    <3> HIDE DEF A, q
    <3>7. Held(u, Mode(t), Pushed(i) \o q)
      BY <1>4, <1>6, <1>10, <3>1, <3>3, <3>4, <3>6, PushHeld
    <3>8. Pushed(i) \o q \in Seq(Data)
      BY <1>6, <3>5
    <3> HIDE DEF new, me
    <3> QED
      BY <1>3, <3>5, <3>7, <3>8
  <2>2. CASE IsPop(i)
    <3>1. ~IsPush(i) /\ i \in BlockInsns
      BY <1>9, <2>2 DEF IsPush, IsPop
    <3>2. new = SubSeq(q, Cardinality(i.list) + 1, Len(q))
      BY <2>2, <3>1
    <3>3. Held(t, Mode(t), q) /\ Cardinality(i.list) \in Nat
      BY <1>2, <1>3, <1>5, <3>1, ListSize DEF BlockInsns
    <3> HIDE DEF q
    <3>4. Held(u, Mode(t), SubSeq(q, Cardinality(i.list) + 1, Len(q)))
      BY <1>6, <1>10, <1>11, <2>2, <3>1, <3>3, PopHeld
    <3>5. SubSeq(q, Cardinality(i.list) + 1, Len(q)) \in Seq(Data)
      BY <1>6, <3>3
    <3> QED
      BY <1>3, <3>2, <3>4, <3>5
  <2>3. CASE i.op = "alu" /\ i.rd = 13
    <3>1. ~IsPush(i) /\ ~IsPop(i)
      BY <2>3 DEF IsPush, IsPop
    <3>2. new = <<>>
      BY <2>3, <3>1
    <3> HIDE DEF new
    <3> QED
      BY <3>2, HeldNothing
  <2>4. CASE ~IsPush(i) /\ ~IsPop(i) /\ ~(i.op = "alu" /\ i.rd = 13)
    <3>1. new = q
      BY <2>4
    <3>2. Physical(me, 13) \in Allowed(i, s) => q = <<>>
      BY <1>2, <1>8, <2>4
    <3>3. Physical(me, 13) \notin Allowed(i, s) => Held(u, me, q)
      BY <1>2, <1>7
    <3> HIDE DEF new, q, me
    <3> QED
      BY <1>6, <3>1, <3>2, <3>3, HeldNothing
  <2> HIDE DEF new, me, q
  <2> QED
    BY <2>1, <2>2, <2>3, <2>4
<1>13. ASSUME NEW m \in Modes, m # me PROVE Held(u, m, stack[m])
  <2>1. CASE Physical(m, 13) \notin Allowed(i, s)
    BY <1>7, <2>1
  <2>2. CASE Physical(m, 13) \in Allowed(i, s)
    <3>1. 13 \in Targets(i) /\ ReachesUser(i) /\ m = "user"
      BY <1>8, <1>13, <2>2
    <3>2. ~IsPush(i) /\ ~IsPop(i) /\ ~(i.op = "alu" /\ i.rd = 13)
      BY <3>1 DEF IsPush, IsPop, ReachesUser
    <3>3. stack[m] = <<>>
      BY <3>1, <3>2
    <3> QED
      BY <3>3, HeldNothing
  <2> QED
    BY <2>1, <2>2
<1>14. IsPop(i) => Mode(u) = me
  BY <1>3, <1>11 DEF Mode
<1>15. ASSUME IsPop(i), NEW n \in i.list, 1 + Before(i.list, n) <= Len(q)
       PROVE  u.user[n] = q[1 + Before(i.list, n)]
  <2>1. n \in Regs /\ i.list \in SUBSET Regs
    BY <1>9, <1>15 DEF BlockInsns
  <2>2. n \in 0 .. 16 /\ n < 16
    BY <2>1 DEF Regs
  <2> DEFINE b == Before(i.list, n)
  <2>3. b \in Nat /\ Len(q) \in Nat
    BY <1>6, <2>1, <2>2, BeforeSteps
  <2>4. b < Len(q) /\ 1 + b \in 1 .. Len(q)
    BY <1>15, <2>3
  <2>5. u.user[n] = Cell(t.ram, t.user[13] + 4 * b)
    BY <1>11, <1>15, <2>2, <2>4 DEF PoppedTo
  <2>6. Seen(t, me, 13) = t.user[13] /\ Held(t, me, q)
    BY <1>2, <1>3, <1>5, <1>10, OwnView
  <2>7. (1 + b) - 1 = b
    BY <2>3
  <2> HIDE DEF b, q, me
  <2>8. Cell(t.ram, t.user[13] + 4 * ((1 + b) - 1)) = q[1 + b]
    BY <2>4, <2>6 DEF Held
  <2> QED
    BY <2>5, <2>7, <2>8 DEF b
<1>16. \A m \in Modes : r[m] = IF m = me THEN new ELSE stack[m]
  BY <1>1, <1>6
<1> HIDE DEF new, r, me
<1>17. r \in [Modes -> Seq(Data)]
  BY <1>1, <1>6, <1>12
<1>18. \A m \in Modes : Held(u, m, r[m])
  BY <1>12, <1>13, <1>16
<1> QED
  BY <1>14, <1>15, <1>17, <1>18 DEF r, me

(* A fast interrupt has a stack of its own, and leaves the others.         *)
LEMMA FiqHeld ==
  ASSUME NEW t, Fit(t), NEW m \in Modes, NEW q, Held(t, m, q) PROVE Held(Fiq(t), m, q)
<1> DEFINE u == Fiq(t)
<1>1. DOMAIN u = Fields /\ u.ram = t.ram /\ Changes(t, u, {<<"fiq", 14>>})
  BY FiqMemory, FiqLands DEF Fit, Shaped
<1>2. Physical(m, 13) \notin {<<"fiq", 14>>} /\ 13 \in Others
  BY DEF Physical, Others, Regs
<1>3. Seen(u, m, 13) = Seen(t, m, 13)
  BY <1>1, <1>2 DEF Changes
<1>4. Spares(t, u, {})
  BY <1>1, SparesSame
<1> HIDE DEF u
<1>5. Held(u, m, q)
  BY <1>3, <1>4, HeldSame
<1> QED
  BY <1>5 DEF u

LEMMA ExecuteStacks ==
  ASSUME WordsInv, ModesValid, ModesValid', StackInv, Execute, KeepsStacks
  PROVE  StackInv' /\ PopStep
<1>1. PICK i \in Code, v \in DeviceWords, needed \in BOOLEAN :
        \E fiq \in BOOLEAN :
          LET t == Executed(s, i, v) done == IsRun(i, s) IN
          /\ s' = IF fiq THEN Fiq(t) ELSE t
          /\ insn' = IF done THEN i ELSE None
          /\ compared' = IF done THEN ComparedAfter(i) ELSE compared
          /\ stack' = IF done THEN StackAfter(i) ELSE stack
          /\ left' = IF fiq THEN [pc |-> t.user[15], psr |-> t.psr, compared |-> compared']
                     ELSE IF done THEN LeftAfter(i, t) ELSE left
  BY ZenonT(60) DEF Execute
<1>2. PICK fiq \in BOOLEAN :
          LET t == Executed(s, i, v) done == IsRun(i, s) IN
          /\ s' = IF fiq THEN Fiq(t) ELSE t
          /\ insn' = IF done THEN i ELSE None
          /\ compared' = IF done THEN ComparedAfter(i) ELSE compared
          /\ stack' = IF done THEN StackAfter(i) ELSE stack
          /\ left' = IF fiq THEN [pc |-> t.user[15], psr |-> t.psr, compared |-> compared']
                     ELSE IF done THEN LeftAfter(i, t) ELSE left
  BY <1>1
<1> DEFINE t == Executed(s, i, v) u == Fetched(s) done == IsRun(i, s)
           back == [pc |-> t.user[15], psr |-> t.psr, compared |-> compared']
           after == StackAfter(i)
<1>3. i \in Instructions /\ v \in Data /\ i # None
  <2>1. i \in Instructions /\ v \in Data
    BY CodeIn, ArmAssumption DEF WordsInv, IInv
  <2>2. None \notin Instructions
    BY DEF None, Instructions, AluInsns, MulInsns, SwapInsns, TransferInsns, BlockInsns, OtherInsns
  <2> QED
    BY <2>1, <2>2
<1>4. Fine(s, 26) /\ Fit(s)
  BY DEF WordsInv, IInv, Fine, Fit, ModesValid
<1>5. Ends(t, 26) /\ Lands(s, t, Allowed(i, s)) /\ (~done => Lands(s, t, {}))
  BY <1>3, <1>4, ExecutedEnds, ExecutedLands DEF Fine
<1>6. s' = IF fiq THEN Fiq(t) ELSE t
  BY <1>2
<1>7. insn' = (IF done THEN i ELSE None) /\ stack' = (IF done THEN after ELSE stack)
  BY <1>2
<1>8. fiq => left' = back
  BY <1>2
<1>9. t = IF done THEN Perform(u, i, v) ELSE u
  BY DEF Executed
<1>10. DOMAIN u = Fields /\ u.ram = s.ram
  BY <1>4 DEF Fetched, Fine, Fit, Shaped, Fields
<1>11. fiq => left' # None /\ left'.pc = t.user[15]
  <2>1. back # None /\ back.pc = t.user[15]
    BY DEF None
  <2> HIDE DEF back
  <2> QED
    BY <1>8, <2>1
<1> HIDE DEF t, done, back
<1>12. t.psr.mode \in ModeNumbers
  <2>1. CASE ~fiq
    BY <1>6, <2>1 DEF ModesValid
  <2>2. CASE fiq
    <3>1. s' = Fiq(t)
      BY <1>6, <2>2
    <3>2. s'.spsr["fiq"] = t.psr
      BY <1>5, <3>1, FiqSaves DEF Lands
    <3>3. s'.spsr["fiq"].mode \union {4} \in ModeNumbers
      BY DEF ModesValid, Modes, Banked
    <3> QED
      BY <1>5, <3>2, <3>3 DEF Lands, Framed
  <2> QED
    BY <2>1, <2>2
<1>13. Fit(t)
  BY <1>5, <1>12 DEF Lands, Fit
<1>14. /\ stack' \in [Modes -> Seq(Data)]
       /\ \A m \in Modes : Held(t, m, stack'[m])
  <2>1. CASE ~done
    <3>1. t = u /\ stack' = stack
      BY <1>7, <1>9, <2>1
    <3> HIDE DEF u
    <3>2. ASSUME NEW m \in Modes PROVE Held(t, m, stack[m])
      <4>1. 13 \in Others
        BY DEF Others, Regs
      <4>2. Seen(t, m, 13) = Seen(s, m, 13)
        BY <1>5, <1>12, <2>1, <4>1 DEF Lands, Changes
      <4>3. Spares(s, t, {})
        BY <1>10, <3>1, SparesSame
      <4>4. Held(s, m, stack[m])
        BY DEF StackInv
      <4> QED
        BY <4>2, <4>3, <4>4, HeldSame
    <3> QED
      BY <3>1, <3>2 DEF StackInv
  <2>2. CASE done
    <3>1. t = Perform(u, i, v) /\ stack' = after /\ insn' = i
      BY <1>7, <1>9, <2>2
    <3>2. /\ \A m \in Modes : Stores(u, i) \intersect Area(s, m, stack[m]) = {}
          /\ IsPush(i) => Room(u, i)
          /\ 13 \in Targets(i) =>
               \/ IsPush(i) \/ IsPop(i) \/ (i.op = "alu" /\ i.rd = 13)
               \/ stack[Mode(s)] = <<>> /\ (ReachesUser(i) => stack["user"] = <<>>)
      BY <1>3, <3>1 DEF KeepsStacks
    <3>3. u = Fetched(s)
      OBVIOUS
    <3> HIDE DEF u
    <3>4. after \in [Modes -> Seq(Data)] /\ \A m \in Modes : Held(t, m, after[m])
      BY <1>3, <1>5, <1>12, <3>1, <3>2, <3>3, PerformStacks
    <3> HIDE DEF after
    <3> QED
      BY <3>1, <3>4
  <2> QED
    BY <2>1, <2>2
<1>15. StackInv'
  <2>1. ASSUME NEW m \in Modes PROVE Held(s', m, stack'[m])
    BY <1>6, <1>13, <1>14, FiqHeld
  <2> QED
    BY <1>14, <2>1 DEF StackInv, Held, Seen
<1>16. PopStep
  <2> SUFFICES ASSUME insn' # None, IsPop(insn'), NEW n \in insn'.list,
                      1 + Before(insn'.list, n) <= Len(stack[Mode(s)])
               PROVE  LET word == stack[Mode(s)][1 + Before(insn'.list, n)]
                          interrupted == s'.user[15] = \h1C /\ left' # None
                      IN IF n = 15 THEN s'.user[15] = word \/ (interrupted /\ left'.pc = word)
                         ELSE View(s', Mode(s'), Mode(s), n) = word
                                \/ (n = 14 /\ Mode(s) = "fiq" /\ interrupted)
    BY DEF PopStep, Before
  <2> DEFINE word == stack[Mode(s)][1 + Before(insn'.list, n)] me == Mode(s)
  <2>1. insn' = i /\ done /\ t = Perform(u, i, v)
    BY <1>7, <1>9
  <2>2. /\ \A m \in Modes : Stores(u, i) \intersect Area(s, m, stack[m]) = {}
        /\ IsPush(i) => Room(u, i)
        /\ 13 \in Targets(i) =>
             \/ IsPush(i) \/ IsPop(i) \/ (i.op = "alu" /\ i.rd = 13)
             \/ stack[Mode(s)] = <<>> /\ (ReachesUser(i) => stack["user"] = <<>>)
    BY <1>3, <2>1 DEF KeepsStacks
  <2>3. u = Fetched(s) /\ IsPop(i) /\ n \in i.list
    BY <2>1
  <2> HIDE DEF u
  <2>4. /\ Mode(t) = Mode(s)
        /\ \A k \in i.list :
             1 + Before(i.list, k) <= Len(stack[Mode(s)]) =>
               t.user[k] = stack[Mode(s)][1 + Before(i.list, k)]
    BY <1>3, <1>5, <1>12, <2>1, <2>2, <2>3, PerformStacks
  <2>5. t.user[n] = word /\ Mode(t) = me
    BY <2>1, <2>3, <2>4
  <2>6. Seen(t, me, n) = word
    BY <1>12, <2>5, OwnView
  <2>7. n \in Regs /\ me \in Modes
    <3>1. i.list \in SUBSET Regs
      BY <1>3, <2>3 DEF IsPop, Instructions, AluInsns, MulInsns, SwapInsns, TransferInsns,
                        BlockInsns, OtherInsns
    <3> QED
      BY <1>4, <2>3, <3>1, ModeIn DEF Fit, Mode
  <2> HIDE DEF word, me
  <2>8. CASE ~fiq
    <3>1. s' = t
      BY <1>6, <2>8
    <3>2. n = 15 => s'.user[15] = word
      BY <2>5, <3>1
    <3>3. View(s', Mode(s'), me, n) = word
      BY <2>6, <3>1 DEF Seen
    <3> QED
      BY <3>2, <3>3 DEF word, me
  <2>9. CASE fiq
    <3>1. s' = Fiq(t) /\ left' # None /\ left'.pc = t.user[15]
      BY <1>6, <1>11, <2>9
    <3>2. s'.user[15] = \h1C /\ Changes(t, s', {<<"fiq", 14>>})
      BY <1>13, <3>1, FiqLands
    <3>3. ASSUME n # 15
          PROVE  View(s', Mode(s'), me, n) = word \/ (n = 14 /\ me = "fiq")
      <4>1. n \in Others
        BY <2>7, <3>3 DEF Others
      <4>2. Physical(me, n) \in {<<"fiq", 14>>} \/ Seen(s', me, n) = Seen(t, me, n)
        BY <2>7, <3>2, <4>1 DEF Changes
      <4>3. Physical(me, n) = <<"fiq", 14>> => n = 14 /\ me = "fiq"
        BY DEF Physical, Own
      <4> QED
        BY <2>6, <4>2, <4>3 DEF Seen
    <3>4. n = 15 => left'.pc = word
      BY <2>5, <3>1
    <3> QED
      BY <3>1, <3>2, <3>3, <3>4 DEF word, me
  <2> QED
    BY <2>8, <2>9
<1> QED
  BY <1>15, <1>16

LEMMA NoStacks == ASSUME NEW t PROVE \A m \in Modes : Held(t, m, [k \in Modes |-> <<>>][m])
BY HeldNothing

LEMMA InitStacks == Init => StackInv
<1> SUFFICES ASSUME Init PROVE StackInv
  OBVIOUS
<1> DEFINE none == [m \in Modes |-> <<>>]
<1>1. stack = none
  BY DEF Init
<1>2. none \in [Modes -> Seq(Data)] /\ \A m \in Modes : Held(s, m, none[m])
  BY NoStacks
<1> HIDE DEF none
<1> QED
  BY <1>1, <1>2 DEF StackInv

LEMMA ResetStacks == ASSUME Reset PROVE StackInv' /\ PopStep
<1> DEFINE none == [m \in Modes |-> <<>>]
<1>1. stack' = none /\ insn' = None
  BY DEF Reset
<1>2. none \in [Modes -> Seq(Data)] /\ \A m \in Modes : Held(s', m, none[m])
  BY NoStacks
<1> HIDE DEF none
<1>3. StackInv'
  BY <1>1, <1>2 DEF StackInv, Held, Seen
<1> QED
  BY <1>1, <1>3 DEF PopStep

LEMMA StacksKept ==
  ASSUME WordsInv, ModesValid, ModesValid', StackInv, [Next]_vars, [KeepsStacks]_vars
  PROVE  StackInv' /\ [PopStep]_vars
<1>1. CASE Execute /\ KeepsStacks
  BY <1>1, ExecuteStacks
<1>2. CASE Reset
  BY <1>2, ResetStacks
<1>3. CASE UNCHANGED vars
  BY <1>3 DEF vars, StackInv, Held, Seen
<1> QED
  BY <1>1, <1>2, <1>3 DEF Next

LEMMA StacksHold == StackInv => StackHeld
<1> SUFFICES ASSUME StackInv, NEW m \in Modes, NEW k \in DOMAIN stack[m]
             PROVE  Cell(s.ram, View(s, Mode(s), m, 13) + 4 * (k - 1)) = stack[m][k]
  BY DEF StackHeld
<1>1. k \in 1 .. Len(stack[m])
  BY DEF StackInv
<1> QED
  BY <1>1 DEF StackInv, Held, Seen

(* What a mode has pushed lies where it was pushed, whatever exceptions    *)
(* come and whatever the other modes do on their stacks: the induction is  *)
(* over the registers of a block transfer, for every list of them.         *)
THEOREM StacksSafe == Spec /\ []ModesValid /\ [][KeepsStacks]_vars => []StackHeld
<1>1. Init /\ ModesValid => WordsInv /\ StackInv
  BY InitWords, InitStacks
<1>2. /\ WordsInv /\ StackInv /\ ModesValid /\ ModesValid' /\ [Next]_vars /\ [KeepsStacks]_vars
      => WordsInv' /\ StackInv'
  BY WordsKept, StacksKept
<1>3. StackInv => StackHeld
  BY StacksHold
<1> QED
  BY <1>1, <1>2, <1>3, PTL DEF Spec

(* A pop then gives the registers back what was pushed, and a program      *)
(* counter popped is where the mode goes on.                               *)
THEOREM PopsReturn == Spec /\ []ModesValid /\ [][KeepsStacks]_vars => PopsWhatWasPushed
<1>1. Init /\ ModesValid => WordsInv /\ StackInv
  BY InitWords, InitStacks
<1>2. /\ WordsInv /\ StackInv /\ ModesValid /\ ModesValid' /\ [Next]_vars /\ [KeepsStacks]_vars
      => WordsInv' /\ StackInv' /\ [PopStep]_vars
  BY WordsKept, StacksKept
<1> QED
  BY <1>1, <1>2, PTL DEF Spec, PopsWhatWasPushed, PopStep

(* For software that gives the status registers modes only and keeps its   *)
(* stacks, then, the machine keeps its invariant and does the rest.        *)
THEOREM MachineSound ==
  Spec /\ [][GivesModes]_vars /\ [][KeepsStacks]_vars =>
    []Inv /\ BanksKept /\ FiqReturns /\ PopsWhatWasPushed /\ ManyInPlace
<1>1. TypeOK /\ StackHeld /\ ConditionsMean => Inv
  BY DEF Inv
<1> QED
  BY <1>1, ModesStay, TypesHold, ConditionsHold, BanksSafe, FiqsReturn, StacksSafe, PopsReturn,
     ManyMultiplied, PTL
=============================================================================
