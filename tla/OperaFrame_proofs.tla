-------------------------- MODULE OperaFrame_proofs --------------------------
(***************************************************************************)
(* Proofs about the emulator's CLIO and its frame loop, for any number of  *)
(* timers up to 16, any instruction lengths, frequencies and field sizes.  *)
(***************************************************************************)
EXTENDS OperaFrame, TLAPS

LEMMA ClioBits ==
  /\ Timers \subseteq 0 .. 15 /\ 0 \in Timers /\ 1 \in Timers
  /\ \A t \in Timers : TimerBit(t) \in Nat \ {Summary}
  /\ Summary \in Nat
  BY ClioAssumption DEF Timers, TimerBit, Summary

(* The interrupt registers, apart from the timers.                         *)
IrqTypes == irq0 \subseteq Nat /\ irq1 \subseteq Nat /\ mask0 \subseteq Nat /\ mask1 \subseteq Nat

Faithful == Summary \in irq0 <=> irq1 # {}

LEMMA GenerateKeeps ==
  ASSUME NEW r0, NEW r1, r0 \subseteq Nat, r1 \subseteq Nat, FiqGenerate(r0, r1)
  PROVE  /\ IrqTypes => IrqTypes'
         /\ Summary \notin r0 /\ Faithful => Faithful'
  <1>1. /\ irq1' = irq1 \union r1
        /\ irq0' = irq0 \union r0 \union (IF irq1' # {} THEN {Summary} ELSE {})
        /\ mask0' = mask0 /\ mask1' = mask1
    BY DEF FiqGenerate
  <1>2. IrqTypes => IrqTypes'
    BY <1>1, ClioBits DEF IrqTypes
  <1>3. ASSUME Summary \notin r0, Faithful
        PROVE  Faithful'
    BY <1>1, <1>3 DEF Faithful
  <1> QED
    BY <1>2, <1>3

(* The timers.                                                             *)
TimerTypes ==
  /\ ctrl \subseteq Timers \X Flags
  /\ count \in [Timers -> 0 .. Top] /\ backup \in [Timers -> 0 .. Top]
  /\ chained \in BOOLEAN

LEMMA TypesSplit ==
  /\ ClioTypeOK <=> IrqTypes /\ TimerTypes
  /\ ClioTypeOK' <=> IrqTypes' /\ TimerTypes'
  BY DEF ClioTypeOK, IrqTypes, TimerTypes

LEMMA ServeTypes ==
  ASSUME TimerTypes, NEW wraps \in SUBSET Timers, NEW lost \in SUBSET Timers,
         Serve(wraps, lost)
  PROVE  TimerTypes'
  <1>1. \A t \in Timers : Decremented(t, wraps) \in 0 .. Top
    BY ClioAssumption DEF Decremented, TimerTypes
  <1>2. count' \in [Timers -> 0 .. Top]
    BY <1>1 DEF Serve, TimerTypes
  <1> QED
    BY <1>2 DEF Serve, TimerTypes

(* The two kinds of steps of CLIO: those that change an interrupt register *)
(* and those that change a timer; a tick changes both.                     *)
LEMMA PokeKeeps ==
  ASSUME ClioTypeOK, ClioPoke
  PROVE  /\ ClioTypeOK'
         /\ (\A mask \in IrqMasks : Summary \notin mask) /\ Faithful => Faithful'
  <1> USE TypesSplit
  <1>i. (\A mask \in IrqMasks : mask \subseteq Nat) /\ (\A mask \in Irq1Masks : mask \subseteq Nat)
    BY ClioAssumption
  <1>1. ASSUME NEW mask \in IrqMasks,
               SetIrq0(mask) \/ ClearIrq0(mask) \/ SetMask0(mask) \/ ClearMask0(mask)
        PROVE  ClioTypeOK' /\ (Summary \notin mask /\ Faithful => Faithful')
    <2>1. CASE SetIrq0(mask)
      BY <2>1, <1>i, GenerateKeeps DEF SetIrq0, timerVars, TimerTypes
    <2>2. CASE ClearIrq0(mask)
      BY <2>2 DEF ClearIrq0, timerVars, TimerTypes, IrqTypes, Faithful
    <2>3. CASE SetMask0(mask)
      BY <2>3, <1>i DEF SetMask0, timerVars, TimerTypes, IrqTypes, Faithful
    <2>4. CASE ClearMask0(mask)
      BY <2>4, ClioBits DEF ClearMask0, timerVars, TimerTypes, IrqTypes, Faithful
    <2> QED
      BY <1>1, <2>1, <2>2, <2>3, <2>4
  <1>2. ASSUME NEW mask \in Irq1Masks,
               SetIrq1(mask) \/ ClearIrq1(mask) \/ SetMask1(mask) \/ ClearMask1(mask)
        PROVE  ClioTypeOK' /\ (Faithful => Faithful')
    <2>1. CASE SetIrq1(mask)
      BY <2>1, <1>i, GenerateKeeps DEF SetIrq1, timerVars, TimerTypes
    <2>2. CASE ClearIrq1(mask)
      BY <2>2 DEF ClearIrq1, timerVars, TimerTypes, IrqTypes, Faithful
    <2>3. CASE SetMask1(mask)
      BY <2>3, <1>i DEF SetMask1, timerVars, TimerTypes, IrqTypes, Faithful
    <2>4. CASE ClearMask1(mask)
      BY <2>4 DEF ClearMask1, timerVars, TimerTypes, IrqTypes, Faithful
    <2> QED
      BY <1>2, <2>1, <2>2, <2>3, <2>4
  <1>3. ASSUME NEW mask \in CtrlMasks, SetFlags(mask) \/ ClearFlags(mask)
        PROVE  ClioTypeOK' /\ (Faithful => Faithful')
    <2>1. mask \subseteq Timers \X Flags
      BY ClioAssumption
    <2>2. CASE SetFlags(mask)
      BY <2>1, <2>2 DEF SetFlags, irqVars, TimerTypes, IrqTypes, Faithful, PairStarted
    <2>3. CASE ClearFlags(mask)
      BY <2>3 DEF ClearFlags, irqVars, TimerTypes, IrqTypes, Faithful
    <2> QED
      BY <1>3, <2>2, <2>3
  <1>4. ASSUME NEW t \in Timers, NEW v \in Counts, WriteCount(t, v) \/ WriteBackup(t, v)
        PROVE  ClioTypeOK' /\ (Faithful => Faithful')
    <2>1. v \in 0 .. Top
      BY ClioAssumption
    <2> QED
      BY <1>4, <2>1 DEF WriteCount, WriteBackup, irqVars, TimerTypes, IrqTypes, Faithful
  <1> QED
    BY <1>1, <1>2, <1>3, <1>4 DEF ClioPoke

LEMMA DmaKeeps ==
  ASSUME ClioTypeOK, DmaDone
  PROVE  ClioTypeOK' /\ (Faithful => Faithful')
  <1>1. {29} \subseteq Nat /\ {} \subseteq Nat /\ Summary \notin {29}
    BY DEF Summary
  <1>2. FiqGenerate({29}, {}) /\ UNCHANGED timerVars
    BY DEF DmaDone
  <1>3. (IrqTypes => IrqTypes') /\ (Faithful => Faithful')
    BY <1>1, <1>2, GenerateKeeps
  <1>4. TimerTypes => TimerTypes'
    BY <1>2 DEF timerVars, TimerTypes
  <1> QED
    BY <1>3, <1>4, TypesSplit

(* A tick of the timers that may raise other interrupts with it.           *)
LEMMA TickKeeps ==
  ASSUME ClioTypeOK, NEW wraps \in SUBSET Timers, NEW lost \in SUBSET Timers,
         NEW raised \in SUBSET {0, 1}, Serve(wraps, lost),
         FiqGenerate({TimerBit(t) : t \in {s \in wraps : s % 2 = 1}} \union raised, {})
  PROVE  ClioTypeOK' /\ (Faithful => Faithful')
  <1>1. /\ {TimerBit(t) : t \in {s \in wraps : s % 2 = 1}} \union raised \subseteq Nat
        /\ Summary \notin {TimerBit(t) : t \in {s \in wraps : s % 2 = 1}} \union raised
    <2>1. {TimerBit(t) : t \in {s \in wraps : s % 2 = 1}} \subseteq {TimerBit(t) : t \in Timers}
      OBVIOUS
    <2>2. /\ {TimerBit(t) : t \in Timers} \subseteq Nat
          /\ Summary \notin {TimerBit(t) : t \in Timers}
      BY ClioBits
    <2>3. raised \subseteq Nat /\ Summary \notin raised
      BY DEF Summary
    <2> QED
      BY <2>1, <2>2, <2>3
  <1>2. (IrqTypes => IrqTypes') /\ (Faithful => Faithful')
    <2>1. {} \subseteq Nat
      OBVIOUS
    <2> QED
      BY <1>1, <2>1, GenerateKeeps
  <1>3. TimerTypes /\ IrqTypes
    BY TypesSplit
  <1>4. TimerTypes'
    BY <1>3, ServeTypes
  <1> QED
    BY <1>2, <1>3, <1>4, TypesSplit

LEMMA ClioKeeps ==
  ASSUME ClioTypeOK, [ClioNext]_clioVars
  PROVE  /\ ClioTypeOK'
         /\ (\A mask \in IrqMasks : Summary \notin mask) /\ Faithful => Faithful'
  <1>1. CASE ClioPoke
    BY <1>1, PokeKeeps
  <1>2. CASE ClioReset
    <2>1. 0 \in 0 .. Top
      BY ClioAssumption
    <2>2. ClioTypeOK'
      BY <1>2, <2>1 DEF ClioReset, ClioTypeOK
    <2> QED
      BY <1>2, <2>2 DEF ClioReset, Faithful
  <1>3. CASE DmaDone
    BY <1>3, DmaKeeps
  <1>4. CASE TimerExecute
    <2>1. PICK wraps \in SUBSET Timers, lost \in SUBSET Timers :
            /\ Serve(wraps, lost)
            /\ FiqGenerate({TimerBit(t) : t \in {s \in wraps : s % 2 = 1}}, {})
      BY <1>4 DEF TimerExecute
    <2>2. FiqGenerate({TimerBit(t) : t \in {s \in wraps : s % 2 = 1}} \union {}, {})
      BY <2>1
    <2>3. {} \in SUBSET {0, 1}
      OBVIOUS
    <2> QED
      BY <2>1, <2>2, <2>3, TickKeeps
  <1>5. CASE UNCHANGED clioVars
    BY <1>5 DEF clioVars, irqVars, timerVars, ClioTypeOK, Faithful
  <1> QED
    BY <1>1, <1>2, <1>3, <1>4, <1>5 DEF ClioNext

LEMMA ClioStart ==
  ASSUME ClioInit
  PROVE  ClioTypeOK /\ Faithful
  <1>1. 0 \in 0 .. Top
    BY ClioAssumption
  <1>2. ClioTypeOK
    BY <1>1 DEF ClioInit, ClioTypeOK
  <1> QED
    BY <1>2 DEF ClioInit, Faithful

(* CLIO of the emulator: its registers keep their ranges, and bit 31 is    *)
(* set exactly while the second stage is pending (opera_clio.c:118-246).   *)
THEOREM ClioCorrect == ClioSpec => []ClioInv
  <1> DEFINE SInv == ClioTypeOK /\ ((\A mask \in IrqMasks : Summary \notin mask) => Faithful)
  <1>1. ClioInit => SInv
    BY ClioStart
  <1>2. SInv /\ [ClioNext]_clioVars => SInv'
    BY ClioKeeps
  <1>3. SInv => ClioInv
    BY DEF ClioInv, SummaryFaithful, Faithful
  <1> QED
    BY <1>1, <1>2, <1>3, PTL DEF ClioSpec
-----------------------------------------------------------------------------
(* Timers 0 and 1 as two digits: a pair that is left alone has its flags,  *)
(* and each of the two counts stays at or below its reload value.          *)
PairOn ==
  /\ {<<0, "decrement">>, <<0, "reload">>} \subseteq ctrl
  /\ {<<1, "decrement">>, <<1, "reload">>, <<1, "cascade">>} \subseteq ctrl
  /\ <<0, "cascade">> \notin ctrl
  /\ \A t \in {0, 1} : count[t] <= backup[t] /\ backup[t] < Top

PairInv == chained => PairOn

PairSame == \A t \in {0, 1} : count'[t] = count[t] /\ backup'[t] = backup[t]

Value == IF chained THEN count[1] * (backup[0] + 1) + count[0] ELSE 0
Period == IF chained THEN (backup[1] + 1) * (backup[0] + 1) ELSE 1

(* The next lower number of two digits, which run to b and a.              *)
PairTick ==
  /\ chained /\ chained' /\ backup' = backup
  /\ count'[0] = IF count[0] = 0 THEN backup[0] ELSE count[0] - 1
  /\ count'[1] = IF count[0] # 0 THEN count[1]
                 ELSE IF count[1] = 0 THEN backup[1] ELSE count[1] - 1

LEMMA Products ==
  ASSUME NEW a \in Nat, NEW b \in Nat, NEW d \in 0 .. b, NEW l \in 0 .. a
  PROVE
    /\ (b + 1) * (a + 1) = b * (a + 1) + a + 1
    /\ (b + 1) * (a + 1) \in Nat \ {0}
    /\ d * (a + 1) + l \in 0 .. (b + 1) * (a + 1) - 1
    /\ d * (a + 1) + l = 0 <=> d = 0 /\ l = 0
    /\ d > 0 => (d - 1) * (a + 1) + a = d * (a + 1) - 1
  <1>1. d * (a + 1) = d * a + d /\ b * (a + 1) = b * a + b
    BY Z3
  <1>2. d * a \in Nat /\ b * a \in Nat /\ d * a <= b * a
    BY Z3
  <1>3. (b + 1) * (a + 1) = b * a + b + a + 1
    BY Z3
  <1>4. d > 0 => (d - 1) * (a + 1) = d * (a + 1) - (a + 1)
    BY Z3
  <1>5. d = 0 => d * a = 0
    BY Z3
  <1> QED
    BY <1>1, <1>2, <1>3, <1>4, <1>5

LEMMA PairDigits ==
  ASSUME TimerTypes, PairOn
  PROVE  /\ Top \in Nat
         /\ \A t \in {0, 1} : /\ backup[t] \in Nat /\ backup[t] < Top
                              /\ count[t] \in 0 .. backup[t]
                              /\ Runs(t) /\ Has(t, "reload")
         /\ ~Has(0, "cascade") /\ Has(1, "cascade")
  <1>1. \A t \in {0, 1} : count[t] \in 0 .. Top /\ backup[t] \in 0 .. Top
    BY ClioBits DEF TimerTypes
  <1>2. Top \in Nat
    BY ClioAssumption
  <1>3. \A t \in {0, 1} : count[t] <= backup[t] /\ backup[t] < Top
    BY DEF PairOn
  <1>4. /\ \A t \in {0, 1} : Runs(t) /\ Has(t, "reload")
        /\ ~Has(0, "cascade") /\ Has(1, "cascade")
    BY DEF PairOn, Runs, Has
  <1> QED
    BY <1>1, <1>2, <1>3, <1>4

(* One tick: the upper timer counts when the lower one has wrapped.        *)
LEMMA ServePair ==
  ASSUME TimerTypes, PairOn, chained, NEW wraps \in SUBSET Timers,
         NEW lost \in SUBSET Timers, \A t \in Timers : t \in wraps <=> Wraps(t, wraps),
         Serve(wraps, lost)
  PROVE  PairTick /\ PairOn'
  <1>0. /\ Top \in Nat
        /\ \A t \in {0, 1} : /\ backup[t] \in Nat /\ backup[t] < Top
                             /\ count[t] \in 0 .. backup[t]
                             /\ Runs(t) /\ Has(t, "reload")
        /\ ~Has(0, "cascade") /\ Has(1, "cascade")
    BY PairDigits
  <1>s. /\ \A t \in {0, 1} : count'[t] = IF t \in wraps THEN backup[t] ELSE Decremented(t, wraps)
        /\ backup' = backup /\ chained' = chained
    BY <1>0, ClioBits DEF Serve
  <1>1. Decremented(0, wraps) = IF count[0] = 0 THEN Top ELSE count[0] - 1
    BY <1>0 DEF Decremented, Clocked
  <1>2. 0 \in wraps <=> count[0] = 0
    <2>1. 0 \in wraps <=> Decremented(0, wraps) = Top
      BY <1>0, ClioBits DEF Wraps
    <2> QED
      BY <1>0, <1>1, <2>1
  <1>3. Carry(1, wraps) <=> 0 \in wraps
    <2>1. \A s \in Timers : s < 1 <=> s = 0
      BY ClioBits
    <2>2. \A u \in 0 + 1 .. 1 - 1 : FALSE
      OBVIOUS
    <2>3. Carry(1, wraps) => 0 \in wraps
      BY <1>0, <2>1, <2>2, ClioBits DEF Carry
    <2>4. 0 \in wraps => Carry(1, wraps)
      BY <2>1 DEF Carry
    <2> QED
      BY <2>3, <2>4
  <1>4. Decremented(1, wraps) = IF count[0] # 0 THEN count[1]
                               ELSE IF count[1] = 0 THEN Top ELSE count[1] - 1
    BY <1>0, <1>2, <1>3 DEF Decremented, Clocked
  <1>5. 1 \in wraps <=> count[0] = 0 /\ count[1] = 0
    <2>1. 1 \in wraps <=> Decremented(1, wraps) = Top
      BY <1>0, ClioBits DEF Wraps
    <2> QED
      BY <1>0, <1>4, <2>1
  <1>6. PairTick
    BY <1>0, <1>s, <1>1, <1>2, <1>4, <1>5 DEF PairTick
  <1>7. \A t \in {0, 1} : count'[t] <= backup'[t] /\ backup'[t] < Top
    BY <1>0, <1>6 DEF PairTick
  <1>8. \A t \in {0, 1} : ~Stopped(t, wraps, lost)
    BY <1>0 DEF Stopped
  <1>9. ctrl' = ctrl \ {<<t, "decrement">> : t \in {s \in Timers : Stopped(s, wraps, lost)}}
    BY DEF Serve
  <1>10. \A f \in {"decrement", "reload", "cascade"}, t \in {0, 1} : <<t, f>> \in ctrl' <=> <<t, f>> \in ctrl
    BY <1>8, <1>9
  <1> QED
    BY <1>6, <1>7, <1>10 DEF PairOn

LEMMA ServeKeepsPair ==
  ASSUME TimerTypes, PairInv, NEW wraps \in SUBSET Timers,
         NEW lost \in SUBSET Timers, \A t \in Timers : t \in wraps <=> Wraps(t, wraps),
         Serve(wraps, lost)
  PROVE  PairInv' /\ (PairTick \/ (~chained /\ ~chained'))
  <1>1. chained' = chained
    BY DEF Serve
  <1>2. CASE chained
    <2>1. PairOn
      BY <1>2 DEF PairInv
    <2>2. PairTick /\ PairOn'
      BY <1>2, <2>1, ServePair
    <2> QED
      BY <2>2 DEF PairInv
  <1>3. CASE ~chained
    BY <1>1, <1>3 DEF PairInv
  <1> QED
    BY <1>2, <1>3

(* Whatever else a step does, it leaves the pair alone, or starts or stops *)
(* it.                                                                     *)
LEMMA PokePair ==
  ASSUME TimerTypes, PairInv, ClioPoke
  PROVE  PairInv' /\ (chained /\ chained' => PairSame)
  <1>1. ASSUME UNCHANGED timerVars
        PROVE  PairInv' /\ PairSame
    BY <1>1 DEF timerVars, PairInv, PairOn, PairSame
  <1>2. ASSUME NEW mask \in IrqMasks,
               SetIrq0(mask) \/ ClearIrq0(mask) \/ SetMask0(mask) \/ ClearMask0(mask)
        PROVE  UNCHANGED timerVars
    BY <1>2 DEF SetIrq0, ClearIrq0, SetMask0, ClearMask0, timerVars
  <1>3. ASSUME NEW mask \in Irq1Masks,
               SetIrq1(mask) \/ ClearIrq1(mask) \/ SetMask1(mask) \/ ClearMask1(mask)
        PROVE  UNCHANGED timerVars
    BY <1>3 DEF SetIrq1, ClearIrq1, SetMask1, ClearMask1, timerVars
  <1>f. ASSUME PairFlags(ctrl') = PairFlags(ctrl), PairOn, count' = count, backup' = backup
        PROVE  PairOn'
    <2>1. \A t \in {0, 1}, f \in {"decrement", "reload", "cascade"} :
            <<t, f>> \in ctrl' <=> <<t, f>> \in ctrl
      BY <1>f DEF PairFlags
    <2> QED
      BY <1>f, <2>1 DEF PairOn
  <1>4. ASSUME NEW mask \in CtrlMasks, SetFlags(mask)
        PROVE  PairInv' /\ PairSame
    <2>1. count' = count /\ backup' = backup
      BY <1>4 DEF SetFlags
    <2>2. CASE chained
      BY <1>4, <1>f, <2>1, <2>2 DEF SetFlags, PairInv, PairSame
    <2>3. CASE ~chained
      BY <1>4, <2>1, <2>3 DEF SetFlags, PairInv, PairOn, PairStarted, PairSame
    <2> QED
      BY <2>2, <2>3
  <1>5. ASSUME NEW mask \in CtrlMasks, ClearFlags(mask)
        PROVE  PairInv' /\ PairSame
    BY <1>5, <1>f DEF ClearFlags, PairInv, PairSame
  <1>6. ASSUME NEW t \in Timers, NEW v \in Counts, WriteCount(t, v) \/ WriteBackup(t, v)
        PROVE  PairInv' /\ (chained /\ chained' => PairSame)
    <2>1. chained' => chained /\ PairSame /\ ctrl' = ctrl
      BY <1>6, ClioBits DEF WriteCount, WriteBackup, TimerTypes, PairSame
    <2> QED
      BY <2>1 DEF PairInv, PairOn, PairSame
  <1> QED
    BY <1>1, <1>2, <1>3, <1>4, <1>5, <1>6 DEF ClioPoke

LEMMA ClioPairStep ==
  ASSUME TimerTypes, PairInv, [ClioNext]_clioVars
  PROVE  /\ PairInv'
         /\ \/ PairTick
            \/ chained /\ chained' => PairSame
  <1>1. CASE ClioPoke
    BY <1>1, PokePair
  <1>2. CASE ClioReset
    BY <1>2 DEF ClioReset, PairInv
  <1>3. CASE DmaDone \/ UNCHANGED clioVars
    BY <1>3 DEF DmaDone, clioVars, timerVars, PairInv, PairOn, PairSame
  <1>4. CASE TimerExecute
    <2>1. PICK wraps \in SUBSET Timers, lost \in SUBSET Timers :
            /\ \A t \in Timers : t \in wraps <=> Wraps(t, wraps)
            /\ Serve(wraps, lost)
      BY <1>4 DEF TimerExecute
    <2> QED
      BY <2>1, ServeKeepsPair
  <1> QED
    BY <1>1, <1>2, <1>3, <1>4 DEF ClioNext

(* The same step, seen as a step of the wide counter.                      *)
LEMMA WideStep ==
  ASSUME TimerTypes, PairInv, TimerTypes', PairInv',
         PairTick \/ (chained /\ chained' => PairSame)
  PROVE  [Pair!Next]_Pair!vars
  <1> DEFINE a == backup[0]
             b == backup[1]
             d == count[1]
             l == count[0]
  <1>c. chained \in BOOLEAN /\ chained' \in BOOLEAN
    BY DEF TimerTypes
  <1>1. CASE PairTick
    <2>0. a \in Nat /\ b \in Nat /\ d \in 0 .. b /\ l \in 0 .. a
      BY <1>1, PairDigits DEF PairTick, PairInv
    <2>1. /\ Value = d * (a + 1) + l /\ Period = (b + 1) * (a + 1)
          /\ Period' = Period
          /\ Value' = (count'[1]) * (a + 1) + count'[0]
      BY <1>1 DEF PairTick, Value, Period
    <2>2. /\ count'[0] = IF l = 0 THEN a ELSE l - 1
          /\ count'[1] = IF l # 0 THEN d ELSE IF d = 0 THEN b ELSE d - 1
      BY <1>1 DEF PairTick
    <2> HIDE DEF a, b, d, l
    <2>3. Value' = IF Value = 0 THEN Period - 1 ELSE Value - 1
      <3> DEFINE D == d * (a + 1)
                 B == b * (a + 1)
                 P == (b + 1) * (a + 1)
      <3>1. /\ P = B + a + 1 /\ (D + l = 0 <=> d = 0 /\ l = 0)
            /\ D + l \in 0 .. P - 1
            /\ (d > 0 => (d - 1) * (a + 1) + a = D - 1)
        BY <2>0, Products
      <3>2. D \in Int /\ B \in Int /\ P \in Int
        BY <2>0
      <3>3. CASE l # 0
        <4>1. Value' = D + (l - 1) /\ Value = D + l
          BY <2>1, <2>2, <3>3
        <4> HIDE DEF D, B, P
        <4> QED
          BY <2>0, <3>1, <3>2, <3>3, <4>1
      <3>4. CASE l = 0 /\ d = 0
        <4>1. Value' = B + a /\ Value = D + l /\ Period = P
          BY <2>1, <2>2, <3>4
        <4> HIDE DEF D, B, P
        <4> QED
          BY <2>0, <3>1, <3>2, <3>4, <4>1
      <3>5. CASE l = 0 /\ d # 0
        <4>1. Value' = (d - 1) * (a + 1) + a /\ Value = D + l
          BY <2>1, <2>2, <3>5
        <4> HIDE DEF D, B, P
        <4> QED
          BY <2>0, <3>1, <3>2, <3>5, <4>1
      <3> QED
        BY <3>3, <3>4, <3>5
    <2>4. Pair!Tick
      BY <1>1, <2>1, <2>3 DEF Pair!Tick, PairTick, Value, Period
    <2> QED
      BY <2>4 DEF Pair!Next
  <1>2. CASE chained /\ chained' /\ PairSame
    BY <1>2 DEF Pair!vars, PairSame
  <1>3. CASE ~chained /\ chained'
    <2>0. /\ backup'[0] \in Nat /\ backup'[1] \in Nat
          /\ count'[0] \in 0 .. backup'[0] /\ count'[1] \in 0 .. backup'[1]
      <3>1. PairOn'
        BY <1>3 DEF PairInv
      <3>2. \A t \in {0, 1} : count'[t] \in 0 .. Top /\ backup'[t] \in 0 .. Top
        BY ClioBits DEF TimerTypes
      <3>3. \A t \in {0, 1} : count'[t] <= backup'[t]
        BY <3>1 DEF PairOn
      <3> QED
        BY <3>2, <3>3, ClioAssumption
    <2>1. /\ Period' \in Nat \ {0} /\ Value' \in 0 .. Period' - 1
      <3>1. /\ Value' = count'[1] * (backup'[0] + 1) + count'[0]
            /\ Period' = (backup'[1] + 1) * (backup'[0] + 1)
        BY <1>3 DEF Value, Period
      <3> QED
        BY <2>0, <3>1, Products
    <2>2. Pair!Start
      BY <1>3, <2>1 DEF Pair!Start, Value, Period
    <2> QED
      BY <2>2 DEF Pair!Next
  <1>4. CASE chained /\ ~chained'
    BY <1>4 DEF Pair!Stop, Pair!Next
  <1>5. CASE ~chained /\ ~chained'
    BY <1>5, <1>c DEF Pair!vars
  <1> QED
    BY <1>c, <1>1, <1>2, <1>3, <1>4, <1>5

(* A cascaded pair with reload is one counter: the emulator's timer loop   *)
(* neither loses nor doubles a carry (opera_clio.c:566-613).               *)
THEOREM PairCorrect == ClioSpec => PairSpec
  <1> DEFINE PInv == ClioTypeOK /\ TimerTypes /\ PairInv
  <1>1. ClioInit => PInv /\ Pair!Init
    BY ClioStart, TypesSplit DEF ClioInit, PairInv, Pair!Init
  <1>2. PInv /\ [ClioNext]_clioVars => PInv'
    BY ClioKeeps, ClioPairStep, TypesSplit
  <1>3. PInv /\ PInv' /\ [ClioNext]_clioVars => [Pair!Next]_Pair!vars
    BY ClioPairStep, WideStep
  <1> HIDE DEF PInv
  <1> QED
    BY <1>1, <1>2, <1>3, PTL DEF ClioSpec, PairSpec, Pair!Spec
-----------------------------------------------------------------------------
(* The frame loop: what it needs of its constants.                         *)
LEMMA Periods ==
  /\ Slice \in Nat \ {0} /\ MaxPush \in Nat \ {0}
  /\ PerLine \in Nat \ {0} /\ PerSample \in Nat \ {0} /\ AccMax \in Nat
  /\ MaxPush <= PerLine /\ MaxPush <= PerSample
  /\ PerLine + MaxPush <= AccMax /\ PerSample + MaxPush <= AccMax
  BY FrameAssumption DEF MaxPush

LEMMA LongestPeriod ==
  /\ Longest \in Nat \ {0} /\ Longest + MaxPush <= AccMax
  /\ \A d \in Delays : PerTimer[d] \in Nat \ {0} /\ PerTimer[d] <= Longest
  <1> DEFINE S == {PerTimer[d] : d \in Delays}
  <1>1. \E p \in S : \A d \in Delays : PerTimer[d] <= p
    BY FrameAssumption
  <1>2. Longest \in S /\ \A d \in Delays : PerTimer[d] <= Longest
    BY <1>1 DEF Longest
  <1> QED
    BY <1>2, FrameAssumption

(* A clock that is pushed no more than its period stays below it, and one  *)
(* that is below a longer period stays below that.                         *)
LEMMA PushTake ==
  ASSUME NEW top \in Nat, NEW acc \in 0 .. top - 1, NEW n \in 0 .. MaxPush,
         NEW period \in Nat, MaxPush <= period, period <= top,
         top + MaxPush <= AccMax
  PROVE  /\ Push(acc, n) = acc + n
         /\ Take(Push(acc, n), period) \in 0 .. top - 1
         /\ Take(acc, period) \in 0 .. top - 1
  BY Periods DEF Push, Wrap, Take, Queued

(* How many lines end before the one of vint0 does.                        *)
Before == IF line <= vint0 THEN vint0 - line ELSE vint0 - line + Scanlines

(* What VintInTime needs: the lines since the last interrupt and those     *)
(* before the next are less than a field together.                         *)
WaitInv == vint0 < Scanlines => waited + Before < Scanlines

LoopTypes ==
  /\ timer_acc \in -(AccMax + 1) .. AccMax /\ timer_delay \in Delays
  /\ cnt \in 0 .. Slice - 1 /\ line \in 0 .. Scanlines - 1 /\ field \in {0, 1}
  /\ vint0 \in Nat /\ vint1 \in Nat
  /\ hurried \in BOOLEAN /\ waited \in 0 .. Scanlines
  /\ (~hurried => PerTimer[timer_delay] >= MaxPush)

FrameInv == ClioTypeOK /\ LoopTypes /\ NoBacklog /\ TimerInTime /\ WaitInv

LEMMA InvFromFrame == FrameInv => Inv /\ VintInTime
  <1> SUFFICES ASSUME FrameInv PROVE Inv /\ VintInTime
    OBVIOUS
  <1>1. TypeOK
    BY Periods DEF FrameInv, LoopTypes, TypeOK, NoBacklog
  <1>2. VintInTime
    <2>1. vint0 < Scanlines => Before >= 0
      BY FrameAssumption DEF FrameInv, LoopTypes, Before
    <2>2. Before \in Int /\ waited \in Int /\ Scanlines \in Int
      BY FrameAssumption DEF FrameInv, LoopTypes, Before
    <2> HIDE DEF Before
    <2> QED
      BY <2>1, <2>2 DEF FrameInv, WaitInv, VintInTime
  <1> QED
    BY <1>1, <1>2 DEF Inv, FrameInv

LEMMA FrameStart ==
  ASSUME FrameInit
  PROVE  FrameInv
  <1>1. ClioTypeOK
    BY ClioStart DEF FrameInit
  <1>2. LoopTypes
    <2>1. ResetDelay \in Delays /\ PerTimer[ResetDelay] >= MaxPush /\ Scanlines \in Nat \ {0}
      BY FrameAssumption
    <2>2. hurried \in BOOLEAN /\ timer_delay = ResetDelay
      BY DEF FrameInit
    <2>3. /\ timer_acc \in -(AccMax + 1) .. AccMax /\ cnt \in 0 .. Slice - 1
          /\ line \in 0 .. Scanlines - 1 /\ field \in {0, 1} /\ waited \in 0 .. Scanlines
          /\ vint0 \in Nat /\ vint1 \in Nat
      BY <2>1, Periods DEF FrameInit
    <2> QED
      BY <2>1, <2>2, <2>3 DEF LoopTypes
  <1>b. NoBacklog
    BY Periods DEF FrameInit, NoBacklog
  <1>3. TimerInTime
    BY LongestPeriod DEF FrameInit, TimerInTime
  <1>4. WaitInv
    BY FrameAssumption DEF FrameInit, WaitInv, Before
  <1> QED
    BY <1>1, <1>2, <1>b, <1>3, <1>4 DEF FrameInv

(* What one instruction does to the wait for the next video interrupt.     *)
LEMMA LineStep ==
  ASSUME LoopTypes, WaitInv, NEW scan \in BOOLEAN, NextLine(scan), vint0' = vint0,
         NEW raised \in SUBSET {0, 1}, 0 \in raised <=> scan /\ line = vint0,
         waited' = IF ~scan THEN waited ELSE IF 0 \in raised THEN 0
                   ELSE IF waited < Scanlines THEN waited + 1 ELSE waited
  PROVE  /\ line' \in 0 .. Scanlines - 1 /\ field' \in {0, 1}
         /\ waited' \in 0 .. Scanlines
         /\ WaitInv'
  <1>1. /\ line \in 0 .. Scanlines - 1 /\ field \in {0, 1} /\ vint0 \in Nat
        /\ waited \in 0 .. Scanlines /\ Scanlines \in Nat \ {0}
    BY FrameAssumption DEF LoopTypes
  <1>2. line' \in 0 .. Scanlines - 1 /\ field' \in {0, 1}
    BY <1>1 DEF NextLine
  <1>3. waited' \in 0 .. Scanlines
    BY <1>1
  <1>4. WaitInv'
    <2>1. CASE ~scan
      BY <1>1, <2>1 DEF NextLine, WaitInv, Before
    <2>2. CASE scan /\ line = vint0
      BY <1>1, <2>2 DEF NextLine, WaitInv, Before
    <2>3. CASE scan /\ line # vint0
      <3>1. line' = IF line + 1 = Scanlines THEN 0 ELSE line + 1
        BY <2>3 DEF NextLine
      <3>2. waited' <= waited + 1
        BY <1>1, <2>3
      <3>3. vint0 < Scanlines => Before' = Before - 1
        BY <1>1, <2>3, <3>1 DEF Before
      <3>4. Before \in Int
        BY <1>1 DEF Before
      <3> HIDE DEF Before
      <3> QED
        BY <1>1, <1>3, <3>2, <3>3, <3>4 DEF WaitInv
    <2> QED
      BY <2>1, <2>2, <2>3
  <1> QED
    BY <1>2, <1>3, <1>4

LEMMA EventsKeep ==
  ASSUME ClioTypeOK, NEW timer, NEW scan \in BOOLEAN, Events(timer, scan)
  PROVE  /\ ClioTypeOK'
         /\ \E raised \in SUBSET {0, 1} :
              /\ 0 \in raised <=> scan /\ line = vint0
              /\ waited' = IF ~scan THEN waited ELSE IF 0 \in raised THEN 0
                           ELSE IF waited < Scanlines THEN waited + 1 ELSE waited
  <1> DEFINE raised == {b \in {0, 1} : scan /\ line = (IF b = 0 THEN vint0 ELSE vint1)}
  <1>0. raised \in SUBSET {0, 1} /\ (0 \in raised <=> scan /\ line = vint0)
    OBVIOUS
  <1>1. waited' = IF ~scan THEN waited ELSE IF 0 \in raised THEN 0
                  ELSE IF waited < Scanlines THEN waited + 1 ELSE waited
    BY DEF Events
  <1>2. CASE timer
    <2>1. PICK wraps \in SUBSET Timers, lost \in SUBSET Timers :
            /\ Serve(wraps, lost)
            /\ FiqGenerate({TimerBit(t) : t \in {s \in wraps : s % 2 = 1}} \union raised, {})
      BY <1>2 DEF Events
    <2> HIDE DEF raised
    <2>2. ClioTypeOK'
      BY <2>1, <1>0, TickKeeps
    <2> QED
      BY <1>0, <1>1, <2>2
  <1>3. CASE ~timer
    <2>1. FiqGenerate(raised, {}) /\ UNCHANGED timerVars
      BY <1>3 DEF Events
    <2> HIDE DEF raised
    <2>2. raised \subseteq Nat /\ {} \subseteq Nat
      BY <1>0
    <2>3. IrqTypes => IrqTypes'
      BY <2>1, <2>2, GenerateKeeps
    <2>4. TimerTypes => TimerTypes'
      BY <2>1 DEF timerVars, TimerTypes
    <2> QED
      BY <1>0, <1>1, <2>3, <2>4, TypesSplit
  <1> QED
    BY <1>2, <1>3

LEMMA ExecuteKeeps ==
  ASSUME FrameInv, NEW c \in Cycles, Execute(c)
  PROVE  FrameInv'
  <1> DEFINE sum == cnt + c
             act == sum >= Slice
             timer == act /\ Queued(Push(timer_acc, sum), PerTimer[timer_delay])
             scan == act /\ Queued(Push(vdl_acc, sum), PerLine)
  <1>0. /\ cnt \in 0 .. Slice - 1 /\ c \in 1 .. Slice /\ Slice \in Nat
        /\ sum \in 0 .. MaxPush /\ act \in BOOLEAN /\ scan \in BOOLEAN
    BY FrameAssumption, Periods DEF FrameInv, LoopTypes, MaxPush
  <1>1. /\ cnt' = IF act THEN sum - Slice ELSE sum
        /\ timer_acc' = IF act THEN Take(Push(timer_acc, sum), PerTimer[timer_delay])
                               ELSE timer_acc
        /\ vdl_acc' = IF act THEN Take(Push(vdl_acc, sum), PerLine) ELSE vdl_acc
        /\ dsp_acc' = Take(IF act THEN Push(dsp_acc, sum) ELSE dsp_acc, PerSample)
        /\ Events(timer, scan) /\ NextLine(scan)
        /\ timer_delay' = timer_delay /\ vint0' = vint0 /\ vint1' = vint1
        /\ hurried' = hurried
    BY DEF Execute
  <1>2. cnt' \in 0 .. Slice - 1
    BY <1>0, <1>1, FrameAssumption
  <1> HIDE DEF sum, act, timer, scan
  <1>3. vdl_acc' \in 0 .. PerLine - 1
    <2>1. vdl_acc \in 0 .. PerLine - 1
      BY DEF FrameInv, NoBacklog
    <2>2. Take(Push(vdl_acc, sum), PerLine) \in 0 .. PerLine - 1
      BY <2>1, <1>0, Periods, PushTake
    <2> QED
      BY <1>1, <2>1, <2>2
  <1>4. dsp_acc' \in 0 .. PerSample - 1
    <2>1. dsp_acc \in 0 .. PerSample - 1
      BY DEF FrameInv, NoBacklog
    <2>2. Take(Push(dsp_acc, sum), PerSample) \in 0 .. PerSample - 1
      BY <2>1, <1>0, Periods, PushTake
    <2>3. 0 \in 0 .. MaxPush
      BY Periods
    <2>4. Take(dsp_acc, PerSample) \in 0 .. PerSample - 1
      BY <2>1, <2>3, Periods, PushTake
    <2> QED
      BY <1>1, <2>2, <2>4
  <1>5. timer_acc' \in -(AccMax + 1) .. AccMax /\ (~hurried => timer_acc' \in 0 .. Longest - 1)
    <2>1. /\ timer_acc \in -(AccMax + 1) .. AccMax /\ timer_delay \in Delays
          /\ (~hurried => /\ timer_acc \in 0 .. Longest - 1
                          /\ PerTimer[timer_delay] >= MaxPush)
      BY DEF FrameInv, LoopTypes, TimerInTime
    <2>2. PerTimer[timer_delay] \in Nat \ {0} /\ PerTimer[timer_delay] <= Longest
          /\ PerTimer[timer_delay] <= AccMax
      BY <2>1, LongestPeriod, Periods
    <2>3. ASSUME ~hurried
          PROVE  Take(Push(timer_acc, sum), PerTimer[timer_delay]) \in 0 .. Longest - 1
      BY <2>1, <2>2, <2>3, <1>0, LongestPeriod, PushTake
    <2>4. Push(timer_acc, sum) \in -(AccMax + 1) .. AccMax
      BY <2>1, <1>0, Periods, LongestPeriod DEF Push, Wrap
    <2>5. Take(Push(timer_acc, sum), PerTimer[timer_delay]) \in -(AccMax + 1) .. AccMax
      BY <2>2, <2>4, Periods DEF Take, Queued
    <2> QED
      BY <1>1, <2>1, <2>3, <2>5
  <1>6. ClioTypeOK /\ LoopTypes /\ WaitInv
    BY DEF FrameInv
  <1>7. PICK raised \in SUBSET {0, 1} :
          /\ 0 \in raised <=> scan /\ line = vint0
          /\ waited' = IF ~scan THEN waited ELSE IF 0 \in raised THEN 0
                       ELSE IF waited < Scanlines THEN waited + 1 ELSE waited
    BY <1>0, <1>1, <1>6, EventsKeep
  <1>8. /\ line' \in 0 .. Scanlines - 1 /\ field' \in {0, 1}
        /\ waited' \in 0 .. Scanlines /\ WaitInv'
    BY <1>0, <1>1, <1>6, <1>7, LineStep
  <1>9. ClioTypeOK'
    BY <1>0, <1>1, <1>6, EventsKeep
  <1>10. LoopTypes'
    BY <1>1, <1>2, <1>5, <1>6, <1>8 DEF LoopTypes
  <1>11. TimerInTime'
    BY <1>1, <1>5, LongestPeriod DEF TimerInTime, Longest
  <1> QED
    BY <1>3, <1>4, <1>8, <1>9, <1>10, <1>11 DEF FrameInv, NoBacklog

LEMMA PokeFrame ==
  ASSUME FrameInv, Poke
  PROVE  FrameInv'
  <1>1. CASE (ClioPoke \/ DmaDone) /\ UNCHANGED <<clockVars, loopVars>>
    <2>1. ClioTypeOK'
      BY <1>1, PokeKeeps, DmaKeeps DEF FrameInv
    <2> QED
      BY <1>1, <2>1 DEF FrameInv, LoopTypes, NoBacklog, TimerInTime, WaitInv, Before,
                        clockVars, loopVars
  <1>c. UNCHANGED clioVars => ClioTypeOK'
    BY DEF FrameInv, ClioTypeOK, clioVars, irqVars, timerVars
  <1>2. ASSUME NEW d \in Delays, SetDelay(d)
        PROVE  FrameInv'
    <2>1. PerTimer[d] \in Nat /\ MaxPush \in Nat
      BY FrameAssumption, Periods
    <2>2. LoopTypes'
      <3>1. /\ timer_delay' = d /\ hurried' = (hurried \/ PerTimer[d] < MaxPush)
            /\ UNCHANGED <<timer_acc, cnt, line, field, vint0, vint1, waited>>
        BY <1>2 DEF SetDelay
      <3>2. hurried' \in BOOLEAN
        BY <3>1
      <3>3. ~hurried' => ~(PerTimer[d] < MaxPush)
        BY <3>1
      <3>4. ~(PerTimer[d] < MaxPush) => PerTimer[d] >= MaxPush
        BY <2>1
      <3> QED
        BY <3>1, <3>2, <3>3, <3>4 DEF FrameInv, LoopTypes
    <2>3. TimerInTime'
      BY <1>2 DEF SetDelay, FrameInv, LoopTypes, TimerInTime
    <2> QED
      BY <1>2, <1>c, <2>2, <2>3 DEF SetDelay, FrameInv, NoBacklog, WaitInv, Before
  <1>3. ASSUME NEW n \in VintLines, SetVint0(n)
        PROVE  FrameInv'
    <2>1. n \in Nat
      BY FrameAssumption
    <2>2. LoopTypes' /\ NoBacklog' /\ TimerInTime'
      BY <1>3, <2>1, FrameAssumption
         DEF SetVint0, FrameInv, LoopTypes, NoBacklog, TimerInTime, clockVars
    <2>3. WaitInv'
      <3>1. line \in 0 .. Scanlines - 1 /\ Scanlines \in Nat \ {0}
        BY FrameAssumption DEF FrameInv, LoopTypes
      <3>2. vint0' = n /\ waited' = 0 /\ line' = line
        BY <1>3 DEF SetVint0
      <3> QED
        BY <2>1, <3>1, <3>2 DEF WaitInv, Before
    <2> QED
      BY <1>3, <1>c, <2>2, <2>3 DEF SetVint0, FrameInv
  <1>4. ASSUME NEW n \in VintLines, SetVint1(n)
        PROVE  FrameInv'
    <2>1. n \in Nat
      BY FrameAssumption
    <2> QED
      BY <1>4, <1>c, <2>1 DEF SetVint1, FrameInv, LoopTypes, NoBacklog, TimerInTime,
                             WaitInv, Before, clockVars
  <1> QED
    BY <1>1, <1>2, <1>3, <1>4 DEF Poke

LEMMA ResetFrame ==
  ASSUME FrameInv, Reset
  PROVE  FrameInv'
  <1>1. ClioTypeOK'
    BY ClioKeeps DEF Reset, ClioNext, FrameInv
  <1>2. LoopTypes'
    <2>1. ResetDelay \in Delays /\ PerTimer[ResetDelay] >= MaxPush /\ Scanlines \in Nat \ {0}
      BY FrameAssumption
    <2>2. hurried' \in BOOLEAN /\ timer_delay' = ResetDelay
      BY DEF Reset
    <2>3. timer_acc' = 0 /\ waited' = 0 /\ vint0' = 0 /\ vint1' = 0
      BY DEF Reset
    <2>4. cnt' = cnt /\ line' = line /\ field' = field
      BY DEF Reset
    <2>5. /\ cnt \in 0 .. Slice - 1 /\ line \in 0 .. Scanlines - 1
          /\ field \in {0, 1}
      BY DEF FrameInv, LoopTypes
    <2>6. 0 \in -(AccMax + 1) .. AccMax /\ 0 \in 0 .. Scanlines /\ 0 \in Nat
      BY <2>1, Periods
    <2> QED
      BY <2>1, <2>2, <2>3, <2>4, <2>5, <2>6 DEF LoopTypes
  <1>3. NoBacklog'
    BY Periods DEF Reset, NoBacklog
  <1>4. TimerInTime'
    BY LongestPeriod DEF Reset, TimerInTime
  <1>5. WaitInv'
    <2>1. line \in 0 .. Scanlines - 1 /\ Scanlines \in Nat \ {0}
      BY FrameAssumption DEF FrameInv, LoopTypes
    <2>2. vint0' = 0 /\ waited' = 0 /\ line' = line
      BY DEF Reset
    <2> QED
      BY <2>1, <2>2 DEF WaitInv, Before
  <1> QED
    BY <1>1, <1>2, <1>3, <1>4, <1>5 DEF FrameInv

LEMMA FrameStep ==
  ASSUME FrameInv, [Next]_vars
  PROVE  FrameInv'
  <1>1. CASE Run
    BY <1>1, ExecuteKeeps DEF Run
  <1>2. CASE Poke
    BY <1>2, PokeFrame
  <1>3. CASE UNCHANGED vars
    BY <1>3 DEF vars, clioVars, irqVars, timerVars, clockVars, loopVars, FrameInv,
                ClioTypeOK, LoopTypes, NoBacklog, TimerInTime, WaitInv, Before
  <1>4. CASE Reset
    BY <1>4, ResetFrame
  <1> QED
    BY <1>1, <1>2, <1>3, <1>4 DEF Next

LEMMA FrameInvariant == Spec => []FrameInv
  BY FrameStart, FrameStep, PTL DEF Spec

(* Between two instructions no line, sample or timer tick is overdue,      *)
(* though the loop takes one of each for a push (opera_3do.c:155-209).     *)
THEOREM LoopCorrect == Spec => []Inv
  BY FrameInvariant, InvFromFrame, PTL

(* A video interrupt that the CPU leaves alone comes in every field        *)
(* (opera_3do.c:123-153).                                                  *)
THEOREM VintCorrect == Spec => []VintInTime
  BY FrameInvariant, InvFromFrame, PTL

=============================================================================
