-------------------------- MODULE MadamBus_proofs --------------------------
(* Proofs about MadamBus, for every set of CCB addresses, FLAGS words and  *)
(* CPU targets.                                                            *)
EXTENDS MadamBus, TLAPS

(* The engine requests the bus from its start to its release, and holds it *)
(* whenever it is past its fetch.                                          *)
EngineInv ==
  /\ cel_dma_req <=> state # Idle
  /\ state \in {Release, CCBDONE} => dma_ack
  /\ state = Release => fetch_idx = CCBDONE + 1
  /\ state = Fetch => fetch_idx <= CCBDONE

(* dma_addr is at the place of the word that fetch_idx names, ...          *)
PlaceInv ==
  state = Fetch =>
    /\ fetch_idx = FLAGS => dma_addr = base
    /\ fetch_idx > FLAGS => dma_addr = base + Offset(fetch_idx, flags)
    /\ fetch_idx \in HDX + 1 .. HDDX - 1 => "LDSIZE" \in flags
    /\ fetch_idx \in HDDX + 1 .. PIXC - 1 => "LDPRS" \in flags

(* ... and a field before it was loaded from its own place, or else from a *)
(* register.                                                               *)
LoadedInv ==
  /\ state \in {Fetch, Release}
  /\ watch < fetch_idx /\ Loaded(watch, flags)
  => word = IF foreign THEN RegWord ELSE base + Offset(watch, flags)

IInv == TypeOK /\ GrantExclusive /\ EngineInv /\ PlaceInv /\ LoadedInv

USE DEF Idle, Fetch, Release, FLAGS, SOURCEPTR, YPOS, HDX, HDDX, PIXC, PRE1,
        CCBDONE, Fields, NoWord, RegWord

LEMMA InitIInv == Init => IInv
<1> SUFFICES ASSUME Init PROVE IInv
  OBVIOUS
<1>1. watch \in Fields /\ word \in Nat \union {NoWord, RegWord}
  BY DEF Init
<1>2. adr \in Targets /\ flags \subseteq FlagBits
  BY DEF Init, Targets
<1>3. /\ stb \in BOOLEAN /\ we \in BOOLEAN
      /\ cpu_ack \in BOOLEAN /\ dma_ack \in BOOLEAN
      /\ cel_dma_req \in BOOLEAN /\ dma_rd \in BOOLEAN /\ foreign \in BOOLEAN
  BY DEF Init
<1>4. /\ state \in {Idle, Fetch, Release, CCBDONE}
      /\ fetch_idx \in 0 .. CCBDONE + 1
      /\ dma_addr \in Nat /\ nextccb \in Nat /\ base \in Nat
  BY DEF Init
<1>5. TypeOK
  BY <1>1, <1>2, <1>3, <1>4 DEF TypeOK
<1> QED
  BY <1>5 DEF Init, IInv, GrantExclusive, EngineInv, PlaceInv, LoadedInv

(* The two grants, whatever the engine does in the clock.                  *)
LEMMA ArbiterExclusive ==
  ASSUME TypeOK, Arbiter
  PROVE  GrantExclusive' /\ cpu_ack' \in BOOLEAN /\ dma_ack' \in BOOLEAN
  BY DEF TypeOK, Arbiter, GrantExclusive

(* An engine that holds the bus keeps it while it requests it.             *)
LEMMA ArbiterHolds ==
  ASSUME TypeOK, Arbiter, cel_dma_req, dma_ack
  PROVE  dma_ack'
  BY DEF TypeOK, Arbiter

LEMMA PinsTyped ==
  ASSUME TypeOK, Clock
  PROVE  /\ stb' \in BOOLEAN /\ we' \in BOOLEAN /\ adr' \in Targets
         /\ nextccb' \in Nat
         /\ NextCcbReg \in Nat
<1>1. NextCcbReg \in Nat
  BY DEF TypeOK, NextCcbReg
<1>2. nextccb' \in Nat
  BY <1>1, MadamBusAssumption DEF Clock, NextCcbWrite
<1>3. stb' \in BOOLEAN /\ we' \in BOOLEAN /\ adr' \in Targets
  BY MadamBusAssumption DEF TypeOK, Clock, CpuPins
<1> QED
  BY <1>1, <1>2, <1>3

LEMMA TypeStep == ASSUME IInv, Clock PROVE TypeOK'
<1> USE DEF IInv, EngineInv
<1>1. /\ stb' \in BOOLEAN /\ we' \in BOOLEAN /\ adr' \in Targets
      /\ cpu_ack' \in BOOLEAN /\ dma_ack' \in BOOLEAN /\ nextccb' \in Nat
      /\ NextCcbReg \in Nat
  BY PinsTyped, ArbiterExclusive DEF Clock
<1>2. cel_dma_req' \in BOOLEAN /\ dma_rd' \in BOOLEAN /\ foreign' \in BOOLEAN
  BY DEF TypeOK, Clock, CelEngine, CelIdle, CelStart, CelWait, FetchFlags,
         FetchWord, SkipGroup, FetchDone, CelRelease, CelNoState, Load, engine,
         history
<1>3. /\ state' \in {Idle, Fetch, Release, CCBDONE}
      /\ fetch_idx' \in 0 .. CCBDONE + 1
      /\ dma_addr' \in Nat /\ base' \in Nat
  <2> USE DEF TypeOK
  <2>1. CASE CelIdle \/ CelWait \/ CelNoState
    BY <2>1 DEF CelIdle, CelWait, CelNoState, engine, history
  <2>2. CASE CelStart
    BY <2>2, <1>1 DEF CelStart
  <2>3. CASE FetchFlags
    BY <2>3 DEF FetchFlags, Load, NextWord, history
  <2>4. CASE FetchWord
    BY <2>4 DEF FetchWord, Load, NextWord, history
  <2>5. CASE SkipGroup
    BY <2>5 DEF SkipGroup, GroupAbsent, history
  <2>6. CASE FetchDone
    BY <2>6, MadamBusAssumption DEF FetchDone, history
  <2>7. CASE CelRelease
    BY <2>7 DEF CelRelease, history
  <2> QED
    BY <2>1, <2>2, <2>3, <2>4, <2>5, <2>6, <2>7 DEF Clock, CelEngine
<1>4. flags' \subseteq FlagBits
  BY MadamBusAssumption
  DEF TypeOK, Clock, CelEngine, CelIdle, CelStart, CelWait, FetchFlags,
      FetchWord, SkipGroup, FetchDone, CelRelease, CelNoState, engine
<1>5. watch' \in Fields /\ word' \in Nat \union {NoWord, RegWord}
  <2>1. CASE FetchFlags \/ FetchWord
    BY <2>1 DEF TypeOK, FetchFlags, FetchWord, Load, MemDin, history
  <2>2. CASE ~(FetchFlags \/ FetchWord)
    BY <2>2 DEF TypeOK, Clock, CelEngine, CelIdle, CelStart, CelWait, SkipGroup,
                FetchDone, CelRelease, CelNoState, history
  <2> QED
    BY <2>1, <2>2
<1> QED
  BY <1>1, <1>2, <1>3, <1>4, <1>5 DEF TypeOK

LEMMA EngineStep == ASSUME IInv, Clock PROVE EngineInv'
<1> USE DEF IInv, TypeOK, EngineInv
<1>1. cel_dma_req /\ dma_ack => dma_ack'
  BY ArbiterHolds DEF Clock
<1>2. CASE CelIdle \/ CelWait \/ CelNoState
  BY <1>1, <1>2 DEF CelIdle, CelWait, CelNoState, engine
<1>3. CASE CelStart
  BY <1>3 DEF CelStart
<1>4. CASE FetchFlags
  BY <1>1, <1>4 DEF FetchFlags, NextWord
<1>5. CASE FetchWord
  BY <1>1, <1>5 DEF FetchWord, NextWord
<1>6. CASE SkipGroup
  BY <1>1, <1>6 DEF SkipGroup, GroupAbsent
<1>7. CASE FetchDone
  BY <1>1, <1>7 DEF FetchDone
<1>8. CASE CelRelease
  BY <1>8 DEF CelRelease
<1> QED
  BY <1>2, <1>3, <1>4, <1>5, <1>6, <1>7, <1>8 DEF Clock, CelEngine

LEMMA PlaceStep == ASSUME IInv, Clock PROVE PlaceInv'
<1> USE DEF IInv, TypeOK, EngineInv, PlaceInv
<1>1. CASE CelIdle \/ CelWait \/ CelNoState
  BY <1>1 DEF CelIdle, CelWait, CelNoState, engine, history, Offset
<1>2. CASE CelStart
  BY <1>2 DEF CelStart
<1>3. CASE FetchFlags
  BY <1>3 DEF FetchFlags, Load, NextWord, Offset
<1>4. CASE FetchWord
  <2>1. base' = base /\ flags' = flags /\ state' = Fetch
    BY <1>4 DEF FetchWord, Load, history
  <2>2. fetch_idx' = fetch_idx + 1 /\ dma_addr' = dma_addr + 1
    BY <1>4 DEF FetchWord, NextWord
  <2>3. /\ fetch_idx = HDX => "LDSIZE" \in flags
        /\ fetch_idx = HDDX => "LDPRS" \in flags
        /\ fetch_idx \in 1 .. 14
    BY <1>4 DEF FetchWord, GroupAbsent
  <2>4. dma_addr = base + Offset(fetch_idx, flags)
    BY <1>4, <2>3 DEF FetchWord
  <2>5. Offset(fetch_idx + 1, flags) = Offset(fetch_idx, flags) + 1
    BY <1>4, <2>3 DEF FetchWord, Offset
  <2>6. Offset(fetch_idx, flags)' = Offset(fetch_idx + 1, flags)
    BY <2>1, <2>2 DEF Offset
  <2>7. Offset(fetch_idx, flags) \in Int
    BY DEF Offset
  <2>8. dma_addr' = base' + Offset(fetch_idx, flags)'
    BY <2>1, <2>2, <2>4, <2>5, <2>6, <2>7
  <2>9. /\ fetch_idx' \in HDX + 1 .. HDDX - 1 => "LDSIZE" \in flags'
        /\ fetch_idx' \in HDDX + 1 .. PIXC - 1 => "LDPRS" \in flags'
    BY <1>4, <2>1, <2>2, <2>3 DEF FetchWord
  <2> QED
    BY <2>2, <2>3, <2>8, <2>9
<1>5. CASE SkipGroup
  BY <1>5 DEF SkipGroup, GroupAbsent, Offset, history
<1>6. CASE FetchDone \/ CelRelease
  BY <1>6 DEF FetchDone, CelRelease
<1> QED
  BY <1>1, <1>2, <1>3, <1>4, <1>5, <1>6 DEF Clock, CelEngine

LEMMA LoadedStep == ASSUME IInv, Clock PROVE LoadedInv'
<1> USE DEF IInv, TypeOK, EngineInv, PlaceInv, LoadedInv
<1>1. CASE CelIdle \/ CelWait \/ CelNoState
  BY <1>1 DEF CelIdle, CelWait, CelNoState, engine, history, Offset, Loaded
<1>2. CASE CelStart
  BY <1>2 DEF CelStart
<1>3. CASE FetchFlags
  <2> SUFFICES ASSUME state' \in {Fetch, Release}, watch' < fetch_idx'
               PROVE  word' = IF foreign' THEN RegWord
                              ELSE base' + Offset(watch', flags')
    BY DEF Offset
  <2>1. PICK w \in FlagWords :
             IF "SKIP" \in w
             THEN state' = CCBDONE /\ UNCHANGED <<flags, history>>
             ELSE flags' = w /\ Load(FLAGS) /\ UNCHANGED state
    BY <1>3 DEF FetchFlags
  <2>2. Load(FLAGS) /\ fetch_idx' = 1 /\ dma_addr = base
    BY <1>3, <2>1 DEF FetchFlags, NextWord
  <2>3. watch' = watch /\ base' = base /\ watch = FLAGS
    BY <2>2 DEF Load
  <2>4. Offset(watch', flags') = 0
    BY <2>3 DEF Offset
  <2>5. word' = MemDin /\ foreign' = (adr # "mem")
    BY <2>2, <2>3 DEF Load
  <2>6. word' = IF foreign' THEN RegWord ELSE dma_addr
    BY <2>5 DEF MemDin, FromMemory
  <2> QED
    BY <2>2, <2>3, <2>4, <2>6
<1>4. CASE FetchWord
  <2> SUFFICES ASSUME watch < fetch_idx', Loaded(watch, flags)'
               PROVE  word' = IF foreign' THEN RegWord
                              ELSE base + Offset(watch, flags)
    BY <1>4 DEF FetchWord, Load, history, Offset
  <2>1. fetch_idx' = fetch_idx + 1 /\ flags' = flags /\ watch' = watch
    BY <1>4 DEF FetchWord, NextWord, Load, history
  <2>2. Loaded(watch, flags)
    BY <2>1 DEF Loaded
  <2>3. CASE watch = fetch_idx
    <3>1. word' = IF foreign' THEN RegWord ELSE dma_addr
      BY <1>4, <2>2, <2>3 DEF FetchWord, Load, MemDin, FromMemory, Loaded
    <3>2. dma_addr = base + Offset(watch, flags)
      BY <1>4, <2>3 DEF FetchWord
    <3> QED
      BY <3>1, <3>2
  <2>4. CASE watch # fetch_idx
    <3>1. watch < fetch_idx
      BY <2>1, <2>4
    <3>2. word' = word /\ foreign' = foreign
      BY <1>4, <2>4 DEF FetchWord, Load, history
    <3> QED
      BY <1>4, <2>2, <3>1, <3>2 DEF FetchWord
  <2> QED
    BY <2>3, <2>4
<1>5. CASE SkipGroup
  BY <1>5 DEF SkipGroup, GroupAbsent, Offset, Loaded, history
<1>6. CASE FetchDone
  BY <1>6 DEF FetchDone, Offset, Loaded, history
<1>7. CASE CelRelease
  BY <1>7 DEF CelRelease
<1> QED
  BY <1>1, <1>2, <1>3, <1>4, <1>5, <1>6, <1>7 DEF Clock, CelEngine

(* The reset leaves nothing to prove: the engine is idle.                  *)
LEMMA ResetStep == ASSUME IInv, Reset PROVE IInv'
<1>1. adr' \in Targets
  BY MadamBusAssumption DEF Reset
<1>2. /\ stb' \in BOOLEAN /\ we' \in BOOLEAN
      /\ cpu_ack' \in BOOLEAN /\ dma_ack' \in BOOLEAN
      /\ cel_dma_req' \in BOOLEAN
      /\ state' = Idle /\ fetch_idx' = 0
  BY DEF Reset
<1>3. UNCHANGED <<dma_rd, dma_addr, nextccb, flags, watch, word, foreign, base>>
  BY DEF Reset, history
<1>4. TypeOK'
  BY <1>1, <1>2, <1>3 DEF IInv, TypeOK
<1> QED
  BY <1>4 DEF IInv, GrantExclusive, EngineInv, PlaceInv, LoadedInv, Reset

LEMMA StutterStep == ASSUME IInv, UNCHANGED vars PROVE IInv'
  BY DEF IInv, TypeOK, GrantExclusive, EngineInv, PlaceInv, LoadedInv, Offset,
         Loaded, vars, cpuPins, arbiter, engine, history

(* The inductive invariant holds in every state of every behavior.         *)
THEOREM Invariance == Spec => []IInv
<1>1. IInv /\ [Next]_vars => IInv'
  <2> SUFFICES ASSUME IInv, [Next]_vars PROVE IInv'
    OBVIOUS
  <2>1. CASE Clock
    <3>1. GrantExclusive'
      BY <2>1, ArbiterExclusive DEF IInv, Clock
    <3> QED
      BY <2>1, <3>1, TypeStep, EngineStep, PlaceStep, LoadedStep DEF IInv
  <2>2. CASE Reset
    BY <2>2, ResetStep
  <2>3. CASE UNCHANGED vars
    BY <2>3, StutterStep
  <2> QED
    BY <2>1, <2>2, <2>3 DEF Next
<1> QED
  BY InitIInv, <1>1, PTL DEF Spec

(* The registers keep their types.                                         *)
THEOREM TypeCorrect == Spec => []TypeOK
<1>1. IInv => TypeOK
  BY DEF IInv
<1> QED
  BY Invariance, <1>1, PTL

(* The CPU and the cel engine never own the bus in the same clock.         *)
THEOREM MutualExclusion == Spec => []GrantExclusive
<1>1. IInv => GrantExclusive
  BY DEF IInv
<1> QED
  BY Invariance, <1>1, PTL

(* A fetched CCB is the one in memory, word for word, but for the words    *)
(* that the CPU's address took from a register.                            *)
THEOREM FetchCorrect == Spec => []CcbLayout
<1>1. IInv => CcbLayout
  BY DEF IInv, TypeOK, EngineInv, LoadedInv, CcbLayout
<1> QED
  BY Invariance, <1>1, PTL

(* An acknowledged write to SPRSTRT always finds or puts the engine at     *)
(* work, unless the RESET button is pressed in that clock.                 *)
THEOREM NoStartLost == Spec => StartNeverLost
<1>1. IInv /\ [Next]_vars =>
        [CpuWrite("sprstrt") /\ cpu_ack => cel_dma_req' \/ Reset]_vars
  <2> SUFFICES ASSUME IInv, Clock, CpuWrite("sprstrt"), cpu_ack
               PROVE  cel_dma_req'
    BY DEF Next
  <2>1. state # Release
    BY DEF IInv, EngineInv, GrantExclusive
  <2>2. state # Idle => cel_dma_req
    BY DEF IInv, EngineInv
  <2> QED
    BY <2>1, <2>2
    DEF Clock, CelEngine, CelIdle, CelStart, CelWait, FetchFlags, FetchWord,
        SkipGroup, FetchDone, CelRelease, CelNoState, engine
<1> QED
  BY Invariance, <1>1, PTL DEF Spec, StartNeverLost
=============================================================================
