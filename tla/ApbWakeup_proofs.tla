-------------------------- MODULE ApbWakeup_proofs --------------------------
(***************************************************************************)
(* The handshake of apb_wakeup for any sleep times and modes: the wave that *)
(* runs round the synchronisers, how far it is tied to the write on the     *)
(* bus, and what follows for the registers on both sides.                   *)
(***************************************************************************)
EXTENDS ApbWakeup, TLAPS

(***************************************************************************)
(* The handshake as a wave that runs round: request, its two stages, the    *)
(* acknowledge, its two stages and back.  A value has reached a stage only  *)
(* through all those before it, so that a wave never meets the last one.    *)
(***************************************************************************)
Wave(r, w, a) ==
    /\ w.s1 = r => w.s0 = r
    /\ w.q  = r => w.s1 = r
    /\ a.s0 = r => w.q  = r
    /\ a.s1 = r => a.s0 = r
    /\ a.q  = r => a.s1 = r

HandshakeInvariant ==
    /\ Wave(s_pmu_req, write_sync, ack_sync)
    /\ curr_state \in {"FSM_IDLE", "FSM_PREADY"} =>
          write_sync = LowSync /\ ack_sync = LowSync
    /\ curr_state # "FSM_IDLE" => op # "NONE"

\* The unit's copy of the registers is the copy on this side.
Copied == pmu = [scratch |-> reg.scratch, mode |-> reg.mode]

\* The strobe of a write has passed exactly when the wave has left the
\* register that finds its edge.
StrobeInvariant ==
    /\ curr_state = "FSM_IDLE" /\ op # "NONE" => strobes = 0
    /\ curr_state # "FSM_IDLE" =>
          strobes = (IF s_pmu_req = 1 /\ write_sync.q = 0 THEN 0 ELSE 1)
    /\ strobes \in {0, 1}

\* The reset leaves this side idle, and the copy is taken back before a request.
RestoreInvariant ==
    /\ curr_state # "FSM_IDLE" => r_restore = 0
    /\ HRESETn = 0 => op = "NONE" /\ r_restore = 1 /\ curr_state = "FSM_IDLE"

ControlInvariant ==
    TypeOK /\ HandshakeInvariant /\ StrobeInvariant /\ RestoreInvariant

\* The write is in its register when its strobe has passed, and stays there, and
\* so the copies agree.
DataInvariant ==
    /\ curr_state # "FSM_IDLE" /\ strobes = 1 => Written = reg
    /\ r_restore = 0 /\ (op = "NONE" \/ strobes = 1) => Copied

\* It is there before the strobe, if HCLK has an edge between two of the other;
\* the invariants before do not depend on that.
ArrivedInvariant ==
    /\ curr_state # "FSM_IDLE"
    /\ write_sync.s1 = 1 \/ (write_sync.s0 = 1 /\ ticked)
    => Written = reg

IInv == ControlInvariant /\ DataInvariant /\ ArrivedInvariant

-----------------------------------------------------------------------------
\* What the constants may be.
LEMMA ModesOK == {} \in Modes
BY ApbAssumption

\* A synchroniser keeps its widths.
LEMMA ShiftType ==
    ASSUME NEW y \in SyncType, NEW b \in {0, 1}
    PROVE  Shift(y, b) \in SyncType
BY DEF SyncType, Shift

\* A request of one bit, whatever the state.
LEMMA BitType ==
    TypeOK => /\ s_pmu_req \in {0, 1} /\ s_pmu_ack \in {0, 1}
              /\ s_pmu_ack_sync \in {0, 1}
BY DEF TypeOK, SyncType, s_pmu_req, s_pmu_ack, s_pmu_ack_sync

\* The edges of both clocks move the wave on.
LEMMA WaveRef ==
    ASSUME NEW r \in {0, 1}, NEW w \in SyncType, NEW a \in SyncType, Wave(r, w, a)
    PROVE  Wave(r, Shift(w, r), a)
BY DEF Wave, Shift, SyncType

LEMMA WaveHclk ==
    ASSUME NEW r \in {0, 1}, NEW w \in SyncType, NEW a \in SyncType, Wave(r, w, a)
    PROVE  Wave(r, w, Shift(a, w.q))
BY DEF Wave, Shift, SyncType

\* A wave that has arrived everywhere lets the next one start.
LEMMA WaveTurns ==
    ASSUME NEW r \in {0, 1}, NEW w \in SyncType, NEW a \in SyncType,
           Wave(r, w, a), a.q = r
    PROVE  Wave(1 - r, w, a)
BY DEF Wave, SyncType

\* The registers keep their widths.
LEMMA DataTypes ==
    ASSUME TypeOK
    PROVE  RegNxt \in DataType /\ Written \in DataType /\ NoData \in DataType
<1>1. Written \in DataType
  BY DEF TypeOK, DataType, Written
<1>2. NoData \in DataType
  BY ModesOK DEF DataType, NoData
<1>3. [scratch |-> pmu.scratch, en |-> reg.en, mode |-> pmu.mode] \in DataType
  BY DEF TypeOK, DataType
<1> QED BY <1>1, <1>2, <1>3 DEF RegNxt

\* What software writes has the width of the registers.
LEMMA DataForType ==
    ASSUME NEW r \in Registers
    PROVE  DataFor(r) \subseteq DataType
BY ModesOK DEF Registers, DataFor, DataType, NoData

-----------------------------------------------------------------------------
\* The initial state.
LEMMA InitOK == Init => IInv
<1> SUFFICES ASSUME Init PROVE IInv
  OBVIOUS
<1>1. NoData \in DataType /\ LowSync \in SyncType
  BY ModesOK DEF DataType, NoData, SyncType, LowSync
<1>2. TypeOK
  BY <1>1, ModesOK DEF Init, TypeOK, FsmStates
<1>3. s_pmu_req = 0
  BY DEF Init, s_pmu_req
<1>4. HandshakeInvariant
  BY <1>3 DEF Init, HandshakeInvariant, Wave, LowSync
<1>5. StrobeInvariant /\ RestoreInvariant /\ DataInvariant /\ ArrivedInvariant
  BY DEF Init, StrobeInvariant, RestoreInvariant, DataInvariant, ArrivedInvariant
<1> QED BY <1>2, <1>4, <1>5 DEF IInv, ControlInvariant

\* A write can only start when the bus and the machine are idle.
LEMMA StartWriteOK ==
    ASSUME ControlInvariant, NEW r \in Registers, NEW data \in DataFor(r),
           StartWrite(r, data)
    PROVE  ControlInvariant' /\ (DataInvariant => DataInvariant') /\ ArrivedInvariant'
<1> USE DEF StartWrite, hclkVars
<1>1. curr_state = "FSM_IDLE"
  BY DEF ControlInvariant, HandshakeInvariant
<1>2. r # "NONE" /\ data \in DataType
  BY DataForType DEF Registers
<1>3. TypeOK'
  BY <1>2 DEF ControlInvariant, TypeOK
<1>4. s_pmu_req' = s_pmu_req
  BY DEF s_pmu_req, s_pmu_ack_sync
<1>5. HandshakeInvariant'
  BY <1>2, <1>4 DEF ControlInvariant, HandshakeInvariant
<1>6. /\ StrobeInvariant' /\ RestoreInvariant'
      /\ (DataInvariant => DataInvariant') /\ ArrivedInvariant'
  BY <1>1, <1>2 DEF ControlInvariant, StrobeInvariant, RestoreInvariant,
     DataInvariant, ArrivedInvariant, Copied
<1> QED BY <1>3, <1>5, <1>6 DEF ControlInvariant

\* The reset puts the wave, the bus and the registers at rest, whatever they
\* were: only the unit's copies have to be what they should.
LEMMA FallResetOK ==
    ASSUME pmu \in [scratch : Scratches \cup {0}, mode : Modes], FallReset
    PROVE  ControlInvariant' /\ DataInvariant' /\ ArrivedInvariant'
<1> USE DEF FallReset
<1>1. NoData \in DataType /\ LowSync \in SyncType
  BY ModesOK DEF DataType, NoData, SyncType, LowSync
<1>2. TypeOK'
  BY <1>1 DEF TypeOK, FsmStates
<1>3. s_pmu_req' = 0
  BY DEF s_pmu_req
<1>4. HandshakeInvariant'
  BY <1>3 DEF HandshakeInvariant, Wave, LowSync
<1>5. StrobeInvariant' /\ RestoreInvariant' /\ DataInvariant' /\ ArrivedInvariant'
  BY DEF StrobeInvariant, RestoreInvariant, DataInvariant, ArrivedInvariant
<1> QED BY <1>2, <1>4, <1>5 DEF ControlInvariant

LEMMA RiseResetOK ==
    ASSUME ControlInvariant, RiseReset
    PROVE  ControlInvariant' /\ (DataInvariant => DataInvariant') /\ ArrivedInvariant'
<1> USE DEF RiseReset, apbVars, busVars, hclkVars
<1>1. TypeOK'
  BY DEF ControlInvariant, TypeOK
<1>2. s_pmu_req' = s_pmu_req
  BY DEF s_pmu_req, s_pmu_ack_sync
<1>3. Written' = Written /\ Copied' = Copied
  BY DEF Written, Copied
<1>4. HandshakeInvariant' /\ StrobeInvariant'
  BY <1>2 DEF ControlInvariant, HandshakeInvariant, StrobeInvariant
<1>5. RestoreInvariant' /\ (DataInvariant => DataInvariant') /\ ArrivedInvariant'
  BY <1>3 DEF ControlInvariant, RestoreInvariant, DataInvariant, ArrivedInvariant
<1> QED BY <1>1, <1>4, <1>5 DEF ControlInvariant

\* An edge of the reference clock moves the wave through the first
\* synchroniser; the strobe, if there is one, copies the registers, in which
\* the write has to be by then.
LEMMA SyncClkOK ==
    ASSUME ControlInvariant, SyncClk, UNCHANGED HRESETn,
           pmu' = (IF s_pmu_write_en THEN [scratch |-> reg.scratch, mode |-> reg.mode]
                                     ELSE pmu)
    PROVE  /\ ControlInvariant'
           /\ DataInvariant /\ (s_pmu_write_en => Written = reg) => DataInvariant'
<1> USE DEF SyncClk, hclkVars
<1>1. /\ s_pmu_req \in {0, 1} /\ write_sync \in SyncType /\ ack_sync \in SyncType
      /\ LowSync \in SyncType
  BY BitType DEF ControlInvariant, TypeOK, SyncType, LowSync
<1>2. s_pmu_req' = s_pmu_req /\ Written' = Written
  BY DEF s_pmu_req, s_pmu_ack_sync, Written
<1>3. curr_state \in {"FSM_IDLE", "FSM_PREADY"} =>
         s_pmu_req = 0 /\ Shift(write_sync, s_pmu_req) = LowSync
  BY DEF ControlInvariant, HandshakeInvariant, s_pmu_req, Shift, LowSync
<1>4. HRESETn = 0 => write_sync = LowSync /\ curr_state = "FSM_IDLE"
  BY DEF ControlInvariant, HandshakeInvariant, RestoreInvariant
<1>5. HandshakeInvariant'
  <2>1. CASE HRESETn = 1
    <3>1. Wave(s_pmu_req, write_sync, ack_sync)'
      BY <1>1, <1>2, <2>1, WaveRef DEF ControlInvariant, HandshakeInvariant
    <3> QED BY <1>2, <1>3, <2>1, <3>1 DEF ControlInvariant, HandshakeInvariant
  <2>2. CASE HRESETn # 1
    <3>1. write_sync' = write_sync
      BY <1>4, <2>2 DEF ControlInvariant, TypeOK
    <3> QED BY <1>2, <3>1 DEF ControlInvariant, HandshakeInvariant
  <2> QED BY <2>1, <2>2
<1>6. TypeOK'
  <2>1. write_sync' \in SyncType
    BY <1>1, ShiftType
  <2>2. pmu' \in [scratch : Scratches \cup {0}, mode : Modes]
    BY DEF ControlInvariant, TypeOK, DataType
  <2>3. strobes' \in Nat
    BY DEF ControlInvariant, TypeOK
  <2>4. ticked' \in BOOLEAN
    BY Zenon
  <2> QED BY <2>1, <2>2, <2>3, <2>4 DEF ControlInvariant, TypeOK
<1>7. s_pmu_write_en => curr_state # "FSM_IDLE" /\ s_pmu_req = 1 /\ strobes = 0
  <2> SUFFICES ASSUME s_pmu_write_en
               PROVE  curr_state # "FSM_IDLE" /\ s_pmu_req = 1 /\ strobes = 0
    OBVIOUS
  <2>1. write_sync.s1 = 1 /\ write_sync.q = 0
    BY DEF s_pmu_write_en, REdge
  <2>2. s_pmu_req = 1
    BY <1>1, <2>1 DEF ControlInvariant, HandshakeInvariant, Wave
  <2> QED BY <2>1, <2>2 DEF ControlInvariant, StrobeInvariant, s_pmu_req
<1>8. StrobeInvariant'
  <2>1. CASE s_pmu_write_en
    <3>1. HRESETn = 1 /\ write_sync'.q = 1
      BY <1>4, <1>7, <2>1 DEF ControlInvariant, TypeOK, s_pmu_write_en, REdge, Shift
    <3> QED BY <1>2, <1>7, <2>1, <3>1 DEF StrobeInvariant
  <2>2. CASE ~s_pmu_write_en
    <3>1. curr_state = "FSM_IDLE" => StrobeInvariant'
      BY <2>2 DEF ControlInvariant, StrobeInvariant
    <3>2. curr_state # "FSM_IDLE" /\ s_pmu_req = 1 => write_sync'.q = write_sync.q
      BY <1>1, <1>4, <2>2
         DEF ControlInvariant, TypeOK, HandshakeInvariant, Wave, s_pmu_write_en, REdge,
             Shift, SyncType
    <3> QED BY <1>2, <2>2, <3>1, <3>2 DEF ControlInvariant, StrobeInvariant
  <2> QED BY <2>1, <2>2
<1>9. RestoreInvariant'
  BY DEF ControlInvariant, RestoreInvariant
<1>10. DataInvariant /\ (s_pmu_write_en => Written = reg) => DataInvariant'
  <2>1. CASE s_pmu_write_en
    BY <1>2, <1>7, <2>1 DEF DataInvariant, Copied
  <2>2. CASE ~s_pmu_write_en
    BY <1>2, <2>2 DEF DataInvariant, Copied
  <2> QED BY <2>1, <2>2
<1> QED BY <1>5, <1>6, <1>8, <1>9, <1>10 DEF ControlInvariant

\* The write arrives in time where HCLK ticks.
LEMMA SyncClkArrives ==
    ASSUME ControlInvariant, ArrivedInvariant, SyncClk,
           curr_state # "FSM_IDLE" => HRESETn = 1 /\ ticked
    PROVE  ArrivedInvariant' /\ (s_pmu_write_en => Written = reg)
<1>1. Written' = Written /\ curr_state' = curr_state /\ reg' = reg
  BY DEF SyncClk, hclkVars, Written
<1>2. curr_state # "FSM_IDLE" => write_sync'.s1 = write_sync.s0 /\ ticked' = FALSE
  BY DEF SyncClk, Shift
<1>3. s_pmu_write_en => curr_state # "FSM_IDLE" /\ write_sync.s1 = 1
  BY DEF ControlInvariant, HandshakeInvariant, LowSync, s_pmu_write_en, REdge
<1> QED BY <1>1, <1>2, <1>3 DEF ArrivedInvariant

LEMMA RefClkOK ==
    ASSUME IInv, RefClk
    PROVE  IInv'
<1>1. curr_state # "FSM_IDLE" => HRESETn = 1 /\ ticked
  BY DEF RefClk, IInv, ControlInvariant, RestoreInvariant, TypeOK
<1> QED BY <1>1, SyncClkOK, SyncClkArrives DEF IInv, RefClk

-----------------------------------------------------------------------------
\* An edge of HCLK moves the wave through the second synchroniser, and the
\* machine with it: this is where the request changes.
LEMMA HclkWaveOK ==
    ASSUME ControlInvariant, Hclk
    PROVE  HandshakeInvariant' /\ StrobeInvariant'
<1> USE DEF Hclk
<1>1. /\ s_pmu_req \in {0, 1} /\ write_sync \in SyncType /\ ack_sync \in SyncType
      /\ curr_state \in FsmStates /\ strobes \in {0, 1}
  BY BitType DEF ControlInvariant, TypeOK, StrobeInvariant
<1>2. ack_sync' \in SyncType /\ ack_sync'.q = ack_sync.s1
  BY <1>1, ShiftType DEF Shift, s_pmu_ack, SyncType
<1>3. Wave(s_pmu_req, write_sync, ack_sync')
  BY <1>1, WaveHclk DEF ControlInvariant, HandshakeInvariant, s_pmu_ack
<1>4. write_sync = LowSync /\ ack_sync = LowSync => ack_sync' = LowSync
  BY DEF Shift, LowSync, s_pmu_ack
<1>5. CASE curr_state = "FSM_IDLE"
  <2>1. write_sync' = LowSync /\ ack_sync' = LowSync /\ op' = op
    BY <1>4, <1>5 DEF ControlInvariant, HandshakeInvariant
  <2>2. CASE op = "NONE"
    <3>1. curr_state' = "FSM_IDLE" /\ s_pmu_req' = 0
      BY <1>5, <2>2 DEF FsmNxt, s_apb_write, s_pmu_req
    <3> QED BY <1>1, <2>1, <2>2, <3>1
        DEF HandshakeInvariant, StrobeInvariant, Wave, LowSync
  <2>3. CASE op # "NONE"
    <3>1. curr_state' = "FSM_PMU_REQ" /\ s_pmu_req' = 1 /\ strobes' = 0
      BY <1>5, <2>1, <2>3
         DEF ControlInvariant, StrobeInvariant, FsmNxt, s_apb_write, s_pmu_req,
             s_pmu_ack_sync, LowSync
    <3> QED BY <2>1, <2>3, <3>1
        DEF HandshakeInvariant, StrobeInvariant, Wave, LowSync
  <2> QED BY <2>2, <2>3
<1>6. CASE curr_state = "FSM_PMU_REQ" /\ s_pmu_ack_sync = 0
  <2>1. curr_state' = "FSM_PMU_REQ" /\ s_pmu_req = 1 /\ op' = op /\ op # "NONE"
    BY <1>6 DEF FsmNxt, s_pmu_req, ControlInvariant, HandshakeInvariant
  <2>2. s_pmu_req' = 1 - ack_sync'.q
    BY <1>2, <2>1 DEF s_pmu_req, s_pmu_ack_sync, SyncType
  <2>3. Wave(s_pmu_req', write_sync, ack_sync')
    <3>1. CASE ack_sync'.q = 1
      BY <1>1, <1>2, <1>3, <2>1, <2>2, <3>1, WaveTurns
    <3>2. CASE ack_sync'.q = 0
      BY <1>3, <2>1, <2>2, <3>2
    <3> QED BY <1>2, <3>1, <3>2 DEF SyncType
  <2>4. ack_sync'.q = 1 => write_sync.q = 1
    BY <1>1, <1>2, <2>1 DEF ControlInvariant, HandshakeInvariant, Wave
  <2> QED BY <1>1, <1>2, <1>6, <2>1, <2>2, <2>3, <2>4
      DEF ControlInvariant, HandshakeInvariant, StrobeInvariant, SyncType
<1>7. CASE \/ curr_state = "FSM_PMU_REQ" /\ s_pmu_ack_sync = 1
           \/ curr_state = "FSM_PMU_ACK"
  <2>1. /\ curr_state' \in {"FSM_PMU_ACK", "FSM_PREADY"}
        /\ op' = op /\ op # "NONE"
        /\ s_pmu_req = 0 /\ s_pmu_req' = 0 /\ strobes = 1
    BY <1>7 DEF FsmNxt, s_pmu_req, ControlInvariant, HandshakeInvariant, StrobeInvariant
  <2>2. curr_state' = "FSM_PREADY" => ack_sync.q = 0
    BY <1>7 DEF FsmNxt, s_pmu_ack_sync, ControlInvariant, TypeOK, SyncType
  <2>3. curr_state' = "FSM_PREADY" => write_sync = LowSync /\ ack_sync = LowSync
    BY <1>1, <2>1, <2>2 DEF ControlInvariant, HandshakeInvariant, Wave, SyncType, LowSync
  <2> QED BY <1>3, <1>4, <2>1, <2>3 DEF HandshakeInvariant, StrobeInvariant
<1>8. CASE curr_state = "FSM_PREADY"
  <2>1. write_sync' = LowSync /\ ack_sync' = LowSync /\ op' = "NONE"
    BY <1>4, <1>8 DEF ControlInvariant, HandshakeInvariant
  <2>2. curr_state' = "FSM_IDLE" /\ s_pmu_req' = 0
    BY <1>8 DEF FsmNxt, s_pmu_req
  <2> QED BY <1>1, <2>1, <2>2
      DEF HandshakeInvariant, StrobeInvariant, Wave, LowSync
<1>9. s_pmu_ack_sync \in {0, 1}
  BY BitType DEF ControlInvariant
<1> QED BY <1>1, <1>5, <1>6, <1>7, <1>8, <1>9 DEF FsmStates

\* ... and the write into its register, where it stays.
LEMMA HclkDataOK ==
    ASSUME ControlInvariant, Hclk
    PROVE  /\ TypeOK' /\ RestoreInvariant' /\ ArrivedInvariant'
           /\ DataInvariant => DataInvariant'
<1> USE DEF Hclk
<1>1. TypeOK'
  <2>1. reg' \in DataType /\ pwdata' \in DataType
    BY DataTypes DEF ControlInvariant, TypeOK
  <2>2. ack_sync' \in SyncType
    BY BitType, ShiftType DEF ControlInvariant, TypeOK
  <2>3. curr_state' \in FsmStates
    BY DEF ControlInvariant, TypeOK, FsmNxt, FsmStates
  <2>4. ticked' \in BOOLEAN
    BY Zenon
  <2> QED BY <2>1, <2>2, <2>3, <2>4 DEF ControlInvariant, TypeOK
<1>2. op = "NONE" => curr_state = "FSM_IDLE" /\ curr_state' = "FSM_IDLE" /\ op' = "NONE"
  BY DEF ControlInvariant, HandshakeInvariant, FsmNxt, s_apb_write
<1>3. curr_state' # "FSM_IDLE" /\ curr_state # "FSM_IDLE" => Written' = reg'
  BY DEF ControlInvariant, TypeOK, RestoreInvariant, FsmStates, FsmNxt, RegNxt, Written, DataType
<1>4. curr_state = "FSM_IDLE" /\ curr_state' # "FSM_IDLE" =>
         strobes = 0 /\ write_sync = LowSync
  BY <1>2 DEF ControlInvariant, StrobeInvariant, HandshakeInvariant
<1>5. RestoreInvariant' /\ ArrivedInvariant'
  BY <1>3, <1>4 DEF ControlInvariant, TypeOK, RestoreInvariant, ArrivedInvariant,
     LowSync, FsmNxt, FsmStates
<1>6. ASSUME DataInvariant PROVE DataInvariant'
  <2>1. op' = "NONE" \/ strobes = 1 =>
           reg'.scratch = pmu.scratch /\ reg'.mode = pmu.mode
    <3>1. CASE curr_state # "FSM_IDLE"
      <4>1. (op' = "NONE" \/ strobes = 1) => strobes = 1
        BY <1>2, <3>1 DEF ControlInvariant, StrobeInvariant, TypeOK,
           HandshakeInvariant, s_pmu_req
      <4>2. strobes = 1 => reg' = reg /\ Copied
        BY <1>6, <3>1 DEF ControlInvariant, RestoreInvariant, DataInvariant, RegNxt
      <4> QED BY <4>1, <4>2 DEF Copied, ControlInvariant, TypeOK, DataType
    <3>2. CASE curr_state = "FSM_IDLE" /\ op = "NONE"
      BY <1>6, <3>2 DEF ControlInvariant, TypeOK, DataInvariant, Copied, RegNxt,
         Written, DataType
    <3>3. CASE curr_state = "FSM_IDLE" /\ op # "NONE"
      BY <3>3 DEF ControlInvariant, StrobeInvariant
    <3> QED BY <3>1, <3>2, <3>3
  <2>2. r_restore' = 0 /\ (op' = "NONE" \/ strobes' = 1) => Copied'
    BY <1>1, <2>1 DEF Copied, TypeOK
  <2>3. curr_state' # "FSM_IDLE" /\ strobes' = 1 => Written' = reg'
    BY <1>3, <1>4
  <2> QED BY <2>2, <2>3 DEF DataInvariant
<1> QED BY <1>1, <1>5, <1>6

-----------------------------------------------------------------------------
\* The invariant the other theorems follow from.
THEOREM Invariance == Spec => []IInv
<1>1. IInv /\ [Next]_vars => IInv'
  <2> SUFFICES ASSUME IInv, [Next]_vars PROVE IInv'
    OBVIOUS
  <2>1. CASE Hclk
    BY <2>1, HclkWaveOK, HclkDataOK DEF IInv, ControlInvariant
  <2>2. CASE UNCHANGED vars
    BY <2>2 DEF vars, apbVars, busVars, hclkVars, IInv, ControlInvariant, TypeOK,
       ArrivedInvariant, HandshakeInvariant, StrobeInvariant, RestoreInvariant, DataInvariant,
       Copied, Written, s_pmu_req, s_pmu_ack_sync
  <2>3. ControlInvariant /\ DataInvariant /\ ArrivedInvariant
        /\ pmu \in [scratch : Scratches \cup {0}, mode : Modes]
    BY DEF IInv, ControlInvariant, TypeOK
  <2> QED BY <2>1, <2>2, <2>3, StartWriteOK, RefClkOK, FallResetOK, RiseResetOK
      DEF Next, IInv
<1> QED BY <1>1, InitOK, PTL DEF Spec

\* Every register has its width.
THEOREM ApbTyping == Spec => []TypeOK
<1>1. IInv => TypeOK
  BY DEF IInv, ControlInvariant
<1> QED BY <1>1, Invariance, PTL

\* The wave of the handshake never meets the one before it.
THEOREM HandshakeHolds == Spec => []HandshakeInvariant
<1>1. IInv => HandshakeInvariant
  BY DEF IInv, ControlInvariant
<1> QED BY <1>1, Invariance, PTL

\* Every write gives exactly one strobe, for any relation of the two clocks
\* in which HCLK is the faster.
THEOREM WriteCrossesOnce == Spec => []OneStrobePerWrite
<1>1. IInv => OneStrobePerWrite
  BY DEF IInv, ControlInvariant, StrobeInvariant, OneStrobePerWrite, s_pmu_req
<1> QED BY <1>1, Invariance, PTL

\* Between two writes the registers on both sides agree, after a reset too.
THEOREM RegistersAgree == Spec => []InSync
<1>1. IInv => InSync
  BY DEF IInv, ControlInvariant, StrobeInvariant, DataInvariant, Copied, InSync, s_pmu_req
<1> QED BY <1>1, Invariance, PTL

\* What crosses without synchronisers is still while the strobe is up.
THEOREM CrossingIsStable == Spec => StableUnderStrobe
<1>1. IInv /\ [Next]_vars => [s_pmu_write_en /\ HRESETn' = 1 => reg' = reg]_vars
  <2> SUFFICES ASSUME IInv, Next, s_pmu_write_en, HRESETn' = 1 PROVE reg' = reg
    OBVIOUS
  <2>1. write_sync.s1 = 1 /\ write_sync.q = 0
    BY DEF s_pmu_write_en, REdge
  <2>2. curr_state # "FSM_IDLE"
    BY <2>1 DEF IInv, ControlInvariant, HandshakeInvariant, LowSync
  <2>3. CASE Hclk
    BY <2>1, <2>2, <2>3 DEF IInv, ControlInvariant, RestoreInvariant, ArrivedInvariant,
       Hclk, RegNxt
  <2> QED BY <2>3 DEF Next, StartWrite, RefClk, SyncClk, FallReset, RiseReset,
      apbVars, hclkVars
<1> QED BY <1>1, Invariance, PTL DEF Spec, StableUnderStrobe
=============================================================================
