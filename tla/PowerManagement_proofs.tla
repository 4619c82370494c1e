----------------------- MODULE PowerManagement_proofs -----------------------
(***************************************************************************)
(* What holds of the power management unit for every sleep time, mode,      *)
(* grouping and delay of the switch rings.  First of WakeupCounter: its     *)
(* typing for every use of the test pins, and, while they rest, the length  *)
(* of a sleep, the supply under every part that is out of reset, the order  *)
(* of waking and the requests that are held.  Then of PowerManagement: that *)
(* the handshake and the resets on the side of the processor keep what was  *)
(* assumed so far, and what follows for the writes and the sleeps.          *)
(***************************************************************************)
EXTENDS MCWakeupCounter, PowerManagement, TLAPS

USE DEF Bit

\* What the unit does whether or not its clock and the switches go on.
Safety   == Init /\ [][Next]_vars
MCSafety == MCInit /\ [][MCNext]_mcVars

\* The numbers among the constants.
LEMMA Numbers == /\ LoopLimit \in Nat /\ MinGap \in Nat /\ MinBoot \in Nat
                 /\ MaxLag \in Nat /\ MaxResets \in Nat /\ LoopLimit > 0 /\ MinGap > 0
                 /\ {} \in Modes
BY ConstantsAssumption

\* One clock of a gate keeps its registers within their widths.
LEMMA GateClkType ==
    ASSUME NEW g \in GateType, NEW a \in Bit, NEW w \in BOOLEAN
    PROVE  GateClk(g, a, w) \in GateType
<1>1. StateNxt(g.state, w, a, g.sleep_send) \in States
  BY DEF GateType, States, StateNxt, Up, Down
<1>2. /\ ClkEnNxt(g.state, w) \in Bit /\ ResetNxt(g.state, w) \in Bit
      /\ IsolateNxt(g.state, w) \in Bit /\ SleepSendNxt(g.state, w) \in Bit
  BY DEF ClkEnNxt, ResetNxt, IsolateNxt, SleepSendNxt, ToBit
<1> QED BY <1>1, <1>2 DEF GateType, GateClk

\* Nor does one clock of the MRAM sequencer leave its widths.
LEMMA MramClkType ==
    ASSUME NEW m \in MramType, NEW w \in BOOLEAN, m.cnt < Stay(m.state)
    PROVE  /\ MramClk(m, w) \in MramType
           /\ MramClk(m, w).cnt < Stay(MramClk(m, w).state)
<1> DEFINE s == MramNxt(m.state, m.cnt, w)
           c == CntNxt(m.state, m.cnt)
<1>1. s \in MramStates
  BY DEF MramType, MramStates, Rank, MramNxt, MramUp, MramDown
<1>2. c \in Bit /\ c < Stay(s)
  <2>1. Stay(m.state) \in {1, 2} /\ Stay(s) \in {1, 2}
    BY DEF Stay, P_EXTERNAL_VDD_ACTIVATION
  <2> HIDE DEF Stay
  <2>2. m.cnt \in {0, 1}
    BY DEF MramType
  <2>3. CASE Waiting(m.state, m.cnt)
    <3>1. s = m.state
      BY <2>3 DEF MramNxt
    <3> QED BY <2>1, <2>2, <2>3, <3>1 DEF CntNxt, Waiting
  <2>4. CASE ~Waiting(m.state, m.cnt)
    BY <2>1, <2>4 DEF CntNxt
  <2> QED BY <2>3, <2>4
<1>3. /\ VDDNxt(m.state, w) \in Bit /\ VDDANxt(m.state, w) \in Bit
      /\ VREFNxt(m.state, w) \in Bit /\ PORbNxt(m.state, w) \in Bit
      /\ RETbNxt(m.state, w) \in Bit /\ RSTbNxt(m.state, w) \in Bit
      /\ IsolNxt(m.state, w) \in Bit /\ TRIMNxt(m.state) \in Bit
      /\ DPDNxt(m.state, w) \in Bit /\ CEbNxt(m.state) \in Bit
  BY DEF VDDNxt, VDDANxt, VREFNxt, PORbNxt, RETbNxt, RSTbNxt, IsolNxt,
     TRIMNxt, DPDNxt, CEbNxt, PassedNxt, ToBit
<1> HIDE DEF s, c
<1>4. MramClk(m, w).state = s /\ MramClk(m, w).cnt = c
  BY DEF MramClk, s, c
<1>5. MramClk(m, w) \in MramType
  BY <1>1, <1>2, <1>3 DEF MramType, MramClk, s, c
<1> QED BY <1>2, <1>4, <1>5

\* The high-level machine has no undeclared state.
LEMMA HlfsmType ==
    ASSUME NEW s \in NormalStates \cup StepStates, NEW D, NEW p \in BOOLEAN,
           NEW h \in BOOLEAN, NEW t \in BOOLEAN
    PROVE  HlfsmNxt(s, D, p, h, t) \in NormalStates \cup StepStates
<1> HIDE DEF Blocked, Ready
<1> QED BY DEF HlfsmNxt, NormalStates, StepStates, Successor, StepState,
           SteppedFrom

-----------------------------------------------------------------------------
\* The part of the type that the reference clock changes.
PmuType ==
    /\ curr_state \in NormalStates \cup StepStates
    /\ is_sleeping \in BOOLEAN
    /\ loopcount \in 0 .. LoopLimit
    /\ msec_count \in Nat /\ asleepFor \in Nat
    /\ reg_scratch_reg \in Scratches \cup {0}
    /\ reg_pmu_mode_reg \in Modes
    /\ pd \in [Domains -> GateType]
    /\ mram \in MramType /\ mram.cnt < Stay(mram.state)

\* The values that both kinds of reset give have their types.
LEMMA ResetType ==
    /\ "FSM_POWER_OFF" \in NormalStates
    /\ [d \in Domains |-> GateReset] \in [Domains -> GateType]
    /\ MramReset \in MramType /\ MramReset.cnt < Stay(MramReset.state)
<1>1. "FSM_POWER_OFF" \in NormalStates
  BY DEF NormalStates, Successor
<1>2. GateReset \in GateType
  BY DEF GateReset, GateType, States
<1>3. MramReset \in MramType /\ MramReset.cnt < Stay(MramReset.state)
  BY DEF MramReset, MramType, MramStates, Rank, Stay
<1> QED BY <1>1, <1>2, <1>3

\* The part of the environment.
EnvType ==
    /\ sleep_ack \in [Domains -> Bit]
    /\ pins \subseteq Pins
    /\ gap \in 0 .. MinGap + MinBoot
    /\ lag \in 0 .. MaxLag /\ resets \in 0 .. MaxResets

LEMMA TypeParts == TypeOK <=> PmuType /\ EnvType
BY DEF TypeOK, PmuType, EnvType

\* An edge of the reference clock, with or without a write.
LEMMA RefClkType ==
    ASSUME PmuType, EnvType, NEW wen \in BOOLEAN, NEW pmu_en \in BOOLEAN,
           NEW scratch, NEW mode,
           wen => scratch \in Scratches \cup {0} /\ mode \in Modes,
           RefClk(wen, pmu_en, scratch, mode)
    PROVE  PmuType'
<1>1. \A part \in Parts : IsWanted(part) \in BOOLEAN
  BY DEF IsWanted, Wanted
<1>2. curr_state' \in NormalStates \cup StepStates
  <2>1. /\ ("hold" \in pins) \in BOOLEAN /\ ("step" \in pins) \in BOOLEAN
        /\ (~is_sleeping) \in BOOLEAN
    OBVIOUS
  <2> QED BY <2>1, HlfsmType DEF RefClk, PmuType
<1>3. is_sleeping' \in BOOLEAN
  BY DEF RefClk, SleepNxt, PmuType, wakeup_alarm
<1>4. loopcount' \in 0 .. LoopLimit
  BY Numbers DEF RefClk, LoopNxt, one_msec, PmuType
<1>5. msec_count' \in Nat /\ asleepFor' \in Nat
  BY DEF RefClk, MsecNxt, AsleepNxt, PmuType
<1>6. reg_scratch_reg' \in Scratches \cup {0} /\ reg_pmu_mode_reg' \in Modes
  BY DEF RefClk, PmuType
<1>7. pd' \in [Domains -> GateType]
  <2>1. \A d \in Domains : GateClk(pd[d], sleep_ack[d], IsWanted(d)) \in GateType
    BY <1>1, GateClkType DEF PmuType, EnvType, Parts
  <2> QED BY <2>1 DEF RefClk
<1>8. mram' \in MramType /\ mram'.cnt < Stay(mram'.state)
  <2>1. IsWanted("MRAM") \in BOOLEAN
    BY <1>1 DEF Parts
  <2> QED BY <2>1, MramClkType DEF RefClk, PmuType
<1> QED BY <1>2, <1>3, <1>4, <1>5, <1>6, <1>7, <1>8 DEF PmuType

\* The delay of the switch rings is bounded by MaxLag.
LEMMA LagType ==
    ASSUME EnvType, MayTick, lag' = LagNxt
    PROVE  lag' \in 0 .. MaxLag
BY Numbers DEF EnvType, MayTick, LagNxt

\* No step takes a register out of its width, or the loop counter past its limit.
LEMMA TypeNext == TypeOK /\ [Next]_vars => TypeOK'
<1> SUFFICES ASSUME PmuType, EnvType, [Next]_vars PROVE PmuType' /\ EnvType'
  BY TypeParts DEF TypeOK, PmuType, EnvType
<1>1. CASE Tick
  <2>1. PmuType'
    BY <1>1, RefClkType DEF Tick
  <2>2. EnvType'
    BY <1>1, LagType, Numbers DEF Tick, GapNxt, EnvType
  <2> QED BY <2>1, <2>2
<1>2. ASSUME NEW pmu_en \in BOOLEAN, NEW scratch \in Scratches \cup {0},
             NEW mode \in Modes, TickWithWrite(pmu_en, scratch, mode)
      PROVE  PmuType' /\ EnvType'
  <2>1. PmuType'
    BY <1>2, RefClkType DEF TickWithWrite
  <2>2. gap' \in 0 .. MinGap + MinBoot
    BY <1>2, Numbers DEF TickWithWrite
  <2>3. EnvType'
    BY <1>2, <2>2, LagType DEF TickWithWrite, EnvType
  <2> QED BY <2>1, <2>3
<1>3. ASSUME NEW group \in SwitchGroups, SwitchSettles(group)
      PROVE  PmuType' /\ EnvType'
  <2>1. sleep_ack' \in [Domains -> Bit]
    BY <1>3 DEF SwitchSettles, PmuType, EnvType, GateType
  <2>2. lag' \in 0 .. MaxLag
    BY <1>3, Numbers DEF SwitchSettles, EnvType
  <2> QED BY <1>3, <2>1, <2>2
      DEF SwitchSettles, PmuType, EnvType, pmuVars, sleepVars, regVars
<1>4. ASSUME NEW p \in Pins, MovePin(p)
      PROVE  PmuType' /\ EnvType'
  BY <1>4 DEF MovePin, PmuType, EnvType, pmuVars, sleepVars, regVars
<1>5. CASE PadReset
  <2>1. PmuType'
    <3>1. is_sleeping' \in BOOLEAN
      BY <1>5, Zenon DEF PadReset
    <3>2. loopcount' \in 0 .. LoopLimit
      BY <1>5, Numbers DEF PadReset
    <3>3. msec_count' \in Nat /\ asleepFor' \in Nat
      BY <1>5 DEF PadReset
    <3>4. pd' \in [Domains -> GateType]
      BY <1>5, ResetType DEF PadReset
    <3>5. mram' \in MramType /\ mram'.cnt < Stay(mram'.state)
      BY <1>5, ResetType DEF PadReset
    <3> QED BY <1>5, <3>1, <3>2, <3>3, <3>4, <3>5, ResetType, Numbers
        DEF PadReset, PmuType
  <2>2. EnvType'
    BY <1>5, Numbers DEF PadReset, EnvType
  <2> QED BY <2>1, <2>2
<1>6. CASE UNCHANGED vars
  BY <1>6 DEF vars, PmuType, EnvType, pmuVars, sleepVars, regVars
<1> QED BY <1>1, <1>2, <1>3, <1>4, <1>5, <1>6 DEF Next

\* Every register has its width, and the loop counter never passes its limit.
LEMMA InitType == Init => TypeOK
<1> SUFFICES ASSUME Init PROVE TypeOK
  OBVIOUS
<1>1. PmuType
  <2>1. is_sleeping \in BOOLEAN
    BY Zenon DEF Init, ResetValues
  <2>2. loopcount \in 0 .. LoopLimit
    BY Numbers DEF Init, ResetValues
  <2>3. msec_count \in Nat /\ asleepFor \in Nat
    BY DEF Init, ResetValues
  <2>4. pd \in [Domains -> GateType]
    BY ResetType DEF Init, ResetValues
  <2>5. mram \in MramType /\ mram.cnt < Stay(mram.state)
    BY ResetType DEF Init, ResetValues
  <2> QED BY <2>1, <2>2, <2>3, <2>4, <2>5, ResetType, Numbers
      DEF Init, ResetValues, PmuType
<1>2. EnvType
  BY Numbers DEF Init, EnvType
<1> QED BY <1>1, <1>2, TypeParts

LEMMA TypeAlways == Safety => []TypeOK
BY InitType, TypeNext, PTL DEF Safety

\* The same of the specification.
THEOREM WakeupTyping == Spec => []TypeOK
BY TypeAlways, PTL DEF Safety, Spec

-----------------------------------------------------------------------------
(***************************************************************************)
(* The steps of the unit while the test pins rest: an edge of the reference *)
(* clock, with a write only when gap and the processor's reset allow one;   *)
(* switches that settle; the pad reset.                                     *)
(***************************************************************************)
PinsRest == pins = {} /\ curr_state \in NormalStates

Clocked(wen, pmu_en, scratch, mode) ==
    /\ wen \in BOOLEAN /\ pmu_en \in BOOLEAN
    /\ wen => /\ gap = 0 /\ pd["LOGIC"].reset = 1
              /\ scratch \in Scratches \cup {0} /\ mode \in Modes
              /\ pmu_en => scratch \in Scratches
    /\ RefClk(wen, pmu_en, scratch, mode)
    /\ gap' = IF wen THEN MinGap - 1 ELSE GapNxt
    /\ UNCHANGED <<sleep_ack, pins, resets>>

Settling == \E group \in SwitchGroups : SwitchSettles(group)

LEMMA StepKinds ==
    ASSUME Pins = {}, [Next]_vars
    PROVE  \/ \E wen, pmu_en, scratch, mode : Clocked(wen, pmu_en, scratch, mode)
           \/ Settling
           \/ PadReset
           \/ UNCHANGED vars
<1>1. CASE Tick
  <2>1. Clocked(FALSE, FALSE, 0, {})
    BY <1>1 DEF Tick, Clocked
  <2> QED BY <2>1
<1>2. ASSUME NEW pmu_en \in BOOLEAN, NEW scratch \in Scratches \cup {0},
             NEW mode \in Modes, TickWithWrite(pmu_en, scratch, mode)
      PROVE  \E wen, e, s, m : Clocked(wen, e, s, m)
  <2>1. Clocked(TRUE, pmu_en, scratch, mode)
    BY <1>2 DEF TickWithWrite, Clocked
  <2> QED BY <2>1
<1> QED BY <1>1, <1>2 DEF Next, Settling

\* The high-level machine's steps while no pin holds it: from s to t, D being
\* the parts that are done.
HlfsmStep(s, t, D, awake) ==
    /\ s = "FSM_POWER_OFF" => t = IF awake THEN "FSM_POWER_MEM" ELSE s
    /\ s = "FSM_POWER_MEM" =>
          \/ t = s
          \/ t = "FSM_POWER_UDMA" /\ {"L2", "L2_UDMA"} \subseteq D
          \/ t = "FSM_POWER_ON" /\ ("L2" \in D) # ("L2_UDMA" \in D)
    /\ s = "FSM_POWER_UDMA"  => t = IF "UDMA" \in D THEN "FSM_POWER_MRAM" ELSE s
    /\ s = "FSM_POWER_MRAM"  => t = IF "MRAM" \in D THEN "FSM_POWER_LOGIC" ELSE s
    /\ s = "FSM_POWER_LOGIC" =>
          t = IF "LOGIC" \in D \/ "L1" \in D THEN "FSM_POWER_ON" ELSE s
    /\ s = "FSM_POWER_ON" => t = IF awake THEN s ELSE "FSM_POWER_OFF"

LEMMA HlfsmSteps ==
    ASSUME NEW s \in NormalStates, NEW D, NEW awake \in BOOLEAN
    PROVE  HlfsmStep(s, HlfsmNxt(s, D, awake, FALSE, FALSE), D, awake)
<1> SUFFICES ASSUME NEW t, t = HlfsmNxt(s, D, awake, FALSE, FALSE)
             PROVE  HlfsmStep(s, t, D, awake)
  OBVIOUS
<1>1. s \notin StepStates
  BY DEF NormalStates, StepStates, Successor, SteppedFrom
<1>2. t = IF Blocked(s, D, awake) THEN s
          ELSE IF Ready(s, D, awake) THEN Successor[s] ELSE "FSM_POWER_ON"
  BY <1>1 DEF HlfsmNxt
<1>3. CASE s = "FSM_POWER_OFF"
  <2>1. (Blocked(s, D, awake) <=> ~awake) /\ (Ready(s, D, awake) <=> awake)
    BY <1>3 DEF Blocked, Ready
  <2> QED BY <1>2, <1>3, <2>1 DEF Successor, HlfsmStep
<1>4. CASE s = "FSM_POWER_ON"
  <2>1. (Blocked(s, D, awake) <=> awake) /\ (Ready(s, D, awake) <=> ~awake)
    BY <1>4 DEF Blocked, Ready
  <2> QED BY <1>2, <1>4, <2>1 DEF Successor, HlfsmStep
<1>5. CASE s = "FSM_POWER_MEM"
  <2>1. /\ Blocked(s, D, awake) <=> "L2" \notin D /\ "L2_UDMA" \notin D
        /\ Ready(s, D, awake) <=> {"L2", "L2_UDMA"} \subseteq D
    BY <1>5 DEF Blocked, Ready, Awaited
  <2> QED BY <1>2, <1>5, <2>1 DEF Successor, HlfsmStep
<1>6. CASE s = "FSM_POWER_UDMA"
  <2>1. /\ Blocked(s, D, awake) <=> "UDMA" \notin D
        /\ Ready(s, D, awake) <=> "UDMA" \in D
    BY <1>6 DEF Blocked, Ready, Awaited
  <2> QED BY <1>2, <1>6, <2>1 DEF Successor, HlfsmStep
<1>7. CASE s = "FSM_POWER_MRAM"
  <2>1. /\ Blocked(s, D, awake) <=> "MRAM" \notin D
        /\ Ready(s, D, awake) <=> "MRAM" \in D
    BY <1>7 DEF Blocked, Ready, Awaited
  <2> QED BY <1>2, <1>7, <2>1 DEF Successor, HlfsmStep
<1>8. CASE s = "FSM_POWER_LOGIC"
  <2>1. Blocked(s, D, awake) <=> "LOGIC" \notin D /\ "L1" \notin D
    BY <1>8 DEF Blocked, Awaited
  <2> QED BY <1>2, <1>8, <2>1 DEF Successor, HlfsmStep
<1> QED BY <1>3, <1>4, <1>5, <1>6, <1>7, <1>8 DEF NormalStates, Successor

-----------------------------------------------------------------------------
\* What the registers of a gate say of its state.
Trails(g) ==
    /\ g.state \in {"POWER_ON", "CLK_ENABLE", "ISOLATE"} => g.reset = 1
    /\ g.reset = 1 => g.state \in {"POWER_ON", "CLK_ENABLE", "ISOLATE", "RESET"}
    /\ g.state \in {"POWER_ON", "CLK_ENABLE", "ISOLATE", "RESET"} => g.sleep_send = 0
    /\ g.state = "POWER_ON" => g.clk_en = 1
    /\ g.clk_en = 1 => g.state \in {"POWER_ON", "CLK_ENABLE"}

LEMMA GateFields ==
    ASSUME NEW g, NEW a, NEW w
    PROVE  /\ GateClk(g, a, w).state = StateNxt(g.state, w, a, g.sleep_send)
           /\ GateClk(g, a, w).clk_en = ClkEnNxt(g.state, w)
           /\ GateClk(g, a, w).reset = ResetNxt(g.state, w)
           /\ GateClk(g, a, w).sleep_send = SleepSendNxt(g.state, w)
BY DEF GateClk

LEMMA GateTrails ==
    ASSUME NEW g \in GateType, Trails(g), NEW a \in Bit, NEW w \in BOOLEAN
    PROVE  Trails(GateClk(g, a, w))
<1> DEFINE h == GateClk(g, a, w)
<1>1. g.state \in States /\ g.sleep_send \in Bit
  BY DEF GateType
<1>2. /\ h.state = StateNxt(g.state, w, a, g.sleep_send)
      /\ h.clk_en = ClkEnNxt(g.state, w)
      /\ h.reset = ResetNxt(g.state, w)
      /\ h.sleep_send = SleepSendNxt(g.state, w)
  BY GateFields
<1> HIDE DEF h
<1>3. Trails(h)
  BY <1>1, <1>2 DEF Trails, States, StateNxt, Up, Down, ClkEnNxt, ResetNxt,
     SleepSendNxt, ToBit
<1> QED BY <1>3 DEF h

\* The parts that are powered in each normal state.
LEMMA PoweredIn ==
    ASSUME NEW s \in NormalStates, NEW mode, NEW part \in Parts
    PROVE  /\ s = "FSM_POWER_OFF" =>
                (part \in Powered(s, mode) <=> part \in KeptAsleep(mode))
           /\ s = "FSM_POWER_MEM" =>
                (part \in Powered(s, mode)
                    <=> part \in KeptAsleep(mode) \/ part \in {"L2", "L2_UDMA"})
           /\ s = "FSM_POWER_UDMA" =>
                (part \in Powered(s, mode)
                    <=> part \in KeptAsleep(mode) \/ part \in {"L2", "L2_UDMA", "UDMA"})
           /\ s = "FSM_POWER_MRAM" =>
                (part \in Powered(s, mode) <=> part \notin {"LOGIC", "L1"})
           /\ s = "FSM_POWER_LOGIC" => part \in Powered(s, mode)
           /\ s = "FSM_POWER_ON" =>
                (part \in Powered(s, mode)
                    <=> (part = "MRAM" => "pd_mram_active" \notin mode))
<1>1. Base(s) = s
  BY DEF Base, NormalStates, StepStates, Successor, SteppedFrom
<1> HIDE DEF KeptAsleep
<1>2. CASE s \in {"FSM_POWER_OFF", "FSM_POWER_MEM", "FSM_POWER_UDMA"}
  BY <1>1, <1>2 DEF Powered
<1>3. CASE s \in {"FSM_POWER_MRAM", "FSM_POWER_LOGIC", "FSM_POWER_ON"}
  BY <1>1, <1>3 DEF Powered, Parts, Domains
<1> QED BY <1>2, <1>3 DEF NormalStates, Successor

\* While the pins rest, what is wanted is what the machine powers.
LEMMA WantedIsPowered ==
    PinsRest => \A part : IsWanted(part) <=> part \in Powered(curr_state, reg_pmu_mode_reg)
BY DEF PinsRest, IsWanted, Wanted, s_power_of, ToBit

\* The processor's domain, which no mode keeps.
LEMMA LogicWanted ==
    PinsRest => (IsWanted("LOGIC") <=> curr_state \in {"FSM_POWER_LOGIC", "FSM_POWER_ON"})
<1> SUFFICES ASSUME PinsRest
             PROVE  IsWanted("LOGIC") <=> curr_state \in {"FSM_POWER_LOGIC", "FSM_POWER_ON"}
  OBVIOUS
<1>1. IsWanted("LOGIC") <=> "LOGIC" \in Powered(curr_state, reg_pmu_mode_reg)
  BY WantedIsPowered
<1>2. "LOGIC" \in Parts /\ "LOGIC" \notin KeptAsleep(reg_pmu_mode_reg)
  BY DEF Domains, Parts, KeptAsleep
<1>3. curr_state \in NormalStates
  BY DEF PinsRest
<1>4. CASE curr_state \in {"FSM_POWER_LOGIC", "FSM_POWER_ON"}
  BY <1>1, <1>2, <1>3, <1>4, PoweredIn
<1>5. CASE curr_state \in {"FSM_POWER_OFF", "FSM_POWER_MEM", "FSM_POWER_UDMA", "FSM_POWER_MRAM"}
  BY <1>1, <1>2, <1>3, <1>5, PoweredIn
<1> QED BY <1>3, <1>4, <1>5 DEF NormalStates, Successor

GatesTrail == \A d \in Domains : Trails(pd[d])

\* An edge of the reference clock, gate by gate.
LEMMA ClockedGate ==
    ASSUME NEW wen, NEW pmu_en, NEW scratch, NEW mode,
           Clocked(wen, pmu_en, scratch, mode), NEW d \in Domains
    PROVE  /\ pd'[d] = GateClk(pd[d], sleep_ack[d], IsWanted(d))
           /\ pd'[d].state = StateNxt(pd[d].state, IsWanted(d), sleep_ack[d],
                                      pd[d].sleep_send)
           /\ pd'[d].clk_en = ClkEnNxt(pd[d].state, IsWanted(d))
           /\ pd'[d].reset = ResetNxt(pd[d].state, IsWanted(d))
           /\ pd'[d].sleep_send = SleepSendNxt(pd[d].state, IsWanted(d))
<1>1. pd'[d] = GateClk(pd[d], sleep_ack[d], IsWanted(d))
  BY DEF Clocked, RefClk
<1> QED BY <1>1, GateFields

\* ... and in the high-level machine.
LEMMA ClockedHlfsm ==
    ASSUME NEW wen, NEW pmu_en, NEW scratch, NEW mode,
           Clocked(wen, pmu_en, scratch, mode), PinsRest, is_sleeping \in BOOLEAN
    PROVE  HlfsmStep(curr_state, curr_state', doneParts, ~is_sleeping)
<1>1. ("hold" \in pins) = FALSE /\ ("step" \in pins) = FALSE
  BY DEF PinsRest
<1>2. curr_state' = HlfsmNxt(curr_state, doneParts, ~is_sleeping,
                             "hold" \in pins, "step" \in pins)
  BY Zenon DEF Clocked, RefClk
<1>3. curr_state' = HlfsmNxt(curr_state, doneParts, ~is_sleeping, FALSE, FALSE)
  BY <1>1, <1>2, Zenon
<1>4. (~is_sleeping) \in BOOLEAN
  OBVIOUS
<1> QED BY <1>3, <1>4, HlfsmSteps DEF PinsRest

LEMMA RestNext ==
    ASSUME Pins = {}, TypeOK, PinsRest, GatesTrail, [Next]_vars
    PROVE  PinsRest' /\ GatesTrail'
<1>1. ASSUME NEW wen, NEW pmu_en, NEW scratch, NEW mode,
             Clocked(wen, pmu_en, scratch, mode)
      PROVE  PinsRest' /\ GatesTrail'
  <2>1. HlfsmStep(curr_state, curr_state', doneParts, ~is_sleeping)
    BY <1>1, ClockedHlfsm DEF TypeOK
  <2>2. PinsRest'
    BY <1>1, <2>1 DEF HlfsmStep, PinsRest, NormalStates, Successor, Clocked
  <2>3. ASSUME NEW d \in Domains PROVE Trails(pd'[d])
    <3>1. IsWanted(d) \in BOOLEAN
      BY DEF IsWanted, Wanted
    <3> QED BY <1>1, <3>1, ClockedGate, GateTrails DEF TypeOK, GatesTrail
  <2> QED BY <2>2, <2>3 DEF GatesTrail
<1>2. CASE PadReset
  BY <1>2 DEF PadReset, PinsRest, NormalStates, Successor, GatesTrail,
     Trails, GateReset
<1>3. CASE UNCHANGED <<curr_state, pins, pd>>
  BY <1>3 DEF PinsRest, GatesTrail
<1> QED
  BY <1>1, <1>2, <1>3, StepKinds
  DEF Settling, SwitchSettles, pmuVars, vars

\* While the pins rest the machine stays in its normal states, and the registers
\* of a gate never contradict its state.
LEMMA RestAlways == ASSUME Pins = {} PROVE Safety => [](PinsRest /\ GatesTrail)
<1>1. Init => PinsRest /\ GatesTrail
  BY DEF Init, ResetValues, PinsRest, NormalStates, Successor, GatesTrail,
     Trails, GateReset
<1>2. TypeOK /\ PinsRest /\ GatesTrail /\ [Next]_vars => (PinsRest /\ GatesTrail)'
  BY RestNext
<1> QED BY <1>1, <1>2, TypeAlways, PTL DEF Safety

-----------------------------------------------------------------------------
(***************************************************************************)
(* How long the processor can still write once it has asked for a sleep:    *)
(* the machine takes it down in five clocks, and the next write is at least *)
(* as far away.  The invariant counts those clocks from every state a wake- *)
(* up may have left the processor's domain in.                              *)
(***************************************************************************)
HandshakeTimes == MinGap >= 6 /\ MinBoot >= 2

ClocksToReset == [POWER_ON |-> 4, CLK_ENABLE |-> 3, ISOLATE |-> 2, RESET |-> 1]
ClocksAsleep  == [POWER_ON |-> 5, CLK_ENABLE |-> 5, ISOLATE |-> 4, RESET |-> 3]
ClocksToWake  == [POWER_ON |-> 0, CLK_ENABLE |-> 1, ISOLATE |-> 2]

LogicTiming ==
    /\ is_sleeping => curr_state \in {"FSM_POWER_OFF", "FSM_POWER_ON"}
    /\ pd["LOGIC"].reset = 1 =>
         /\ curr_state = "FSM_POWER_MEM"  => pd["LOGIC"].state # "POWER_ON"
         /\ curr_state = "FSM_POWER_UDMA" => pd["LOGIC"].state \in {"ISOLATE", "RESET"}
         /\ curr_state = "FSM_POWER_MRAM" => pd["LOGIC"].state = "RESET"
         /\ curr_state \notin {"FSM_POWER_LOGIC", "FSM_POWER_ON"} =>
               gap >= ClocksToReset[pd["LOGIC"].state]
         /\ curr_state = "FSM_POWER_LOGIC" =>
               /\ pd["LOGIC"].state # "RESET"
               /\ gap >= ClocksToWake[pd["LOGIC"].state]
         /\ curr_state = "FSM_POWER_ON" /\ is_sleeping =>
               gap >= ClocksAsleep[pd["LOGIC"].state]

\* No write can reach a machine that is asleep, or one still on its way up.
LEMMA NoWriteAsleep ==
    ASSUME TypeOK, PinsRest, GatesTrail, LogicTiming,
           gap = 0, pd["LOGIC"].reset = 1
    PROVE  /\ ~is_sleeping
           /\ \/ curr_state = "FSM_POWER_ON"
              \/ curr_state = "FSM_POWER_LOGIC" /\ pd["LOGIC"].state = "POWER_ON"
<1>1. pd["LOGIC"].state \in {"POWER_ON", "CLK_ENABLE", "ISOLATE", "RESET"}
  BY DEF GatesTrail, Trails, Domains
<1> QED BY <1>1 DEF LogicTiming, ClocksToReset, ClocksAsleep, ClocksToWake, TypeOK

LEMMA TimingClocked ==
    ASSUME HandshakeTimes, TypeOK, PinsRest, GatesTrail, GatesTrail', LogicTiming,
           NEW wen, NEW pmu_en, NEW scratch, NEW mode,
           Clocked(wen, pmu_en, scratch, mode)
    PROVE  LogicTiming'
<1> DEFINE g == pd["LOGIC"].state
           h == pd'["LOGIC"].state
           r == pd["LOGIC"].reset
<1>1. "LOGIC" \in Domains /\ "LOGIC" \in Parts /\ "LOGIC" \notin KeptAsleep(reg_pmu_mode_reg)
  BY DEF Domains, Parts, KeptAsleep
<1>2. IsWanted("LOGIC") <=> curr_state \in {"FSM_POWER_LOGIC", "FSM_POWER_ON"}
  BY LogicWanted
<1>3. HlfsmStep(curr_state, curr_state', doneParts, ~is_sleeping)
  BY ClockedHlfsm DEF TypeOK
<1>4. /\ h = StateNxt(g, IsWanted("LOGIC"), sleep_ack["LOGIC"], pd["LOGIC"].sleep_send)
      /\ pd'["LOGIC"].reset = ResetNxt(g, IsWanted("LOGIC"))
  BY <1>1, ClockedGate
<1>5. g \in States /\ Trails(pd["LOGIC"]) /\ Trails(pd'["LOGIC"])
  BY <1>1 DEF TypeOK, GateType, GatesTrail
<1>6. /\ wen \in BOOLEAN /\ wen => gap = 0 /\ r = 1
      /\ gap' = IF wen THEN MinGap - 1
                ELSE IF r = 0 THEN MinBoot ELSE IF gap > 0 THEN gap - 1 ELSE 0
      /\ gap \in Nat /\ r \in {0, 1}
  BY <1>1 DEF Clocked, GapNxt, TypeOK, GateType
<1>7. is_sleeping' => is_sleeping \/ wen
  BY DEF Clocked, RefClk, SleepNxt
<1>8. g = "POWER_ON" /\ IsWanted("LOGIC") => "LOGIC" \in doneParts
  BY <1>1, <1>2 DEF doneParts, Done, PinsRest, IsWanted, Wanted, s_power_of, ToBit
<1>9. wen => /\ ~is_sleeping
             /\ \/ curr_state = "FSM_POWER_ON"
                \/ curr_state = "FSM_POWER_LOGIC" /\ g = "POWER_ON"
  BY <1>6, NoWriteAsleep
<1> HIDE DEF g, h, r
<1>10. /\ is_sleeping => curr_state \in {"FSM_POWER_OFF", "FSM_POWER_ON"}
       /\ r = 1 =>
            /\ curr_state = "FSM_POWER_MEM"  => g # "POWER_ON"
            /\ curr_state = "FSM_POWER_UDMA" => g \in {"ISOLATE", "RESET"}
            /\ curr_state = "FSM_POWER_MRAM" => g = "RESET"
            /\ curr_state \notin {"FSM_POWER_LOGIC", "FSM_POWER_ON"} =>
                  gap >= ClocksToReset[g]
            /\ curr_state = "FSM_POWER_LOGIC" => g # "RESET" /\ gap >= ClocksToWake[g]
            /\ curr_state = "FSM_POWER_ON" /\ is_sleeping => gap >= ClocksAsleep[g]
  BY DEF LogicTiming, g, r
<1>11. SUFFICES
         /\ is_sleeping' => curr_state' \in {"FSM_POWER_OFF", "FSM_POWER_ON"}
         /\ pd'["LOGIC"].reset = 1 =>
              /\ curr_state' = "FSM_POWER_MEM"  => h # "POWER_ON"
              /\ curr_state' = "FSM_POWER_UDMA" => h \in {"ISOLATE", "RESET"}
              /\ curr_state' = "FSM_POWER_MRAM" => h = "RESET"
              /\ curr_state' \notin {"FSM_POWER_LOGIC", "FSM_POWER_ON"} =>
                    gap' >= ClocksToReset[h]
              /\ curr_state' = "FSM_POWER_LOGIC" => h # "RESET" /\ gap' >= ClocksToWake[h]
              /\ curr_state' = "FSM_POWER_ON" /\ is_sleeping' => gap' >= ClocksAsleep[h]
  BY DEF LogicTiming, h
\* One rung of the gate, and the clocks of the rungs.
<1>12. ~IsWanted("LOGIC") /\ pd'["LOGIC"].reset = 1 =>
         /\ r = 1
         /\ \/ g = "POWER_ON"   /\ h = "CLK_ENABLE"
            \/ g = "CLK_ENABLE" /\ h = "ISOLATE"
            \/ g = "ISOLATE"    /\ h = "RESET"
  BY <1>4, <1>5 DEF StateNxt, Down, ResetNxt, ToBit, Trails, States, g, r
<1>13. IsWanted("LOGIC") /\ pd'["LOGIC"].reset = 1 =>
         \/ g = "POWER_ON"   /\ h = "POWER_ON"   /\ r = 1
         \/ g = "CLK_ENABLE" /\ h = "POWER_ON"   /\ r = 1
         \/ g = "ISOLATE"    /\ h = "CLK_ENABLE" /\ r = 1
         \/ g = "RESET"      /\ h = "ISOLATE"
  BY <1>4, <1>5, <1>6 DEF StateNxt, Up, ResetNxt, ToBit, Trails, States, g, r
<1>14. /\ ClocksToReset["POWER_ON"] = 4 /\ ClocksToReset["CLK_ENABLE"] = 3
       /\ ClocksToReset["ISOLATE"] = 2  /\ ClocksToReset["RESET"] = 1
       /\ ClocksAsleep["POWER_ON"] = 5  /\ ClocksAsleep["CLK_ENABLE"] = 5
       /\ ClocksAsleep["ISOLATE"] = 4   /\ ClocksAsleep["RESET"] = 3
       /\ ClocksToWake["POWER_ON"] = 0  /\ ClocksToWake["CLK_ENABLE"] = 1
       /\ ClocksToWake["ISOLATE"] = 2
  BY DEF ClocksToReset, ClocksAsleep, ClocksToWake
<1>15. MinGap \in Nat /\ MinBoot \in Nat /\ MinGap >= 6 /\ MinBoot >= 2
  BY Numbers DEF HandshakeTimes
<1>16. CASE curr_state = "FSM_POWER_OFF"
  <2>1. curr_state' \in {"FSM_POWER_OFF", "FSM_POWER_MEM"} /\ ~IsWanted("LOGIC") /\ ~wen
    BY <1>2, <1>3, <1>9, <1>16 DEF HlfsmStep
  <2>2. is_sleeping' => curr_state' = "FSM_POWER_OFF"
    BY <1>3, <1>7, <1>16, <2>1 DEF HlfsmStep
  <2>3. pd'["LOGIC"].reset = 1 => h # "POWER_ON" /\ gap' >= ClocksToReset[h]
    BY <1>6, <1>10, <1>12, <1>14, <1>16, <2>1
  <2> QED BY <2>1, <2>2, <2>3
<1>17. CASE curr_state \in {"FSM_POWER_MEM", "FSM_POWER_UDMA", "FSM_POWER_MRAM"}
  <2>1. ~IsWanted("LOGIC") /\ ~wen /\ ~is_sleeping'
    BY <1>2, <1>7, <1>9, <1>10, <1>17
  <2>2. pd'["LOGIC"].reset = 1 => gap' >= ClocksToReset[h]
    BY <1>6, <1>10, <1>12, <1>14, <1>17, <2>1
  <2>3. CASE curr_state = "FSM_POWER_MEM"
    <3>1. curr_state' \in {"FSM_POWER_MEM", "FSM_POWER_UDMA", "FSM_POWER_ON"}
      BY <1>3, <2>3 DEF HlfsmStep
    <3>2. pd'["LOGIC"].reset = 1 => h \in {"ISOLATE", "RESET"}
      BY <1>10, <1>12, <2>1, <2>3
    <3> QED BY <2>1, <2>2, <3>1, <3>2
  <2>4. CASE curr_state = "FSM_POWER_UDMA"
    <3>1. curr_state' \in {"FSM_POWER_UDMA", "FSM_POWER_MRAM"}
      BY <1>3, <2>4 DEF HlfsmStep
    <3>2. pd'["LOGIC"].reset = 1 => h = "RESET"
      BY <1>10, <1>12, <2>1, <2>4
    <3> QED BY <2>1, <2>2, <3>1, <3>2
  <2>5. CASE curr_state = "FSM_POWER_MRAM"
    <3>1. pd'["LOGIC"].reset # 1
      BY <1>10, <1>12, <2>1, <2>5
    <3> QED BY <2>1, <3>1
  <2> QED BY <1>17, <2>3, <2>4, <2>5
<1>18. CASE curr_state = "FSM_POWER_LOGIC"
  <2>1. /\ IsWanted("LOGIC") /\ ~is_sleeping
        /\ curr_state' \in {"FSM_POWER_LOGIC", "FSM_POWER_ON"}
    BY <1>2, <1>3, <1>10, <1>18 DEF HlfsmStep
  <2>2. wen => g = "POWER_ON" /\ gap' >= 5
    BY <1>6, <1>9, <1>15, <1>18
  <2>3. is_sleeping' => wen /\ curr_state' = "FSM_POWER_ON"
    BY <1>3, <1>7, <1>8, <1>18, <2>1, <2>2 DEF HlfsmStep
  <2>4. ASSUME pd'["LOGIC"].reset = 1, curr_state' = "FSM_POWER_LOGIC"
        PROVE  h # "RESET" /\ gap' >= ClocksToWake[h]
    <3>1. g # "POWER_ON" /\ ~wen
      BY <1>3, <1>8, <1>18, <2>1, <2>2, <2>4 DEF HlfsmStep
    <3>2. CASE r = 1
      BY <1>6, <1>10, <1>13, <1>14, <1>18, <2>1, <2>4, <3>1, <3>2
    <3>3. CASE r # 1
      BY <1>6, <1>13, <1>14, <1>15, <2>1, <2>4, <3>1, <3>3
    <3> QED BY <3>2, <3>3
  <2>5. ASSUME pd'["LOGIC"].reset = 1, is_sleeping'
        PROVE  gap' >= ClocksAsleep[h]
    BY <1>6, <1>13, <1>14, <1>15, <2>1, <2>2, <2>3, <2>5
  <2> QED BY <2>1, <2>3, <2>4, <2>5
<1>19. CASE curr_state = "FSM_POWER_ON"
  <2>1. /\ IsWanted("LOGIC")
        /\ curr_state' = IF ~is_sleeping THEN "FSM_POWER_ON" ELSE "FSM_POWER_OFF"
    BY <1>2, <1>3, <1>19 DEF HlfsmStep
  <2>2. ASSUME pd'["LOGIC"].reset = 1, is_sleeping
        PROVE  gap' >= ClocksToReset[h]
    <3>1. ~wen
      BY <1>9, <2>2
    <3>2. CASE r = 1
      BY <1>6, <1>10, <1>13, <1>14, <1>19, <2>1, <2>2, <3>1, <3>2
    <3>3. CASE r # 1
      BY <1>6, <1>13, <1>14, <1>15, <2>1, <2>2, <3>1, <3>3
    <3> QED BY <3>2, <3>3
  <2>3. ASSUME pd'["LOGIC"].reset = 1, ~is_sleeping, is_sleeping'
        PROVE  gap' >= ClocksAsleep[h]
    <3>1. gap' >= 5
      BY <1>6, <1>7, <1>15, <2>3
    <3> QED BY <1>6, <1>13, <1>14, <1>15, <2>1, <2>3, <3>1
  <2> QED BY <2>1, <2>2, <2>3
<1> QED BY <1>16, <1>17, <1>18, <1>19 DEF PinsRest, NormalStates, Successor

LEMMA TimingNext ==
    ASSUME Pins = {}, HandshakeTimes, TypeOK, PinsRest, GatesTrail, GatesTrail',
           LogicTiming, [Next]_vars
    PROVE  LogicTiming'
<1>1. ASSUME NEW wen, NEW pmu_en, NEW scratch, NEW mode,
             Clocked(wen, pmu_en, scratch, mode)
      PROVE  LogicTiming'
  BY <1>1, TimingClocked
<1>2. CASE PadReset
  BY <1>2 DEF PadReset, LogicTiming, Domains, GateReset
<1>3. CASE UNCHANGED <<is_sleeping, curr_state, pd, gap>>
  BY <1>3 DEF LogicTiming
<1> QED
  BY <1>1, <1>2, <1>3, StepKinds
  DEF Settling, SwitchSettles, pmuVars, sleepVars, vars

LEMMA TimingAlways ==
    ASSUME Pins = {}, HandshakeTimes PROVE Safety => []LogicTiming
<1>1. Init => LogicTiming
  BY DEF Init, ResetValues, LogicTiming, Domains, GateReset
<1>2. TypeOK /\ PinsRest /\ GatesTrail /\ GatesTrail' /\ LogicTiming /\ [Next]_vars
         => LogicTiming'
  BY TimingNext
<1> QED BY <1>1, <1>2, TypeAlways, RestAlways, PTL DEF Safety

-----------------------------------------------------------------------------
(***************************************************************************)
(* The two counters and the time they stand for.                            *)
(***************************************************************************)
\* A sleep has just begun when the machine is still in FSM_POWER_ON.
CountInvariant ==
    /\ SleepCounted
    /\ is_sleeping /\ curr_state = "FSM_POWER_ON" =>
          msec_count = 0 /\ asleepFor = 0 /\ reg_scratch_reg \in Scratches

\* Whole milliseconds below the time asked for leave room for one more.
LEMMA OneMore ==
    ASSUME NEW a \in Nat, NEW m \in Nat, NEW n \in Nat, m < n
    PROVE  a * m + a <= a * n /\ a * (m + 1) = a * m + a
<1>1. a * (m + 1) = a * m + a
  OBVIOUS
<1>2. PICK k \in Nat : n = (m + 1) + k
  <2> WITNESS n - (m + 1) \in Nat
  <2> QED OBVIOUS
<1>3. a * n = a * (m + 1) + a * k /\ a * k >= 0 /\ a * (m + 1) \in Nat
  BY <1>2
<1> QED BY <1>1, <1>3

LEMMA Products ==
    ASSUME NEW a \in Nat, NEW n \in Nat PROVE a * n \in Nat /\ a * 0 = 0
OBVIOUS

LEMMA CountClocked ==
    ASSUME TypeOK, PinsRest, GatesTrail, LogicTiming, CountInvariant,
           NEW wen, NEW pmu_en, NEW scratch, NEW mode,
           Clocked(wen, pmu_en, scratch, mode)
    PROVE  CountInvariant'
<1>1. CASE ~is_sleeping
  <2>1. msec_count' = 0 /\ loopcount' = 0 /\ asleepFor' = 0
    BY <1>1 DEF Clocked, RefClk, MsecNxt, LoopNxt, AsleepNxt
  <2>2. is_sleeping' => reg_scratch_reg' \in Scratches
    BY <1>1 DEF Clocked, RefClk, SleepNxt
  <2>3. reg_scratch_reg' \in Nat
    <3>1. reg_scratch_reg' \in Scratches \cup {0}
      BY DEF Clocked, RefClk, TypeOK
    <3> QED BY <3>1, ConstantsAssumption
  <2>4. SleepCounted'
    <3>1. (LoopLimit + 1) * 0 = 0 /\ (LoopLimit + 1) * reg_scratch_reg' \in Nat
      <4>1. LoopLimit + 1 \in Nat
        BY Numbers
      <4> QED BY <2>3, <4>1, Products, Zenon
    <3>2. /\ asleepFor' = (LoopLimit + 1) * msec_count' + loopcount'
          /\ asleepFor' <= (LoopLimit + 1) * reg_scratch_reg'
      BY <2>1, <3>1
    <3> QED BY <3>2 DEF SleepCounted, AsleepLimit
  <2> QED BY <2>1, <2>2, <2>4 DEF CountInvariant
<1>2. CASE is_sleeping
  <2>1. ~wen
    BY <1>2, NoWriteAsleep DEF Clocked
  <2>2. reg_scratch_reg' = reg_scratch_reg /\ reg_scratch_reg \in Nat
    BY <2>1, ConstantsAssumption DEF Clocked, RefClk, TypeOK
  <2>3. curr_state' # "FSM_POWER_ON"
    BY <1>2, ClockedHlfsm DEF HlfsmStep, LogicTiming, TypeOK
  <2>4. SleepCounted'
    <3> DEFINE past == (LoopLimit + 1) * msec_count
               next == (LoopLimit + 1) * msec_count'
               all  == (LoopLimit + 1) * reg_scratch_reg
    <3> SUFFICES ASSUME is_sleeping'
                 PROVE  asleepFor' = next + loopcount' /\ asleepFor' <= all
      BY <2>2 DEF SleepCounted, AsleepLimit
    <3>1. msec_count < reg_scratch_reg
      <4>1. ~wakeup_alarm
        BY <1>2 DEF Clocked, RefClk, SleepNxt
      <4> QED BY <2>2, <4>1 DEF wakeup_alarm, TypeOK
    <3>2. asleepFor = past + loopcount /\ asleepFor <= all
      BY <1>2 DEF CountInvariant, SleepCounted, AsleepLimit
    <3>3. asleepFor' = asleepFor + 1
      BY <1>2, <2>2, <3>2, Numbers
      DEF Clocked, RefClk, AsleepNxt, AsleepLimit, TypeOK
    <3>4. /\ past + (LoopLimit + 1) <= all
          /\ msec_count' = msec_count + 1 => next = past + (LoopLimit + 1)
          /\ past \in Nat
      BY <2>2, <3>1, Numbers, OneMore DEF TypeOK
    <3>5. msec_count' = msec_count => next = past
      OBVIOUS
    <3>6. all \in Nat
      BY <2>2, Numbers
    <3> HIDE DEF past, next, all
    <3>7. CASE one_msec
      <4>1. loopcount = LoopLimit /\ loopcount' = 0 /\ msec_count' = msec_count + 1
        BY <1>2, <3>7, Numbers DEF Clocked, RefClk, LoopNxt, MsecNxt, one_msec, TypeOK
      <4> QED BY <3>2, <3>3, <3>4, <3>6, <4>1, Numbers
    <3>8. CASE ~one_msec
      <4>1. /\ loopcount < LoopLimit /\ loopcount' = loopcount + 1
            /\ msec_count' = msec_count /\ loopcount \in Nat
        BY <1>2, <3>8, Numbers DEF Clocked, RefClk, LoopNxt, MsecNxt, one_msec, TypeOK
      <4> QED BY <3>2, <3>3, <3>4, <3>5, <3>6, <4>1, Numbers
    <3> QED BY <3>7, <3>8
  <2> QED BY <2>3, <2>4 DEF CountInvariant
<1> QED BY <1>1, <1>2

LEMMA CountNext ==
    ASSUME Pins = {}, TypeOK, PinsRest, GatesTrail, LogicTiming, CountInvariant,
           [Next]_vars
    PROVE  CountInvariant'
<1>1. ASSUME NEW wen, NEW pmu_en, NEW scratch, NEW mode,
             Clocked(wen, pmu_en, scratch, mode)
      PROVE  CountInvariant'
  BY <1>1, CountClocked
<1>2. CASE PadReset
  BY <1>2 DEF PadReset, CountInvariant, SleepCounted
<1>3. CASE UNCHANGED <<curr_state, sleepVars, regVars>>
  BY <1>3 DEF CountInvariant, SleepCounted, AsleepLimit, sleepVars, regVars
<1> QED
  BY <1>1, <1>2, <1>3, StepKinds DEF Settling, SwitchSettles, pmuVars, vars

LEMMA CountAlways ==
    ASSUME Pins = {}, HandshakeTimes PROVE Safety => []CountInvariant
<1>1. Init => CountInvariant
  BY DEF Init, ResetValues, CountInvariant, SleepCounted
<1>2. TypeOK /\ PinsRest /\ GatesTrail /\ LogicTiming /\ CountInvariant
      /\ [Next]_vars => CountInvariant'
  BY CountNext
<1> QED BY <1>1, <1>2, TypeAlways, RestAlways, TimingAlways, PTL DEF Safety

\* It is the alarm that ends a sleep, and it does so when the time is up.
LEMMA AlarmIsExact ==
    ASSUME Pins = {}, TypeOK, CountInvariant, [Next]_vars
    PROVE  [is_sleeping /\ ~is_sleeping' /\ resets' = resets =>
               asleepFor = AsleepLimit]_vars
<1> SUFFICES ASSUME is_sleeping, ~is_sleeping', resets' = resets
             PROVE  asleepFor = AsleepLimit
  OBVIOUS
<1>1. \E wen, pmu_en, scratch, mode : Clocked(wen, pmu_en, scratch, mode)
  <2>1. ~PadReset
    BY DEF PadReset, TypeOK
  <2>2. ~UNCHANGED is_sleeping
    OBVIOUS
  <2> QED BY <2>1, <2>2, StepKinds DEF Settling, SwitchSettles, pmuVars, sleepVars, vars
<1>2. msec_count >= reg_scratch_reg
  BY <1>1 DEF Clocked, RefClk, SleepNxt, wakeup_alarm
<1>3. /\ LoopLimit + 1 \in Nat /\ LoopLimit + 1 > 0
      /\ msec_count \in Nat /\ reg_scratch_reg \in Nat /\ loopcount \in Nat
  BY Numbers, ConstantsAssumption DEF TypeOK
<1> DEFINE whole == (LoopLimit + 1) * msec_count
           asked == (LoopLimit + 1) * reg_scratch_reg
<1>4. asleepFor = whole + loopcount /\ asleepFor <= asked
  BY DEF CountInvariant, SleepCounted, AsleepLimit
<1>5. whole \in Nat /\ asked \in Nat
  BY <1>3, Products
<1>6. reg_scratch_reg < msec_count => asked + (LoopLimit + 1) <= whole
  BY <1>3, OneMore
<1>7. msec_count = reg_scratch_reg => whole = asked
  OBVIOUS
<1> HIDE DEF whole, asked
<1>8. asleepFor = asked
  BY <1>2, <1>3, <1>4, <1>5, <1>6, <1>7
<1> QED BY <1>8 DEF asked, AsleepLimit

\* Every sleep lasts the time software asked for, whatever that time is: no
\* write of the waking or the falling processor reaches the sleeping machine,
\* and the alarm neither is late nor comes early.
THEOREM SleepIsExact ==
    ASSUME Pins = {}, HandshakeTimes PROVE Spec => SleepTimeExact
<1>1. CountInvariant => SleepCounted
  BY DEF CountInvariant
<1>2. TypeOK /\ CountInvariant /\ [Next]_vars =>
         [is_sleeping /\ ~is_sleeping' /\ resets' = resets =>
             asleepFor = AsleepLimit]_vars
  BY AlarmIsExact
<1> QED
  BY <1>1, <1>2, TypeAlways, CountAlways, PTL DEF Safety, Spec, SleepTimeExact

-----------------------------------------------------------------------------
(***************************************************************************)
(* The supply under a domain.  SWITCH_POWER_1 looks at the acknowledge of   *)
(* the value last sent: a request withdrawn there and made again in the     *)
(* next clock would take the old acknowledge for the new one.  The machine  *)
(* never does that: it withdraws requests only when it enters               *)
(* FSM_POWER_OFF, and stays there for at least two clocks.                  *)
(***************************************************************************)
SupplyInvariant ==
    \A d \in Domains :
      /\ pd[d].state \in {"POWER_ON", "CLK_ENABLE", "ISOLATE", "RESET"} =>
            sleep_ack[d] = 0
      /\ pd[d].state = "SWITCH_POWER_1" /\ sleep_ack[d] = 1 /\ ~IsWanted(d) =>
            /\ curr_state = "FSM_POWER_OFF"
            /\ pd[d].sleep_send = 0 => is_sleeping
      /\ pd[d].state = "SWITCH_POWER_1" /\ pd[d].sleep_send = 1 =>
            sleep_ack[d] = 1 /\ ~IsWanted(d)

\* A request is withdrawn only where a sleep begins: that of the MRAM also where
\* it is switched off for a system that is awake.
LEMMA OnlySleepWithdraws ==
    ASSUME TypeOK, PinsRest, PinsRest', GatesTrail, LogicTiming,
           NEW wen, NEW pmu_en, NEW scratch, NEW mode,
           Clocked(wen, pmu_en, scratch, mode),
           NEW d \in Parts, IsWanted(d), ~IsWanted(d)',
           d = "MRAM" => "pd_mram_active" \notin reg_pmu_mode_reg'
    PROVE  /\ curr_state = "FSM_POWER_ON" /\ curr_state' = "FSM_POWER_OFF"
           /\ is_sleeping
<1>1. HlfsmStep(curr_state, curr_state', doneParts, ~is_sleeping)
  BY ClockedHlfsm DEF TypeOK
<1>2. d \in Parts /\ (d = "MRAM" => "pd_mram_active" \notin reg_pmu_mode_reg')
  OBVIOUS
<1>3. wen => /\ ~is_sleeping
             /\ \/ curr_state = "FSM_POWER_ON"
                \/ curr_state = "FSM_POWER_LOGIC" /\ "LOGIC" \in doneParts
  <2> SUFFICES ASSUME wen
               PROVE  /\ ~is_sleeping
                      /\ \/ curr_state = "FSM_POWER_ON"
                         \/ curr_state = "FSM_POWER_LOGIC" /\ "LOGIC" \in doneParts
    OBVIOUS
  <2>1. "LOGIC" \in Domains /\ "LOGIC" \in Parts
    BY DEF Domains, Parts
  <2>2. curr_state = "FSM_POWER_LOGIC" => IsWanted("LOGIC")
    BY <2>1, WantedIsPowered, PoweredIn DEF PinsRest
  <2>3. curr_state = "FSM_POWER_LOGIC" /\ pd["LOGIC"].state = "POWER_ON"
          => "LOGIC" \in doneParts
    BY <2>1, <2>2 DEF doneParts, Done, PinsRest, IsWanted, Wanted, s_power_of, ToBit
  <2> QED BY <2>3, NoWriteAsleep DEF Clocked
<1>4. ~wen => reg_pmu_mode_reg' = reg_pmu_mode_reg
  BY DEF Clocked, RefClk
<1>5. /\ d \in Powered(curr_state, reg_pmu_mode_reg)
      /\ d \notin Powered(curr_state', reg_pmu_mode_reg')
      /\ curr_state \in NormalStates /\ curr_state' \in NormalStates
  BY WantedIsPowered DEF PinsRest, IsWanted, Wanted, s_power_of, ToBit
<1>6. curr_state' \notin {"FSM_POWER_LOGIC", "FSM_POWER_ON"}
  BY <1>2, <1>5, PoweredIn
<1>7. CASE wen
  BY <1>1, <1>3, <1>6, <1>7 DEF HlfsmStep
<1>8. CASE ~wen
  <2> DEFINE kept == KeptAsleep(reg_pmu_mode_reg)
  <2>1. CASE curr_state' = "FSM_POWER_OFF"
    <3>1. d \notin kept
      BY <1>2, <1>4, <1>5, <1>8, <2>1, PoweredIn
    <3>2. curr_state # "FSM_POWER_OFF"
      BY <1>2, <1>5, <3>1, PoweredIn
    <3> QED BY <1>1, <1>5, <2>1, <3>2 DEF HlfsmStep, NormalStates, Successor
  <2>2. CASE curr_state' = "FSM_POWER_MEM"
    <3>1. d \notin kept \cup {"L2", "L2_UDMA"}
      BY <1>2, <1>4, <1>5, <1>8, <2>2, PoweredIn
    <3>2. curr_state \in {"FSM_POWER_OFF", "FSM_POWER_MEM"}
      BY <1>1, <1>5, <2>2 DEF HlfsmStep, NormalStates, Successor
    <3> QED BY <1>2, <1>5, <3>1, <3>2, PoweredIn
  <2>3. CASE curr_state' = "FSM_POWER_UDMA"
    <3>1. d \notin kept \cup {"L2", "L2_UDMA", "UDMA"}
      BY <1>2, <1>4, <1>5, <1>8, <2>3, PoweredIn
    <3>2. curr_state \in {"FSM_POWER_MEM", "FSM_POWER_UDMA"}
      BY <1>1, <1>5, <2>3 DEF HlfsmStep, NormalStates, Successor
    <3> QED BY <1>2, <1>5, <3>1, <3>2, PoweredIn
  <2>4. CASE curr_state' = "FSM_POWER_MRAM"
    <3>1. d \in {"LOGIC", "L1"}
      BY <1>2, <1>5, <2>4, PoweredIn
    <3>2. curr_state \in {"FSM_POWER_UDMA", "FSM_POWER_MRAM"}
      BY <1>1, <1>5, <2>4 DEF HlfsmStep, NormalStates, Successor
    <3>3. d \notin kept \cup {"L2", "L2_UDMA", "UDMA"}
      BY <3>1 DEF KeptAsleep
    <3> QED BY <1>2, <1>5, <3>1, <3>2, <3>3, PoweredIn
  <2> QED BY <1>5, <1>6, <2>1, <2>2, <2>3, <2>4 DEF NormalStates, Successor
<1> QED BY <1>7, <1>8 DEF Clocked

\* While the machine is in FSM_POWER_OFF what it wants stays as it is, and it
\* stays there as long as the sleep does.
LEMMA OffIsSteady ==
    ASSUME TypeOK, PinsRest, PinsRest', GatesTrail, LogicTiming,
           NEW wen, NEW pmu_en, NEW scratch, NEW mode,
           Clocked(wen, pmu_en, scratch, mode),
           curr_state = "FSM_POWER_OFF", is_sleeping, NEW d
    PROVE  curr_state' = "FSM_POWER_OFF" /\ (IsWanted(d)' <=> IsWanted(d))
<1>1. curr_state' = "FSM_POWER_OFF"
  BY ClockedHlfsm DEF HlfsmStep, TypeOK
<1>2. ~wen
  BY NoWriteAsleep DEF Clocked
<1>3. reg_pmu_mode_reg' = reg_pmu_mode_reg /\ pins' = pins
  BY <1>2 DEF Clocked, RefClk
<1> QED BY <1>1, <1>3 DEF IsWanted, s_power_of

LEMMA SupplyClocked ==
    ASSUME 0 \notin Scratches,
           TypeOK, PinsRest, PinsRest', GatesTrail, GatesTrail', LogicTiming,
           CountInvariant, SupplyInvariant,
           NEW wen, NEW pmu_en, NEW scratch, NEW mode,
           Clocked(wen, pmu_en, scratch, mode)
    PROVE  SupplyInvariant'
<1> SUFFICES ASSUME NEW d \in Domains
             PROVE  /\ pd'[d].state \in {"POWER_ON", "CLK_ENABLE", "ISOLATE", "RESET"} =>
                          sleep_ack'[d] = 0
                    /\ pd'[d].state = "SWITCH_POWER_1" /\ sleep_ack'[d] = 1
                       /\ ~IsWanted(d)' =>
                          /\ curr_state' = "FSM_POWER_OFF"
                          /\ pd'[d].sleep_send = 0 => is_sleeping'
                    /\ pd'[d].state = "SWITCH_POWER_1" /\ pd'[d].sleep_send = 1 =>
                          sleep_ack'[d] = 1 /\ ~IsWanted(d)'
  BY DEF SupplyInvariant
<1> DEFINE g == pd[d].state
           h == pd'[d].state
           sent == pd[d].sleep_send
           sent2 == pd'[d].sleep_send
           ack == sleep_ack[d]
           w == IsWanted(d)
           v == IsWanted(d)'
<1>1. /\ h = StateNxt(g, w, ack, sent) /\ sent2 = SleepSendNxt(g, w)
      /\ sleep_ack'[d] = ack
  BY ClockedGate DEF Clocked
<1>2. g \in States /\ sent \in {0, 1} /\ ack \in {0, 1} /\ w \in BOOLEAN
  BY DEF TypeOK, GateType, IsWanted, Wanted
<1>3. /\ g \in {"POWER_ON", "CLK_ENABLE", "ISOLATE", "RESET"} => ack = 0 /\ sent = 0
      /\ g = "SWITCH_POWER_1" /\ ack = 1 /\ ~w =>
            /\ curr_state = "FSM_POWER_OFF"
            /\ sent = 0 => is_sleeping
      /\ g = "SWITCH_POWER_1" /\ sent = 1 => ack = 1 /\ ~w
  BY DEF SupplyInvariant, GatesTrail, Trails
<1>4. w /\ ~v => curr_state' = "FSM_POWER_OFF" /\ is_sleeping'
  <2> SUFFICES ASSUME w, ~v PROVE curr_state' = "FSM_POWER_OFF" /\ is_sleeping'
    OBVIOUS
  <2>1. /\ curr_state = "FSM_POWER_ON" /\ curr_state' = "FSM_POWER_OFF"
        /\ is_sleeping
    <3>1. d \in Parts /\ d # "MRAM"
      BY DEF Domains, Parts
    <3> QED BY <3>1, OnlySleepWithdraws DEF w, v
  <2>2. msec_count = 0 /\ reg_scratch_reg \in Scratches
    BY <2>1 DEF CountInvariant
  <2>3. ~wakeup_alarm
    BY <2>2, ConstantsAssumption DEF wakeup_alarm
  <2> QED BY <2>1, <2>3 DEF Clocked, RefClk, SleepNxt
<1>5. curr_state = "FSM_POWER_OFF" /\ is_sleeping =>
         curr_state' = "FSM_POWER_OFF" /\ (v <=> w)
  BY OffIsSteady
<1> HIDE DEF g, h, sent, sent2, ack, w, v
<1>6. /\ h \in {"POWER_ON", "CLK_ENABLE", "ISOLATE", "RESET"} => ack = 0
      /\ h = "SWITCH_POWER_1" /\ ack = 1 /\ ~v =>
            /\ curr_state' = "FSM_POWER_OFF"
            /\ sent2 = 0 => is_sleeping'
      /\ h = "SWITCH_POWER_1" /\ sent2 = 1 => ack = 1 /\ ~v
  BY <1>1, <1>2, <1>3, <1>4, <1>5
  DEF States, StateNxt, Up, Down, SleepSendNxt, ToBit
<1> QED BY <1>1, <1>6 DEF h, sent2, ack, v

LEMMA SupplyAlways ==
    ASSUME Pins = {}, HandshakeTimes, 0 \notin Scratches
    PROVE  Safety => []SupplyInvariant
<1>1. Init => SupplyInvariant
  BY DEF Init, ResetValues, SupplyInvariant, GateReset
<1>2. TypeOK /\ PinsRest /\ PinsRest' /\ GatesTrail /\ GatesTrail' /\ LogicTiming
      /\ CountInvariant /\ SupplyInvariant /\ [Next]_vars => SupplyInvariant'
  <2> SUFFICES ASSUME TypeOK, PinsRest, PinsRest', GatesTrail, GatesTrail',
                      LogicTiming, CountInvariant, SupplyInvariant, [Next]_vars
               PROVE  SupplyInvariant'
    OBVIOUS
  <2>1. ASSUME NEW wen, NEW pmu_en, NEW scratch, NEW mode,
               Clocked(wen, pmu_en, scratch, mode)
        PROVE  SupplyInvariant'
    BY <2>1, SupplyClocked
  <2>2. CASE Settling
    <3>1. PICK group \in SwitchGroups : SwitchSettles(group)
      BY <2>2 DEF Settling
    <3>2. /\ \A d \in Domains :
                sleep_ack'[d] = IF d \in group THEN pd[d].sleep_send ELSE sleep_ack[d]
          /\ UNCHANGED <<curr_state, is_sleeping, reg_pmu_mode_reg, pd, pins>>
      BY <3>1 DEF SwitchSettles, pmuVars, sleepVars, regVars
    <3>3. \A d \in Domains : IsWanted(d)' <=> IsWanted(d)
      BY <3>2 DEF IsWanted, s_power_of
    <3>4. \A d \in Domains : pd[d].sleep_send \in {0, 1} /\ sleep_ack[d] \in {0, 1}
      BY DEF TypeOK, GateType
    <3> HIDE DEF IsWanted
    <3> QED BY <3>2, <3>3, <3>4 DEF SupplyInvariant, GatesTrail, Trails
  <2>3. CASE PadReset
    BY <2>3 DEF PadReset, SupplyInvariant, GateReset
  <2>4. CASE UNCHANGED vars
    BY <2>4 DEF vars, pmuVars, sleepVars, regVars, SupplyInvariant, IsWanted, s_power_of
  <2> QED BY <2>1, <2>2, <2>3, <2>4, StepKinds
<1> QED
  BY <1>1, <1>2, TypeAlways, RestAlways, TimingAlways, CountAlways, PTL DEF Safety

\* Every domain that is out of reset has a supply that its switches have
\* acknowledged, whatever the modes and however the rings settle, as long as
\* every sleep is at least a millisecond long.
THEOREM SuppliesAreGood ==
    ASSUME Pins = {}, HandshakeTimes, 0 \notin Scratches
    PROVE  Spec => []SuppliesGood
<1>1. GatesTrail /\ SupplyInvariant => SuppliesGood
  BY DEF GatesTrail, Trails, SupplyInvariant, SuppliesGood
<1> QED BY <1>1, RestAlways, SupplyAlways, PTL DEF Safety, Spec

-----------------------------------------------------------------------------
(***************************************************************************)
(* The order of waking.  In every state after FSM_POWER_MEM one memory has  *)
(* been up and reported done, and stays up; where the two memories are      *)
(* treated alike it is both, the short cut from FSM_POWER_MEM is never      *)
(* taken, and every state finds the parts of the states before it running.  *)
(***************************************************************************)
LEMMA MCImpliesSafety == MCSafety => Safety
<1>1. MCInit => Init
  BY DEF MCInit
<1>2. [MCNext]_mcVars => [Next]_vars
  <2>1. ASSUME NEW mode \in Modes, MCWrite(mode) PROVE Next
    BY <2>1 DEF MCWrite, Next
  <2> QED BY <2>1 DEF MCNext, MCTick, MCSettle, MCPadReset, MCMovePin, Next, mcVars
<1> QED BY <1>1, <1>2, PTL DEF MCSafety, Safety

LEMMA MCStepKinds ==
    ASSUME Pins = {}, [MCNext]_mcVars
    PROVE  \/ \E wen, pmu_en, scratch, mode :
                 /\ Clocked(wen, pmu_en, scratch, mode)
                 /\ alike' => alike /\ (wen => mode \in AlikeModes)
           \/ \E group \in SwitchGroups :
                 /\ SwitchSettles(group)
                 /\ alike' => alike /\ group \in Together \cup AtOnce
           \/ PadReset /\ alike' = alike
           \/ UNCHANGED mcVars
<1>1. CASE MCTick
  <2>1. Clocked(FALSE, FALSE, 0, {}) /\ alike' = alike
    BY <1>1 DEF MCTick, Tick, Clocked
  <2> QED BY <2>1
<1>2. ASSUME NEW mode \in Modes, MCWrite(mode)
      PROVE  \E wen, e, s, m : /\ Clocked(wen, e, s, m)
                               /\ alike' => alike /\ (wen => m \in AlikeModes)
  <2>1. PICK pmu_en \in BOOLEAN, scratch \in Scratches \cup {0} :
             TickWithWrite(pmu_en, scratch, mode)
    BY <1>2 DEF MCWrite
  <2>2. Clocked(TRUE, pmu_en, scratch, mode)
    BY <2>1 DEF TickWithWrite, Clocked
  <2>3. alike' => alike /\ mode \in AlikeModes
    BY <1>2 DEF MCWrite
  <2> QED BY <2>2, <2>3
<1>3. ASSUME NEW group \in SwitchGroups, MCSettle(group)
      PROVE  /\ SwitchSettles(group)
             /\ alike' => alike /\ group \in Together \cup AtOnce
  BY <1>3 DEF MCSettle
<1> QED BY <1>1, <1>2, <1>3 DEF MCNext, MCPadReset

Awakening == {"FSM_POWER_UDMA", "FSM_POWER_MRAM", "FSM_POWER_LOGIC", "FSM_POWER_ON"}

\* The two memories, and the processor with its own memory, go the same way.
AlikePairs ==
    /\ pd["L2"] = pd["L2_UDMA"] /\ sleep_ack["L2"] = sleep_ack["L2_UDMA"]
    /\ pd["LOGIC"] = pd["L1"] /\ sleep_ack["LOGIC"] = sleep_ack["L1"]

WakeOrder ==
    alike =>
        /\ reg_pmu_mode_reg \in AlikeModes
        /\ AlikePairs
        /\ curr_state \in Awakening \ {"FSM_POWER_UDMA"} =>
              pd["UDMA"].state = "POWER_ON"
        /\ curr_state \in {"FSM_POWER_LOGIC", "FSM_POWER_ON"} =>
              mram.state = "POWER_ON"
        /\ curr_state = "FSM_POWER_ON" => pd["LOGIC"].state = "POWER_ON"

\* What the machine wants does not tell the parts of a pair apart.
LEMMA AlikeWanted ==
    ASSUME PinsRest, reg_pmu_mode_reg \in AlikeModes
    PROVE  /\ IsWanted("L2") <=> IsWanted("L2_UDMA")
           /\ IsWanted("LOGIC") <=> IsWanted("L1")
           /\ curr_state \in Awakening \ {"FSM_POWER_UDMA"} => IsWanted("MRAM")
<1>1. /\ "L2" \in Parts /\ "L2_UDMA" \in Parts /\ "LOGIC" \in Parts
      /\ "L1" \in Parts /\ "MRAM" \in Parts /\ curr_state \in NormalStates
  BY DEF Parts, Domains, PinsRest
<1>2. /\ "L2" \in KeptAsleep(reg_pmu_mode_reg)
            <=> "L2_UDMA" \in KeptAsleep(reg_pmu_mode_reg)
      /\ "LOGIC" \notin KeptAsleep(reg_pmu_mode_reg)
      /\ "L1" \notin KeptAsleep(reg_pmu_mode_reg)
      /\ "pd_mram_active" \notin reg_pmu_mode_reg
  BY DEF AlikeModes, KeptAsleep, S
<1>3. \A part : IsWanted(part) <=> part \in Powered(curr_state, reg_pmu_mode_reg)
  BY WantedIsPowered
<1> QED
  BY <1>1, <1>2, <1>3, PoweredIn DEF NormalStates, Successor, Awakening

\* A memory, once the machine has passed FSM_POWER_OFF, and the uDMA domain,
\* once it has passed FSM_POWER_MEM, are wanted whatever the mode.
LEMMA WantedAwake ==
    ASSUME PinsRest
    PROVE  /\ curr_state # "FSM_POWER_OFF" => IsWanted("L2") /\ IsWanted("L2_UDMA")
           /\ curr_state \in Awakening => IsWanted("UDMA")
<1>1. /\ "L2" \in Parts /\ "L2_UDMA" \in Parts /\ "UDMA" \in Parts
      /\ curr_state \in NormalStates
  BY DEF Parts, Domains, PinsRest
<1>2. \A part : IsWanted(part) <=> part \in Powered(curr_state, reg_pmu_mode_reg)
  BY WantedIsPowered
<1> QED BY <1>1, <1>2, PoweredIn DEF NormalStates, Successor, Awakening

\* A done flag of a part that is wanted says that it is up, and a part that is
\* up and wanted stays up.
LEMMA DoneIsUp ==
    ASSUME TypeOK, PinsRest, NEW d \in Domains, IsWanted(d)
    PROVE  /\ d \in doneParts <=> pd[d].state = "POWER_ON"
           /\ \A wen, pmu_en, scratch, mode :
                 Clocked(wen, pmu_en, scratch, mode) /\ pd[d].state = "POWER_ON"
                     => pd'[d].state = "POWER_ON"
<1>1. d # "MRAM" /\ s_power_of(d) = 1
  BY DEF Domains, PinsRest, IsWanted, Wanted, ToBit
<1>2. d \in doneParts <=> pd[d].state = "POWER_ON"
  BY <1>1 DEF doneParts, Done
<1>3. ASSUME NEW wen, NEW pmu_en, NEW scratch, NEW mode,
             Clocked(wen, pmu_en, scratch, mode), pd[d].state = "POWER_ON"
      PROVE  pd'[d].state = "POWER_ON"
  BY <1>3, ClockedGate DEF StateNxt, Up
<1> QED BY <1>2, <1>3

LEMMA MramDoneIsUp ==
    ASSUME TypeOK, PinsRest, IsWanted("MRAM")
    PROVE  /\ "MRAM" \in doneParts <=> mram.state = "POWER_ON"
           /\ \A wen, pmu_en, scratch, mode :
                 Clocked(wen, pmu_en, scratch, mode) /\ mram.state = "POWER_ON"
                     => mram'.state = "POWER_ON"
<1>1. "MRAM" \notin Domains /\ s_power_of("MRAM") = 1
  BY DEF Domains, PinsRest, IsWanted, Wanted, ToBit
<1>2. "MRAM" \in doneParts <=> mram.state = "POWER_ON"
  BY <1>1 DEF doneParts, Done
<1>3. ASSUME NEW wen, NEW pmu_en, NEW scratch, NEW mode,
             Clocked(wen, pmu_en, scratch, mode), mram.state = "POWER_ON"
      PROVE  mram'.state = "POWER_ON"
  <2>1. ~Waiting(mram.state, mram.cnt)
    BY <1>3 DEF TypeOK, MramType, Stay, Waiting
  <2>2. mram'.state = MramNxt(mram.state, mram.cnt, IsWanted("MRAM"))
    BY <1>3 DEF Clocked, RefClk, MramClk
  <2> QED BY <1>3, <2>1, <2>2 DEF MramNxt, MramUp
<1> QED BY <1>2, <1>3

\* One memory keeps the system clock running.
MemoryUp ==
    curr_state \in Awakening =>
        \E memory \in {"L2", "L2_UDMA"} : pd[memory].state = "POWER_ON"

LEMMA MemoryClocked ==
    ASSUME TypeOK, PinsRest, MemoryUp,
           NEW wen, NEW pmu_en, NEW scratch, NEW mode,
           Clocked(wen, pmu_en, scratch, mode)
    PROVE  MemoryUp'
<1> SUFFICES ASSUME curr_state' \in Awakening
             PROVE  \E memory \in {"L2", "L2_UDMA"} : pd'[memory].state = "POWER_ON"
  BY DEF MemoryUp
<1>1. HlfsmStep(curr_state, curr_state', doneParts, ~is_sleeping)
  BY ClockedHlfsm DEF TypeOK
<1>2. curr_state \in NormalStates /\ {"L2", "L2_UDMA"} \subseteq Domains
  BY DEF PinsRest, Domains
<1>3. curr_state # "FSM_POWER_OFF"
  BY <1>1 DEF HlfsmStep, Awakening
<1>4. IsWanted("L2") /\ IsWanted("L2_UDMA")
  BY <1>3, WantedAwake
<1>5. PICK memory \in {"L2", "L2_UDMA"} : pd[memory].state = "POWER_ON"
  <2>1. CASE curr_state \in Awakening
    BY <2>1 DEF MemoryUp
  <2>2. CASE curr_state = "FSM_POWER_MEM"
    <3>1. "L2" \in doneParts \/ "L2_UDMA" \in doneParts
      BY <1>1, <2>2 DEF HlfsmStep, Awakening
    <3> QED BY <1>2, <1>4, <3>1, DoneIsUp
  <2> QED BY <1>2, <1>3, <2>1, <2>2 DEF NormalStates, Successor, Awakening
<1> QED BY <1>2, <1>4, <1>5, DoneIsUp

LEMMA MemoryNext ==
    ASSUME Pins = {}, TypeOK, PinsRest, MemoryUp, [Next]_vars
    PROVE  MemoryUp'
<1>1. ASSUME NEW wen, NEW pmu_en, NEW scratch, NEW mode,
             Clocked(wen, pmu_en, scratch, mode)
      PROVE  MemoryUp'
  BY <1>1, MemoryClocked
<1>2. CASE PadReset
  BY <1>2 DEF PadReset, MemoryUp, Awakening
<1>3. CASE UNCHANGED <<curr_state, pd>>
  BY <1>3 DEF MemoryUp
<1> QED
  BY <1>1, <1>2, <1>3, StepKinds DEF Settling, SwitchSettles, pmuVars, vars

LEMMA MemoryAlways == ASSUME Pins = {} PROVE Safety => []MemoryUp
<1>1. Init => MemoryUp
  BY DEF Init, ResetValues, MemoryUp, Awakening
<1>2. TypeOK /\ PinsRest /\ MemoryUp /\ [Next]_vars => MemoryUp'
  BY MemoryNext
<1> QED BY <1>1, <1>2, TypeAlways, RestAlways, PTL DEF Safety

\* Gates that are alike do alike.
LEMMA AlikeGates ==
    ASSUME NEW g, NEW a, NEW v \in BOOLEAN, NEW h, NEW b, NEW w \in BOOLEAN,
           g = h, a = b, v <=> w
    PROVE  GateClk(g, a, v) = GateClk(h, b, w)
<1>1. v = w
  OBVIOUS
<1> QED BY <1>1, Zenon

LEMMA OrderClocked ==
    ASSUME TypeOK, PinsRest, WakeOrder,
           NEW wen, NEW pmu_en, NEW scratch, NEW mode,
           Clocked(wen, pmu_en, scratch, mode),
           alike' => alike /\ (wen => mode \in AlikeModes)
    PROVE  WakeOrder'
<1>1. HlfsmStep(curr_state, curr_state', doneParts, ~is_sleeping)
  BY ClockedHlfsm DEF TypeOK
<1>2. curr_state \in NormalStates /\ {"L2", "L2_UDMA", "UDMA", "LOGIC", "L1"} \subseteq Domains
  BY DEF PinsRest, Domains
<1>3. ASSUME alike'
      PROVE  /\ reg_pmu_mode_reg' \in AlikeModes
             /\ AlikePairs'
             /\ curr_state' \in Awakening \ {"FSM_POWER_UDMA"} =>
                   pd'["UDMA"].state = "POWER_ON"
             /\ curr_state' \in {"FSM_POWER_LOGIC", "FSM_POWER_ON"} =>
                   mram'.state = "POWER_ON"
             /\ curr_state' = "FSM_POWER_ON" => pd'["LOGIC"].state = "POWER_ON"
  <2>1. /\ alike /\ (wen => mode \in AlikeModes)
        /\ reg_pmu_mode_reg \in AlikeModes /\ AlikePairs
    BY <1>3 DEF WakeOrder
  <2>2. reg_pmu_mode_reg' \in AlikeModes
    BY <2>1 DEF Clocked, RefClk
  <2>3. /\ IsWanted("L2") <=> IsWanted("L2_UDMA")
        /\ IsWanted("LOGIC") <=> IsWanted("L1")
        /\ curr_state \in Awakening \ {"FSM_POWER_UDMA"} => IsWanted("MRAM")
    BY <2>1, AlikeWanted
  <2>4. AlikePairs'
    <3>1. UNCHANGED sleep_ack
      BY DEF Clocked
    <3>2. \A d \in Domains : pd'[d] = GateClk(pd[d], sleep_ack[d], IsWanted(d))
      BY ClockedGate
    <3>3. pd'["L2"] = pd'["L2_UDMA"]
      <4>1. GateClk(pd["L2"], sleep_ack["L2"], IsWanted("L2"))
               = GateClk(pd["L2_UDMA"], sleep_ack["L2_UDMA"], IsWanted("L2_UDMA"))
        <5>1. IsWanted("L2") \in BOOLEAN /\ IsWanted("L2_UDMA") \in BOOLEAN
          BY DEF IsWanted, Wanted
        <5> QED BY <2>1, <2>3, <5>1, AlikeGates DEF AlikePairs
      <4> QED BY <1>2, <3>2, <4>1
    <3>4. pd'["LOGIC"] = pd'["L1"]
      <4>1. GateClk(pd["LOGIC"], sleep_ack["LOGIC"], IsWanted("LOGIC"))
               = GateClk(pd["L1"], sleep_ack["L1"], IsWanted("L1"))
        <5>1. IsWanted("LOGIC") \in BOOLEAN /\ IsWanted("L1") \in BOOLEAN
          BY DEF IsWanted, Wanted
        <5> QED BY <2>1, <2>3, <5>1, AlikeGates DEF AlikePairs
      <4> QED BY <1>2, <3>2, <4>1
    <3> QED BY <2>1, <3>1, <3>3, <3>4 DEF AlikePairs
  <2>5. curr_state' \in Awakening \ {"FSM_POWER_UDMA"} => pd'["UDMA"].state = "POWER_ON"
    <3> SUFFICES ASSUME curr_state' \in Awakening \ {"FSM_POWER_UDMA"}
                 PROVE  pd'["UDMA"].state = "POWER_ON"
      OBVIOUS
    <3>1. curr_state # "FSM_POWER_OFF"
      BY <1>1 DEF HlfsmStep, Awakening
    <3>2. curr_state # "FSM_POWER_MEM"
      <4> SUFFICES ASSUME curr_state = "FSM_POWER_MEM" PROVE FALSE
        OBVIOUS
      <4>1. IsWanted("L2") /\ IsWanted("L2_UDMA")
        BY WantedAwake
      <4>2. "L2" \in doneParts <=> "L2_UDMA" \in doneParts
        BY <1>2, <2>1, <4>1, DoneIsUp DEF AlikePairs
      <4> QED BY <1>1, <4>2 DEF HlfsmStep, Awakening
    <3>3. curr_state \in Awakening
      BY <1>2, <3>1, <3>2 DEF NormalStates, Successor, Awakening
    <3>4. IsWanted("UDMA")
      BY <3>3, WantedAwake
    <3>5. pd["UDMA"].state = "POWER_ON"
      <4>1. CASE curr_state = "FSM_POWER_UDMA"
        BY <1>1, <1>2, <3>4, <4>1, DoneIsUp DEF HlfsmStep
      <4> QED BY <2>1, <3>3, <4>1 DEF WakeOrder
    <3> QED BY <1>2, <3>4, <3>5, DoneIsUp
  <2>6. curr_state' \in {"FSM_POWER_LOGIC", "FSM_POWER_ON"} =>
           /\ curr_state \in {"FSM_POWER_MRAM", "FSM_POWER_LOGIC", "FSM_POWER_ON"}
           /\ mram.state = "POWER_ON"
    <3> SUFFICES ASSUME curr_state' \in {"FSM_POWER_LOGIC", "FSM_POWER_ON"}
                 PROVE  /\ curr_state \in {"FSM_POWER_MRAM", "FSM_POWER_LOGIC", "FSM_POWER_ON"}
                        /\ mram.state = "POWER_ON"
      OBVIOUS
    <3>1. curr_state # "FSM_POWER_MEM"
      <4> SUFFICES ASSUME curr_state = "FSM_POWER_MEM" PROVE FALSE
        OBVIOUS
      <4>1. IsWanted("L2") /\ IsWanted("L2_UDMA")
        BY WantedAwake
      <4>2. "L2" \in doneParts <=> "L2_UDMA" \in doneParts
        BY <1>2, <2>1, <4>1, DoneIsUp DEF AlikePairs
      <4> QED BY <1>1, <4>2 DEF HlfsmStep
    <3>2. curr_state \in {"FSM_POWER_MRAM", "FSM_POWER_LOGIC", "FSM_POWER_ON"}
      BY <1>1, <1>2, <3>1 DEF HlfsmStep, NormalStates, Successor
    <3>3. CASE curr_state = "FSM_POWER_MRAM"
      <4>1. IsWanted("MRAM")
        BY <2>3, <3>3 DEF Awakening
      <4> QED BY <1>1, <3>3, <4>1, MramDoneIsUp DEF HlfsmStep
    <3> QED BY <2>1, <3>2, <3>3 DEF WakeOrder
  <2>7. curr_state' \in {"FSM_POWER_LOGIC", "FSM_POWER_ON"} => mram'.state = "POWER_ON"
    BY <2>3, <2>6, MramDoneIsUp DEF Awakening
  <2>8. curr_state' = "FSM_POWER_ON" => pd'["LOGIC"].state = "POWER_ON"
    <3> SUFFICES ASSUME curr_state' = "FSM_POWER_ON"
                 PROVE  pd'["LOGIC"].state = "POWER_ON"
      OBVIOUS
    <3>1. curr_state \in {"FSM_POWER_LOGIC", "FSM_POWER_ON"}
      BY <1>1, <2>6 DEF HlfsmStep
    <3>2. IsWanted("LOGIC")
      BY <3>1, LogicWanted
    <3>3. pd["LOGIC"].state = "POWER_ON"
      <4>1. CASE curr_state = "FSM_POWER_LOGIC"
        <5>1. "LOGIC" \in doneParts \/ "L1" \in doneParts
          BY <1>1, <4>1 DEF HlfsmStep
        <5> QED BY <1>2, <2>1, <2>3, <3>2, <5>1, DoneIsUp DEF AlikePairs
      <4> QED BY <2>1, <3>1, <4>1 DEF WakeOrder
    <3> QED BY <1>2, <3>2, <3>3, DoneIsUp
  <2> QED BY <2>2, <2>4, <2>5, <2>7, <2>8
<1> QED BY <1>3 DEF WakeOrder

LEMMA OrderAlways == ASSUME Pins = {} PROVE MCSafety => []WakeOrder
<1>1. MCInit => WakeOrder
  BY DEF MCInit, Init, ResetValues, WakeOrder, Awakening, AlikePairs, AlikeModes,
     GateReset, Domains
<1>2. TypeOK /\ PinsRest /\ WakeOrder /\ [MCNext]_mcVars => WakeOrder'
  <2> SUFFICES ASSUME TypeOK, PinsRest, WakeOrder, [MCNext]_mcVars PROVE WakeOrder'
    OBVIOUS
  <2>1. ASSUME NEW wen, NEW pmu_en, NEW scratch, NEW mode,
               Clocked(wen, pmu_en, scratch, mode),
               alike' => alike /\ (wen => mode \in AlikeModes)
        PROVE  WakeOrder'
    BY <2>1, OrderClocked
  <2>2. ASSUME NEW group \in SwitchGroups, SwitchSettles(group),
               alike' => alike /\ group \in Together \cup AtOnce
        PROVE  WakeOrder'
    <3>1. UNCHANGED <<curr_state, reg_pmu_mode_reg, pd, mram>>
      BY <2>2 DEF SwitchSettles, pmuVars, regVars
    <3>2. ASSUME AlikePairs, group \in Together \cup AtOnce PROVE AlikePairs'
      BY <2>2, <3>1, <3>2 DEF SwitchSettles, AlikePairs, Together, AtOnce, Domains
    <3> QED BY <2>2, <3>1, <3>2 DEF WakeOrder
  <2>3. CASE PadReset /\ alike' = alike
    BY <2>3 DEF PadReset, WakeOrder, Awakening, AlikePairs, AlikeModes,
       GateReset, Domains
  <2>4. CASE UNCHANGED mcVars
    BY <2>4 DEF mcVars, vars, pmuVars, regVars, WakeOrder, AlikePairs
  <2> QED BY <2>1, <2>2, <2>3, <2>4, MCStepKinds
<1> QED
  BY <1>1, <1>2, MCImpliesSafety, TypeAlways, RestAlways, PTL DEF MCSafety

\* The processor comes out of reset on a running clock, whatever the modes, the
\* sleep times and the delays of the switch rings, and whenever the pad resets
\* come; and it comes last as long as the two memories have been treated alike.
THEOREM LogicComesLast == ASSUME Pins = {} PROVE MCSpec => LogicLast
<1> DEFINE Last ==
      pd["LOGIC"].reset = 0 /\ pd'["LOGIC"].reset = 1 =>
          /\ clk_en_system = 1
          /\ alike => /\ \A d \in {"L2", "L2_UDMA", "UDMA"} : pd[d].state = "POWER_ON"
                      /\ mram.state = "POWER_ON"
<1>1. TypeOK /\ PinsRest /\ GatesTrail /\ MemoryUp /\ WakeOrder /\ [MCNext]_mcVars
         => Last
  <2> SUFFICES ASSUME TypeOK, PinsRest, GatesTrail, MemoryUp, WakeOrder, [MCNext]_mcVars,
                      pd["LOGIC"].reset = 0, pd'["LOGIC"].reset = 1
               PROVE  /\ clk_en_system = 1
                      /\ alike => /\ \A d \in {"L2", "L2_UDMA", "UDMA"} :
                                        pd[d].state = "POWER_ON"
                                  /\ mram.state = "POWER_ON"
    OBVIOUS
  <2>1. {"L2", "L2_UDMA", "UDMA", "LOGIC"} \subseteq Domains
    BY DEF Domains
  <2>2. \E wen, pmu_en, scratch, mode : Clocked(wen, pmu_en, scratch, mode)
    <3>1. ASSUME NEW group \in SwitchGroups, SwitchSettles(group) PROVE FALSE
      BY <3>1 DEF SwitchSettles, pmuVars
    <3>2. CASE PadReset
      BY <2>1, <3>2 DEF PadReset, GateReset
    <3>3. CASE UNCHANGED mcVars
      BY <3>3 DEF mcVars, vars, pmuVars
    <3> QED BY <3>1, <3>2, <3>3, MCStepKinds
  <2>3. IsWanted("LOGIC")
    <3>1. pd["LOGIC"].state \notin {"POWER_ON", "CLK_ENABLE", "ISOLATE"}
      BY <2>1 DEF GatesTrail, Trails
    <3> QED BY <2>1, <2>2, <3>1, ClockedGate DEF ResetNxt, ToBit
  <2>4. curr_state \in {"FSM_POWER_LOGIC", "FSM_POWER_ON"}
    BY <2>3, LogicWanted
  <2>5. PICK memory \in {"L2", "L2_UDMA"} : pd[memory].state = "POWER_ON"
    BY <2>4 DEF MemoryUp, Awakening
  <2>6. clk_en_system = 1
    BY <2>1, <2>5 DEF GatesTrail, Trails, clk_en_system, ToBit
  <2> QED BY <2>4, <2>5, <2>6 DEF WakeOrder, AlikePairs, Awakening
<1> QED
  BY <1>1, MCImpliesSafety, TypeAlways, RestAlways, MemoryAlways, OrderAlways, PTL
  DEF LogicLast, MCSafety, MCSpec

-----------------------------------------------------------------------------
(***************************************************************************)
(* The requests to the MRAM sequencer.  It takes twelve clocks to go down,  *)
(* and a sleep of a millisecond takes longer: the invariant sets the clocks *)
(* that are left of the one against those that have gone by of the other.   *)
(***************************************************************************)
ClocksDown == [POWER_ON       |-> 12,
               UNTRIG_CE      |-> 11,
               TRIG_DPD       |-> 10,
               TRIM_CONFIG    |-> 10,
               CHANGE_ISOL    |-> 9,
               ACTIVATE_TRIM  |-> 9,
               CHANGE_RST     |-> 8,
               CHANGE_RET_DPD |-> 7,
               CHANGE_POR_RET |-> 6,
               CHANGE_VDDREF  |-> 5,
               CHANGE_VDDA    |-> 4,
               CHANGE_VDD     |-> 2,
               UNTRIG_DPD     |-> 1,
               POWER_OFF      |-> 0]

Left(m) == ClocksDown[m.state] - m.cnt

LEMMA LeftShrinks ==
    ASSUME NEW m \in MramType, m.cnt < Stay(m.state)
    PROVE  /\ Left(m) \in 0 .. 12 /\ (Left(m) = 0 <=> m.state = "POWER_OFF")
           /\ Left(MramClk(m, FALSE)) = IF Left(m) = 0 THEN 0 ELSE Left(m) - 1
<1> DEFINE s == MramNxt(m.state, m.cnt, FALSE)
           c == CntNxt(m.state, m.cnt)
<1>1. MramClk(m, FALSE).state = s /\ MramClk(m, FALSE).cnt = c
  BY DEF MramClk
<1>2. m.state \in MramStates /\ m.cnt \in {0, 1}
  BY DEF MramType
<1>3. /\ m.state \in {"CHANGE_VDD", "CHANGE_VDDA"} => Stay(m.state) = 2
      /\ m.state \notin {"CHANGE_VDD", "CHANGE_VDDA"} => Stay(m.state) = 1 /\ m.cnt = 0
  BY <1>2 DEF Stay, P_EXTERNAL_VDD_ACTIVATION
<1>4. /\ Left(m) \in 0 .. 12 /\ (Left(m) = 0 <=> m.state = "POWER_OFF")
      /\ ClocksDown[s] - c = IF Left(m) = 0 THEN 0 ELSE Left(m) - 1
  BY <1>2, <1>3
  DEF Left, ClocksDown, MramStates, Rank, MramNxt, MramDown, CntNxt, Waiting
<1> QED BY <1>1, <1>4 DEF Left

MramRest ==
    alike /\ reg_scratch_reg > 0 /\ ~IsWanted("MRAM") =>
        Left(mram) = 0 \/ (is_sleeping /\ asleepFor + Left(mram) <= 13)

\* While the MRAM is not wanted no write comes and nothing but the alarm ends
\* the sleep.
LEMMA UnwantedMram ==
    ASSUME TypeOK, PinsRest, GatesTrail, LogicTiming,
           reg_pmu_mode_reg \in AlikeModes, ~IsWanted("MRAM"),
           NEW wen, NEW pmu_en, NEW scratch, NEW mode,
           Clocked(wen, pmu_en, scratch, mode)
    PROVE  /\ ~wen /\ UNCHANGED <<reg_scratch_reg, reg_pmu_mode_reg>>
           /\ Left(mram') = IF Left(mram) = 0 THEN 0 ELSE Left(mram) - 1
           /\ is_sleeping' <=> is_sleeping /\ ~wakeup_alarm
<1>1. curr_state \notin {"FSM_POWER_LOGIC", "FSM_POWER_ON"}
  BY AlikeWanted DEF Awakening
<1>2. ~wen
  BY <1>1, NoWriteAsleep DEF Clocked
<1>3. IsWanted("MRAM") = FALSE
  BY DEF IsWanted, Wanted
<1>4. mram' = MramClk(mram, FALSE)
  BY <1>3, Zenon DEF Clocked, RefClk
<1>5. mram \in MramType /\ mram.cnt < Stay(mram.state)
  BY DEF TypeOK
<1> QED
  BY <1>2, <1>4, <1>5, LeftShrinks DEF Clocked, RefClk, SleepNxt, TypeOK

LEMMA MramRestClocked ==
    ASSUME HandshakeTimes, LoopLimit >= 11,
           TypeOK, TypeOK', PinsRest, PinsRest', GatesTrail, LogicTiming,
           CountInvariant, WakeOrder, WakeOrder', MramRest,
           NEW wen, NEW pmu_en, NEW scratch, NEW mode,
           Clocked(wen, pmu_en, scratch, mode), alike' => alike
    PROVE  MramRest'
<1> SUFFICES ASSUME alike', reg_scratch_reg' > 0, ~IsWanted("MRAM")'
             PROVE  \/ Left(mram') = 0
                    \/ is_sleeping' /\ asleepFor' + Left(mram') <= 13
  BY DEF MramRest
<1>1. /\ alike /\ reg_pmu_mode_reg \in AlikeModes /\ reg_pmu_mode_reg' \in AlikeModes
      /\ "MRAM" \in Parts
  BY DEF WakeOrder, Parts
<1>2. asleepFor \in Nat /\ reg_scratch_reg \in Nat /\ msec_count \in Nat
  BY ConstantsAssumption DEF TypeOK
<1>3. Left(mram) \in 0 .. 12
  BY LeftShrinks DEF TypeOK
<1>4. ASSUME is_sleeping PROVE asleepFor' = asleepFor + 1
  <2>1. asleepFor <= AsleepLimit
    BY <1>4 DEF CountInvariant, SleepCounted
  <2>2. AsleepLimit \in Nat
    BY <1>2, Numbers, Products DEF AsleepLimit
  <2> QED BY <1>2, <1>4, <2>1, <2>2 DEF Clocked, RefClk, AsleepNxt
<1>5. CASE IsWanted("MRAM")
  <2>1. /\ curr_state = "FSM_POWER_ON" /\ curr_state' = "FSM_POWER_OFF"
        /\ is_sleeping
    <3>1. "pd_mram_active" \notin reg_pmu_mode_reg'
      BY <1>1 DEF AlikeModes, S
    <3> QED BY <1>1, <1>5, <3>1, OnlySleepWithdraws
  <2>2. mram.state = "POWER_ON"
    BY <1>1, <2>1 DEF WakeOrder
  <2>3. mram'.state = "POWER_ON"
    BY <1>5, <2>2, MramDoneIsUp
  <2>4. mram'.cnt = 0
    BY <2>3 DEF TypeOK, MramType, Stay
  <2>5. ~wen
    BY <2>1, NoWriteAsleep DEF Clocked
  <2>6. msec_count = 0 /\ asleepFor = 0 /\ reg_scratch_reg' = reg_scratch_reg
    BY <2>1, <2>5 DEF CountInvariant, Clocked, RefClk
  <2>7. is_sleeping'
    <3>1. ~wakeup_alarm
      BY <1>2, <2>6 DEF wakeup_alarm
    <3> QED BY <2>1, <3>1 DEF Clocked, RefClk, SleepNxt
  <2>8. Left(mram') = 12
    BY <2>3, <2>4 DEF Left, ClocksDown
  <2> QED BY <1>4, <2>1, <2>6, <2>7, <2>8
<1>6. CASE ~IsWanted("MRAM")
  <2>1. /\ UNCHANGED <<reg_scratch_reg, reg_pmu_mode_reg>>
        /\ Left(mram') = IF Left(mram) = 0 THEN 0 ELSE Left(mram) - 1
        /\ is_sleeping' <=> is_sleeping /\ ~wakeup_alarm
    BY <1>1, <1>6, UnwantedMram
  <2>2. Left(mram) = 0 \/ (is_sleeping /\ asleepFor + Left(mram) <= 13)
    BY <1>1, <1>6, <2>1 DEF MramRest
  <2>3. is_sleeping /\ wakeup_alarm => asleepFor >= 12
    <3> SUFFICES ASSUME is_sleeping, wakeup_alarm PROVE asleepFor >= 12
      OBVIOUS
    <3>1. msec_count >= 1
      BY <1>2, <2>1 DEF wakeup_alarm
    <3> DEFINE past == (LoopLimit + 1) * msec_count
    <3>2. past >= LoopLimit + 1 /\ past \in Nat
      <4>1. /\ (LoopLimit + 1) * 0 + (LoopLimit + 1) <= (LoopLimit + 1) * msec_count
            /\ (LoopLimit + 1) * 0 = 0
        BY <1>2, <3>1, Numbers, OneMore, Products
      <4> QED BY <1>2, <4>1, Numbers, Products
    <3>3. asleepFor = past + loopcount /\ loopcount \in Nat
      BY Numbers DEF CountInvariant, SleepCounted, TypeOK
    <3> HIDE DEF past
    <3> QED BY <3>2, <3>3, Numbers
  <2> QED BY <1>2, <1>3, <1>4, <2>1, <2>2, <2>3
<1> QED BY <1>5, <1>6

LEMMA MramRestAlways ==
    ASSUME Pins = {}, HandshakeTimes, LoopLimit >= 11
    PROVE  MCSafety => []MramRest
<1>1. MCInit => MramRest
  BY DEF MCInit, Init, ResetValues, MramRest
<1>2. TypeOK /\ TypeOK' /\ PinsRest /\ PinsRest' /\ GatesTrail /\ LogicTiming
      /\ CountInvariant /\ WakeOrder /\ WakeOrder' /\ MramRest /\ [MCNext]_mcVars
         => MramRest'
  <2> SUFFICES ASSUME TypeOK, TypeOK', PinsRest, PinsRest', GatesTrail, LogicTiming,
                      CountInvariant, WakeOrder, WakeOrder', MramRest,
                      [MCNext]_mcVars
               PROVE  MramRest'
    OBVIOUS
  <2>1. ASSUME NEW wen, NEW pmu_en, NEW scratch, NEW mode,
               Clocked(wen, pmu_en, scratch, mode), alike' => alike
        PROVE  MramRest'
    BY <2>1, MramRestClocked
  <2>2. CASE PadReset
    BY <2>2 DEF PadReset, MramRest
  <2>3. CASE (alike' => alike) /\ UNCHANGED <<pmuVars, pins>>
    BY <2>3 DEF pmuVars, sleepVars, regVars, MramRest, IsWanted, s_power_of
  <2>4. ASSUME NEW group \in SwitchGroups, SwitchSettles(group)
        PROVE  UNCHANGED <<pmuVars, pins>>
    BY <2>4 DEF SwitchSettles
  <2>5. UNCHANGED mcVars => alike' = alike /\ UNCHANGED <<pmuVars, pins>>
    BY DEF mcVars, vars
  <2> QED BY <2>1, <2>2, <2>3, <2>4, <2>5, MCStepKinds
<1> QED
  BY <1>1, <1>2, MCImpliesSafety, TypeAlways, RestAlways, TimingAlways,
     CountAlways, OrderAlways, PTL DEF MCSafety

\* The machine withdraws no request of a domain on its way up, and moves that of
\* the MRAM at rest only, whatever the modes and the delays, as long as a
\* millisecond has at least twelve clocks (it has 33).
THEOREM RequestsAreHeld ==
    ASSUME Pins = {}, HandshakeTimes, LoopLimit >= 11 PROVE MCSpec => RequestsHeld
<1> DEFINE Held ==
      alike' /\ resets' = resets /\ reg_scratch_reg > 0 =>
          /\ \A d \in Domains :
                IsWanted(d) /\ ~IsWanted(d)' => pd'[d].state = "POWER_ON"
          /\ IsWanted("MRAM") # IsWanted("MRAM")' =>
                mram'.state \in {"POWER_OFF", "POWER_ON"}
<1>1. TypeOK /\ PinsRest /\ PinsRest' /\ GatesTrail /\ LogicTiming
      /\ MemoryUp /\ WakeOrder /\ WakeOrder' /\ MramRest /\ [MCNext]_mcVars => Held
  <2> SUFFICES ASSUME TypeOK, PinsRest, PinsRest', GatesTrail, LogicTiming, MemoryUp,
                      WakeOrder, WakeOrder', MramRest, [MCNext]_mcVars,
                      alike', resets' = resets, reg_scratch_reg > 0
               PROVE  /\ \A d \in Domains :
                            IsWanted(d) /\ ~IsWanted(d)' => pd'[d].state = "POWER_ON"
                      /\ (IsWanted("MRAM") <=> ~IsWanted("MRAM")') =>
                            mram'.state \in {"POWER_OFF", "POWER_ON"}
    <3>1. IsWanted("MRAM") \in BOOLEAN /\ IsWanted("MRAM")' \in BOOLEAN
      BY DEF IsWanted, Wanted
    <3>2. IsWanted("MRAM") # IsWanted("MRAM")' => (IsWanted("MRAM") <=> ~IsWanted("MRAM")')
      BY <3>1
    <3> QED BY <3>2
  <2>1. ~PadReset
    BY DEF PadReset, TypeOK
  <2>2. CASE UNCHANGED <<curr_state, reg_pmu_mode_reg, pins>>
    <3>1. \A part : IsWanted(part)' <=> IsWanted(part)
      BY <2>2 DEF IsWanted, s_power_of
    <3> QED BY <3>1
  <2>3. ASSUME NEW wen, NEW pmu_en, NEW scratch, NEW mode,
               Clocked(wen, pmu_en, scratch, mode), alike
        PROVE  /\ \A d \in Domains :
                     IsWanted(d) /\ ~IsWanted(d)' => pd'[d].state = "POWER_ON"
               /\ (IsWanted("MRAM") <=> ~IsWanted("MRAM")') =>
                     mram'.state \in {"POWER_OFF", "POWER_ON"}
    <3>1. /\ reg_pmu_mode_reg \in AlikeModes /\ reg_pmu_mode_reg' \in AlikeModes
          /\ AlikePairs /\ "MRAM" \in Parts /\ "MRAM" \notin Domains
      BY <2>3 DEF WakeOrder, Parts, Domains
    <3>2. ASSUME NEW d \in Domains, IsWanted(d), ~IsWanted(d)'
          PROVE  pd'[d].state = "POWER_ON"
      <4>1. curr_state = "FSM_POWER_ON"
        <5>1. d \in Parts /\ d # "MRAM"
          BY <3>1, <3>2 DEF Parts
        <5> QED BY <2>3, <3>2, <5>1, OnlySleepWithdraws
      <4>2. pd[d].state = "POWER_ON"
        BY <2>3, <3>1, <4>1 DEF MemoryUp, WakeOrder, Awakening, AlikePairs, Domains
      <4> QED BY <2>3, <3>2, <4>2, DoneIsUp
    <3>3. ASSUME IsWanted("MRAM"), ~IsWanted("MRAM")'
          PROVE  mram'.state = "POWER_ON"
      <4>1. curr_state = "FSM_POWER_ON"
        <5>1. "pd_mram_active" \notin reg_pmu_mode_reg'
          BY <3>1 DEF AlikeModes, S
        <5> QED BY <2>3, <3>1, <3>3, <5>1, OnlySleepWithdraws
      <4>2. mram.state = "POWER_ON"
        BY <2>3, <4>1 DEF WakeOrder
      <4> QED BY <2>3, <3>3, <4>2, MramDoneIsUp
    <3>4. ASSUME ~IsWanted("MRAM"), IsWanted("MRAM")'
          PROVE  mram'.state = "POWER_OFF"
      <4>1. /\ UNCHANGED reg_pmu_mode_reg
            /\ Left(mram') = IF Left(mram) = 0 THEN 0 ELSE Left(mram) - 1
        BY <2>3, <3>1, <3>4, UnwantedMram
      <4>2. ~is_sleeping
        <5> SUFFICES ASSUME is_sleeping PROVE FALSE
          OBVIOUS
        <5>1. curr_state = "FSM_POWER_OFF"
          BY <3>1, <3>4, AlikeWanted DEF LogicTiming, Awakening
        <5> QED BY <2>3, <3>4, <5>1, OffIsSteady
      <4>3. Left(mram') = 0
        BY <2>3, <3>4, <4>1, <4>2 DEF MramRest
      <4>4. mram' \in MramType /\ mram'.cnt < Stay(mram'.state)
        <5>1. IsWanted("MRAM") \in BOOLEAN
          BY DEF IsWanted, Wanted
        <5> QED BY <2>3, <5>1, MramClkType DEF Clocked, RefClk, TypeOK
      <4> QED BY <4>3, <4>4, LeftShrinks
    <3> QED BY <3>2, <3>3, <3>4
  <2>4. ASSUME NEW group \in SwitchGroups, SwitchSettles(group)
        PROVE  UNCHANGED <<curr_state, reg_pmu_mode_reg, pins>>
    BY <2>4 DEF SwitchSettles, pmuVars, regVars
  <2>5. UNCHANGED mcVars => UNCHANGED <<curr_state, reg_pmu_mode_reg, pins>>
    BY DEF mcVars, vars, pmuVars, regVars
  <2> QED BY <2>1, <2>2, <2>3, <2>4, <2>5, MCStepKinds
<1> QED
  BY <1>1, MCImpliesSafety, TypeAlways, RestAlways, TimingAlways, MemoryAlways,
     OrderAlways, MramRestAlways, PTL DEF RequestsHeld, MCSafety, MCSpec

-----------------------------------------------------------------------------
(***************************************************************************)
(* The processor's domain leaves its reset only while the machine wants it, *)
(* and is back in reset five clocks after a sleep has begun, long before    *)
(* the sleep may end: so a processor that runs is on a running clock, or    *)
(* has these five clocks left.                                              *)
(***************************************************************************)
DownInvariant ==
    /\ is_sleeping => reg_scratch_reg \in Scratches
    /\ pd["LOGIC"].reset = 1 /\ curr_state \notin {"FSM_POWER_LOGIC", "FSM_POWER_ON"} =>
          /\ is_sleeping /\ curr_state = "FSM_POWER_OFF"
          /\ asleepFor + ClocksToReset[pd["LOGIC"].state] <= 5

\* The alarm does not come in those clocks.
LEMMA NoEarlyAlarm ==
    ASSUME LoopLimit >= 4, 0 \notin Scratches, TypeOK, CountInvariant, DownInvariant,
           is_sleeping, asleepFor <= 4
    PROVE  ~wakeup_alarm /\ asleepFor <= AsleepLimit
<1>1. reg_scratch_reg \in Nat /\ reg_scratch_reg >= 1 /\ msec_count \in Nat
  BY ConstantsAssumption DEF DownInvariant, TypeOK
<1>2. loopcount \in Nat /\ asleepFor <= AsleepLimit
  BY Numbers DEF CountInvariant, SleepCounted, TypeOK
<1>3. msec_count = 0
  <2> SUFFICES ASSUME msec_count > 0 PROVE FALSE
    BY <1>1
  <2> DEFINE past == (LoopLimit + 1) * msec_count
  <2>1. past >= LoopLimit + 1 /\ past \in Nat
    <3>1. /\ (LoopLimit + 1) * 0 + (LoopLimit + 1) <= (LoopLimit + 1) * msec_count
          /\ (LoopLimit + 1) * 0 = 0
      BY <1>1, Numbers, OneMore, Products
    <3> QED BY <1>1, <3>1, Numbers, Products
  <2>2. asleepFor = past + loopcount
    BY DEF CountInvariant, SleepCounted
  <2> HIDE DEF past
  <2> QED BY <1>2, <2>1, <2>2, Numbers
<1> QED BY <1>1, <1>2, <1>3 DEF wakeup_alarm

LEMMA DownClocked ==
    ASSUME LoopLimit >= 4, 0 \notin Scratches,
           TypeOK, PinsRest, GatesTrail, GatesTrail', LogicTiming, CountInvariant,
           DownInvariant,
           NEW wen, NEW pmu_en, NEW scratch, NEW mode,
           Clocked(wen, pmu_en, scratch, mode)
    PROVE  DownInvariant'
<1> DEFINE g == pd["LOGIC"].state
           h == pd'["LOGIC"].state
<1>1. "LOGIC" \in Domains
  BY DEF Domains
<1>2. IsWanted("LOGIC") <=> curr_state \in {"FSM_POWER_LOGIC", "FSM_POWER_ON"}
  BY LogicWanted
<1>3. HlfsmStep(curr_state, curr_state', doneParts, ~is_sleeping)
  BY ClockedHlfsm DEF TypeOK
<1>4. /\ h = StateNxt(g, IsWanted("LOGIC"), sleep_ack["LOGIC"], pd["LOGIC"].sleep_send)
      /\ pd'["LOGIC"].reset = ResetNxt(g, IsWanted("LOGIC"))
  BY <1>1, ClockedGate
<1>5. g \in States /\ Trails(pd["LOGIC"]) /\ Trails(pd'["LOGIC"])
  BY <1>1 DEF TypeOK, GateType, GatesTrail
<1>6. is_sleeping' => reg_scratch_reg' \in Scratches
  <2>1. CASE is_sleeping
    <3>1. ~wen
      BY <2>1, NoWriteAsleep DEF Clocked
    <3> QED BY <2>1, <3>1 DEF Clocked, RefClk, DownInvariant
  <2>2. CASE ~is_sleeping
    BY <2>2 DEF Clocked, RefClk, SleepNxt
  <2> QED BY <2>1, <2>2
<1>7. ASSUME is_sleeping, asleepFor <= 4
      PROVE  is_sleeping' /\ asleepFor' = asleepFor + 1
  <2>1. ~wakeup_alarm /\ asleepFor <= AsleepLimit
    BY <1>7, NoEarlyAlarm
  <2>2. is_sleeping'
    BY <1>7, <2>1 DEF Clocked, RefClk, SleepNxt
  <2>3. asleepFor' = asleepFor + 1
    <3>1. AsleepLimit \in Nat /\ asleepFor \in Nat
      BY ConstantsAssumption, Numbers, Products DEF AsleepLimit, TypeOK
    <3> QED BY <1>7, <2>1, <3>1 DEF Clocked, RefClk, AsleepNxt
  <2> QED BY <2>2, <2>3
<1>8. is_sleeping /\ curr_state = "FSM_POWER_ON" => asleepFor = 0
  BY DEF CountInvariant
<1>9. asleepFor \in Nat
  BY DEF TypeOK
<1>10. ASSUME pd'["LOGIC"].reset = 1,
              curr_state' \notin {"FSM_POWER_LOGIC", "FSM_POWER_ON"}
       PROVE  /\ is_sleeping' /\ curr_state' = "FSM_POWER_OFF"
              /\ asleepFor' + ClocksToReset[h] <= 5
  <2>1. h \in {"POWER_ON", "CLK_ENABLE", "ISOLATE", "RESET"}
    BY <1>5, <1>10 DEF Trails
  <2>2. ClocksToReset[h] \in 1 .. 4
    BY <2>1 DEF ClocksToReset
  <2>3. CASE curr_state = "FSM_POWER_ON"
    <3>1. is_sleeping /\ curr_state' = "FSM_POWER_OFF"
      BY <1>3, <1>10, <2>3 DEF HlfsmStep, TypeOK
    <3> QED BY <1>7, <1>8, <2>2, <2>3, <3>1
  <2>4. CASE curr_state # "FSM_POWER_ON"
    <3>1. curr_state # "FSM_POWER_LOGIC"
      BY <1>3, <1>10 DEF HlfsmStep
    <3>2. pd["LOGIC"].reset = 1 /\ g \in {"POWER_ON", "CLK_ENABLE", "ISOLATE"}
      BY <1>2, <1>4, <1>5, <1>10, <2>4, <3>1 DEF ResetNxt, ToBit, Trails
    <3>3. /\ is_sleeping /\ curr_state = "FSM_POWER_OFF"
          /\ asleepFor + ClocksToReset[g] <= 5
      BY <2>4, <3>1, <3>2 DEF DownInvariant
    <3>4. ClocksToReset[g] = ClocksToReset[h] + 1 /\ ClocksToReset[g] >= 2
      BY <1>2, <1>4, <2>4, <3>1, <3>2 DEF StateNxt, Down, ClocksToReset
    <3>5. is_sleeping' /\ asleepFor' = asleepFor + 1
      BY <1>7, <1>9, <2>2, <3>3, <3>4
    <3>6. curr_state' = "FSM_POWER_OFF"
      BY <1>3, <3>3 DEF HlfsmStep
    <3> QED BY <1>9, <2>2, <3>3, <3>4, <3>5, <3>6
  <2> QED BY <2>3, <2>4
<1> QED BY <1>6, <1>10 DEF DownInvariant

LEMMA DownNext ==
    ASSUME Pins = {}, LoopLimit >= 4, 0 \notin Scratches,
           TypeOK, PinsRest, GatesTrail, GatesTrail', LogicTiming, CountInvariant,
           DownInvariant, [Next]_vars
    PROVE  DownInvariant'
<1>1. ASSUME NEW wen, NEW pmu_en, NEW scratch, NEW mode,
             Clocked(wen, pmu_en, scratch, mode)
      PROVE  DownInvariant'
  BY <1>1, DownClocked
<1>2. CASE PadReset
  BY <1>2 DEF PadReset, DownInvariant, Domains, GateReset
<1>3. CASE UNCHANGED <<curr_state, sleepVars, regVars, pd>>
  BY <1>3 DEF DownInvariant, sleepVars, regVars
<1> QED
  BY <1>1, <1>2, <1>3, StepKinds DEF Settling, SwitchSettles, pmuVars, vars

-----------------------------------------------------------------------------
(***************************************************************************)
(* The system clock under a processor that is not yet in reset stops only   *)
(* in the first clocks of a sleep, with the next write at least three       *)
(* clocks away: a memory the sleep does not keep leaves POWER_ON in the     *)
(* second clock and its clock stops in the third.                           *)
(***************************************************************************)
BeginInvariant ==
    /\ is_sleeping /\ curr_state = "FSM_POWER_ON" => pd["LOGIC"].reset = 1
    /\ is_sleeping /\ pd["LOGIC"].reset = 1 => gap + asleepFor >= 5
    /\ is_sleeping /\ curr_state = "FSM_POWER_OFF" =>
         \A memory \in {"L2", "L2_UDMA"} \ KeptAsleep(reg_pmu_mode_reg) :
           /\ asleepFor >= 2 => pd[memory].state # "POWER_ON"
           /\ asleepFor >= 3 => pd[memory].clk_en = 0

\* In FSM_POWER_OFF the machine wants the memories that the mode keeps.
LEMMA MemoryWanted ==
    ASSUME PinsRest, curr_state = "FSM_POWER_OFF", NEW memory \in {"L2", "L2_UDMA"}
    PROVE  IsWanted(memory) <=> memory \in KeptAsleep(reg_pmu_mode_reg)
<1>1. memory \in Parts /\ curr_state \in NormalStates
  BY DEF Parts, Domains, PinsRest
<1>2. IsWanted(memory) <=> memory \in Powered(curr_state, reg_pmu_mode_reg)
  BY WantedIsPowered
<1> QED BY <1>1, <1>2, PoweredIn

LEMMA BeginClocked ==
    ASSUME HandshakeTimes, TypeOK, PinsRest, GatesTrail, LogicTiming, CountInvariant,
           BeginInvariant,
           NEW wen, NEW pmu_en, NEW scratch, NEW mode,
           Clocked(wen, pmu_en, scratch, mode)
    PROVE  BeginInvariant'
<1>1. "LOGIC" \in Domains /\ {"L2", "L2_UDMA"} \subseteq Domains
  BY DEF Domains
<1>2. IsWanted("LOGIC") <=> curr_state \in {"FSM_POWER_LOGIC", "FSM_POWER_ON"}
  BY LogicWanted
<1>3. HlfsmStep(curr_state, curr_state', doneParts, ~is_sleeping)
  BY ClockedHlfsm DEF TypeOK
<1>4. /\ pd["LOGIC"].state \in States /\ pd["LOGIC"].reset \in {0, 1}
      /\ Trails(pd["LOGIC"])
      /\ pd'["LOGIC"].reset = ResetNxt(pd["LOGIC"].state, IsWanted("LOGIC"))
  BY <1>1, ClockedGate DEF TypeOK, GateType, GatesTrail
<1>5. /\ pd["LOGIC"].reset = 1 /\ IsWanted("LOGIC") => pd'["LOGIC"].reset = 1
      /\ pd'["LOGIC"].reset = 1 /\ ~IsWanted("LOGIC") => pd["LOGIC"].reset = 1
  BY <1>4 DEF ResetNxt, ToBit, Trails
<1>6. /\ gap \in Nat /\ asleepFor \in Nat /\ MinGap \in Nat /\ MinGap >= 6
      /\ wen \in BOOLEAN
      /\ gap' = IF wen THEN MinGap - 1
                ELSE IF pd["LOGIC"].reset = 0 THEN MinBoot
                ELSE IF gap > 0 THEN gap - 1 ELSE 0
  BY Numbers DEF TypeOK, Clocked, GapNxt, HandshakeTimes
<1>7. ASSUME ~is_sleeping, is_sleeping'
      PROVE  wen /\ asleepFor' = 0 /\ pd["LOGIC"].reset = 1 /\ IsWanted("LOGIC")
  <2>1. wen /\ asleepFor' = 0
    BY <1>7 DEF Clocked, RefClk, SleepNxt, AsleepNxt
  <2>2. gap = 0 /\ pd["LOGIC"].reset = 1
    BY <2>1 DEF Clocked
  <2> QED BY <1>2, <2>1, <2>2, NoWriteAsleep
<1>8. ASSUME is_sleeping
      PROVE  /\ ~wen /\ asleepFor' = asleepFor + 1
             /\ curr_state \in {"FSM_POWER_OFF", "FSM_POWER_ON"}
             /\ curr_state' = "FSM_POWER_OFF"
             /\ reg_pmu_mode_reg' = reg_pmu_mode_reg
  <2>1. ~wen
    BY <1>8, NoWriteAsleep DEF Clocked
  <2>2. asleepFor <= AsleepLimit /\ AsleepLimit \in Nat
    BY <1>8, ConstantsAssumption, Numbers, Products
    DEF CountInvariant, SleepCounted, AsleepLimit, TypeOK
  <2>3. asleepFor' = asleepFor + 1
    BY <1>6, <1>8, <2>2 DEF Clocked, RefClk, AsleepNxt
  <2> QED BY <1>3, <1>8, <2>1, <2>3 DEF HlfsmStep, LogicTiming, Clocked, RefClk
<1>9. is_sleeping' /\ curr_state' = "FSM_POWER_ON" => pd'["LOGIC"].reset = 1
  BY <1>5, <1>7, <1>8
<1>10. ASSUME is_sleeping', pd'["LOGIC"].reset = 1 PROVE gap' + asleepFor' >= 5
  <2>1. CASE ~is_sleeping
    BY <1>6, <1>7, <1>10, <2>1
  <2>2. CASE is_sleeping
    <3>1. pd["LOGIC"].reset = 1
      BY <1>2, <1>5, <1>8, <1>10, <2>2 DEF BeginInvariant
    <3>2. gap + asleepFor >= 5
      BY <2>2, <3>1 DEF BeginInvariant
    <3> QED BY <1>6, <1>8, <2>2, <3>1, <3>2
  <2> QED BY <2>1, <2>2
<1>11. ASSUME is_sleeping', curr_state' = "FSM_POWER_OFF",
              NEW memory \in {"L2", "L2_UDMA"} \ KeptAsleep(reg_pmu_mode_reg')
       PROVE  /\ asleepFor' >= 2 => pd'[memory].state # "POWER_ON"
              /\ asleepFor' >= 3 => pd'[memory].clk_en = 0
  <2>1. CASE ~is_sleeping
    BY <1>7, <1>11, <2>1
  <2>2. CASE is_sleeping /\ curr_state = "FSM_POWER_ON"
    <3>1. asleepFor = 0
      BY <2>2 DEF CountInvariant
    <3> QED BY <1>8, <2>2, <3>1
  <2>3. CASE is_sleeping /\ curr_state = "FSM_POWER_OFF"
    <3>1. memory \in {"L2", "L2_UDMA"} \ KeptAsleep(reg_pmu_mode_reg)
      BY <1>8, <1>11, <2>3
    <3>2. ~IsWanted(memory) /\ memory \in Domains
      BY <1>1, <2>3, <3>1, MemoryWanted
    <3>3. /\ pd[memory].state \in States
          /\ pd'[memory].state = StateNxt(pd[memory].state, IsWanted(memory),
                                          sleep_ack[memory], pd[memory].sleep_send)
          /\ pd'[memory].clk_en = ClkEnNxt(pd[memory].state, IsWanted(memory))
      BY <3>2, ClockedGate DEF TypeOK, GateType
    <3>4. pd'[memory].state # "POWER_ON"
      BY <3>2, <3>3 DEF StateNxt, Down, States
    <3>5. pd[memory].state # "POWER_ON" => pd'[memory].clk_en = 0
      BY <3>2, <3>3 DEF ClkEnNxt, ToBit
    <3>6. asleepFor >= 2 => pd[memory].state # "POWER_ON"
      BY <2>3, <3>1 DEF BeginInvariant
    <3> QED BY <1>6, <1>8, <2>3, <3>4, <3>5, <3>6
  <2> QED BY <1>8, <2>1, <2>2, <2>3
<1> QED BY <1>9, <1>10, <1>11 DEF BeginInvariant

LEMMA BeginNext ==
    ASSUME Pins = {}, HandshakeTimes, TypeOK, PinsRest, GatesTrail, LogicTiming,
           CountInvariant, BeginInvariant, [Next]_vars
    PROVE  BeginInvariant'
<1>1. ASSUME NEW wen, NEW pmu_en, NEW scratch, NEW mode,
             Clocked(wen, pmu_en, scratch, mode)
      PROVE  BeginInvariant'
  BY <1>1, BeginClocked
<1>2. CASE PadReset
  BY <1>2 DEF PadReset, BeginInvariant
<1>3. CASE UNCHANGED <<curr_state, sleepVars, regVars, pd, gap>>
  BY <1>3 DEF BeginInvariant, sleepVars, regVars
<1> QED
  BY <1>1, <1>2, <1>3, StepKinds DEF Settling, SwitchSettles, pmuVars, vars

\* All that is known of the unit: for distances of the writes that the system
\* has yet to show.
UnitInvariant ==
    TypeOK /\ PinsRest /\ GatesTrail /\ LogicTiming /\ CountInvariant /\ MemoryUp
    /\ DownInvariant /\ BeginInvariant

LEMMA UnitInit == Init => UnitInvariant
<1>1. Init => TypeOK
  BY InitType
<1>2. Init => PinsRest /\ GatesTrail
  BY DEF Init, ResetValues, PinsRest, NormalStates, Successor, GatesTrail, Trails,
     GateReset
<1>3. Init => LogicTiming /\ CountInvariant /\ MemoryUp /\ DownInvariant /\ BeginInvariant
  BY DEF Init, ResetValues, LogicTiming, CountInvariant, SleepCounted, MemoryUp,
     Awakening, DownInvariant, BeginInvariant, Domains, GateReset
<1> QED BY <1>1, <1>2, <1>3 DEF UnitInvariant

LEMMA UnitNext ==
    ASSUME Pins = {}, HandshakeTimes, LoopLimit >= 4, 0 \notin Scratches,
           UnitInvariant, [Next]_vars
    PROVE  UnitInvariant'
<1>1. TypeOK' /\ PinsRest' /\ GatesTrail'
  BY TypeNext, RestNext DEF UnitInvariant
<1>2. LogicTiming' /\ CountInvariant' /\ MemoryUp'
  BY <1>1, TimingNext, CountNext, MemoryNext DEF UnitInvariant
<1>3. DownInvariant' /\ BeginInvariant'
  BY <1>1, DownNext, BeginNext DEF UnitInvariant
<1> QED BY <1>1, <1>2, <1>3 DEF UnitInvariant

-----------------------------------------------------------------------------
(***************************************************************************)
(* The two sides together.  What ApbWakeup_proofs shows of the handshake is *)
(* cited for the registers of this system; what it assumes of the edges of  *)
(* the two clocks, and WakeupCounter of the writes, is shown here.  The two *)
(* need each other: the unit stops the system clock, and with it the reset  *)
(* on its way to the registers, where no strobe is on its way to the unit.  *)
(***************************************************************************)
ApbP == INSTANCE ApbWakeup_proofs WITH
            curr_state <- apb_state,
            pmu <- [scratch |-> reg_scratch_reg, mode |-> reg_pmu_mode_reg]

SystemSafety == SystemInit /\ [][SystemNext]_systemVars

\* The distances the hardware has, and sleeps of at least a millisecond.
HardwareTimes == MinGap = 6 /\ MinBoot = 2

SystemAssumption ==
    /\ Pins = {} /\ HardwareTimes
    /\ LoopLimit >= 4 /\ 0 \notin Scratches

\* What the registers hold is known while the processor is released, and while
\* their reset is low: not after power-on, nor between the fall of the reset in a
\* sleep and its arrival, which may have to wait for the clock.
Known == pd["LOGIC"].reset = 1 \/ HRESETn = 0

\* The reset of the processor's domain comes to the registers before its release.
ResetChain ==
    /\ rstn_s0 \in Bit /\ HRESETn \in Bit
    /\ pd["LOGIC"].reset = 1 /\ rstn_s0 = 0 => HRESETn = 0

\* A request that is only ever taken back gives no strobe.
Falling(r, w) ==
    /\ r = 1    => w.s0 = 1
    /\ w.s0 = 1 => w.s1 = 1
    /\ w.s1 = 1 => w.q = 1

\* That is all that the synchroniser of the unit sees of a side whose clock is
\* stopped and whose reset has not come.
StoppedSilent ==
    HRESETn = 1 /\ clk_en_system = 0 => Falling(ApbP!s_pmu_req, write_sync)

\* The edges of the reference clock until the synchroniser can next show the
\* strobe of a write: while it shows one the request has to come back first.
ClocksToStrobe(sync) ==
    IF sync.q = 1
    THEN IF sync.s0 = 1 THEN 5 ELSE IF sync.s1 = 1 THEN 4 ELSE 3
    ELSE IF sync.s1 = 1 THEN 0 ELSE IF sync.s0 = 1 THEN 1 ELSE 2

WriteTiming == pd["LOGIC"].reset = 1 => gap <= ClocksToStrobe(write_sync)

\* The trigger never stands beside a sleep time that software has not written.
TriggerInvariant ==
    /\ r_restore = 1 => ~reg.en
    /\ reg.en => reg.scratch \in Scratches
    /\ op = "SCRATCH" => pwdata.scratch \in Scratches
    /\ op = "TRIG" /\ pwdata.en =>
          (IF r_restore = 1 THEN reg_scratch_reg ELSE reg.scratch) \in Scratches

LinkInvariant ==
    /\ ResetChain /\ StoppedSilent /\ WriteTiming
    /\ Known => ApbP!ControlInvariant /\ TriggerInvariant

\* The constants are as ApbWakeup assumes them.
LEMMA ApbConstants == Scratches \subseteq Nat /\ {} \in Modes
BY ConstantsAssumption

\* The handshake's steps are those that ApbWakeup_proofs speaks of.
LEMMA SameStart ==
    ASSUME NEW r, NEW data, Apb!StartWrite(r, data) PROVE ApbP!StartWrite(r, data)
BY DEF Apb!StartWrite, Apb!Restored, Apb!hclkVars,
       ApbP!StartWrite, ApbP!Restored, ApbP!hclkVars

LEMMA SameHclk == Apb!Hclk => ApbP!Hclk
BY DEF Apb!Hclk, Apb!RegNxt, Apb!Written, Apb!FsmNxt, Apb!s_apb_write, Apb!Shift,
       Apb!s_pmu_ack, Apb!s_pmu_ack_sync, Apb!NoData,
       ApbP!Hclk, ApbP!RegNxt, ApbP!Written, ApbP!FsmNxt, ApbP!s_apb_write, ApbP!Shift,
       ApbP!s_pmu_ack, ApbP!s_pmu_ack_sync, ApbP!NoData

LEMMA SameStrobe ==
    /\ Apb!s_pmu_write_en <=> write_sync.s1 = 1 /\ write_sync.q = 0
    /\ ApbP!s_pmu_write_en <=> write_sync.s1 = 1 /\ write_sync.q = 0
    /\ Apb!s_pmu_req = ApbP!s_pmu_req
BY DEF Apb!s_pmu_write_en, Apb!REdge, Apb!s_pmu_req, Apb!s_pmu_ack_sync,
       ApbP!s_pmu_write_en, ApbP!REdge, ApbP!s_pmu_req, ApbP!s_pmu_ack_sync

LEMMA SameSyncClk == Apb!SyncClk => ApbP!SyncClk
BY SameStrobe
   DEF Apb!SyncClk, Apb!Shift, Apb!LowSync, Apb!hclkVars,
       ApbP!SyncClk, ApbP!Shift, ApbP!LowSync, ApbP!hclkVars

LEMMA SameFall == Apb!FallReset => ApbP!FallReset
BY DEF Apb!FallReset, Apb!NoData, Apb!LowSync,
       ApbP!FallReset, ApbP!NoData, ApbP!LowSync

LEMMA SameRise == Apb!RiseReset => ApbP!RiseReset
BY DEF Apb!RiseReset, Apb!apbVars, Apb!busVars, Apb!hclkVars,
       ApbP!RiseReset, ApbP!apbVars, ApbP!busVars, ApbP!hclkVars

LEMMA SameInit == Apb!Init => ApbP!Init
BY DEF Apb!Init, Apb!NoData, Apb!LowSync, ApbP!Init, ApbP!NoData, ApbP!LowSync

LEMMA SameData == ASSUME NEW r PROVE Apb!DataFor(r) = ApbP!DataFor(r)
BY DEF Apb!DataFor, Apb!NoData, ApbP!DataFor, ApbP!NoData

LEMMA SameRegisters == Apb!Registers = ApbP!Registers
BY DEF Apb!Registers, ApbP!Registers

\* What the handshake says where the two sides meet.
LEMMA ControlFacts ==
    ASSUME ApbP!ControlInvariant
    PROVE  /\ write_sync.s0 \in Bit /\ write_sync.s1 \in Bit /\ write_sync.q \in Bit
           /\ HRESETn \in Bit /\ r_restore \in Bit /\ ApbP!s_pmu_req \in Bit
           /\ reg.en \in BOOLEAN /\ reg.mode \in Modes /\ reg.scratch \in Scratches \cup {0}
           /\ HRESETn = 0 => apb_state = "FSM_IDLE" /\ op = "NONE" /\ r_restore = 1
           /\ apb_state = "FSM_IDLE" => write_sync = ApbP!LowSync
           /\ apb_state # "FSM_IDLE" => op # "NONE" /\ r_restore = 0 /\ HRESETn = 1
<1>1. ApbP!TypeOK /\ ApbP!HandshakeInvariant /\ ApbP!RestoreInvariant
  BY DEF ApbP!ControlInvariant
<1>2. ApbP!s_pmu_req \in Bit
  BY DEF ApbP!s_pmu_req
<1> QED BY <1>1, <1>2 DEF ApbP!TypeOK, ApbP!DataType, ApbP!SyncType,
           ApbP!HandshakeInvariant, ApbP!RestoreInvariant

\* Where a wave may stand: the strobe is at the head of a new one.
LEMMA WaveFacts ==
    ASSUME ApbP!ControlInvariant
    PROVE  /\ write_sync.s1 = 1 /\ write_sync.q = 0 =>
                write_sync.s0 = 1 /\ ApbP!s_pmu_req = 1 /\ strobes = 0
           /\ write_sync.q = 1 /\ write_sync.s0 = 0 => ApbP!s_pmu_req = 0
           /\ write_sync.q = 1 /\ write_sync.s1 = 0 => write_sync.s0 = 0
           /\ ApbP!s_pmu_req = 1 => apb_state # "FSM_IDLE"
<1>1. /\ ApbP!Wave(ApbP!s_pmu_req, write_sync, ack_sync)
      /\ ApbP!StrobeInvariant
  BY DEF ApbP!ControlInvariant, ApbP!HandshakeInvariant
<1>2. /\ write_sync.s0 \in Bit /\ write_sync.s1 \in Bit /\ write_sync.q \in Bit
      /\ ApbP!s_pmu_req \in Bit
  BY ControlFacts
<1>3. ApbP!s_pmu_req = 1 => apb_state # "FSM_IDLE"
  BY DEF ApbP!s_pmu_req
<1> HIDE DEF ApbP!s_pmu_req
<1> QED BY <1>1, <1>2, <1>3 DEF ApbP!Wave, ApbP!StrobeInvariant

\* The machine wants the processor's domain only while a memory is up.
LEMMA WantedIsClocked ==
    ASSUME UnitInvariant, curr_state \in Awakening
    PROVE  \E memory \in {"L2", "L2_UDMA"} :
              pd[memory].state = "POWER_ON" /\ pd[memory].clk_en = 1
<1>1. PICK memory \in {"L2", "L2_UDMA"} : pd[memory].state = "POWER_ON"
  BY DEF UnitInvariant, MemoryUp
<1>2. memory \in Domains
  BY <1>1 DEF Domains
<1> QED BY <1>1, <1>2 DEF UnitInvariant, GatesTrail, Trails

\* An awake processor that is out of reset has a running clock.
LEMMA AwakeIsClocked ==
    ASSUME UnitInvariant, ~is_sleeping, pd["LOGIC"].reset = 1
    PROVE  clk_en_system = 1
<1>1. curr_state \in Awakening
  BY DEF UnitInvariant, DownInvariant, Awakening
<1> QED BY <1>1, WantedIsClocked DEF clk_en_system, ToBit

\* What an edge of the reference clock does to a gate of the system.
LEMMA EdgeGate ==
    ASSUME RefClkEdge, NEW d \in Domains
    PROVE  /\ pd'[d].reset = ResetNxt(pd[d].state, IsWanted(d))
           /\ pd'[d].clk_en = ClkEnNxt(pd[d].state, IsWanted(d))
<1>1. pd'[d] = GateClk(pd[d], sleep_ack[d], IsWanted(d))
  BY DEF RefClkEdge, RefClk
<1> QED BY <1>1, GateFields

\* The domain is released on a running clock, on which the last reset has come.
LEMMA ReleaseFindsReset ==
    ASSUME UnitInvariant, RefClkEdge, pd["LOGIC"].reset = 0, pd'["LOGIC"].reset = 1
    PROVE  HRESETn = 0 /\ rstn_s0 = 0
<1>1. "LOGIC" \in Domains
  BY DEF Domains
<1>2. pd'["LOGIC"].reset = ResetNxt(pd["LOGIC"].state, IsWanted("LOGIC"))
  BY <1>1, EdgeGate
<1>3. IsWanted("LOGIC")
  BY <1>1, <1>2 DEF ResetNxt, ToBit, UnitInvariant, GatesTrail, Trails
<1>4. curr_state \in Awakening
  BY <1>3, LogicWanted DEF UnitInvariant, Awakening
<1>5. clk_en_system = 1
  BY <1>4, WantedIsClocked DEF clk_en_system, ToBit
<1> QED BY <1>5 DEF RefClkEdge, FastClocksDone

\* The clock of a processor that is not in reset stops in a sleep, in its first
\* three clocks.
LEMMA StopsEarly ==
    ASSUME UnitInvariant, RefClkEdge, pd["LOGIC"].reset = 1,
           clk_en_system = 1, clk_en_system' = 0
    PROVE  gap >= 3
<1>1. ASSUME NEW memory \in {"L2", "L2_UDMA"} PROVE pd'[memory].clk_en # 1
  BY <1>1 DEF clk_en_system, ToBit
<1>2. ASSUME NEW memory \in {"L2", "L2_UDMA"}
      PROVE  /\ pd[memory].state # "POWER_ON"
             /\ pd[memory].state = "CLK_ENABLE" => ~IsWanted(memory)
  <2>1. memory \in Domains
    BY DEF Domains
  <2>2. ClkEnNxt(pd[memory].state, IsWanted(memory)) # 1
    BY <1>1, <2>1, EdgeGate
  <2> QED BY <2>2 DEF ClkEnNxt, ToBit
<1>3. curr_state \notin Awakening
  BY <1>2, WantedIsClocked
<1>4. is_sleeping /\ curr_state = "FSM_POWER_OFF"
  BY <1>3 DEF UnitInvariant, DownInvariant, Awakening
<1>5. PICK memory \in {"L2", "L2_UDMA"} : pd[memory].clk_en = 1
  BY DEF clk_en_system, ToBit
<1>6. pd[memory].state = "CLK_ENABLE"
  <2>1. memory \in Domains
    BY DEF Domains
  <2> QED BY <1>2, <1>5, <2>1 DEF UnitInvariant, GatesTrail, Trails
<1>7. memory \notin KeptAsleep(reg_pmu_mode_reg)
  BY <1>2, <1>4, <1>6, MemoryWanted DEF UnitInvariant
<1>8. ~(asleepFor >= 3)
  BY <1>4, <1>5, <1>7 DEF UnitInvariant, BeginInvariant
<1>9. gap + asleepFor >= 5
  BY <1>4 DEF UnitInvariant, BeginInvariant
<1>10. gap \in Nat /\ asleepFor \in Nat
  BY Numbers DEF UnitInvariant, TypeOK
<1> QED BY <1>8, <1>9, <1>10

\* A sleep ends when the processor has long been reset.
LEMMA SleepEndsReset ==
    ASSUME LoopLimit >= 4, 0 \notin Scratches, UnitInvariant, is_sleeping, wakeup_alarm
    PROVE  pd["LOGIC"].reset = 0
<1> SUFFICES ASSUME pd["LOGIC"].reset = 1 PROVE FALSE
  BY DEF UnitInvariant, TypeOK, GateType, Domains
<1>1. asleepFor \in Nat
  BY DEF UnitInvariant, TypeOK
<1>2. asleepFor <= 4
  <2>1. CASE curr_state = "FSM_POWER_ON"
    BY <2>1 DEF UnitInvariant, CountInvariant
  <2>2. CASE curr_state # "FSM_POWER_ON"
    <3>1. pd["LOGIC"].state \in {"POWER_ON", "CLK_ENABLE", "ISOLATE", "RESET"}
      BY DEF UnitInvariant, GatesTrail, Trails, Domains
    <3>2. asleepFor + ClocksToReset[pd["LOGIC"].state] <= 5
      BY <2>2 DEF UnitInvariant, LogicTiming, DownInvariant
    <3> QED BY <1>1, <3>1, <3>2 DEF ClocksToReset
  <2> QED BY <2>1, <2>2
<1> QED BY <1>2, NoEarlyAlarm DEF UnitInvariant

LEMMA WakingEdge ==
    ASSUME LoopLimit >= 4, 0 \notin Scratches, UnitInvariant, RefClkEdge,
           is_sleeping, ~is_sleeping'
    PROVE  pd["LOGIC"].reset = 0
<1>1. wakeup_alarm
  BY DEF RefClkEdge, RefClk, SleepNxt
<1> QED BY <1>1, SleepEndsReset

-----------------------------------------------------------------------------
\* What an edge of the reference clock that carries a write finds: the side it
\* comes from is running.
LEMMA StrobeFinds ==
    ASSUME UnitInvariant, LinkInvariant, FastClocksDone, Apb!s_pmu_write_en
    PROVE  /\ gap = 0 /\ pd["LOGIC"].reset = 1 /\ HRESETn = 1 /\ Known
           /\ apb_state # "FSM_IDLE" /\ op # "NONE" /\ strobes = 0
           /\ reg.en => reg.scratch \in Scratches
<1>1. write_sync.s1 = 1 /\ write_sync.q = 0
  BY SameStrobe
<1>2. HRESETn \in Bit /\ clk_en_system \in Bit
  BY DEF LinkInvariant, ResetChain, clk_en_system, ToBit
<1>3. HRESETn = 1
  <2>1. HRESETn = 0 => write_sync = ApbP!LowSync
    BY ControlFacts DEF LinkInvariant, Known
  <2> QED BY <1>1, <1>2, <2>1 DEF ApbP!LowSync
<1>4. clk_en_system = 1
  BY <1>1, <1>2, <1>3 DEF LinkInvariant, StoppedSilent, Falling
<1>5. pd["LOGIC"].reset = 1 /\ Known
  BY <1>3, <1>4 DEF FastClocksDone, Known
<1>6. ApbP!ControlInvariant /\ TriggerInvariant
  BY <1>5 DEF LinkInvariant
<1>7. apb_state # "FSM_IDLE" /\ op # "NONE" /\ strobes = 0
  BY <1>1, <1>6, ControlFacts, WaveFacts DEF ApbP!LowSync
<1>8. gap = 0
  <2>1. gap <= ClocksToStrobe(write_sync)
    BY <1>5 DEF LinkInvariant, WriteTiming
  <2>2. gap \in Nat
    BY Numbers DEF UnitInvariant, TypeOK
  <2> QED BY <1>1, <2>1, <2>2 DEF ClocksToStrobe
<1> QED BY <1>3, <1>5, <1>6, <1>7, <1>8 DEF TriggerInvariant

\* Every edge of the reference clock is one of those WakeupCounter allows.
LEMMA EdgeIsTick == ASSUME UnitInvariant, LinkInvariant, RefClkEdge PROVE Next
<1>1. CASE Apb!s_pmu_write_en
  <2>1. /\ gap = 0 /\ pd["LOGIC"].reset = 1 /\ Known
        /\ reg.en => reg.scratch \in Scratches
    BY <1>1, StrobeFinds DEF RefClkEdge
  <2>2. reg.en \in BOOLEAN /\ reg.mode \in Modes /\ reg.scratch \in Scratches \cup {0}
    BY <2>1, ControlFacts DEF LinkInvariant
  <2>3. RefClk(TRUE, reg.en, reg.scratch, reg.mode)
    BY <1>1 DEF RefClkEdge, RefClk, SleepNxt
  <2>4. TickWithWrite(reg.en, reg.scratch, reg.mode)
    BY <1>1, <2>1, <2>3 DEF RefClkEdge, TickWithWrite
  <2> QED BY <2>2, <2>4 DEF Next
<1>2. CASE ~Apb!s_pmu_write_en
  <2>1. RefClk(FALSE, FALSE, 0, {})
    BY <1>2 DEF RefClkEdge, RefClk, SleepNxt
  <2>2. Tick
    BY <1>2, <2>1 DEF RefClkEdge, Tick
  <2> QED BY <2>2 DEF Next
<1> QED BY <1>1, <1>2

\* The other steps of the processor's side do not touch the unit.
LEMMA SystemIsNext ==
    ASSUME UnitInvariant, LinkInvariant, [SystemNext]_systemVars PROVE [Next]_vars
<1>1. ASSUME NEW r, NEW data, StartWrite(r, data) PROVE UNCHANGED vars
  BY <1>1 DEF StartWrite
<1>2. ASSUME NEW group \in SwitchGroups, RingSettles(group) PROVE Next
  BY <1>2 DEF RingSettles, Next
<1>3. HclkEdge \/ SocClkEdge => UNCHANGED vars
  BY DEF HclkEdge, SocClkEdge
<1>4. UNCHANGED systemVars => UNCHANGED vars
  BY DEF systemVars
<1> QED BY <1>1, <1>2, <1>3, <1>4, EdgeIsTick DEF SystemNext

-----------------------------------------------------------------------------
\* The side of the processor between two edges of the reference clock: its
\* registers, the bus and the reset chain.
LEMMA LinkStart ==
    ASSUME LinkInvariant, NEW r \in Apb!Registers, NEW data \in Apb!DataFor(r),
           StartWrite(r, data)
    PROVE  LinkInvariant'
<1>1. ApbP!StartWrite(r, data) /\ r \in ApbP!Registers /\ data \in ApbP!DataFor(r)
  BY SameStart, SameData, SameRegisters DEF StartWrite
<1>2. ApbP!ControlInvariant => ApbP!ControlInvariant'
  BY <1>1, ApbConstants, ApbP!StartWriteOK
<1>3. UNCHANGED <<vars, rstn_s0, HRESETn, write_sync, reg, r_restore>>
  BY <1>1 DEF StartWrite, ApbP!StartWrite, ApbP!hclkVars
<1>4. UNCHANGED <<pd, gap, reg_scratch_reg>>
  BY <1>3 DEF vars, pmuVars, regVars
<1>5. /\ r = "SCRATCH" => data.scratch \in Scratches
      /\ r = "TRIG" /\ data.en =>
            (IF r_restore = 1 THEN reg_scratch_reg ELSE reg.scratch) \in Scratches
  <2>1. r = "SCRATCH" => data.scratch \in Scratches
    BY <1>1 DEF ApbP!DataFor, ApbP!NoData
  <2>2. data.en => ApbP!Restored \in Scratches
    BY <1>1 DEF ApbP!StartWrite
  <2> QED BY <2>1, <2>2 DEF ApbP!Restored
<1>6. op' = r /\ pwdata' = data
  BY <1>1 DEF ApbP!StartWrite
<1>7. TriggerInvariant => TriggerInvariant'
  BY <1>3, <1>4, <1>5, <1>6 DEF TriggerInvariant
<1>8. StoppedSilent'
  BY <1>4 DEF StartWrite, StoppedSilent, clk_en_system
<1>9. Known' => Known
  BY <1>3, <1>4 DEF Known
<1> QED BY <1>2, <1>3, <1>4, <1>7, <1>8, <1>9
    DEF LinkInvariant, ResetChain, WriteTiming

LEMMA LinkHclk == ASSUME LinkInvariant, HclkEdge PROVE LinkInvariant'
<1>1. ApbP!Hclk
  BY SameHclk DEF HclkEdge
<1>2. ApbP!ControlInvariant => ApbP!ControlInvariant'
  BY <1>1, ApbConstants, ApbP!HclkWaveOK, ApbP!HclkDataOK
  DEF ApbP!ControlInvariant
<1>3. UNCHANGED <<rstn_s0, HRESETn, write_sync, pd, gap, reg_scratch_reg>>
  BY <1>1 DEF HclkEdge, vars, pmuVars, regVars, ApbP!Hclk
<1>4. /\ reg' = ApbP!RegNxt /\ r_restore' = 0
      /\ op' \in {op, "NONE"} /\ (op' # "NONE" => pwdata' = pwdata)
  BY <1>1 DEF ApbP!Hclk
<1>5. ASSUME TriggerInvariant PROVE TriggerInvariant'
  <2>1. CASE r_restore = 1
    <3>1. reg'.en = reg.en /\ reg'.scratch = reg_scratch_reg
      BY <1>4, <2>1 DEF ApbP!RegNxt
    <3> QED BY <1>3, <1>4, <1>5, <2>1, <3>1 DEF TriggerInvariant
  <2>2. CASE r_restore # 1
    <3>1. /\ reg'.en = (IF op = "TRIG" THEN pwdata.en ELSE reg.en)
          /\ reg'.scratch = (IF op = "SCRATCH" THEN pwdata.scratch ELSE reg.scratch)
      BY <1>4, <2>2 DEF ApbP!RegNxt, ApbP!Written
    <3> QED BY <1>3, <1>4, <1>5, <2>2, <3>1 DEF TriggerInvariant
  <2> QED BY <2>1, <2>2
<1>6. StoppedSilent'
  BY <1>3 DEF HclkEdge, StoppedSilent, clk_en_system
<1>7. Known' => Known
  BY <1>3 DEF Known
<1> QED BY <1>2, <1>3, <1>5, <1>6, <1>7 DEF LinkInvariant, ResetChain, WriteTiming

\* The reset falls only while the domain is in reset, whatever it finds.
LEMMA LinkSocClk == ASSUME UnitInvariant, LinkInvariant, SocClkEdge PROVE LinkInvariant'
<1>1. /\ UNCHANGED <<pd, gap, reg_scratch_reg, reg_pmu_mode_reg>>
      /\ rstn_s0' = pd["LOGIC"].reset
  BY DEF SocClkEdge, vars, pmuVars, regVars
<1>2. pd["LOGIC"].reset \in Bit /\ rstn_s0 \in Bit /\ HRESETn \in Bit
  BY DEF UnitInvariant, TypeOK, GateType, Domains, LinkInvariant, ResetChain
<1>3. StoppedSilent'
  BY <1>1 DEF SocClkEdge, StoppedSilent, clk_en_system
<1>4. CASE rstn_s0 = HRESETn
  <2>1. UNCHANGED <<op, pwdata, strobes, reg, r_restore, apb_state, ack_sync,
                    write_sync, ticked, HRESETn>>
    BY <1>4 DEF SocClkEdge, apbVars
  <2>2. ApbP!ControlInvariant => ApbP!ControlInvariant'
    BY <1>1, <2>1 DEF ApbP!ControlInvariant, ApbP!TypeOK,
       ApbP!HandshakeInvariant, ApbP!StrobeInvariant, ApbP!RestoreInvariant,
       ApbP!s_pmu_req, ApbP!s_pmu_ack_sync
  <2>3. (Known' => Known) /\ (TriggerInvariant => TriggerInvariant')
    BY <1>1, <2>1 DEF Known, TriggerInvariant
  <2> QED BY <1>1, <1>2, <1>3, <2>1, <2>2, <2>3
      DEF LinkInvariant, ResetChain, WriteTiming
<1>5. CASE rstn_s0 = 0 /\ HRESETn = 1
  <2>1. ApbP!FallReset
    BY <1>5, SameFall DEF SocClkEdge
  <2>2. [scratch |-> reg_scratch_reg, mode |-> reg_pmu_mode_reg]
           \in [scratch : Scratches \cup {0}, mode : Modes]
    BY DEF UnitInvariant, TypeOK
  <2>3. ApbP!ControlInvariant'
    BY <2>1, <2>2, ApbConstants, ApbP!FallResetOK
  <2>4. HRESETn' = 0 /\ op' = "NONE" /\ reg' = ApbP!NoData
    BY <2>1 DEF ApbP!FallReset
  <2>5. pd["LOGIC"].reset = 0
    BY <1>2, <1>5 DEF LinkInvariant, ResetChain
  <2> QED BY <1>1, <1>2, <1>3, <2>3, <2>4, <2>5
      DEF LinkInvariant, ResetChain, WriteTiming, TriggerInvariant, ApbP!NoData
<1>6. CASE rstn_s0 = 1 /\ HRESETn = 0
  <2>1. ApbP!RiseReset
    BY <1>6, SameRise DEF SocClkEdge
  <2>2. ApbP!ControlInvariant /\ TriggerInvariant
    BY <1>6 DEF LinkInvariant, Known
  <2>3. ApbP!ControlInvariant'
    BY <2>1, <2>2, ApbConstants, ApbP!RiseResetOK
  <2>4. HRESETn' = 1 /\ UNCHANGED <<op, pwdata, reg, r_restore, write_sync>>
    BY <2>1 DEF ApbP!RiseReset, ApbP!apbVars, ApbP!busVars, ApbP!hclkVars
  <2> QED BY <1>1, <1>2, <1>3, <2>2, <2>3, <2>4
      DEF LinkInvariant, ResetChain, WriteTiming, TriggerInvariant
<1> QED BY <1>2, <1>4, <1>5, <1>6

\* An edge of the reference clock: what the handshake's lemma about it needs, and
\* what it does to the distance of the next write.
LEMMA EdgeParts ==
    ASSUME RefClkEdge
    PROVE  /\ ApbP!SyncClk /\ UNCHANGED <<HRESETn, rstn_s0>>
           /\ UNCHANGED <<op, pwdata, reg, r_restore, apb_state, ack_sync>>
           /\ [scratch |-> reg_scratch_reg, mode |-> reg_pmu_mode_reg]'
                 = IF ApbP!s_pmu_write_en
                   THEN [scratch |-> reg.scratch, mode |-> reg.mode]
                   ELSE [scratch |-> reg_scratch_reg, mode |-> reg_pmu_mode_reg]
           /\ gap' = IF Apb!s_pmu_write_en THEN MinGap - 1 ELSE GapNxt
           /\ ApbP!s_pmu_req' = ApbP!s_pmu_req
<1>1. ApbP!SyncClk
  BY SameSyncClk DEF RefClkEdge
<1>2. Apb!s_pmu_write_en <=> ApbP!s_pmu_write_en
  BY SameStrobe
<1>3. /\ reg_scratch_reg' = IF Apb!s_pmu_write_en THEN reg.scratch ELSE reg_scratch_reg
      /\ reg_pmu_mode_reg' = IF Apb!s_pmu_write_en THEN reg.mode ELSE reg_pmu_mode_reg
  BY DEF RefClkEdge, RefClk
<1>4. UNCHANGED <<HRESETn, rstn_s0>>
  BY DEF RefClkEdge
<1>5. UNCHANGED <<op, pwdata, reg, r_restore, apb_state, ack_sync>>
  BY <1>1 DEF ApbP!SyncClk, ApbP!hclkVars
<1>6. ApbP!s_pmu_req' = ApbP!s_pmu_req
  BY <1>5 DEF ApbP!s_pmu_req, ApbP!s_pmu_ack_sync
<1> QED BY <1>1, <1>2, <1>3, <1>4, <1>5, <1>6 DEF RefClkEdge

\* Nothing becomes known at such an edge that was not.
LEMMA EdgeKnown ==
    ASSUME UnitInvariant, RefClkEdge, Known'
    PROVE  Known
<1>1. pd["LOGIC"].reset \in Bit
  BY DEF UnitInvariant, TypeOK, GateType, Domains
<1> QED BY <1>1, EdgeParts, ReleaseFindsReset DEF Known

LEMMA TimingEdge ==
    ASSUME HardwareTimes, UnitInvariant, LinkInvariant, RefClkEdge
    PROVE  WriteTiming'
<1> SUFFICES ASSUME pd'["LOGIC"].reset = 1 PROVE gap' <= ClocksToStrobe(write_sync')
  BY DEF WriteTiming
<1>1. Known /\ ApbP!ControlInvariant
  BY EdgeKnown DEF LinkInvariant, Known
<1>2. /\ write_sync.s0 \in Bit /\ write_sync.s1 \in Bit /\ write_sync.q \in Bit
      /\ HRESETn \in Bit /\ ApbP!s_pmu_req \in Bit
      /\ HRESETn = 0 => apb_state = "FSM_IDLE"
      /\ apb_state = "FSM_IDLE" => write_sync = ApbP!LowSync
  BY <1>1, ControlFacts
<1>3. gap \in Nat /\ MinGap = 6 /\ MinBoot = 2 /\ pd["LOGIC"].reset \in Bit
  BY Numbers DEF UnitInvariant, TypeOK, GateType, Domains, HardwareTimes
<1>4. pd["LOGIC"].reset = 1 => gap <= ClocksToStrobe(write_sync)
  BY DEF LinkInvariant, WriteTiming
<1>5. pd["LOGIC"].reset = 0 => HRESETn = 0
  BY ReleaseFindsReset
<1>6. CASE HRESETn = 1
  <2>1. /\ write_sync'.s0 = ApbP!s_pmu_req /\ write_sync'.s1 = write_sync.s0
        /\ write_sync'.q = write_sync.s1
    BY <1>6, EdgeParts DEF ApbP!SyncClk, ApbP!Shift
  <2>2. pd["LOGIC"].reset = 1 /\ gap <= ClocksToStrobe(write_sync)
    BY <1>3, <1>4, <1>5, <1>6
  <2>3. gap' = IF write_sync.s1 = 1 /\ write_sync.q = 0 THEN MinGap - 1
               ELSE IF gap > 0 THEN gap - 1 ELSE 0
    BY <2>2, EdgeParts, SameStrobe DEF GapNxt
  <2> HIDE DEF ApbP!s_pmu_req
  <2>4. /\ write_sync.s1 = 1 /\ write_sync.q = 0 =>
             write_sync.s0 = 1 /\ ApbP!s_pmu_req = 1
        /\ write_sync.q = 1 /\ write_sync.s0 = 0 => ApbP!s_pmu_req = 0
        /\ write_sync.q = 1 /\ write_sync.s1 = 0 => write_sync.s0 = 0
    BY <1>1, WaveFacts
  <2> QED BY <1>2, <1>3, <2>1, <2>2, <2>3, <2>4 DEF ClocksToStrobe
<1>7. CASE HRESETn = 0
  <2>1. write_sync' = ApbP!LowSync /\ write_sync = ApbP!LowSync
    BY <1>2, <1>7, EdgeParts DEF ApbP!SyncClk
  <2>2. ~Apb!s_pmu_write_en
    BY <2>1, SameStrobe DEF ApbP!LowSync
  <2>3. ClocksToStrobe(write_sync) = 2 /\ ClocksToStrobe(write_sync') = 2
    BY <2>1 DEF ClocksToStrobe, ApbP!LowSync
  <2>4. gap' = IF pd["LOGIC"].reset = 0 THEN MinBoot
               ELSE IF gap > 0 THEN gap - 1 ELSE 0
    BY <2>2, EdgeParts DEF GapNxt
  <2> QED BY <1>3, <1>4, <2>3, <2>4
<1> QED BY <1>2, <1>6, <1>7

\* Where the clock stops the last request is on its way back already, and where
\* it stays stopped it goes on coming back.
LEMMA SilentEdge ==
    ASSUME UnitInvariant, LinkInvariant, RefClkEdge
    PROVE  StoppedSilent'
<1> SUFFICES ASSUME HRESETn' = 1, clk_en_system' = 0
             PROVE  Falling(ApbP!s_pmu_req', write_sync')
  BY DEF StoppedSilent
<1>1. HRESETn = 1
  BY EdgeParts
<1>2. /\ write_sync'.s0 = ApbP!s_pmu_req /\ write_sync'.s1 = write_sync.s0
      /\ write_sync'.q = write_sync.s1 /\ ApbP!s_pmu_req' = ApbP!s_pmu_req
  BY <1>1, EdgeParts DEF ApbP!SyncClk, ApbP!Shift
<1>3. CASE clk_en_system # 1
  <2>1. clk_en_system = 0
    BY <1>3 DEF clk_en_system, ToBit
  <2>2. Falling(ApbP!s_pmu_req, write_sync)
    BY <1>1, <2>1 DEF LinkInvariant, StoppedSilent
  <2> HIDE DEF ApbP!s_pmu_req
  <2> QED BY <1>2, <2>2 DEF Falling
<1>4. CASE clk_en_system = 1
  <2>1. pd["LOGIC"].reset = 1
    BY <1>1, <1>4 DEF RefClkEdge, FastClocksDone
  <2>2. gap >= 3
    BY <1>4, <2>1, StopsEarly
  <2>3. gap <= ClocksToStrobe(write_sync)
    BY <2>1 DEF LinkInvariant, WriteTiming
  <2>4. gap \in Nat
    BY Numbers DEF UnitInvariant, TypeOK
  <2>5. ApbP!ControlInvariant
    BY <2>1 DEF LinkInvariant, Known
  <2>6. write_sync.q = 1
    BY <2>2, <2>3, <2>4 DEF ClocksToStrobe
  <2>7. /\ write_sync.s0 \in Bit /\ write_sync.s1 \in Bit /\ ApbP!s_pmu_req \in Bit
        /\ write_sync.s0 = 0 => ApbP!s_pmu_req = 0
        /\ write_sync.s1 = 0 => write_sync.s0 = 0
    BY <2>5, <2>6, ControlFacts, WaveFacts
  <2> HIDE DEF ApbP!s_pmu_req
  <2> QED BY <1>2, <2>7 DEF Falling
<1> QED BY <1>3, <1>4

LEMMA LinkRefClk ==
    ASSUME HardwareTimes, UnitInvariant, LinkInvariant, RefClkEdge
    PROVE  LinkInvariant'
<1>1. ApbP!ControlInvariant => ApbP!ControlInvariant'
  BY EdgeParts, ApbConstants, ApbP!SyncClkOK
<1>2. WriteTiming' /\ StoppedSilent'
  BY TimingEdge, SilentEdge
<1>3. ResetChain'
  <2>1. pd["LOGIC"].reset \in Bit
    BY DEF UnitInvariant, TypeOK, GateType, Domains
  <2> QED BY <2>1, EdgeParts, ReleaseFindsReset DEF LinkInvariant, ResetChain
<1>4. ASSUME ApbP!ControlInvariant, TriggerInvariant PROVE TriggerInvariant'
  <2>1. Apb!s_pmu_write_en => r_restore = 0
    <3>1. ASSUME Apb!s_pmu_write_en PROVE r_restore = 0
      <4>1. apb_state # "FSM_IDLE"
        BY <3>1, StrobeFinds DEF RefClkEdge
      <4> QED BY <1>4, <4>1, ControlFacts
    <3> QED BY <3>1
  <2>2. ~Apb!s_pmu_write_en => reg_scratch_reg' = reg_scratch_reg
    BY DEF RefClkEdge, RefClk
  <2> QED BY <1>4, <2>1, <2>2, EdgeParts DEF TriggerInvariant
<1> QED BY <1>1, <1>2, <1>3, <1>4, EdgeKnown DEF LinkInvariant

LEMMA LinkSettles ==
    ASSUME LinkInvariant,
           UNCHANGED <<apbVars, HRESETn, rstn_s0, pd, gap, reg_scratch_reg,
                       reg_pmu_mode_reg>>
    PROVE  LinkInvariant'
<1>1. ApbP!ControlInvariant => ApbP!ControlInvariant'
  BY DEF apbVars, ApbP!ControlInvariant, ApbP!TypeOK,
     ApbP!HandshakeInvariant, ApbP!StrobeInvariant, ApbP!RestoreInvariant,
     ApbP!s_pmu_req, ApbP!s_pmu_ack_sync
<1>2. StoppedSilent'
  BY DEF LinkInvariant, apbVars, StoppedSilent, clk_en_system, ApbP!s_pmu_req,
     ApbP!s_pmu_ack_sync
<1> QED BY <1>1, <1>2
    DEF LinkInvariant, apbVars, Known, ResetChain, WriteTiming, TriggerInvariant

LEMMA LinkNext ==
    ASSUME HardwareTimes, UnitInvariant, LinkInvariant, [SystemNext]_systemVars
    PROVE  LinkInvariant'
<1>1. ASSUME NEW group \in SwitchGroups, RingSettles(group) PROVE LinkInvariant'
  BY <1>1, LinkSettles DEF RingSettles, SwitchSettles, pmuVars, regVars
<1>2. CASE UNCHANGED systemVars
  BY <1>2, LinkSettles DEF systemVars, vars, pmuVars, regVars
<1> QED BY <1>1, <1>2, LinkStart, LinkHclk, LinkSocClk, LinkRefClk DEF SystemNext

\* At power-on the synchroniser of the unit has come to rest, on what may be
\* anything; that no clock runs keeps it there.
LEMMA LinkInit == SystemInit => LinkInvariant
<1> SUFFICES ASSUME SystemInit PROVE LinkInvariant
  OBVIOUS
<1>1. pd["LOGIC"].reset = 0 /\ rstn_s0 \in Bit
  BY DEF SystemInit, Init, ResetValues, GateReset, Domains
<1>2. CASE Apb!Init
  <2>1. ApbP!Init
    BY <1>2, SameInit
  <2>2. ApbP!ControlInvariant
    BY <2>1, ApbConstants, ApbP!InitOK DEF ApbP!IInv
  <2> QED BY <1>1, <2>1, <2>2
      DEF ApbP!Init, ApbP!NoData, LinkInvariant, ResetChain, StoppedSilent, WriteTiming,
          TriggerInvariant
<1>3. CASE ~Apb!Init
  <2>1. /\ HRESETn = 1
        /\ write_sync = [s0 |-> Apb!s_pmu_req, s1 |-> Apb!s_pmu_req, q |-> Apb!s_pmu_req]
    BY <1>3 DEF SystemInit
  <2>2. Falling(ApbP!s_pmu_req, write_sync)
    <3>1. Apb!s_pmu_req = ApbP!s_pmu_req
      BY SameStrobe
    <3> HIDE DEF Apb!s_pmu_req, ApbP!s_pmu_req
    <3> QED BY <2>1, <3>1 DEF Falling
  <2> QED BY <1>1, <2>1, <2>2
      DEF LinkInvariant, Known, ResetChain, StoppedSilent, WriteTiming
<1> QED BY <1>2, <1>3

\* The numbers the synchronisers give, the strobes of two writes at least six
\* reference clocks apart and the first two after the reset, and what the unit
\* does under such writes, by one induction.
LEMMA LinkAlways ==
    ASSUME SystemAssumption PROVE SystemSafety => [](UnitInvariant /\ LinkInvariant)
<1>1. SystemInit => UnitInvariant /\ LinkInvariant
  BY UnitInit, LinkInit DEF SystemInit
<1>2. HandshakeTimes
  BY DEF SystemAssumption, HardwareTimes, HandshakeTimes
<1>3. UnitInvariant /\ LinkInvariant /\ [SystemNext]_systemVars
         => (UnitInvariant /\ LinkInvariant)'
  BY <1>2, SystemIsNext, UnitNext, LinkNext DEF SystemAssumption
<1> QED BY <1>1, <1>3, PTL DEF SystemSafety

\* The handshake and the reset give the unit what it assumes of its environment,
\* although the reset may have to wait for the clock that the unit has stopped.
THEOREM AssumptionsAreKept ==
    ASSUME SystemAssumption PROVE SystemSpec => PmuAssumptionsKept
BY LinkAlways, SystemIsNext, PTL DEF PmuAssumptionsKept, SystemSafety, SystemSpec

LEMMA SystemIsSafe == ASSUME SystemAssumption PROVE SystemSafety => Safety
<1>1. SystemInit => Init
  BY DEF SystemInit
<1> QED BY <1>1, LinkAlways, SystemIsNext, PTL DEF SystemSafety, Safety

-----------------------------------------------------------------------------
(***************************************************************************)
(* With that, everything shown of the unit holds in the system; and from it *)
(* follows what the sleeps do to the writes.                                *)
(***************************************************************************)
\* While the machine is awake and the processor out of reset, HCLK ticks between
\* two edges of the reference clock, and a write is in its register in time; the
\* sleep that stops HCLK lets no further write through.
WriteInvariant ==
    Known => /\ ApbP!DataInvariant
             /\ ~is_sleeping => ApbP!ArrivedInvariant

\* A trigger that is still set is asleep, or that of the write on the bus.
TriggerSpent ==
    reg.en => is_sleeping \/ pd["LOGIC"].reset = 0 \/ (op = "TRIG" /\ strobes = 0)

\* The edge that carries a write finds the machine awake.
LEMMA StrobeAwake ==
    ASSUME UnitInvariant, LinkInvariant, FastClocksDone, Apb!s_pmu_write_en
    PROVE  ~is_sleeping
BY StrobeFinds, NoWriteAsleep DEF UnitInvariant

\* A write cannot be overtaken by its strobe: HCLK has had its edge.
LEMMA EdgeArrives ==
    ASSUME UnitInvariant, LinkInvariant, WriteInvariant, RefClkEdge, ~is_sleeping, Known
    PROVE  ApbP!ArrivedInvariant' /\ (ApbP!s_pmu_write_en => ApbP!Written = reg)
<1>1. ApbP!ControlInvariant
  BY DEF LinkInvariant
<1>2. apb_state # "FSM_IDLE" => HRESETn = 1
  BY <1>1, ControlFacts
<1>3. HRESETn = 1 => ticked
  <2>1. HRESETn = 1 => clk_en_system = 1
    BY AwakeIsClocked DEF Known
  <2> QED BY <2>1 DEF RefClkEdge, FastClocksDone
<1> QED BY <1>1, <1>2, <1>3, EdgeParts, ApbConstants, ApbP!SyncClkArrives
    DEF WriteInvariant

LEMMA WriteEdge ==
    ASSUME LoopLimit >= 4, 0 \notin Scratches,
           UnitInvariant, LinkInvariant, WriteInvariant, RefClkEdge
    PROVE  WriteInvariant'
<1> SUFFICES ASSUME Known'
             PROVE  ApbP!DataInvariant' /\ (~is_sleeping' => ApbP!ArrivedInvariant')
  BY DEF WriteInvariant
<1>1. Known /\ ApbP!ControlInvariant
  BY EdgeKnown DEF LinkInvariant
<1>2. ApbP!DataInvariant'
  <2>1. ApbP!s_pmu_write_en => ~is_sleeping
    BY SameStrobe, StrobeAwake DEF RefClkEdge
  <2>2. ApbP!s_pmu_write_en => ApbP!Written = reg
    BY <1>1, <2>1, EdgeArrives
  <2> QED BY <1>1, <2>2, EdgeParts, ApbConstants, ApbP!SyncClkOK DEF WriteInvariant
<1>3. ~is_sleeping' => ApbP!ArrivedInvariant'
  <2>1. CASE ~is_sleeping
    BY <1>1, <2>1, EdgeArrives
  <2>2. ASSUME is_sleeping, ~is_sleeping' PROVE ApbP!ArrivedInvariant'
    <3>1. HRESETn = 0
      BY <1>1, <2>2, WakingEdge DEF Known
    <3>2. apb_state' = "FSM_IDLE"
      BY <1>1, <3>1, ControlFacts, EdgeParts
    <3> QED BY <3>2 DEF ApbP!ArrivedInvariant
  <2> QED BY <2>1, <2>2
<1> QED BY <1>2, <1>3

LEMMA WriteNext ==
    ASSUME LoopLimit >= 4, 0 \notin Scratches,
           UnitInvariant, LinkInvariant, WriteInvariant, [SystemNext]_systemVars
    PROVE  WriteInvariant'
<1> USE ApbConstants
<1>1. ASSUME NEW r \in Apb!Registers, NEW data \in Apb!DataFor(r), StartWrite(r, data)
      PROVE  WriteInvariant'
  <2>1. ApbP!StartWrite(r, data) /\ r \in ApbP!Registers /\ data \in ApbP!DataFor(r)
    BY <1>1, SameStart, SameData, SameRegisters DEF StartWrite
  <2>2. UNCHANGED <<pd, HRESETn>>
    BY <1>1, <2>1 DEF StartWrite, vars, pmuVars, ApbP!StartWrite
  <2> QED BY <2>1, <2>2, ApbP!StartWriteOK DEF Known, LinkInvariant, WriteInvariant
<1>2. CASE HclkEdge
  <2>1. ApbP!Hclk
    BY <1>2, SameHclk DEF HclkEdge
  <2>2. UNCHANGED <<pd, HRESETn>>
    BY <1>2, <2>1 DEF HclkEdge, vars, pmuVars, ApbP!Hclk
  <2> QED BY <2>1, <2>2, ApbP!HclkDataOK DEF Known, LinkInvariant, WriteInvariant
<1>3. CASE UNCHANGED <<apbVars, HRESETn, pmuVars>>
  <2>1. UNCHANGED <<reg_scratch_reg, reg_pmu_mode_reg, is_sleeping, pd>>
    BY <1>3 DEF pmuVars, sleepVars, regVars
  <2> QED BY <1>3, <2>1
      DEF apbVars, Known, WriteInvariant, ApbP!DataInvariant, ApbP!ArrivedInvariant,
          ApbP!Copied, ApbP!Written
<1>4. CASE SocClkEdge
  <2>1. CASE rstn_s0 = HRESETn
    BY <1>3, <1>4, <2>1 DEF SocClkEdge, vars
  <2>2. CASE rstn_s0 # HRESETn /\ rstn_s0 = 0
    <3>1. ApbP!FallReset
      BY <1>4, <2>2, SameFall DEF SocClkEdge
    <3>2. [scratch |-> reg_scratch_reg, mode |-> reg_pmu_mode_reg]
             \in [scratch : Scratches \cup {0}, mode : Modes]
      BY DEF UnitInvariant, TypeOK
    <3> QED BY <3>1, <3>2, ApbP!FallResetOK DEF WriteInvariant
  <2>3. CASE rstn_s0 # HRESETn /\ rstn_s0 # 0
    <3>1. ApbP!RiseReset
      BY <1>4, <2>3, SameRise DEF SocClkEdge
    <3>2. Known
      BY <3>1 DEF ApbP!RiseReset, Known
    <3> QED BY <3>1, <3>2, ApbP!RiseResetOK DEF LinkInvariant, WriteInvariant
  <2> QED BY <2>1, <2>2, <2>3
<1>5. ASSUME NEW group \in SwitchGroups, RingSettles(group) PROVE WriteInvariant'
  BY <1>3, <1>5 DEF RingSettles, SwitchSettles
<1>6. UNCHANGED systemVars => WriteInvariant'
  BY <1>3 DEF systemVars, vars
<1> QED BY <1>1, <1>2, <1>4, <1>5, <1>6, WriteEdge DEF SystemNext

LEMMA SpentNext ==
    ASSUME LoopLimit >= 4, 0 \notin Scratches,
           UnitInvariant, LinkInvariant, WriteInvariant, TriggerSpent,
           [SystemNext]_systemVars
    PROVE  TriggerSpent'
<1>1. ASSUME NEW r, NEW data, StartWrite(r, data) PROVE TriggerSpent'
  <2>1. op = "NONE" /\ reg' = reg
    BY <1>1, SameStart DEF StartWrite, ApbP!StartWrite, ApbP!hclkVars
  <2> QED BY <1>1, <2>1 DEF StartWrite, vars, pmuVars, sleepVars, TriggerSpent
<1>2. CASE HclkEdge
  <2> SUFFICES ASSUME reg'.en, ~is_sleeping, pd["LOGIC"].reset # 0
               PROVE  op' = "TRIG" /\ strobes' = 0
    BY <1>2 DEF HclkEdge, vars, pmuVars, sleepVars, TriggerSpent
  <2>1. /\ reg' = ApbP!RegNxt /\ strobes' = strobes
        /\ apb_state # "FSM_PREADY" => op' = op
    BY <1>2, SameHclk DEF HclkEdge, ApbP!Hclk
  <2>2. Known
    BY DEF UnitInvariant, TypeOK, GateType, Domains, Known
  <2>3. r_restore # 1
    BY <2>1, <2>2 DEF ApbP!RegNxt, LinkInvariant, TriggerInvariant
  <2>4. reg' = ApbP!Written
    BY <2>1, <2>3 DEF ApbP!RegNxt
  <2>5. /\ apb_state = "FSM_IDLE" /\ op # "NONE" => strobes = 0
        /\ apb_state = "FSM_PREADY" => strobes = 1
        /\ strobes \in {0, 1}
    BY <2>2 DEF LinkInvariant, ApbP!ControlInvariant, ApbP!StrobeInvariant, ApbP!s_pmu_req
  <2>6. op = "TRIG" /\ strobes = 0
    <3>1. CASE reg.en
      BY <3>1 DEF TriggerSpent
    <3>2. CASE ~reg.en
      <4>1. op = "TRIG" /\ ApbP!Written # reg
        BY <2>4, <3>2 DEF ApbP!Written
      <4> QED BY <2>2, <2>5, <4>1 DEF WriteInvariant, ApbP!DataInvariant
    <3> QED BY <3>1, <3>2
  <2> QED BY <2>1, <2>5, <2>6
<1>3. CASE SocClkEdge
  <2>1. UNCHANGED <<is_sleeping, pd>>
    BY <1>3 DEF SocClkEdge, vars, pmuVars, sleepVars
  <2>2. UNCHANGED <<reg, op, strobes>> \/ reg' = ApbP!NoData
    BY <1>3, SameFall, SameRise
       DEF SocClkEdge, apbVars, ApbP!FallReset, ApbP!RiseReset, ApbP!apbVars,
           ApbP!busVars, ApbP!hclkVars
  <2> QED BY <2>1, <2>2 DEF TriggerSpent, ApbP!NoData
<1>4. CASE RefClkEdge
  <2> SUFFICES ASSUME reg.en, pd'["LOGIC"].reset # 0
               PROVE  is_sleeping' \/ (op = "TRIG" /\ strobes' = 0)
    BY <1>4, EdgeParts DEF TriggerSpent
  <2>1. pd["LOGIC"].reset = 1
    <3>1. pd["LOGIC"].reset \in Bit /\ pd'["LOGIC"].reset = 1
      <4>1. pd'["LOGIC"].reset \in Bit
        BY <1>4, EdgeGate DEF ResetNxt, ToBit, Domains
      <4> QED BY <4>1 DEF UnitInvariant, TypeOK, GateType, Domains
    <3>2. HRESETn = 0 => r_restore = 1 /\ TriggerInvariant
      BY ControlFacts DEF LinkInvariant, Known
    <3>3. HRESETn # 0
      BY <3>2 DEF TriggerInvariant
    <3> QED BY <1>4, <3>1, <3>3, ReleaseFindsReset
  <2>2. CASE is_sleeping
    BY <1>4, <2>1, <2>2, WakingEdge
  <2>3. CASE ~is_sleeping
    <3>1. op = "TRIG" /\ strobes = 0
      BY <2>1, <2>3 DEF TriggerSpent
    <3>2. Apb!s_pmu_write_en => is_sleeping'
      BY <1>4, <2>3 DEF RefClkEdge, RefClk, SleepNxt
    <3>3. ~Apb!s_pmu_write_en => strobes' = strobes
      BY <1>4 DEF RefClkEdge, Apb!SyncClk
    <3> QED BY <3>1, <3>2, <3>3
  <2> QED BY <2>2, <2>3
<1>5. CASE UNCHANGED <<apbVars, pmuVars>>
  BY <1>5 DEF apbVars, pmuVars, sleepVars, TriggerSpent
<1>6. ASSUME NEW group \in SwitchGroups, RingSettles(group) PROVE TriggerSpent'
  BY <1>5, <1>6 DEF RingSettles, SwitchSettles
<1>7. UNCHANGED systemVars => TriggerSpent'
  BY <1>5 DEF systemVars, vars
<1> QED BY <1>1, <1>2, <1>3, <1>4, <1>6, <1>7 DEF SystemNext

LEMMA SystemAlways ==
    ASSUME SystemAssumption
    PROVE  SystemSafety =>
              [](UnitInvariant /\ LinkInvariant /\ WriteInvariant /\ TriggerSpent)
<1>1. SystemInit => WriteInvariant /\ TriggerSpent
  <2> SUFFICES ASSUME SystemInit PROVE WriteInvariant /\ TriggerSpent
    OBVIOUS
  <2>1. pd["LOGIC"].reset = 0
    BY DEF SystemInit, Init, ResetValues, GateReset, Domains
  <2>2. CASE Apb!Init
    <3>1. ApbP!Init
      BY <2>2, SameInit
    <3> QED BY <2>1, <3>1, ApbConstants, ApbP!InitOK
        DEF ApbP!IInv, WriteInvariant, TriggerSpent
  <2>3. CASE ~Apb!Init
    <3>1. ~Known
      BY <2>1, <2>3 DEF SystemInit, Known
    <3> QED BY <2>1, <3>1 DEF WriteInvariant, TriggerSpent
  <2> QED BY <2>2, <2>3
<1>2. UnitInvariant /\ LinkInvariant /\ WriteInvariant /\ TriggerSpent
      /\ [SystemNext]_systemVars => (WriteInvariant /\ TriggerSpent)'
  BY WriteNext, SpentNext DEF SystemAssumption
<1> QED BY <1>1, <1>2, LinkAlways, PTL DEF SystemSafety

\* What was shown of the unit's clock and supplies, in the system: for every
\* sleep of at least a millisecond, whatever the modes and the switch rings do,
\* the time slept is the time asked for and every released domain has its supply.
THEOREM SystemKeepsTheUnit ==
    ASSUME SystemAssumption
    PROVE  SystemSpec => SleepTimeExact /\ []SuppliesGood
<1>1. HandshakeTimes /\ Pins = {} /\ 0 \notin Scratches
  BY DEF SystemAssumption, HardwareTimes, HandshakeTimes
<1>2. UnitInvariant => SleepCounted
  BY DEF UnitInvariant, CountInvariant
<1>3. UnitInvariant /\ [Next]_vars =>
         [is_sleeping /\ ~is_sleeping' /\ resets' = resets =>
             asleepFor = AsleepLimit]_vars
  BY <1>1, AlarmIsExact DEF UnitInvariant
<1>4. GatesTrail /\ SupplyInvariant => SuppliesGood
  BY DEF GatesTrail, Trails, SupplyInvariant, SuppliesGood
<1>5. SystemSafety => []SuppliesGood
  BY <1>1, <1>4, SystemIsSafe, RestAlways, SupplyAlways, PTL
<1> QED BY <1>2, <1>3, <1>5, LinkAlways, SystemIsNext, PTL
    DEF SystemSafety, SystemSpec, SleepTimeExact

\* No sleep changes its own time or mode or ends before it has taken the processor
\* into reset, and none lets the processor go before the reset has reached it.
THEOREM SleepsAreWhole ==
    ASSUME SystemAssumption PROVE SystemSpec => SleepIsWhole
<1>1. UnitInvariant /\ LinkInvariant /\ [SystemNext]_systemVars =>
         [/\ is_sleeping => UNCHANGED <<reg_scratch_reg, reg_pmu_mode_reg>>
          /\ is_sleeping /\ ~is_sleeping' => pd["LOGIC"].reset = 0
          /\ pd["LOGIC"].reset = 0 /\ pd'["LOGIC"].reset = 1 => HRESETn = 0]_systemVars
  <2> SUFFICES ASSUME UnitInvariant, LinkInvariant, SystemNext
               PROVE  /\ is_sleeping => UNCHANGED <<reg_scratch_reg, reg_pmu_mode_reg>>
                      /\ is_sleeping /\ ~is_sleeping' => pd["LOGIC"].reset = 0
                      /\ pd["LOGIC"].reset = 0 /\ pd'["LOGIC"].reset = 1 => HRESETn = 0
    OBVIOUS
  <2>1. CASE RefClkEdge
    <3>1. is_sleeping => ~Apb!s_pmu_write_en
      BY <2>1, StrobeAwake DEF RefClkEdge
    <3>2. is_sleeping => UNCHANGED <<reg_scratch_reg, reg_pmu_mode_reg>>
      BY <2>1, <3>1 DEF RefClkEdge, RefClk
    <3> QED BY <2>1, <3>2, WakingEdge, ReleaseFindsReset DEF SystemAssumption
  <2>2. CASE UNCHANGED pmuVars
    BY <2>2 DEF pmuVars, sleepVars, regVars
  <2>3. ASSUME NEW group \in SwitchGroups, RingSettles(group) PROVE UNCHANGED pmuVars
    BY <2>3 DEF RingSettles, SwitchSettles
  <2>4. ASSUME NEW r, NEW data, StartWrite(r, data) PROVE UNCHANGED pmuVars
    BY <2>4 DEF StartWrite, vars
  <2>5. HclkEdge \/ SocClkEdge => UNCHANGED pmuVars
    BY DEF HclkEdge, SocClkEdge, vars
  <2> QED BY <2>1, <2>2, <2>3, <2>4, <2>5 DEF SystemNext
<1> QED BY <1>1, LinkAlways, PTL DEF SleepIsWhole, SystemSafety, SystemSpec

\* Nothing but a write of REG_PMU_TRIG puts the chip to sleep.
THEOREM OnlyTriggersSleep ==
    ASSUME SystemAssumption PROVE SystemSpec => NoSpuriousSleep
<1>1. UnitInvariant /\ LinkInvariant /\ TriggerSpent /\ [SystemNext]_systemVars =>
         [~is_sleeping /\ is_sleeping' => op = "TRIG"]_systemVars
  <2> SUFFICES ASSUME UnitInvariant, LinkInvariant, TriggerSpent, SystemNext,
                      ~is_sleeping, is_sleeping'
               PROVE  op = "TRIG"
    OBVIOUS
  <2>1. RefClkEdge
    <3>1. ASSUME NEW group \in SwitchGroups, RingSettles(group) PROVE FALSE
      BY <3>1 DEF RingSettles, SwitchSettles, pmuVars, sleepVars
    <3>2. ASSUME NEW r, NEW data, StartWrite(r, data) PROVE FALSE
      BY <3>2 DEF StartWrite, vars, pmuVars, sleepVars
    <3>3. ~HclkEdge /\ ~SocClkEdge
      BY DEF HclkEdge, SocClkEdge, vars, pmuVars, sleepVars
    <3> QED BY <3>1, <3>2, <3>3 DEF SystemNext
  <2>2. Apb!s_pmu_write_en /\ reg.en
    BY <2>1 DEF RefClkEdge, RefClk, SleepNxt
  <2>3. pd["LOGIC"].reset = 1
    BY <2>1, <2>2, StrobeFinds DEF RefClkEdge
  <2> QED BY <2>2, <2>3 DEF TriggerSpent
<1> QED BY <1>1, SystemAlways, PTL DEF NoSpuriousSleep, SystemSafety, SystemSpec

\* What is promised of the writes, but for the progress of the bus: none is lost
\* or repeated by a sleep in the middle of it, and in the released processor, after
\* a sleep or after power-on, the registers on both sides agree again.
THEOREM WritesSurviveSleep ==
    ASSUME SystemAssumption
    PROVE  SystemSpec => [](pd["LOGIC"].reset = 1 => Apb!OneStrobePerWrite /\ Apb!InSync)
<1>1. LinkInvariant /\ WriteInvariant =>
         (pd["LOGIC"].reset = 1 => Apb!OneStrobePerWrite /\ Apb!InSync)
  <2> SUFFICES ASSUME LinkInvariant, WriteInvariant, Known
               PROVE  Apb!OneStrobePerWrite /\ Apb!InSync
    BY DEF Known
  <2>1. /\ strobes \in {0, 1}
        /\ apb_state = "FSM_PREADY" => strobes = 1
    BY DEF LinkInvariant, ApbP!ControlInvariant, ApbP!StrobeInvariant, ApbP!s_pmu_req
  <2>2. r_restore = 0 /\ (op = "NONE" \/ strobes = 1) =>
           [scratch |-> reg_scratch_reg, mode |-> reg_pmu_mode_reg]
              = [scratch |-> reg.scratch, mode |-> reg.mode]
    BY DEF WriteInvariant, ApbP!DataInvariant, ApbP!Copied
  <2> QED BY <2>1, <2>2 DEF Apb!OneStrobePerWrite, Apb!InSync
<1> QED BY <1>1, SystemAlways, PTL DEF SystemSafety, SystemSpec
=============================================================================
