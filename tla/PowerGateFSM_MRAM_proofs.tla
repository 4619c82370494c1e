---------------------- MODULE PowerGateFSM_MRAM_proofs ----------------------
(***************************************************************************)
(* What holds of PowerGateFSM_MRAM for every behaviour of its inputs, and   *)
(* the orderly shutdown and the settling of the supplies for requests that  *)
(* change only while it rests.                                              *)
(***************************************************************************)
EXTENDS MCPowerGateMram, TLAPS

USE DEF Bit

\* The direction of a descent or a climb is settled where it starts, and
\* a signal of rank k is active in the states of rank k and above only.
ReachedOnly(k, signal) == /\ signal = 1 => Rank[state] >= k
                          /\ Rank[state] > k => signal = 1

DescentInvariant ==
    atRest =>
      /\ state # "UNTRIG_DPD"
      /\ state \in {"UNTRIG_CE", "TRIG_DPD", "CHANGE_RET_DPD"} => ~IsWanted
      /\ state \in {"TRIM_CONFIG", "ACTIVATE_TRIM"} => IsWanted
      /\ ReachedOnly(1, VDD_out) /\ ReachedOnly(2, VDDA_out)
      /\ ReachedOnly(3, VREF_out) /\ ReachedOnly(4, PORb)
      /\ ReachedOnly(6, RSTb) /\ ReachedOnly(7, 1 - isolate_int)
      /\ RETb = 1 => Rank[state] >= 4
      /\ RETb = 1 /\ state = "CHANGE_POR_RET" => IsWanted
      /\ CEb_HIGH = 0 => state \in {"POWER_ON", "UNTRIG_CE"}

\* The trimming is remembered from the clock after TRIM_CONFIG to the one at
\* which the chip enable falls.
TrimKept == state \in {"ACTIVATE_TRIM", "POWER_ON"} \/ CEb_HIGH = 0 => trimmed

\* On the way up, each supply is on from the second clock of its state, and one
\* clock older in the state after it.
SettleInvariant ==
    atRest /\ IsWanted =>
      /\ state = "CHANGE_VDD" /\ cnt = 1 => VDD_out = 1
      /\ state = "CHANGE_VDDA" => /\ VDD_out = 1 /\ vddFor >= 1
                                  /\ cnt = 1 => VDDA_out = 1
      /\ state = "CHANGE_VDDREF" => VDDA_out = 1 /\ vddaFor >= 1

AgesType == vddFor \in 0 .. 2 /\ vddaFor \in 0 .. 2

\* What the machine does whether or not its clock ever stops.
Safety   == Init /\ [][Next]_vars
MCSafety == MCInit /\ [][MCNext]_<<vars, observers>>

-----------------------------------------------------------------------------
\* The rank of a state is one of nine levels.
LEMMA RankType == \A s \in MramStates : Rank[s] \in 0 .. 8
BY DEF MramStates, Rank

\* The counter of the next state is below the limit of that state.
LEMMA MramTablesType ==
    ASSUME NEW s \in MramStates, NEW c \in 0 .. Stay(s) - 1, NEW w \in BOOLEAN
    PROVE  /\ MramNxt(s, c, w) \in MramStates
           /\ CntNxt(s, c) \in 0 .. Stay(MramNxt(s, c, w)) - 1
<1>1. MramUp[s] \in MramStates /\ MramDown[s] \in MramStates
  BY DEF MramStates, Rank, MramUp, MramDown
<1>2. MramNxt(s, c, w) \in MramStates
  BY <1>1 DEF MramNxt
<1>3. \A t : Stay(t) \in {1, 2}
  BY DEF Stay, P_EXTERNAL_VDD_ACTIVATION
<1>4. CntNxt(s, c) \in 0 .. Stay(MramNxt(s, c, w)) - 1
  <2> HIDE DEF Stay
  <2>1. CASE Waiting(s, c)
    BY <1>3, <2>1 DEF CntNxt, Waiting, MramNxt
  <2>2. CASE ~Waiting(s, c)
    BY <1>3, <2>2 DEF CntNxt
  <2> QED BY <2>1, <2>2
<1> QED BY <1>2, <1>4

\* Every register and input keeps its width, and the counter its limit.
LEMMA TypeAlways == Safety => []TypeOK
<1>1. Init => TypeOK
  BY DEF Init, TypeOK, MramStates, Rank, Stay
<1>2. TypeOK /\ [Next]_vars => TypeOK'
  <2> SUFFICES ASSUME TypeOK, [Next]_vars PROVE TypeOK'
    OBVIOUS
  <2>1. CASE Clk
    <3>1. IsWanted \in BOOLEAN
      BY DEF IsWanted, Wanted
    <3>2. state' \in MramStates /\ cnt' \in 0 .. Stay(state') - 1
      BY <2>1, <3>1, MramTablesType DEF Clk, TypeOK
    <3>3. /\ {VDD_out', VDDA_out', VREF_out'} \subseteq Bit
          /\ {PORb', RETb', RSTb', isolate_int', TRIM', DPD', CEb_HIGH'}
                \subseteq Bit
      BY <2>1 DEF Clk, VDDNxt, VDDANxt, VREFNxt, PORbNxt, RETbNxt, RSTbNxt,
         IsolNxt, TRIMNxt, DPDNxt, CEbNxt, PassedNxt, ToBit
    <3> QED BY <2>1, <3>2, <3>3 DEF Clk, TypeOK, requests, bypass
  <2>2. CASE AssertReset
    BY <2>2 DEF AssertReset, TypeOK, MramStates, Rank, requests, bypass, Stay
  <2>3. CASE ReleaseReset
    BY <2>3 DEF ReleaseReset, TypeOK, supplies, controls, requests, bypass
  <2>4. CASE ChangeRequest
    BY <2>4 DEF ChangeRequest, TypeOK, supplies, controls, bypass
  <2>5. CASE ChangeBypass
    BY <2>5 DEF ChangeBypass, TypeOK, supplies, controls, requests
  <2>6. CASE UNCHANGED vars
    BY <2>6 DEF vars, TypeOK, supplies, controls, requests, bypass
  <2> QED BY <2>1, <2>2, <2>3, <2>4, <2>5, <2>6 DEF Next
<1> QED BY <1>1, <1>2, PTL DEF Safety

\* The same of the specification.
THEOREM MramTyping == Spec => []TypeOK
BY TypeAlways, PTL DEF Safety, Spec

-----------------------------------------------------------------------------
\* No signal is active without the one it rests on, however the request moves.
THEOREM ChainHolds == Spec => []SupplyChain
<1>1. Init => SupplyChain
  BY DEF Init, SupplyChain
<1>2. TypeOK /\ SupplyChain /\ [Next]_vars => SupplyChain'
  <2> SUFFICES ASSUME TypeOK, SupplyChain, [Next]_vars PROVE SupplyChain'
    OBVIOUS
  <2>1. CASE Clk
    <3>1. IsWanted \in BOOLEAN
      BY DEF IsWanted, Wanted
    <3> DEFINE w == IsWanted
               k == Rank[state]
    <3>2. k \in 0 .. 8 /\ (state = "POWER_ON" => k = 8)
          /\ (state = "TRIG_DPD" => k = 8) /\ (state = "POWER_OFF" => k = 0)
      BY RankType DEF TypeOK, Rank
    <3>3. /\ VDD_out'  = ToBit(k > 1 \/ (k = 1 /\ w))
          /\ VDDA_out' = ToBit(k > 2 \/ (k = 2 /\ w))
          /\ VREF_out' = ToBit(k > 3 \/ (k = 3 /\ w))
          /\ PORb'     = ToBit(k > 4 \/ (k = 4 /\ w))
          /\ RETb'     = ToBit(k > 5 \/ (k \in {4, 5} /\ w))
          /\ RSTb'     = ToBit(k > 6 \/ (k = 6 /\ w))
          /\ isolate_int' = 1 - ToBit(k > 7 \/ (k = 7 /\ w))
          /\ CEb_HIGH' = ToBit(state # "POWER_ON")
          /\ DPD' = ToBit(state \in {"POWER_OFF", "TRIG_DPD"} \/ (k \in 1..7 /\ ~w))
      BY <2>1 DEF Clk, VDDNxt, VDDANxt, VREFNxt, PORbNxt, RETbNxt, RSTbNxt,
         IsolNxt, CEbNxt, DPDNxt, PassedNxt
    <3> HIDE DEF w, k
    <3> QED BY <3>1, <3>2, <3>3 DEF SupplyChain, ToBit, w
  <2>2. CASE AssertReset
    BY <2>2 DEF AssertReset, SupplyChain
  <2>3. CASE UNCHANGED <<supplies, controls>>
    BY <2>3 DEF supplies, controls, SupplyChain
  <2> QED
    BY <2>1, <2>2, <2>3 DEF Next, ReleaseReset, ChangeRequest, ChangeBypass, vars
<1> QED BY <1>1, <1>2, MramTyping, PTL DEF Spec

-----------------------------------------------------------------------------
\* The registers after a clock, in terms of the rank of the state before it.
LEMMA RankedOutputs ==
    ASSUME Clk
    PROVE  /\ VDD_out'  = ToBit(Rank[state] > 1 \/ (Rank[state] = 1 /\ IsWanted))
           /\ VDDA_out' = ToBit(Rank[state] > 2 \/ (Rank[state] = 2 /\ IsWanted))
           /\ VREF_out' = ToBit(Rank[state] > 3 \/ (Rank[state] = 3 /\ IsWanted))
           /\ PORb'     = ToBit(Rank[state] > 4 \/ (Rank[state] = 4 /\ IsWanted))
           /\ RETb' =
                ToBit(Rank[state] > 5 \/ (Rank[state] \in {4, 5} /\ IsWanted))
           /\ RSTb'     = ToBit(Rank[state] > 6 \/ (Rank[state] = 6 /\ IsWanted))
           /\ isolate_int' =
                1 - ToBit(Rank[state] > 7 \/ (Rank[state] = 7 /\ IsWanted))
           /\ CEb_HIGH' = ToBit(state # "POWER_ON")
BY DEF Clk, VDDNxt, VDDANxt, VREFNxt, PORbNxt, RETbNxt, RSTbNxt, IsolNxt,
   CEbNxt, PassedNxt

\* A descent, once begun, goes through every state, and so does a climb.
LEMMA DescentAlways == Safety => []DescentInvariant
<1>1. Init => DescentInvariant
  BY DEF Init, DescentInvariant, ReachedOnly, Rank
<1>2. TypeOK /\ DescentInvariant /\ [Next]_vars => DescentInvariant'
  <2> SUFFICES ASSUME TypeOK, DescentInvariant, [Next]_vars
               PROVE  DescentInvariant'
    OBVIOUS
  <2>1. CASE Clk
    <3>1. IsWanted \in BOOLEAN /\ IsWanted' = IsWanted /\ atRest' = atRest
      BY <2>1 DEF Clk, IsWanted, Wanted, requests
    <3>2. state' = state \/ state' = IF IsWanted THEN MramUp[state] ELSE MramDown[state]
      BY <2>1 DEF Clk, MramNxt
    <3> HIDE DEF IsWanted
    <3>3. CASE state' = state
      <4>1. state \notin {"UNTRIG_CE", "TRIG_DPD", "CHANGE_RET_DPD",
                         "TRIM_CONFIG", "ACTIVATE_TRIM"}
        BY <2>1, <3>3, <3>1 DEF Clk, TypeOK, MramStates, Rank, MramNxt, MramUp,
           MramDown, Waiting, Stay
      <4> QED
        BY <2>1, <3>1, <3>3, <4>1, RankedOutputs
           DEF DescentInvariant, ReachedOnly, TypeOK, MramStates, Rank, ToBit
    <3>4. CASE state' = IF IsWanted THEN MramUp[state] ELSE MramDown[state]
      <4>1. CASE IsWanted
        <5>1. state' = MramUp[state]
          BY <3>4, <4>1
        <5> QED BY <2>1, <3>1, <4>1, <5>1, RankedOutputs
                DEF DescentInvariant, ReachedOnly, TypeOK, MramStates, Rank, MramUp, ToBit
      <4>2. CASE ~IsWanted
        <5>1. state' = MramDown[state]
          BY <3>4, <4>2
        <5> QED BY <2>1, <3>1, <4>2, <5>1, RankedOutputs
                DEF DescentInvariant, ReachedOnly, TypeOK, MramStates, Rank, MramDown, ToBit
      <4> QED BY <4>1, <4>2
    <3> QED BY <3>2, <3>3, <3>4
  <2>2. CASE AssertReset
    BY <2>2 DEF AssertReset, DescentInvariant, ReachedOnly, Rank
  <2>3. CASE ChangeRequest
    BY <2>3 DEF ChangeRequest, DescentInvariant, ReachedOnly, supplies, controls
  <2>4. CASE UNCHANGED <<state, supplies, controls, requests, atRest>>
    BY <2>4 DEF DescentInvariant, ReachedOnly, supplies, controls, requests,
       IsWanted
  <2> QED
    BY <2>1, <2>2, <2>3, <2>4 DEF Next, ReleaseReset, ChangeBypass, vars
<1> QED BY <1>1, <1>2, TypeAlways, PTL DEF Safety

\* The same of the specification.
THEOREM DescentHolds == Spec => []DescentInvariant
BY DescentAlways, PTL DEF Safety, Spec

\* A memory whose request changes only at rest loses its supplies, resets and
\* isolation one after the other, never two that rest on each other together.
THEOREM Orderly == Spec => OrderlyShutdown
<1> DEFINE Orders ==
      /\ Falls(VDD_out)  => VDDA_out = 0
      /\ Falls(VDDA_out) => VREF_out = 0
      /\ Falls(VREF_out) => PORb = 0
      /\ Falls(PORb)     => RETb = 0
      /\ Falls(RETb)     => RSTb = 0
      /\ Falls(RSTb)     => isolate_int = 1
      /\ isolate_int = 0 /\ isolate_int' = 1 => CEb_HIGH = 1
<1>1. ASSUME TypeOK, DescentInvariant, Next, atRest, rst' = 1 PROVE Orders
  <2>1. CASE Clk
    <3>1. IsWanted \in BOOLEAN
      BY DEF IsWanted, Wanted
    <3> HIDE DEF IsWanted
    <3>2. /\ Rank[state] \in 0 .. 8
          /\ Rank[state] = 4 => state = "CHANGE_POR_RET"
          /\ Rank[state] = 7 => state \notin {"POWER_ON", "UNTRIG_CE"}
      BY <1>1 DEF TypeOK, MramStates, Rank
    <3> QED
      BY <1>1, <2>1, <3>1, <3>2, RankedOutputs DEF DescentInvariant, ReachedOnly,
         TypeOK, ToBit, Falls
  <2>2. CASE UNCHANGED <<supplies, controls>>
    BY <2>2, <1>1 DEF supplies, controls, Falls
  <2>3. ~AssertReset
    BY <1>1 DEF AssertReset
  <2>4. ReleaseReset \/ ChangeRequest \/ ChangeBypass
           => UNCHANGED <<supplies, controls>>
    BY DEF ReleaseReset, ChangeRequest, ChangeBypass
  <2> QED
    BY <1>1, <2>1, <2>2, <2>3, <2>4 DEF Next
<1>2. TypeOK /\ DescentInvariant /\ [Next]_vars => [atRest /\ rst' = 1 => Orders]_vars
  BY <1>1
<1> QED
  BY <1>2, MramTyping, DescentHolds, PTL DEF Spec, OrderlyShutdown

-----------------------------------------------------------------------------
\* The observers only watch.
LEMMA ObserversWatch == MCSafety => Safety
<1>1. MCInit => Init
  BY DEF MCInit
<1>2. [MCNext]_<<vars, observers>> => [Next]_vars
  BY DEF MCNext, MCClk, Next
<1> QED BY <1>1, <1>2, PTL DEF MCSafety, Safety

\* The memory is never enabled untrimmed, however the request moves.
THEOREM TrimmedFirst == MCSpec => []TrimmedBeforeUse
<1>1. MCInit => TrimKept
  BY DEF MCInit, Init, TrimKept
<1>2. TypeOK /\ TrimKept /\ [MCNext]_<<vars, observers>> => TrimKept'
  <2> SUFFICES ASSUME TypeOK, TrimKept, [MCNext]_<<vars, observers>>
               PROVE  TrimKept'
    OBVIOUS
  <2>1. CASE MCClk
    <3>1. Clk /\ Observe
      BY <2>1 DEF MCClk
    <3>2. state' = state \/ state' = IF IsWanted THEN MramUp[state] ELSE MramDown[state]
      BY <3>1 DEF Clk, MramNxt
    <3>3. /\ trimmed' = (RSTb' = 1 /\ (trimmed \/ TRIM' = 1))
          /\ TRIM' = ToBit(state = "TRIM_CONFIG")
      BY <3>1 DEF Observe, Clk, TRIMNxt
    <3> HIDE DEF IsWanted
    <3>4. CASE state \in {"TRIM_CONFIG", "ACTIVATE_TRIM", "POWER_ON"}
      <4>1. RSTb' = 1
        BY <3>1, <3>4, RankedOutputs DEF Rank, ToBit
      <4> QED BY <3>1, <3>2, <3>3, <3>4, <4>1, RankedOutputs
              DEF TrimKept, ToBit, MramUp, MramDown
    <3>5. CASE state \notin {"TRIM_CONFIG", "ACTIVATE_TRIM", "POWER_ON"}
      BY <3>1, <3>2, <3>5, RankedOutputs
         DEF TypeOK, MramStates, Rank, TrimKept, ToBit, MramUp, MramDown
    <3> QED BY <3>4, <3>5
  <2>2. CASE AssertReset
    BY <2>2 DEF AssertReset, TrimKept
  <2>3. CASE UNCHANGED <<state, controls, trimmed>>
    BY <2>3 DEF TrimKept, controls
  <2> QED
    BY <2>1, <2>2, <2>3 DEF MCNext, ReleaseReset, ChangeRequest, ChangeBypass,
       vars, observers
<1>3. TrimKept => TrimmedBeforeUse
  BY DEF TrimKept, TrimmedBeforeUse
<1> QED BY <1>1, <1>2, <1>3, ObserversWatch, TypeAlways, PTL DEF MCSpec, MCSafety

\* The clocks a signal has been on are counted up to two.
LEMMA AgeRange ==
    ASSUME NEW x \in Bit, NEW y \in Bit, NEW a \in 0 .. 2
    PROVE  /\ Age(x, y, a) \in 0 .. 2
           /\ x = 1 /\ y = 1 => Age(x, y, a) >= 1
           /\ x = 1 /\ y = 1 /\ a >= 1 => Age(x, y, a) = 2
BY DEF Age, Least, P_EXTERNAL_VDD_ACTIVATION

LEMMA AgesAlways == MCSafety => []AgesType
<1>1. MCInit => AgesType
  BY DEF MCInit, AgesType
<1>2. TypeOK /\ TypeOK' /\ AgesType /\ [MCNext]_<<vars, observers>> => AgesType'
  <2> SUFFICES ASSUME TypeOK, TypeOK', AgesType, [MCNext]_<<vars, observers>>
               PROVE  AgesType'
    OBVIOUS
  <2>1. CASE Observe
    <3>1. vddFor' \in 0 .. 2 /\ vddaFor' \in 0 .. 2
      BY <2>1, AgeRange DEF Observe, AgesType, TypeOK
    <3> QED BY <2>1, <3>1 DEF Observe, AgesType
  <2>2. CASE UNCHANGED observers
    BY <2>2 DEF AgesType, observers
  <2> QED BY <2>1, <2>2 DEF MCNext, MCClk
<1> QED BY <1>1, <1>2, ObserversWatch, TypeAlways, PTL DEF MCSafety

\* On the way up, each supply has been on since the clock the invariant says.
LEMMA SettleClk ==
    ASSUME TypeOK, TypeOK', DescentInvariant, AgesType, SettleInvariant, MCClk
    PROVE  SettleInvariant'
<1>1. Clk /\ Observe /\ IsWanted' = IsWanted /\ atRest' = atRest
  BY DEF MCClk, Clk, IsWanted, requests
<1> SUFFICES ASSUME atRest, IsWanted PROVE SettleInvariant'
  BY <1>1 DEF SettleInvariant
<1>2. /\ state' = MramNxt(state, cnt, IsWanted) /\ cnt' = CntNxt(state, cnt)
      /\ state \in MramStates /\ cnt \in 0 .. Stay(state) - 1
  BY <1>1 DEF Clk, TypeOK
<1>3. /\ VDD_out = 1 /\ VDD_out' = 1 => vddFor' >= 1
      /\ VDDA_out = 1 /\ VDDA_out' = 1 => vddaFor' >= 1
  BY <1>1, AgeRange DEF Observe, AgesType, TypeOK
<1> HIDE DEF IsWanted
<1>4. CASE state' = "CHANGE_VDD"
  <2>1. cnt' = 1 => state = "CHANGE_VDD"
    BY <1>2, <1>4 DEF MramNxt, CntNxt, Waiting, MramStates, Rank, MramUp, Stay,
       P_EXTERNAL_VDD_ACTIVATION
  <2> QED BY <1>1, <1>4, <2>1, RankedOutputs DEF SettleInvariant, Rank, ToBit
<1>5. CASE state' = "CHANGE_VDDA"
  <2>1. \/ state = "CHANGE_VDD" /\ cnt = 1 /\ cnt' = 0
        \/ state = "CHANGE_VDDA" /\ cnt = 0 /\ cnt' = 1
    BY <1>2, <1>5 DEF MramNxt, CntNxt, Waiting, MramStates, Rank, MramUp, Stay,
       P_EXTERNAL_VDD_ACTIVATION
  <2> QED BY <1>1, <1>3, <1>5, <2>1, RankedOutputs DEF SettleInvariant, Rank, ToBit
<1>6. CASE state' = "CHANGE_VDDREF"
  <2>1. state = "CHANGE_VDDA" /\ cnt = 1
    BY <1>2, <1>6 DEF MramNxt, CntNxt, Waiting, MramStates, Rank, MramUp, Stay,
       P_EXTERNAL_VDD_ACTIVATION
  <2> QED BY <1>1, <1>3, <1>6, <2>1, RankedOutputs DEF SettleInvariant, Rank, ToBit
<1> QED BY <1>4, <1>5, <1>6 DEF SettleInvariant

\* A change of the request at rest finds no supply on its way.
LEMMA SettleAlways == MCSafety => []SettleInvariant
<1>1. MCInit => SettleInvariant
  BY DEF MCInit, Init, SettleInvariant
<1>2. TypeOK /\ TypeOK' /\ DescentInvariant /\ AgesType /\ SettleInvariant
      /\ [MCNext]_<<vars, observers>> => SettleInvariant'
  <2> SUFFICES ASSUME TypeOK, TypeOK', DescentInvariant, AgesType,
                      SettleInvariant, [MCNext]_<<vars, observers>>
               PROVE  SettleInvariant'
    OBVIOUS
  <2>1. CASE MCClk
    BY <2>1, SettleClk
  <2>2. CASE AssertReset
    BY <2>2 DEF AssertReset, SettleInvariant
  <2>3. CASE ChangeRequest
    BY <2>3 DEF ChangeRequest, SettleInvariant
  <2>4. CASE UNCHANGED <<state, cnt, supplies, requests, atRest, observers>>
    BY <2>4 DEF SettleInvariant, supplies, requests, observers, IsWanted
  <2> QED
    BY <2>1, <2>2, <2>3, <2>4 DEF MCNext, ReleaseReset, ChangeBypass, vars
<1> QED
  BY <1>1, <1>2, ObserversWatch, TypeAlways, DescentAlways, AgesAlways, PTL
  DEF MCSafety

\* Each supply the memory needs has been on for the time its regulator is given
\* when the next one is switched on, as long as requests change at rest.
THEOREM RegulatorsSettle == MCSpec => SuppliesSettle
<1> DEFINE Settled ==
      /\ VDDA_out = 0 /\ VDDA_out' = 1 => vddFor' = P_EXTERNAL_VDD_ACTIVATION
      /\ VREF_out = 0 /\ VREF_out' = 1 => vddaFor' = P_EXTERNAL_VDD_ACTIVATION
<1>1. ASSUME TypeOK, TypeOK', DescentInvariant, AgesType, SettleInvariant,
             MCNext, atRest
      PROVE  Settled
  <2>1. CASE MCClk
    <3>1. Clk /\ Observe
      BY <2>1 DEF MCClk
    <3>2. VDDA_out = 0 /\ VDDA_out' = 1 =>
            VDD_out = 1 /\ VDD_out' = 1 /\ vddFor >= 1
      <4> SUFFICES ASSUME VDDA_out = 0, VDDA_out' = 1
                   PROVE  VDD_out = 1 /\ VDD_out' = 1 /\ vddFor >= 1
        OBVIOUS
      <4>1. state = "CHANGE_VDDA" /\ IsWanted
        BY <1>1, <3>1, RankedOutputs
           DEF DescentInvariant, ReachedOnly, TypeOK, MramStates, Rank, ToBit
      <4> QED BY <1>1, <3>1, <4>1, RankedOutputs DEF SettleInvariant, Rank, ToBit
    <3>3. VREF_out = 0 /\ VREF_out' = 1 =>
            VDDA_out = 1 /\ VDDA_out' = 1 /\ vddaFor >= 1
      <4> SUFFICES ASSUME VREF_out = 0, VREF_out' = 1
                   PROVE  VDDA_out = 1 /\ VDDA_out' = 1 /\ vddaFor >= 1
        OBVIOUS
      <4>1. state = "CHANGE_VDDREF" /\ IsWanted
        BY <1>1, <3>1, RankedOutputs
           DEF DescentInvariant, ReachedOnly, TypeOK, MramStates, Rank, ToBit
      <4> QED BY <1>1, <3>1, <4>1, RankedOutputs DEF SettleInvariant, Rank, ToBit
    <3> QED BY <1>1, <3>1, <3>2, <3>3, AgeRange
            DEF Observe, AgesType, TypeOK, P_EXTERNAL_VDD_ACTIVATION
  <2>2. CASE AssertReset
    BY <2>2 DEF AssertReset
  <2>3. CASE UNCHANGED supplies
    BY <2>3 DEF supplies
  <2> QED
    BY <1>1, <2>1, <2>2, <2>3
    DEF MCNext, ReleaseReset, ChangeRequest, ChangeBypass
<1>2. TypeOK /\ TypeOK' /\ DescentInvariant /\ AgesType /\ SettleInvariant
      /\ [MCNext]_<<vars, observers>> => [atRest => Settled]_<<vars, observers>>
  BY <1>1
<1> QED
  BY <1>2, ObserversWatch, TypeAlways, DescentAlways, AgesAlways, SettleAlways, PTL
  DEF MCSpec, MCSafety, SuppliesSettle
=============================================================================
