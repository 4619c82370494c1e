------------------------- MODULE PowerGateFSM_proofs -------------------------
(***************************************************************************)
(* What holds of PowerGateFSM for every behaviour of its inputs: the        *)
(* ordering of the outputs, as an implementation of PowerDomain, and, for   *)
(* requests that are held, reset released on an acknowledged supply only.   *)
(***************************************************************************)
EXTENDS PowerGateFSM, TLAPS

USE DEF Bit

(***************************************************************************)
(* The output registers trail the state by one clock: in each state only    *)
(* the output that is about to move may still have its earlier value.       *)
(***************************************************************************)
OutputsTrailState ==
    /\ state = "POWER_ON" => clk_en = 1
    /\ clk_en = 1 => state \in {"POWER_ON", "CLK_ENABLE"}
    /\ state \in {"POWER_ON", "CLK_ENABLE", "ISOLATE"} => reset = 1
    /\ reset = 1 => state \in {"POWER_ON", "CLK_ENABLE", "ISOLATE", "RESET"}
    /\ state \in {"POWER_ON", "CLK_ENABLE"} => isolate_int = 0
    /\ isolate_int = 0 => state \in {"POWER_ON", "CLK_ENABLE", "ISOLATE"}
    /\ state \in {"SWITCH_POWER_2", "POWER_OFF"} => sleep_send_int = 1
    /\ sleep_send_int = 1 =>
          state \in {"SWITCH_POWER_1", "SWITCH_POWER_2", "POWER_OFF"}

\* Past SWITCH_POWER_1 the switches are closed and told to stay closed,
\* and a machine that waits for them there is still wanted.
SupplyInvariant ==
    held =>
      /\ wu_bypass_mux = 0
      /\ state \in {"POWER_ON", "CLK_ENABLE", "ISOLATE", "RESET"} => sleep_ack = 0
      /\ state = "SWITCH_POWER_1" =>
            sleep_send_int = 0 /\ (sleep_ack = 1 => IsWanted)

-----------------------------------------------------------------------------
\* The tables of the machine stay within their types.
LEMMA TablesType ==
    ASSUME NEW s \in States, NEW w \in BOOLEAN, NEW a \in Bit, NEW z \in Bit
    PROVE  /\ StateNxt(s, w, a, z) \in States
           /\ ClkEnNxt(s, w) \in Bit
           /\ ResetNxt(s, w) \in Bit
           /\ IsolateNxt(s, w) \in Bit
           /\ SleepSendNxt(s, w) \in Bit
BY DEF States, StateNxt, Up, Down, ClkEnNxt, ResetNxt, IsolateNxt, SleepSendNxt,
       ToBit

\* Every register and input keeps its width, whatever the inputs do.
THEOREM Typing == Spec => []TypeOK
<1>1. Init => TypeOK
  BY DEF Init, TypeOK, ResetValues, States
<1>2. TypeOK /\ [Next]_vars => TypeOK'
  <2> SUFFICES ASSUME TypeOK, [Next]_vars PROVE TypeOK'
    OBVIOUS
  <2>1. CASE Clk
    <3>1. IsWanted \in BOOLEAN
      BY DEF IsWanted, Wanted
    <3>2. /\ state' \in States
          /\ clk_en' \in Bit /\ reset' \in Bit
          /\ isolate_int' \in Bit /\ sleep_send_int' \in Bit
      BY <2>1, <3>1, TablesType DEF Clk, TypeOK
    <3> QED BY <2>1, <3>2 DEF Clk, TypeOK, requests, bypass
  <2>2. CASE SwitchSettles
    BY <2>2 DEF SwitchSettles, TypeOK, sleep_send, registers, requests, bypass
  <2>3. CASE AssertReset
    BY <2>3 DEF AssertReset, TypeOK, ResetValues, States, requests, bypass
  <2>4. CASE ReleaseReset
    BY <2>4 DEF ReleaseReset, TypeOK, registers, requests, bypass
  <2>5. CASE ChangePower
    BY <2>5 DEF ChangePower, TypeOK, registers, bypass
  <2>6. CASE ChangeExternal
    BY <2>6 DEF ChangeExternal, TypeOK, registers, bypass
  <2>7. CASE ChangeBypass
    BY <2>7 DEF ChangeBypass, TypeOK, registers, requests
  <2>8. CASE UNCHANGED vars
    BY <2>8 DEF vars, TypeOK, registers, requests, bypass
  <2> QED
    BY <2>1, <2>2, <2>3, <2>4, <2>5, <2>6, <2>7, <2>8 DEF Next, Environment
<1> QED BY <1>1, <1>2, PTL DEF Spec

-----------------------------------------------------------------------------
\* The trailing of the outputs, for the next values the two tables give.
LEMMA TrailingStep ==
    ASSUME TypeOK, OutputsTrailState, Clk PROVE OutputsTrailState'
<1>1. IsWanted \in BOOLEAN
  BY DEF IsWanted, Wanted
<1> DEFINE w == IsWanted
<1>2. /\ state' = StateNxt(state, w, sleep_ack, sleep_send_int)
      /\ clk_en' = ClkEnNxt(state, w) /\ reset' = ResetNxt(state, w)
      /\ isolate_int' = IsolateNxt(state, w)
      /\ sleep_send_int' = SleepSendNxt(state, w)
  BY DEF Clk
<1> HIDE DEF w
<1> QED
  BY <1>1, <1>2 DEF w, OutputsTrailState, TypeOK, States, StateNxt, Up, Down,
     ClkEnNxt, ResetNxt, IsolateNxt, SleepSendNxt, ToBit

\* In every reachable state the outputs trail the state by one clock.
THEOREM Trailing == Spec => []OutputsTrailState
<1>1. Init => OutputsTrailState
  BY DEF Init, ResetValues, OutputsTrailState
<1>2. TypeOK /\ OutputsTrailState /\ [Next]_vars => OutputsTrailState'
  <2> SUFFICES ASSUME TypeOK, OutputsTrailState, [Next]_vars
               PROVE  OutputsTrailState'
    OBVIOUS
  <2>1. CASE Clk
    BY <2>1, TrailingStep
  <2>2. CASE AssertReset
    BY <2>2 DEF AssertReset, ResetValues, OutputsTrailState
  <2>3. CASE UNCHANGED registers
    BY <2>3 DEF registers, OutputsTrailState
  <2> QED
    BY <2>1, <2>2, <2>3 DEF Next, Environment, SwitchSettles, ReleaseReset,
       ChangePower, ChangeExternal, ChangeBypass, vars
<1> QED BY <1>1, <1>2, Typing, PTL DEF Spec

\* One clock of the machine is at most one step of the abstract domain.
LEMMA OneControlMoves ==
    ASSUME TypeOK, OutputsTrailState, Clk
    PROVE  Domain!Next \/ UNCHANGED Domain!controls
<1>1. IsWanted \in BOOLEAN
  BY DEF IsWanted, Wanted
<1> DEFINE w == IsWanted
<1>2. /\ clk_en' = ClkEnNxt(state, w) /\ reset' = ResetNxt(state, w)
      /\ isolate_int' = IsolateNxt(state, w)
      /\ sleep_send_int' = SleepSendNxt(state, w)
  BY DEF Clk
<1> HIDE DEF w
<1> QED
  BY <1>1, <1>2 DEF w, OutputsTrailState, TypeOK, States,
     ClkEnNxt, ResetNxt, IsolateNxt, SleepSendNxt, ToBit,
     Domain!Next, Domain!controls, Domain!MoveClock, Domain!MoveIsolation,
     Domain!MoveReset, Domain!MoveSwitch

\* PowerGateFSM implements PowerDomain: the order clock, isolation, reset,
\* supply holds however the request comes and goes.
THEOREM Ordering == Spec => OrderedControls
<1>1. Init => Domain!Init
  BY DEF Init, ResetValues, Domain!Init, Domain!AllOff
<1>2. TypeOK /\ OutputsTrailState /\ [Next]_vars => [Domain!Next]_(Domain!controls)
  <2> SUFFICES ASSUME TypeOK, OutputsTrailState, [Next]_vars
               PROVE  Domain!Next \/ UNCHANGED Domain!controls
    OBVIOUS
  <2>1. CASE Clk
    BY <2>1, OneControlMoves
  <2>2. CASE AssertReset
    BY <2>2 DEF AssertReset, ResetValues, Domain!Next, Domain!PowerOnReset,
       Domain!AllOff
  <2>3. CASE UNCHANGED registers
    BY <2>3 DEF registers, Domain!controls
  <2> QED
    BY <2>1, <2>2, <2>3 DEF Next, Environment, SwitchSettles, ReleaseReset,
       ChangePower, ChangeExternal, ChangeBypass, vars
<1> QED
  BY <1>1, <1>2, Typing, Trailing, PTL DEF Spec, OrderedControls, Domain!Spec

-----------------------------------------------------------------------------
\* While the machine waits for the switches, or has passed them, the request
\* that brought it there is held and the switches are not told to open.
THEOREM SupplyHeld == Spec => []SupplyInvariant
<1>1. Init => SupplyInvariant
  BY DEF Init, ResetValues, SupplyInvariant
<1>2. TypeOK /\ OutputsTrailState /\ SupplyInvariant /\ [Next]_vars
         => SupplyInvariant'
  <2> SUFFICES ASSUME TypeOK, OutputsTrailState, SupplyInvariant, [Next]_vars
               PROVE  SupplyInvariant'
    OBVIOUS
  <2>1. CASE Clk
    <3>1. IsWanted \in BOOLEAN /\ IsWanted' = IsWanted
      BY <2>1 DEF Clk, IsWanted, Wanted, requests
    <3>2. /\ state' = StateNxt(state, IsWanted, sleep_ack, sleep_send_int)
          /\ sleep_send_int' = SleepSendNxt(state, IsWanted)
          /\ wu_bypass_mux' = wu_bypass_mux /\ sleep_ack' = sleep_ack
          /\ held' = held
      BY <2>1 DEF Clk, bypass
    <3> HIDE DEF IsWanted
    <3> QED
      BY <3>1, <3>2 DEF SupplyInvariant, OutputsTrailState, TypeOK, States,
         StateNxt, Up, Down, SleepSendNxt, ToBit
  <2>2. CASE SwitchSettles
    BY <2>2 DEF SwitchSettles, SupplyInvariant, OutputsTrailState, TypeOK,
       sleep_send, registers, requests, bypass, IsWanted
  <2>3. CASE AssertReset
    BY <2>3 DEF AssertReset, ResetValues, SupplyInvariant, bypass
  <2>4. CASE ReleaseReset
    BY <2>4 DEF ReleaseReset, SupplyInvariant, registers, requests, bypass, IsWanted
  <2>5. CASE ChangePower
    BY <2>5 DEF ChangePower, InTime, SupplyInvariant, registers, bypass, IsWanted
  <2>6. CASE ChangeExternal
    BY <2>6 DEF ChangeExternal, InTime, SupplyInvariant, registers, bypass,
       IsWanted
  <2>7. CASE ChangeBypass
    BY <2>7 DEF ChangeBypass, SupplyInvariant, registers, requests, IsWanted
  <2>8. CASE UNCHANGED vars
    BY <2>8 DEF vars, SupplyInvariant, registers, requests, bypass, IsWanted
  <2> QED
    BY <2>1, <2>2, <2>3, <2>4, <2>5, <2>6, <2>7, <2>8 DEF Next, Environment
<1> QED BY <1>1, <1>2, Typing, Trailing, PTL DEF Spec

\* A domain whose request is held leaves reset only once its switches have
\* acknowledged the supply.
THEOREM SupplyGood == Spec => []SupplyGoodOutOfReset
<1>1. OutputsTrailState /\ SupplyInvariant => SupplyGoodOutOfReset
  BY DEF OutputsTrailState, SupplyInvariant, SupplyGoodOutOfReset
<1> QED BY <1>1, SupplyHeld, Trailing, PTL

\* done for a domain that is up is raised on final outputs only.
THEOREM DoneTruthful == Spec => []DoneMeansUp
<1>1. TypeOK /\ OutputsTrailState /\ SupplyInvariant => DoneMeansUp
  BY DEF TypeOK, OutputsTrailState, SupplyInvariant, DoneMeansUp, done, Done
<1> QED BY <1>1, Typing, SupplyHeld, Trailing, PTL
=============================================================================
