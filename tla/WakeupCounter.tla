---------------------------- MODULE WakeupCounter ----------------------------
(***************************************************************************)
(* ips/pulp_soc/rtl/components/apb_wakeup_counter.sv: the power management  *)
(* unit in the always-on domain.  It counts the milliseconds of a sleep,    *)
(* runs the high-level machine, and through it five PowerGateFSMs and the   *)
(* MRAM sequencer, all on the 32 kHz reference clock.                       *)
(***************************************************************************)
EXTENDS WakeupLogic

CONSTANTS
    Scratches,     \* the sleep times, in milliseconds, that software sleeps for
    Modes,         \* the sleep modes it writes, and {}, the one after reset
    LoopLimit,     \* loopcount at which one_msec is raised (32: bit 5)
    SwitchGroups,  \* sets of switch rings that may settle together
    MinGap,        \* reference clocks between two writes from the APB side
    MinBoot,       \* ... and between the release of reset and the first one
    MaxLag,        \* bound: reference clocks a switch ring may take to settle
    MaxResets,     \* bound: resets from the pad after the first
    Pins           \* which test pins move: subset of {"hold", "step"} \cup Parts

ASSUME ConstantsAssumption ==
    /\ Scratches \subseteq Nat
    /\ Modes \subseteq SUBSET ModeBits /\ {} \in Modes
    /\ {LoopLimit, MinGap, MinBoot, MaxLag, MaxResets} \subseteq Nat
    /\ LoopLimit > 0 /\ MinGap > 0
    /\ UNION SwitchGroups = Domains
    /\ Pins \subseteq {"hold", "step"} \cup Parts

VARIABLES
    curr_state,                    \* the high-level machine
    is_sleeping,
    loopcount, msec_count,         \* reference clocks, milliseconds asleep
    reg_scratch_reg, reg_pmu_mode_reg,
    pd,                            \* the five PowerGateFSMs
    mram,                          \* the PowerGateFSM_MRAM
    sleep_ack,                     \* what the switch rings acknowledge
    pins,                          \* the test pins that are 1
    gap, lag, resets,              \* counters of the environment
    asleepFor                      \* history: reference clocks of this sleep

sleepVars == <<is_sleeping, loopcount, msec_count, asleepFor>>
regVars   == <<reg_scratch_reg, reg_pmu_mode_reg>>
pmuVars   == <<curr_state, sleepVars, regVars, pd, mram>>
vars      == <<pmuVars, sleep_ack, pins, gap, lag, resets>>

-----------------------------------------------------------------------------
\* One clock of one PowerGateFSM, and of the MRAM sequencer.
GateClk(g, ack, wanted) ==
    [state      |-> StateNxt(g.state, wanted, ack, g.sleep_send),
     clk_en     |-> ClkEnNxt(g.state, wanted),
     reset      |-> ResetNxt(g.state, wanted),
     isolate    |-> IsolateNxt(g.state, wanted),
     sleep_send |-> SleepSendNxt(g.state, wanted)]

GateReset == [state |-> "POWER_OFF", clk_en |-> 0, reset |-> 0,
              isolate |-> 1, sleep_send |-> 1]

MramClk(m, wanted) ==
    [state   |-> MramNxt(m.state, m.cnt, wanted),
     cnt     |-> CntNxt(m.state, m.cnt),
     VDD     |-> VDDNxt(m.state, wanted),
     VDDA    |-> VDDANxt(m.state, wanted),
     VREF    |-> VREFNxt(m.state, wanted),
     PORb    |-> PORbNxt(m.state, wanted),
     RETb    |-> RETbNxt(m.state, wanted),
     RSTb    |-> RSTbNxt(m.state, wanted),
     isolate |-> IsolNxt(m.state, wanted),
     TRIM    |-> TRIMNxt(m.state),
     DPD     |-> DPDNxt(m.state, wanted),
     CEb     |-> CEbNxt(m.state)]

MramReset == [state |-> "POWER_OFF", cnt |-> 0, VDD |-> 0, VDDA |-> 0,
              VREF |-> 0, PORb |-> 0, RETb |-> 0, RSTb |-> 0, isolate |-> 1,
              TRIM |-> 0, DPD |-> 0, CEb |-> 1]

\* s_power_*, the wishes of the pins added, and the done flags, which are
\* about the former only.
s_power_of(part) == ToBit(part \in Powered(curr_state, reg_pmu_mode_reg))
IsWanted(part)   == Wanted(s_power_of(part), ToBit(part \in pins))

doneParts ==
    {d \in Domains : Done(pd[d].state, s_power_of(d))}
    \cup {p \in {"MRAM"} : Done(mram.state, s_power_of(p))}

clk_en_system == ToBit(pd["L2"].clk_en = 1 \/ pd["L2_UDMA"].clk_en = 1)

\* (after a faulty variant that is one too early)
wakeup_alarm_early == msec_count + 1 >= reg_scratch_reg

one_msec     == loopcount >= LoopLimit
wakeup_alarm == msec_count >= reg_scratch_reg

-----------------------------------------------------------------------------
ResetValues ==
    /\ curr_state = "FSM_POWER_OFF"
    /\ is_sleeping = FALSE /\ loopcount = 0 /\ msec_count = 0 /\ asleepFor = 0
    /\ reg_scratch_reg = 0 /\ reg_pmu_mode_reg = {}
    /\ pd = [d \in Domains |-> GateReset]
    /\ mram = MramReset

\* At power-on the switches may be in either position.
Init ==
    /\ ResetValues
    /\ \E b \in Bit : sleep_ack = [d \in Domains |-> b]
    /\ pins = {}
    /\ gap = MinBoot /\ lag = 0 /\ resets = 0

\* is_sleeping: set by a write with the enable, cleared by the alarm.
SleepNxt(wen, pmu_en) ==
    IF is_sleeping THEN ~wakeup_alarm ELSE wen /\ pmu_en

\* Both counters rest at 0 while awake.
LoopNxt == IF ~is_sleeping \/ one_msec THEN 0 ELSE loopcount + 1

\* (after a faulty variant that does not keep its value between two alarms)
MsecNxtCleared == IF is_sleeping /\ one_msec THEN msec_count + 1 ELSE 0

MsecNxt == IF ~is_sleeping THEN 0
           ELSE IF one_msec THEN msec_count + 1 ELSE msec_count

\* The history counter stops one clock past the time asked for.
AsleepLimit == (LoopLimit + 1) * reg_scratch_reg
AsleepNxt   == IF ~is_sleeping THEN 0
               ELSE IF asleepFor > AsleepLimit THEN asleepFor ELSE asleepFor + 1

(***************************************************************************)
(* One edge of the reference clock.  wen is the synchronised write strobe,  *)
(* with the three registers of the APB side beside it.                      *)
(***************************************************************************)
RefClk(wen, pmu_en, scratch, mode) ==
    /\ curr_state' = HlfsmNxt(curr_state, doneParts, ~is_sleeping,
                              "hold" \in pins, "step" \in pins)
    /\ is_sleeping' = SleepNxt(wen, pmu_en)
    /\ reg_scratch_reg'  = IF wen THEN scratch ELSE reg_scratch_reg
    /\ reg_pmu_mode_reg' = IF wen THEN mode ELSE reg_pmu_mode_reg
    /\ loopcount' = LoopNxt
    /\ msec_count' = MsecNxt
    /\ asleepFor' = AsleepNxt
    /\ pd' = [d \in Domains |-> GateClk(pd[d], sleep_ack[d], IsWanted(d))]
    /\ mram' = MramClk(mram, IsWanted("MRAM"))

\* A ring of switches has followed sleep_send.
Unsettled(group) == \E d \in group : sleep_ack[d] # pd[d].sleep_send

SwitchSettles(group) ==
    /\ Unsettled(group)
    /\ sleep_ack' = [d \in Domains |->
                        IF d \in group THEN pd[d].sleep_send ELSE sleep_ack[d]]
    /\ lag' = IF Unsettled(Domains \ group) THEN lag ELSE 0
    /\ UNCHANGED <<pmuVars, pins, gap, resets>>

(***************************************************************************)
(* The environment on its own: the processor, which has to be out of reset  *)
(* to write and whose writes the handshake keeps MinGap clocks apart (gap   *)
(* counts down to the next one; ApbWakeup is the handshake itself).         *)
(***************************************************************************)
MayTick == Unsettled(Domains) => lag < MaxLag

LagNxt == IF \E d \in Domains : sleep_ack[d] # pd'[d].sleep_send
          THEN IF Unsettled(Domains) THEN lag + 1 ELSE 0
          ELSE 0

GapNxt == IF pd["LOGIC"].reset = 0 THEN MinBoot
          ELSE IF gap > 0 THEN gap - 1 ELSE 0

Tick ==
    /\ MayTick
    /\ RefClk(FALSE, FALSE, 0, {})
    /\ gap' = GapNxt
    /\ lag' = LagNxt
    /\ UNCHANGED <<sleep_ack, pins, resets>>

TickWithWrite(pmu_en, scratch, mode) ==
    /\ MayTick
    /\ gap = 0 /\ pd["LOGIC"].reset = 1
    /\ pmu_en => scratch \in Scratches
    /\ RefClk(TRUE, pmu_en, scratch, mode)
    /\ gap' = MinGap - 1
    /\ lag' = LagNxt
    /\ UNCHANGED <<sleep_ack, pins, resets>>

MovePin(p) ==
    /\ pins' = IF p \in pins THEN pins \ {p} ELSE pins \cup {p}
    /\ UNCHANGED <<pmuVars, sleep_ack, gap, lag, resets>>

PadReset ==
    /\ resets < MaxResets
    /\ resets' = resets + 1
    /\ curr_state' = "FSM_POWER_OFF"
    /\ is_sleeping' = FALSE /\ loopcount' = 0 /\ msec_count' = 0
    /\ asleepFor' = 0
    /\ reg_scratch_reg' = 0 /\ reg_pmu_mode_reg' = {}
    /\ pd' = [d \in Domains |-> GateReset]
    /\ mram' = MramReset
    /\ gap' = MinBoot /\ lag' = 0
    /\ UNCHANGED <<sleep_ack, pins>>

Next ==
    \/ Tick
    \/ \E pmu_en \in BOOLEAN, scratch \in Scratches \cup {0}, mode \in Modes :
          TickWithWrite(pmu_en, scratch, mode)
    \/ \E group \in SwitchGroups : SwitchSettles(group)
    \/ \E p \in Pins : MovePin(p)
    \/ PadReset

\* The reference clock is never gated and the switches settle.
Spec == /\ Init /\ [][Next]_vars
        /\ WF_vars(Tick)
        /\ \A group \in SwitchGroups : WF_vars(SwitchSettles(group))

-----------------------------------------------------------------------------
GateType == [state : States, clk_en : Bit, reset : Bit, isolate : Bit,
             sleep_send : Bit]

MramType == [state : MramStates, cnt : {0, 1}, VDD : Bit, VDDA : Bit,
             VREF : Bit, PORb : Bit, RETb : Bit, RSTb : Bit, isolate : Bit,
             TRIM : Bit, DPD : Bit, CEb : Bit]

\* Every register has its width, and the loop counter never passes its limit.
TypeOK ==
    /\ curr_state \in NormalStates \cup StepStates
    /\ is_sleeping \in BOOLEAN
    /\ loopcount \in 0 .. LoopLimit
    /\ msec_count \in Nat /\ asleepFor \in Nat
    /\ reg_scratch_reg \in Scratches \cup {0}
    /\ reg_pmu_mode_reg \in Modes
    /\ pd \in [Domains -> GateType]
    /\ mram \in MramType /\ mram.cnt < Stay(mram.state)
    /\ sleep_ack \in [Domains -> Bit]
    /\ pins \subseteq Pins
    /\ gap \in 0 .. MinGap + MinBoot /\ lag \in 0 .. MaxLag /\ resets \in 0 .. MaxResets

(***************************************************************************)
(* Time is neither lost nor counted twice: during a sleep, the two counters *)
(* together always tell how many reference clocks it has lasted, and it     *)
(* never lasts longer than software asked for; and a sleep that no pad      *)
(* reset cuts short ends after the time asked for, not a clock before.      *)
(***************************************************************************)
SleepCounted ==
    is_sleeping => /\ asleepFor = (LoopLimit + 1) * msec_count + loopcount
                   /\ asleepFor <= AsleepLimit

SleepTimeExact ==
    /\ []SleepCounted
    /\ [][is_sleeping /\ ~is_sleeping' /\ resets' = resets =>
             asleepFor = AsleepLimit]_vars

(***************************************************************************)
(* Every part that is out of reset has its supply: what PowerGateFSM        *)
(* guarantees for requests that are held, for the requests the high-level   *)
(* machine really makes.                                                    *)
(***************************************************************************)
SuppliesGood == \A d \in Domains : pd[d].reset = 1 => sleep_ack[d] = 0

(***************************************************************************)
(* However the hold and step pins were used, and wherever they left the     *)
(* machine, once they rest it brings the processor up.                      *)
(***************************************************************************)
PinsLeaveNoTrace == <>[](pins = {}) => []<>(pd["LOGIC"].state = "POWER_ON")
=============================================================================
