--------------------------- MODULE PowerManagement ---------------------------
(***************************************************************************)
(* apb_wakeup with its apb_wakeup_counter: software's registers on the      *)
(* system clock, the power management unit on the 32 kHz reference clock,   *)
(* and the way back, on which the unit stops the system clock and resets    *)
(* the registers and the processor that wrote them.                         *)
(***************************************************************************)
EXTENDS WakeupCounter

VARIABLES
    op, pwdata, reg, r_restore, apb_state, write_sync, ack_sync, HRESETn,
    ticked, strobes,              \* ApbWakeup
    rstn_s0                       \* first stage of i_pg_logic_rstn_sync

Apb == INSTANCE ApbWakeup WITH
           curr_state <- apb_state,
           pmu <- [scratch |-> reg_scratch_reg, mode |-> reg_pmu_mode_reg]

apbVars    == <<op, pwdata, strobes, reg, r_restore, apb_state, ack_sync,
                write_sync, ticked>>
systemVars == <<vars, apbVars, HRESETn, rstn_s0>>

\* The reset synchroniser has no reset itself, and no clock under the pad reset:
\* what it holds is unknown, and where that is 1 so is all that it should reset.
\* Only the write synchroniser, on the reference clock, has come to rest by the
\* end of the pad reset, on whatever the machine before it requests.
SystemInit ==
    /\ Init
    /\ rstn_s0 \in Bit
    /\ \/ Apb!Init
       \/ /\ HRESETn = 1
          /\ reg \in Apb!DataType /\ r_restore \in Bit
          /\ apb_state \in Apb!FsmStates /\ ack_sync \in Apb!SyncType
          /\ write_sync = [s0 |-> Apb!s_pmu_req, s1 |-> Apb!s_pmu_req, q |-> Apb!s_pmu_req]
          /\ op = "NONE" /\ pwdata = Apb!NoData /\ strobes = 0 /\ ticked = FALSE

-----------------------------------------------------------------------------
\* HCLK, the clock of the processor and of this side, is the system clock behind
\* the gate that clk_en_system controls.
StartWrite(r, data) ==
    /\ clk_en_system = 1
    /\ UNCHANGED <<vars, rstn_s0>>
    /\ Apb!StartWrite(r, data)

HclkEdge ==
    /\ clk_en_system = 1
    /\ UNCHANGED <<vars, rstn_s0>>
    /\ Apb!Hclk

\* The falling edge of the same clock brings the reset of the logic domain to
\* the registers, in two stages: while the clock is stopped, no reset arrives.
SocClkEdge ==
    /\ clk_en_system = 1
    /\ UNCHANGED vars
    /\ rstn_s0' = pd["LOGIC"].reset
    /\ IF rstn_s0 = HRESETn THEN UNCHANGED <<apbVars, HRESETn>>
       ELSE IF rstn_s0 = 0 THEN Apb!FallReset ELSE Apb!RiseReset

\* The system clock is so much faster than the reference clock that between two
\* edges of it, if it runs, the reset comes through and HCLK has an edge.
FastClocksDone ==
    clk_en_system = 1 => /\ pd["LOGIC"].reset = rstn_s0 /\ rstn_s0 = HRESETn
                         /\ HRESETn = 1 => ticked

\* An edge of the reference clock, on both sides at once.  gap is kept as
\* WakeupCounter keeps it, but guards nothing here.
RefClkEdge ==
    /\ FastClocksDone
    /\ MayTick
    /\ RefClk(Apb!s_pmu_write_en, reg.en, reg.scratch, reg.mode)
    /\ gap' = IF Apb!s_pmu_write_en THEN MinGap - 1 ELSE GapNxt
    /\ lag' = LagNxt
    /\ Apb!SyncClk
    /\ UNCHANGED <<sleep_ack, pins, resets, HRESETn, rstn_s0>>

RingSettles(group) ==
    /\ SwitchSettles(group)
    /\ UNCHANGED <<apbVars, HRESETn, rstn_s0>>

SystemNext ==
    \/ \E r \in Apb!Registers : \E data \in Apb!DataFor(r) : StartWrite(r, data)
    \/ HclkEdge
    \/ SocClkEdge
    \/ RefClkEdge
    \/ \E group \in SwitchGroups : RingSettles(group)

\* The system clock runs while it is enabled, the reference clock always, and
\* the switches settle.
SystemSpec ==
    /\ SystemInit /\ [][SystemNext]_systemVars
    /\ WF_systemVars(HclkEdge) /\ WF_systemVars(SocClkEdge) /\ WF_systemVars(RefClkEdge)
    /\ \A group \in SwitchGroups : WF_systemVars(RingSettles(group))

-----------------------------------------------------------------------------
(***************************************************************************)
(* The handshake and the reset on this side keep what WakeupCounter assumes *)
(* of its environment: every edge of the reference clock is one of its      *)
(* Tick or TickWithWrite, no write coming sooner than MinGap clocks after   *)
(* another or MinBoot clocks after the reset.                               *)
(***************************************************************************)
PmuAssumptionsKept == [][Next]_vars

(***************************************************************************)
(* A sleep is one sleep: the sleep time and the mode are never changed      *)
(* under the sleeping machine, although the processor runs on for five      *)
(* reference clocks after the trigger and may start other writes; it is not *)
(* over before it has taken the processor's domain into reset; and though   *)
(* that reset waits at its synchroniser for as long as the sleep stops the  *)
(* clock, the domain is not released before it has reached the registers.   *)
(***************************************************************************)
SleepIsWhole ==
    [][/\ is_sleeping => UNCHANGED <<reg_scratch_reg, reg_pmu_mode_reg>>
       /\ is_sleeping /\ ~is_sleeping' => pd["LOGIC"].reset = 0
       /\ pd["LOGIC"].reset = 0 /\ pd'["LOGIC"].reset = 1 => HRESETn = 0]_systemVars

(***************************************************************************)
(* A write is not lost, repeated or left hanging on the bus by a sleep that *)
(* stops HCLK in the middle of it; after the sleep, and after power-on, the *)
(* registers of the released processor are again the unit's                 *)
(* (apb_wakeup.sv:103-107).                                                 *)
(***************************************************************************)
WritesKept == /\ [](pd["LOGIC"].reset = 1 => Apb!OneStrobePerWrite /\ Apb!InSync)
              /\ Apb!WriteCompletes

(***************************************************************************)
(* Only a write of REG_PMU_TRIG puts the chip to sleep: not the write of    *)
(* another register with an old trigger beside it (apb_wakeup.sv:119-121).  *)
(***************************************************************************)
NoSpuriousSleep == [][~is_sleeping /\ is_sleeping' => op = "TRIG"]_systemVars

(***************************************************************************)
(* Every sleep takes the processor down, and it always comes back: released *)
(* and clocked, with its registers restored.                                *)
(***************************************************************************)
SleepWakes ==
    /\ is_sleeping ~> pd["LOGIC"].reset = 0
    /\ pd["LOGIC"].reset = 0 ~> /\ pd["LOGIC"].reset = 1 /\ HRESETn = 1
                                /\ clk_en_system = 1 /\ r_restore = 0
=============================================================================
