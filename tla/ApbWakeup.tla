------------------------------ MODULE ApbWakeup ------------------------------
(***************************************************************************)
(* ips/pulp_soc/rtl/components/apb_wakeup.sv: the registers software writes *)
(* to put the chip to sleep, and the handshake that carries every write     *)
(* from the system clock HCLK to the power management unit on the 32 kHz    *)
(* reference clock.  Here the unit is no more than its two register copies  *)
(* and the reset comes at any time; PowerManagement puts WakeupCounter in   *)
(* their place.                                                             *)
(***************************************************************************)
EXTENDS Naturals

CONSTANTS
    Scratches,     \* the sleep times software sleeps for
    Modes          \* the modes it writes, and {}, the one after reset

ASSUME ApbAssumption == Scratches \subseteq Nat /\ {} \in Modes

VARIABLES
    op, pwdata,           \* the write on the APB bus, "NONE" when it is idle
    reg,                  \* reg_scratch, reg_pmu_en and reg_pmu_mode
    r_restore,
    curr_state,           \* of the machine that controls PREADY
    write_sync,           \* i_pmu_write_sync: two stages and serial_q
    ack_sync,             \* i_pmu_ack_sync, the same
    HRESETn,              \* pg_logic_rstn_o
    pmu,                  \* reg_scratch_pmu and reg_pmu_mode_pmu
    ticked,               \* an edge of HCLK since the last reference edge
    strobes               \* history: strobes of the write on the bus

busVars  == <<op, pwdata, strobes>>
hclkVars == <<reg, r_restore, curr_state, ack_sync>>
apbVars  == <<busVars, hclkVars, write_sync, ticked>>
vars     == <<apbVars, HRESETn, pmu>>

Registers == {"SCRATCH", "TRIG", "MODE"}
FsmStates == {"FSM_IDLE", "FSM_PMU_REQ", "FSM_PMU_ACK", "FSM_PREADY"}

NoData == [scratch |-> 0, en |-> FALSE, mode |-> {}]
LowSync == [s0 |-> 0, s1 |-> 0, q |-> 0]

\* pulp_sync_wedge: two stages, then the register that finds the edges.
Shift(sync, serial_i) == [s0 |-> serial_i, s1 |-> sync.s0, q |-> sync.s1]
REdge(sync)           == sync.s1 = 1 /\ sync.q = 0

s_apb_write    == op # "NONE"
s_pmu_ack      == write_sync.q
s_pmu_ack_sync == ack_sync.q
s_pmu_req_held == IF curr_state \in {"FSM_PMU_REQ", "FSM_PMU_ACK"} THEN 1 ELSE 0  \* faulty
s_pmu_req      == IF curr_state = "FSM_PMU_REQ" /\ s_pmu_ack_sync = 0 THEN 1 ELSE 0
s_pmu_write_en == REdge(write_sync)

-----------------------------------------------------------------------------
Init ==
    /\ op = "NONE" /\ pwdata = NoData /\ strobes = 0
    /\ reg = NoData /\ r_restore = 1
    /\ curr_state = "FSM_IDLE"
    /\ write_sync = LowSync /\ ack_sync = LowSync
    /\ ticked = FALSE
    /\ HRESETn = 0
    /\ pmu = [scratch |-> 0, mode |-> {}]

\* The value a write gives the registers.
Written ==
    [scratch |-> IF op = "SCRATCH" THEN pwdata.scratch ELSE reg.scratch,
     en      |-> IF op = "TRIG"    THEN pwdata.en      ELSE reg.en,
     mode    |-> IF op = "MODE"    THEN pwdata.mode    ELSE reg.mode]

\* (after a faulty variant that restores the trigger as set)
RegNxtRestoresTrig ==
    IF r_restore = 1 THEN [scratch |-> pmu.scratch, en |-> TRUE, mode |-> pmu.mode]
    ELSE Written

\* (and one that restores nothing)
RegNxtForgets == Written

RegNxt ==
    IF r_restore = 1 THEN [scratch |-> pmu.scratch, en |-> reg.en, mode |-> pmu.mode]
    ELSE Written

\* (after a faulty variant that does not wait for the acknowledge)
FsmNxtHasty ==
    CASE curr_state = "FSM_IDLE"    -> IF s_apb_write THEN "FSM_PMU_REQ" ELSE "FSM_IDLE"
      [] curr_state = "FSM_PMU_REQ" -> "FSM_PREADY"
      [] curr_state = "FSM_PMU_ACK" -> IF s_pmu_ack_sync = 1 THEN "FSM_PMU_ACK" ELSE "FSM_PREADY"
      [] curr_state = "FSM_PREADY"  -> "FSM_IDLE"

FsmNxt ==
    CASE curr_state = "FSM_IDLE"    -> IF s_apb_write THEN "FSM_PMU_REQ" ELSE "FSM_IDLE"
      [] curr_state = "FSM_PMU_REQ" -> IF s_pmu_ack_sync = 1 THEN "FSM_PMU_ACK" ELSE "FSM_PMU_REQ"
      [] curr_state = "FSM_PMU_ACK" -> IF s_pmu_ack_sync = 1 THEN "FSM_PMU_ACK" ELSE "FSM_PREADY"
      [] curr_state = "FSM_PREADY"  -> "FSM_IDLE"

-----------------------------------------------------------------------------
\* The processor starts a write; it triggers no sleep before it has set a time.
Restored == IF r_restore = 1 THEN pmu.scratch ELSE reg.scratch

StartWrite(r, data) ==
    /\ HRESETn = 1 /\ op = "NONE"
    /\ data.en => Restored \in Scratches
    /\ op' = r
    /\ pwdata' = data
    /\ strobes' = 0
    /\ UNCHANGED <<hclkVars, write_sync, ticked, HRESETn, pmu>>

\* An edge of HCLK.  The bus holds the write until PREADY.
Hclk ==
    /\ HRESETn = 1
    /\ reg' = RegNxt
    /\ r_restore' = 0
    /\ curr_state' = FsmNxt
    /\ ack_sync' = Shift(ack_sync, s_pmu_ack)
    /\ IF curr_state = "FSM_PREADY"
       THEN op' = "NONE" /\ pwdata' = NoData
       ELSE UNCHANGED <<op, pwdata>>
    /\ ticked' = TRUE
    /\ UNCHANGED <<strobes, write_sync, HRESETn, pmu>>

\* What an edge of the reference clock does on this side.
SyncClk ==
    /\ write_sync' = IF HRESETn = 1 THEN Shift(write_sync, s_pmu_req) ELSE LowSync
    /\ strobes' = IF s_pmu_write_en THEN strobes + 1 ELSE strobes
    /\ ticked' = FALSE
    /\ UNCHANGED <<op, pwdata, hclkVars>>

\* ... and on the other.  HCLK is the faster clock: at least one of its edges
\* comes between two of the reference clock.
RefClk ==
    /\ HRESETn = 1 => ticked
    /\ SyncClk
    /\ pmu' = IF s_pmu_write_en THEN [scratch |-> reg.scratch, mode |-> reg.mode]
                                ELSE pmu
    /\ UNCHANGED HRESETn

\* The asynchronous reset of this side; the bus master falls with it.
FallReset ==
    /\ HRESETn = 1
    /\ HRESETn' = 0
    /\ op' = "NONE" /\ pwdata' = NoData /\ strobes' = 0
    /\ reg' = NoData /\ r_restore' = 1
    /\ curr_state' = "FSM_IDLE"
    /\ write_sync' = LowSync /\ ack_sync' = LowSync
    /\ ticked' = FALSE
    /\ UNCHANGED pmu

RiseReset ==
    /\ HRESETn = 0
    /\ HRESETn' = 1
    /\ UNCHANGED <<apbVars, pmu>>

DataFor(r) ==
    CASE r = "SCRATCH" -> {[NoData EXCEPT !.scratch = s] : s \in Scratches}
      [] r = "TRIG"    -> {[NoData EXCEPT !.en = e] : e \in BOOLEAN}
      [] r = "MODE"    -> {[NoData EXCEPT !.mode = m] : m \in Modes}

Next ==
    \/ \E r \in Registers : \E data \in DataFor(r) : StartWrite(r, data)
    \/ Hclk
    \/ RefClk
    \/ FallReset
    \/ RiseReset

\* Neither clock stops for good.
Spec == Init /\ [][Next]_vars /\ WF_vars(Hclk) /\ WF_vars(RefClk)

-----------------------------------------------------------------------------
DataType == [scratch : Scratches \cup {0}, en : BOOLEAN, mode : Modes]
SyncType == [s0 : {0, 1}, s1 : {0, 1}, q : {0, 1}]

\* Every register has its width.
TypeOK ==
    /\ op \in Registers \cup {"NONE"} /\ pwdata \in DataType
    /\ reg \in DataType /\ r_restore \in {0, 1}
    /\ curr_state \in FsmStates
    /\ write_sync \in SyncType /\ ack_sync \in SyncType
    /\ HRESETn \in {0, 1}
    /\ pmu \in [scratch : Scratches \cup {0}, mode : Modes]
    /\ ticked \in BOOLEAN /\ strobes \in Nat

(***************************************************************************)
(* Every write reaches the unit exactly once, whatever the two clocks do:   *)
(* not lost between the edges of the slow one, not repeated by the fast.    *)
(***************************************************************************)
OneStrobePerWrite ==
    /\ strobes <= 1
    /\ curr_state = "FSM_PREADY" => strobes = 1

(***************************************************************************)
(* "All the apb registers should be in sync with pmu registers"             *)
(* (apb_wakeup.sv:105): since a write to one register copies all of them,   *)
(* a register that was not restored after a sleep would be overwritten.     *)
(***************************************************************************)
InSync ==
    r_restore = 0 /\ (op = "NONE" \/ curr_state = "FSM_PREADY") =>
        pmu = [scratch |-> reg.scratch, mode |-> reg.mode]

(***************************************************************************)
(* The registers that cross without synchronisers are still while the       *)
(* strobe is up (apb_wakeup_counter.sv:613: "wen_i is already synchronized  *)
(* to clk_i").                                                              *)
(***************************************************************************)
StableUnderStrobe == [][s_pmu_write_en /\ HRESETn' = 1 => reg' = reg]_vars

(***************************************************************************)
(* No write hangs on the bus: PREADY comes, or the reset does.              *)
(***************************************************************************)
WriteCompletes == op # "NONE" ~> op = "NONE"
=============================================================================
