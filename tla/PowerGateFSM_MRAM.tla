-------------------------- MODULE PowerGateFSM_MRAM --------------------------
(***************************************************************************)
(* rtl/pulpissimo/PowerGateFSM_MRAM.sv: the machine that takes the MRAM     *)
(* through its supplies, resets, trimming and deep power-down.  It has no   *)
(* acknowledge: it trusts the two-clock wait of its counter.                *)
(***************************************************************************)
EXTENDS PowerGateMramLogic

VARIABLES
    rst,                                   \* asynchronous reset, active low
    state, cnt,
    VDD_out, VDDA_out, VREF_out,           \* supplies
    PORb, RETb, RSTb, isolate_int,
    TRIM, DPD, CEb_HIGH,
    power, external_pg,                    \* requests
    wu_bypass_mux, isolate_byp,            \* test bypass of the isolation
    atRest           \* history: since the last reset the request has changed
                     \* only while the machine was in POWER_ON or POWER_OFF

supplies == <<VDD_out, VDDA_out, VREF_out>>
controls == <<PORb, RETb, RSTb, isolate_int, TRIM, DPD, CEb_HIGH>>
requests == <<power, external_pg>>
bypass   == <<wu_bypass_mux, isolate_byp>>
vars     == <<rst, state, cnt, supplies, controls, requests, bypass, atRest>>

IsWanted == Wanted(power, external_pg)
done     == Done(state, power)
isolate  == IF wu_bypass_mux = 1 THEN isolate_byp ELSE isolate_int

\* DPD alone leaves reset with another value than POWER_OFF will give it.
Init ==
    /\ rst = 0
    /\ state = "POWER_OFF" /\ cnt = 0
    /\ VDD_out = 0 /\ VDDA_out = 0 /\ VREF_out = 0
    /\ PORb = 0 /\ RETb = 0 /\ RSTb = 0 /\ isolate_int = 1
    /\ TRIM = 0 /\ DPD = 0 /\ CEb_HIGH = 1
    /\ power \in Bit /\ external_pg = 0
    /\ wu_bypass_mux = 0 /\ isolate_byp \in Bit
    /\ atRest = TRUE

Clk ==
    /\ rst = 1
    /\ state' = MramNxt(state, cnt, IsWanted)
    /\ cnt' = CntNxt(state, cnt)
    /\ VDD_out' = VDDNxt(state, IsWanted)
    /\ VDDA_out' = VDDANxt(state, IsWanted)
    /\ VREF_out' = VREFNxt(state, IsWanted)
    /\ PORb' = PORbNxt(state, IsWanted)
    /\ RETb' = RETbNxt(state, IsWanted)
    /\ RSTb' = RSTbNxt(state, IsWanted)
    /\ isolate_int' = IsolNxt(state, IsWanted)
    /\ TRIM' = TRIMNxt(state)
    /\ DPD' = DPDNxt(state, IsWanted)
    /\ CEb_HIGH' = CEbNxt(state)
    /\ UNCHANGED <<rst, requests, bypass, atRest>>

AssertReset ==
    /\ rst = 1
    /\ rst' = 0
    /\ state' = "POWER_OFF" /\ cnt' = 0
    /\ VDD_out' = 0 /\ VDDA_out' = 0 /\ VREF_out' = 0
    /\ PORb' = 0 /\ RETb' = 0 /\ RSTb' = 0 /\ isolate_int' = 1
    /\ TRIM' = 0 /\ DPD' = 0 /\ CEb_HIGH' = 1
    /\ atRest' = TRUE
    /\ UNCHANGED <<requests, bypass>>

ReleaseReset ==
    /\ rst = 0
    /\ rst' = 1
    /\ UNCHANGED <<state, cnt, supplies, controls, requests, bypass, atRest>>

ChangeRequest ==
    /\ \/ power' = 1 - power /\ UNCHANGED external_pg
       \/ external_pg' = 1 - external_pg /\ UNCHANGED power
    /\ atRest' = (atRest /\ state \in {"POWER_OFF", "POWER_ON"})
    /\ UNCHANGED <<rst, state, cnt, supplies, controls, bypass>>

ChangeBypass ==
    /\ wu_bypass_mux' \in Bit /\ isolate_byp' \in Bit
    /\ UNCHANGED <<rst, state, cnt, supplies, controls, requests, atRest>>

Next == Clk \/ AssertReset \/ ReleaseReset \/ ChangeRequest \/ ChangeBypass

\* The reference clock is never gated.
Spec == Init /\ [][Next]_vars /\ WF_vars(Clk)

-----------------------------------------------------------------------------
\* Every register has its width; the counter never passes the limit of the
\* state it is in, which it is compared with for equality.
TypeOK ==
    /\ state \in MramStates
    /\ cnt \in 0 .. Stay(state) - 1
    /\ {VDD_out, VDDA_out, VREF_out} \subseteq Bit
    /\ {PORb, RETb, RSTb, isolate_int, TRIM, DPD, CEb_HIGH} \subseteq Bit
    /\ {rst, power, external_pg, wu_bypass_mux, isolate_byp} \subseteq Bit
    /\ atRest \in BOOLEAN

(***************************************************************************)
(* Whatever the request does, no signal is active without the one it rests  *)
(* on: analog supplies on the digital one, the reference on both, the       *)
(* releases of the resets on the supplies, the interface on the reset, and  *)
(* the chip enable on a connected interface out of deep power-down.         *)
(***************************************************************************)
SupplyChain ==
    /\ VDDA_out = 1 => VDD_out = 1
    /\ VREF_out = 1 => VDDA_out = 1
    /\ PORb = 1 => VREF_out = 1
    /\ RETb = 1 => PORb = 1
    /\ RSTb = 1 => RETb = 1
    /\ isolate_int = 0 => RSTb = 1
    /\ CEb_HIGH = 0 => isolate_int = 0 /\ DPD = 0

(***************************************************************************)
(* While requests change at rest only, each signal leaves after the one     *)
(* resting on it has left at an earlier clock edge, so the array never      *)
(* loses a supply while it is out of reset or connected.  Only rst drops    *)
(* everything at once.                                                      *)
(***************************************************************************)
Falls(x) == x = 1 /\ x' = 0

OrderlyShutdown ==
    [][atRest /\ rst' = 1 =>
        /\ Falls(VDD_out)  => VDDA_out = 0
        /\ Falls(VDDA_out) => VREF_out = 0
        /\ Falls(VREF_out) => PORb = 0
        /\ Falls(PORb)     => RETb = 0
        /\ Falls(RETb)     => RSTb = 0
        /\ Falls(RSTb)     => isolate_int = 1
        /\ isolate_int = 0 /\ isolate_int' = 1 => CEb_HIGH = 1]_vars

(***************************************************************************)
(* A request that stays ends in an enabled memory, its absence in one with  *)
(* no supply, from whatever state an earlier change of mind has left.       *)
(***************************************************************************)
PowersUp   == <>[](rst = 1 /\ IsWanted)  => <>[](done \/ external_pg = 1)
                                            /\ <>[](CEb_HIGH = 0)
PowersDown == <>[](rst = 1 /\ ~IsWanted) => <>[](done /\ VDD_out = 0 /\ DPD = 1)
Serves     == PowersUp /\ PowersDown
=============================================================================
