---------------------------- MODULE PowerGateFSM ----------------------------
(***************************************************************************)
(* rtl/pulpissimo/PowerGateFSM.sv: the machine that takes one power domain  *)
(* up and down.  The state and four output registers change on the clock;   *)
(* the inputs change between clock edges, as the high-level machine, the    *)
(* pins and the ring of power switches move them.                           *)
(***************************************************************************)
EXTENDS PowerGateLogic

VARIABLES
    rst,             \* the asynchronous reset, active low
    state,
    clk_en, reset, isolate_int, sleep_send_int,          \* output registers
    power, external_pg,                                  \* requests
    wu_bypass_mux, sleep_send_byp, isolate_byp,          \* test bypass
    sleep_ack,                                           \* from the switches
    held             \* history: since the last reset no request was withdrawn
                     \* before the machine was in POWER_ON (WakeupCounter keeps
                     \* this while external_pg is idle), nor the bypass used

registers == <<state, clk_en, reset, isolate_int, sleep_send_int>>
requests  == <<power, external_pg>>
bypass    == <<wu_bypass_mux, sleep_send_byp, isolate_byp>>
vars      == <<rst, registers, requests, bypass, sleep_ack, held>>

-----------------------------------------------------------------------------
IsWanted == Wanted(power, external_pg)

\* The multiplexers behind the output registers.
sleep_send == IF wu_bypass_mux = 1 THEN sleep_send_byp ELSE sleep_send_int
isolate    == IF wu_bypass_mux = 1 THEN isolate_byp    ELSE isolate_int

done == Done(state, power)

ResetValues(s, ce, rn, iso, slp) ==
    s = "POWER_OFF" /\ ce = 0 /\ rn = 0 /\ iso = 1 /\ slp = 1

\* At power-on the switches may be in either position.
Init ==
    /\ rst = 0
    /\ ResetValues(state, clk_en, reset, isolate_int, sleep_send_int)
    /\ power \in Bit /\ external_pg = 0
    /\ wu_bypass_mux = 0 /\ sleep_send_byp \in Bit /\ isolate_byp \in Bit
    /\ sleep_ack \in Bit
    /\ held = TRUE

Clk ==
    /\ rst = 1
    /\ state' = StateNxt(state, IsWanted, sleep_ack, sleep_send_int)
    /\ clk_en' = ClkEnNxt(state, IsWanted)
    /\ reset' = ResetNxt(state, IsWanted)
    /\ isolate_int' = IsolateNxt(state, IsWanted)
    /\ sleep_send_int' = SleepSendNxt(state, IsWanted)
    /\ UNCHANGED <<rst, requests, bypass, sleep_ack, held>>

AssertReset ==
    /\ rst = 1
    /\ rst' = 0
    /\ ResetValues(state', clk_en', reset', isolate_int', sleep_send_int')
    /\ held' = (wu_bypass_mux = 0)
    /\ UNCHANGED <<requests, bypass, sleep_ack>>

ReleaseReset ==
    /\ rst = 0
    /\ rst' = 1
    /\ UNCHANGED <<registers, requests, bypass, sleep_ack, held>>

\* Requests come and go freely; one that goes too early is remembered.
InTime == IsWanted /\ ~IsWanted' => state = "POWER_ON"

ChangePower ==
    /\ power' = 1 - power
    /\ UNCHANGED <<rst, registers, external_pg, bypass, sleep_ack>>
    /\ held' = (held /\ InTime)

ChangeExternal ==
    /\ external_pg' = 1 - external_pg
    /\ UNCHANGED <<rst, registers, power, bypass, sleep_ack>>
    /\ held' = (held /\ InTime)

ChangeBypass ==
    /\ wu_bypass_mux' \in Bit /\ sleep_send_byp' \in Bit /\ isolate_byp' \in Bit
    /\ held' = (held /\ wu_bypass_mux' = 0)
    /\ UNCHANGED <<rst, registers, requests, sleep_ack>>

\* The ring of switches has followed sleep_send, after any delay; a pulse it
\* did not follow before it ended leaves no trace.
SwitchSettles ==
    /\ sleep_ack # sleep_send
    /\ sleep_ack' = sleep_send
    /\ UNCHANGED <<rst, registers, requests, bypass, held>>

Environment ==
    \/ AssertReset \/ ReleaseReset
    \/ ChangePower \/ ChangeExternal \/ ChangeBypass

Next == Clk \/ SwitchSettles \/ Environment

\* The reference clock is never gated, and the switches do settle.
Spec == Init /\ [][Next]_vars /\ WF_vars(Clk) /\ WF_vars(SwitchSettles)

-----------------------------------------------------------------------------
\* Every register and input has its width.
TypeOK ==
    /\ state \in States
    /\ {rst, clk_en, reset, isolate_int, sleep_send_int} \subseteq Bit
    /\ {power, external_pg, wu_bypass_mux} \subseteq Bit
    /\ {sleep_send_byp, isolate_byp, sleep_ack} \subseteq Bit
    /\ held \in BOOLEAN

(***************************************************************************)
(* The registered outputs obey the order PowerDomain promises, one change   *)
(* per clock edge, even when the request comes and goes on the way          *)
(* (PowerGateFSM.sv, the two case tables together).                         *)
(***************************************************************************)
Domain == INSTANCE PowerDomain WITH isolate <- isolate_int,
                                    sleep_send <- sleep_send_int

OrderedControls == Domain!Spec

(***************************************************************************)
(* As long as requests are held, the domain leaves reset only on a supply   *)
(* that its switches acknowledge: SWITCH_POWER_1 is the only place where    *)
(* the machine looks at sleep_ack.                                          *)
(***************************************************************************)
SupplyGoodOutOfReset == held /\ reset = 1 => sleep_ack = 0

(***************************************************************************)
(* done, which lets the high-level machine go on, is raised for a domain    *)
(* that is up only when every output has reached its final value and the    *)
(* supply is acknowledged, although the outputs trail the state by a clock. *)
(***************************************************************************)
DoneMeansUp ==
    held /\ done /\ power = 1 =>
        /\ <<clk_en, reset, isolate_int, sleep_send_int>> = <<1, 1, 0, 0>>
        /\ sleep_ack = 0

(***************************************************************************)
(* A request that stays ends in a running domain, and its absence in one    *)
(* without supply: no state waits for an acknowledge that cannot come.      *)
(* Under the bypass the switches follow the scan chain while the machine    *)
(* compares them with its own register, and it may wait for ever.           *)
(***************************************************************************)
Undisturbed == rst = 1 /\ wu_bypass_mux = 0

PowersUp   == <>[](Undisturbed /\ IsWanted)
                  => <>[](state = "POWER_ON" /\ clk_en = 1 /\ sleep_ack = 0)
PowersDown == <>[](Undisturbed /\ ~IsWanted)
                  => <>[](state = "POWER_OFF" /\ sleep_send = 1 /\ sleep_ack = 1)
Serves     == PowersUp /\ PowersDown
=============================================================================
