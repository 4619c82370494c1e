------------------------- MODULE PowerGateMramLogic -------------------------
(***************************************************************************)
(* The combinational part of PowerGateFSM_MRAM, the power state machine of  *)
(* the non-volatile memory: three supplies, power-on reset, retention,      *)
(* reset, isolation, trimming and deep power-down in a fixed order.         *)
(***************************************************************************)
EXTENDS PowerGateLogic

\* The states in the order in which the case statement ranks the signals:
\* a signal of rank k has its running value in every state of a higher rank.
Rank == [POWER_OFF      |-> 0,
         CHANGE_VDD     |-> 1,
         CHANGE_VDDA    |-> 2,
         CHANGE_VDDREF  |-> 3,
         CHANGE_POR_RET |-> 4,
         CHANGE_RET_DPD |-> 5,
         CHANGE_RST     |-> 6,
         CHANGE_ISOL    |-> 7,
         TRIM_CONFIG    |-> 8,
         ACTIVATE_TRIM  |-> 8,
         UNTRIG_CE      |-> 8,
         TRIG_DPD       |-> 8,
         UNTRIG_DPD     |-> 8,
         POWER_ON       |-> 8]

MramStates == DOMAIN Rank

\* Towards POWER_ON.  UNTRIG_DPD has no arm of its own in the next-state case:
\* the default arm takes it to POWER_OFF.
MramUp == [POWER_OFF      |-> "CHANGE_VDD",
           CHANGE_VDD     |-> "CHANGE_VDDA",
           CHANGE_VDDA    |-> "CHANGE_VDDREF",
           CHANGE_VDDREF  |-> "CHANGE_POR_RET",
           CHANGE_POR_RET |-> "CHANGE_RST",
           CHANGE_RET_DPD |-> "CHANGE_RST",
           CHANGE_RST     |-> "CHANGE_ISOL",
           CHANGE_ISOL    |-> "TRIM_CONFIG",
           TRIM_CONFIG    |-> "ACTIVATE_TRIM",
           ACTIVATE_TRIM  |-> "POWER_ON",
           UNTRIG_CE      |-> "TRIG_DPD",
           TRIG_DPD       |-> "UNTRIG_DPD",
           UNTRIG_DPD     |-> "POWER_OFF",
           POWER_ON       |-> "POWER_ON"]

\* Towards POWER_OFF.
MramDown == [POWER_OFF      |-> "POWER_OFF",
             CHANGE_VDD     |-> "POWER_OFF",
             CHANGE_VDDA    |-> "CHANGE_VDD",
             CHANGE_VDDREF  |-> "CHANGE_VDDA",
             CHANGE_POR_RET |-> "CHANGE_VDDREF",
             CHANGE_RET_DPD |-> "CHANGE_POR_RET",
             CHANGE_RST     |-> "CHANGE_RET_DPD",
             CHANGE_ISOL    |-> "CHANGE_RST",
             TRIM_CONFIG    |-> "CHANGE_ISOL",
             ACTIVATE_TRIM  |-> "CHANGE_RST",
             UNTRIG_CE      |-> "TRIG_DPD",
             TRIG_DPD       |-> "CHANGE_ISOL",
             UNTRIG_DPD     |-> "POWER_OFF",
             POWER_ON       |-> "UNTRIG_CE"]

\* The two supplies that a regulator has to bring up are waited for; every
\* other state lasts one clock (localparams P_* in the source).
P_EXTERNAL_VDD_ACTIVATION == 2

\* (after a faulty variant that waits for VDD only)
StayShort(s) == IF s = "CHANGE_VDD" THEN P_EXTERNAL_VDD_ACTIVATION ELSE 1

Stay(s) == IF s \in {"CHANGE_VDD", "CHANGE_VDDA"}
           THEN P_EXTERNAL_VDD_ACTIVATION ELSE 1

Waiting(s, cnt) == cnt # Stay(s) - 1

\* Faulty: trimming is skipped; UNTRIG_DPD has no way out.
MramNxtNoTrim(s, cnt, wanted) ==
    IF Waiting(s, cnt) THEN s
    ELSE IF wanted /\ s = "CHANGE_ISOL" THEN "ACTIVATE_TRIM"
    ELSE IF wanted THEN MramUp[s] ELSE MramDown[s]

MramNxtNoDefault(s, cnt, wanted) ==
    IF Waiting(s, cnt) \/ s = "UNTRIG_DPD" THEN s
    ELSE IF wanted THEN MramUp[s] ELSE MramDown[s]

MramNxt(s, cnt, wanted) ==
    IF Waiting(s, cnt) THEN s ELSE IF wanted THEN MramUp[s] ELSE MramDown[s]

CntNxt(s, cnt) == IF Waiting(s, cnt) THEN cnt + 1 ELSE 0

-----------------------------------------------------------------------------
\* What the output registers take at the next clock edge in state s.
PassedNxt(k, s, wanted) == ToBit(Rank[s] > k \/ (Rank[s] = k /\ wanted))

VDDNxt(s, wanted)  == PassedNxt(1, s, wanted)
VDDANxt(s, wanted) == PassedNxt(2, s, wanted)
VREFNxtEarly(s, wanted) == PassedNxt(1, s, wanted)  \* faulty: before VDDA
VREFNxt(s, wanted) == PassedNxt(3, s, wanted)
PORbNxt(s, wanted) == PassedNxt(4, s, wanted)
RETbNxt(s, wanted) == ToBit(Rank[s] > 5 \/ (Rank[s] \in {4, 5} /\ wanted))
RSTbNxtSwapped(s, wanted) == PassedNxt(7, s, wanted)  \* faulty: with isolation
RSTbNxt(s, wanted) == PassedNxt(6, s, wanted)
IsolNxt(s, wanted) == 1 - PassedNxt(7, s, wanted)
TRIMNxt(s)         == ToBit(s = "TRIM_CONFIG")
DPDNxt(s, wanted)  == ToBit(\/ s \in {"POWER_OFF", "TRIG_DPD"}
                            \/ Rank[s] \in 1..7 /\ ~wanted)
CEbNxt(s)          == ToBit(s # "POWER_ON")
=============================================================================
