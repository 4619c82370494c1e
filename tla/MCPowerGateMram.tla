--------------------------- MODULE MCPowerGateMram ---------------------------
(***************************************************************************)
(* PowerGateFSM_MRAM with three observers: for how many clocks each         *)
(* regulated supply has been on, and whether the array has been trimmed     *)
(* since it last left reset.  They only watch.                              *)
(***************************************************************************)
EXTENDS PowerGateFSM_MRAM

VARIABLES vddFor, vddaFor, trimmed

observers == <<vddFor, vddaFor, trimmed>>

Least(a, b) == IF a < b THEN a ELSE b

MCInit == Init /\ vddFor = 0 /\ vddaFor = 0 /\ trimmed = FALSE

\* Clocks since the rise, counted up to the bound the wait is compared with.
Age(signal, nxt, age) ==
    IF nxt = 0 THEN 0
    ELSE IF signal = 1 THEN Least(age + 1, P_EXTERNAL_VDD_ACTIVATION) ELSE 0

Observe == /\ vddFor' = Age(VDD_out, VDD_out', vddFor)
           /\ vddaFor' = Age(VDDA_out, VDDA_out', vddaFor)
           /\ trimmed' = (RSTb' = 1 /\ (trimmed \/ TRIM' = 1))

MCClk == Clk /\ Observe

MCNext == \/ MCClk
          \/ AssertReset /\ Observe
          \/ (ReleaseReset \/ ChangeRequest \/ ChangeBypass) /\ UNCHANGED observers

MCSpec == MCInit /\ [][MCNext]_<<vars, observers>> /\ WF_<<vars, observers>>(MCClk)

(***************************************************************************)
(* P_EXTERNAL_VDD_ACTIVATION, the time the regulators are given: VDDA is    *)
(* switched on when VDD has been on for that many clocks, and VREF when     *)
(* VDDA has.  The counter is not restarted when the request changes, so a   *)
(* request that comes back during the descent breaks it.                    *)
(***************************************************************************)
SuppliesSettle ==
    [][atRest =>
       /\ VDDA_out = 0 /\ VDDA_out' = 1 => vddFor' = P_EXTERNAL_VDD_ACTIVATION
       /\ VREF_out = 0 /\ VREF_out' = 1 => vddaFor' = P_EXTERNAL_VDD_ACTIVATION
      ]_<<vars, observers>>

\* The memory is enabled only when it was trimmed since it left reset.
TrimmedBeforeUse == CEb_HIGH = 0 => trimmed
=============================================================================
