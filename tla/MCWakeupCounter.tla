--------------------------- MODULE MCWakeupCounter ---------------------------
(***************************************************************************)
(* Instances of WakeupCounter for TLC, with one observer: whether the two   *)
(* memories have been treated alike so far, by the modes written and by the *)
(* order in which the switch rings settled.  The high-level machine waits   *)
(* for both memories in one state and takes a short cut when only one of    *)
(* them has reported.                                                       *)
(***************************************************************************)
EXTENDS WakeupCounter

S == "sleep_operation"

\* Modes that treat the two memories alike and leave the MRAM on while awake:
\* every choice of what is kept asleep.
AlikeModes == {{S}, {S, "pd_l2", "pd_l2_udma"}, {},
               {S, "pd_mram_sleep"}, {S, "pd_l2", "pd_l2_udma", "pd_mram_sleep"}}
\* Every mode; without sleep_operation the other sleep bits have no effect.
AllModes   == {mode \in SUBSET ModeBits : S \in mode} \cup {{}, {"pd_mram_active"}}
RetainAll  == {{S}, {}}

Together  == {{"L2", "L2_UDMA"}, {"LOGIC", "L1"}, {"UDMA"}}
AnyGroups == Together \cup {{d} : d \in Domains}
AtOnce    == {Domains}

VARIABLE alike

mcVars == <<vars, alike>>

MCInit == Init /\ alike = TRUE

MCTick          == Tick /\ UNCHANGED alike
MCSettle(group) == SwitchSettles(group) /\ alike' = (alike /\ group \in Together \cup AtOnce)
MCPadReset      == PadReset /\ UNCHANGED alike
MCMovePin(p)    == MovePin(p) /\ UNCHANGED alike
MCWrite(mode)   == /\ \E pmu_en \in BOOLEAN, scratch \in Scratches \cup {0} :
                         TickWithWrite(pmu_en, scratch, mode)
                   /\ alike' = (alike /\ mode \in AlikeModes)

MCNext == \/ MCTick \/ MCPadReset
          \/ \E p \in Pins : MCMovePin(p)
          \/ \E mode \in Modes : MCWrite(mode)
          \/ \E group \in SwitchGroups : MCSettle(group)

MCSpec == /\ MCInit /\ [][MCNext]_mcVars
          /\ WF_mcVars(MCTick)
          /\ \A group \in SwitchGroups : WF_mcVars(MCSettle(group))

-----------------------------------------------------------------------------
(***************************************************************************)
(* The processor comes out of reset on a running system clock, even when    *)
(* the machine takes the short cut from FSM_POWER_MEM to FSM_POWER_ON; and  *)
(* it comes last: both memories, the uDMA domain and the MRAM have been up  *)
(* and reported done, also after a pad reset in mid-sleep.  The latter the  *)
(* machine keeps only as long as the two memory domains report together.    *)
(***************************************************************************)
LogicLast ==
    [][pd["LOGIC"].reset = 0 /\ pd'["LOGIC"].reset = 1 =>
          /\ clk_en_system = 1
          /\ alike => /\ \A d \in {"L2", "L2_UDMA", "UDMA"} : pd[d].state = "POWER_ON"
                      /\ mram.state = "POWER_ON"]_mcVars

(***************************************************************************)
(* What PowerGateFSM and PowerGateFSM_MRAM need from their requests (held,  *)
(* atRest) is what the high-level machine gives them: a domain's request is *)
(* dropped only when the domain has come up, and the MRAM's changes only at *)
(* rest, while a sleep time of at least a millisecond is set.               *)
(***************************************************************************)
RequestsHeld ==
    [][alike' /\ resets' = resets /\ reg_scratch_reg > 0 =>
          /\ \A d \in Domains :
                IsWanted(d) /\ ~IsWanted(d)' => pd'[d].state = "POWER_ON"
          /\ IsWanted("MRAM") # IsWanted("MRAM")' =>
                mram'.state \in {"POWER_OFF", "POWER_ON"}]_mcVars

(***************************************************************************)
(* Every sleep is ended by the alarm, and the processor returns from it even *)
(* where the machine takes the short cut: its own done flags come.  As long *)
(* as the rings of a state settle together, every domain the sleep cut is   *)
(* running again then.                                                      *)
(***************************************************************************)
SleepEnds ==
    is_sleeping ~> /\ ~is_sleeping /\ pd["LOGIC"].state = "POWER_ON"
                   /\ alike => \A d \in Domains : pd[d].state = "POWER_ON"
=============================================================================
