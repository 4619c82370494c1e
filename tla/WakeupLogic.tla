----------------------------- MODULE WakeupLogic -----------------------------
(***************************************************************************)
(* The combinational part of apb_wakeup_counter: the high-level power state *)
(* machine (the "HLFSM"), which parts it wants powered in each state and    *)
(* sleep mode, and the flags it waits for.                                  *)
(***************************************************************************)
EXTENDS PowerGateMramLogic

Domains == {"LOGIC", "L2", "L2_UDMA", "L1", "UDMA"}   \* behind a PowerGateFSM
Parts   == Domains \cup {"MRAM"}

\* A sleep mode is the set of the bits of reg_pmu_mode that are 1.
ModeBits == {"sleep_operation", "pd_l2_udma", "pd_l2",
             "pd_mram_sleep", "pd_mram_active"}

-----------------------------------------------------------------------------
\* The normal states in waking order; FSM_POWER_ON is followed by FSM_POWER_OFF.
Successor == [FSM_POWER_OFF   |-> "FSM_POWER_MEM",
              FSM_POWER_MEM   |-> "FSM_POWER_UDMA",
              FSM_POWER_UDMA  |-> "FSM_POWER_MRAM",
              FSM_POWER_MRAM  |-> "FSM_POWER_LOGIC",
              FSM_POWER_LOGIC |-> "FSM_POWER_ON",
              FSM_POWER_ON    |-> "FSM_POWER_OFF"]

NormalStates == DOMAIN Successor

\* The state in which a step request parks the machine, and what it parked.
StepState == [FSM_POWER_OFF   |-> "FSM_D1",
              FSM_POWER_MEM   |-> "FSM_D2",
              FSM_POWER_UDMA  |-> "FSM_D3",
              FSM_POWER_MRAM  |-> "FSM_D4",
              FSM_POWER_LOGIC |-> "FSM_D5",
              FSM_POWER_ON    |-> "FSM_D6"]

SteppedFrom == [FSM_D1 |-> "FSM_POWER_OFF",   FSM_D2 |-> "FSM_POWER_MEM",
                FSM_D3 |-> "FSM_POWER_UDMA",  FSM_D4 |-> "FSM_POWER_MRAM",
                FSM_D5 |-> "FSM_POWER_LOGIC", FSM_D6 |-> "FSM_POWER_ON"]

StepStates == DOMAIN SteppedFrom

Base(s) == IF s \in StepStates THEN SteppedFrom[s] ELSE s

\* What a state waits for: the first argument is the set of parts whose done
\* flag is up.  Blocked and Ready do not cover everything: one done flag of
\* two is neither, and then the default arm of the case statement applies.
\* (after a faulty variant with the flag of the state before it)
AwaitedCopied == [FSM_POWER_MEM   |-> {"L2", "L2_UDMA"},
                  FSM_POWER_UDMA  |-> {"UDMA"},
                  FSM_POWER_MRAM  |-> {"UDMA"},
                  FSM_POWER_LOGIC |-> {"LOGIC", "L1"}]

Awaited == [FSM_POWER_MEM   |-> {"L2", "L2_UDMA"},
            FSM_POWER_UDMA  |-> {"UDMA"},
            FSM_POWER_MRAM  |-> {"MRAM"},
            FSM_POWER_LOGIC |-> {"LOGIC", "L1"}]

Blocked(s, doneParts, s_power) ==
    CASE s = "FSM_POWER_OFF" -> ~s_power
      [] s = "FSM_POWER_ON"  -> s_power
      [] OTHER               -> Awaited[s] \cap doneParts = {}

Ready(s, doneParts, s_power) ==
    CASE s = "FSM_POWER_OFF" -> s_power
      [] s = "FSM_POWER_ON"  -> ~s_power
      [] OTHER               -> Awaited[s] \subseteq doneParts

\* Faulty: a step state waits for the wrong level of the pin; the default arm
\* goes back to FSM_POWER_OFF.
HlfsmNxtStuck(s, doneParts, s_power, hold, step) ==
    IF s \in StepStates
    THEN IF ~step THEN s ELSE Successor[SteppedFrom[s]]
    ELSE IF Blocked(s, doneParts, s_power) \/ hold
    THEN IF step THEN StepState[s] ELSE s
    ELSE IF Ready(s, doneParts, s_power) THEN Successor[s]
    ELSE "FSM_POWER_ON"

HlfsmNxtDefaultOff(s, doneParts, s_power, hold, step) ==
    IF s \in StepStates
    THEN IF step THEN s ELSE Successor[SteppedFrom[s]]
    ELSE IF Blocked(s, doneParts, s_power) \/ hold
    THEN IF step THEN StepState[s] ELSE s
    ELSE IF Ready(s, doneParts, s_power) THEN Successor[s]
    ELSE "FSM_POWER_OFF"

HlfsmNxt(s, doneParts, s_power, hold, step) ==
    IF s \in StepStates
    THEN IF step THEN s ELSE Successor[SteppedFrom[s]]
    ELSE IF Blocked(s, doneParts, s_power) \/ hold
    THEN IF step THEN StepState[s] ELSE s
    ELSE IF Ready(s, doneParts, s_power) THEN Successor[s]
    ELSE "FSM_POWER_ON"

-----------------------------------------------------------------------------
\* The parts a sleep mode keeps powered while the system sleeps.
KeptAsleep(mode) ==
    IF "sleep_operation" \notin mode THEN {}
    ELSE {"UDMA"}
         \cup (IF "pd_l2"         \in mode THEN {} ELSE {"L2"})
         \cup (IF "pd_l2_udma"    \in mode THEN {} ELSE {"L2_UDMA"})
         \cup (IF "pd_mram_sleep" \in mode THEN {} ELSE {"MRAM"})

\* Faulty: the arm of FSM_POWER_LOGIC forgets a part that was powered before it.
PoweredForgetsUdma(s, mode) ==
    CASE Base(s) = "FSM_POWER_OFF"   -> KeptAsleep(mode)
      [] Base(s) = "FSM_POWER_MEM"   -> KeptAsleep(mode) \cup {"L2", "L2_UDMA"}
      [] Base(s) = "FSM_POWER_UDMA"  -> KeptAsleep(mode) \cup {"L2", "L2_UDMA", "UDMA"}
      [] Base(s) = "FSM_POWER_MRAM"  -> Parts \ {"LOGIC", "L1"}
      [] Base(s) = "FSM_POWER_LOGIC" -> Parts \ {"UDMA"}
      [] Base(s) = "FSM_POWER_ON"    -> Parts

\* The parts the machine wants powered (s_power_*).
Powered(s, mode) ==
    CASE Base(s) = "FSM_POWER_OFF"   -> KeptAsleep(mode)
      [] Base(s) = "FSM_POWER_MEM"   -> KeptAsleep(mode) \cup {"L2", "L2_UDMA"}
      [] Base(s) = "FSM_POWER_UDMA"  -> KeptAsleep(mode) \cup {"L2", "L2_UDMA", "UDMA"}
      [] Base(s) = "FSM_POWER_MRAM"  -> Parts \ {"LOGIC", "L1"}
      [] Base(s) = "FSM_POWER_LOGIC" -> Parts
      [] Base(s) = "FSM_POWER_ON"    ->
             IF "pd_mram_active" \in mode THEN Domains ELSE Parts
=============================================================================
