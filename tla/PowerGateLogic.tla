--------------------------- MODULE PowerGateLogic ---------------------------
(***************************************************************************)
(* The combinational part of the low-level power state machine PowerGateFSM *)
(* (the "LLFSM"): its next-state table, the table of its registered outputs *)
(* and its done flag.  The module has no state: PowerGateFSM puts one       *)
(* instance behind registers, WakeupCounter puts five of them.              *)
(***************************************************************************)
EXTENDS Naturals

Bit == {0, 1}

ToBit(b) == IF b THEN 1 ELSE 0

\* The states, from a domain that runs to one whose supply is cut.
States == {"POWER_ON", "CLK_ENABLE", "ISOLATE", "RESET",
           "SWITCH_POWER_1", "SWITCH_POWER_2", "POWER_OFF"}

\* The domain is wanted: by the high-level machine, or by the external pin.
Wanted(power, external_pg) == power = 1 \/ external_pg = 1

\* One rung towards POWER_ON, and one rung towards POWER_OFF.
Up == [POWER_ON       |-> "POWER_ON",
       CLK_ENABLE     |-> "POWER_ON",
       ISOLATE        |-> "CLK_ENABLE",
       RESET          |-> "ISOLATE",
       SWITCH_POWER_1 |-> "RESET",
       SWITCH_POWER_2 |-> "SWITCH_POWER_1",
       POWER_OFF      |-> "SWITCH_POWER_2"]

Down == [POWER_ON       |-> "CLK_ENABLE",
         CLK_ENABLE     |-> "ISOLATE",
         ISOLATE        |-> "RESET",
         RESET          |-> "SWITCH_POWER_1",
         SWITCH_POWER_1 |-> "SWITCH_POWER_2",
         SWITCH_POWER_2 |-> "POWER_OFF",
         POWER_OFF      |-> "POWER_OFF"]

\* Faulty: the wait does not look at the acknowledge; the wait has the wrong
\* polarity.
StateNxtNoWait(s, wanted, ack, sent) == IF wanted THEN Up[s] ELSE Down[s]

StateNxtInverted(s, wanted, ack, sent) ==
    IF s = "SWITCH_POWER_1" /\ ack = sent THEN s
    ELSE IF wanted THEN Up[s] ELSE Down[s]

\* SWITCH_POWER_1 waits until the switch acknowledges the value last sent.
StateNxt(s, wanted, ack, sent) ==
    IF s = "SWITCH_POWER_1" /\ ack # sent THEN s
    ELSE IF wanted THEN Up[s] ELSE Down[s]

\* What the output registers take at the next clock edge in state s.
\* (IsolateNxt after a faulty variant that forgets one arm)
ClkEnNxt(s, wanted) ==
    ToBit(s = "POWER_ON" \/ (s = "CLK_ENABLE" /\ wanted))

ResetNxt(s, wanted) ==
    ToBit(s \in {"POWER_ON", "CLK_ENABLE", "ISOLATE"} \/ (s = "RESET" /\ wanted))

IsolateNxtLate(s, wanted) ==
    ToBit(s \in {"RESET", "SWITCH_POWER_1", "SWITCH_POWER_2", "POWER_OFF"})

IsolateNxt(s, wanted) ==
    ToBit(\/ s \in {"RESET", "SWITCH_POWER_1", "SWITCH_POWER_2", "POWER_OFF"}
          \/ s = "ISOLATE" /\ ~wanted)

SleepSendNxt(s, wanted) ==
    ToBit(\/ s = "POWER_OFF"
          \/ s \in {"SWITCH_POWER_1", "SWITCH_POWER_2"} /\ ~wanted)

\* Faulty: the last rung before POWER_ON counts as up.
DoneEarly(s, power) == \/ s = "POWER_OFF" /\ power = 0
                       \/ s \in {"CLK_ENABLE", "POWER_ON"} /\ power = 1

\* The machine has reached the end that power asks for; external_pg, which
\* moves the machine too, is not looked at.
Done(s, power) == \/ s = "POWER_OFF" /\ power = 0
                  \/ s = "POWER_ON"  /\ power = 1
=============================================================================
