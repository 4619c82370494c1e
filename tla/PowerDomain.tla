----------------------------- MODULE PowerDomain -----------------------------
(***************************************************************************)
(* What a power gate promises the domain behind it, whatever machine drives *)
(* it.  Going down, the clock stops before the outputs are isolated, they   *)
(* are isolated before the reset is asserted, and the reset is asserted     *)
(* before the supply is cut; going up, the same in reverse.  The controls   *)
(* move one at a time; only the asynchronous reset moves them together.     *)
(***************************************************************************)
EXTENDS Naturals

VARIABLES clk_en, reset, isolate, sleep_send

controls == <<clk_en, reset, isolate, sleep_send>>

AllOff(ce, rn, iso, slp) == ce = 0 /\ rn = 0 /\ iso = 1 /\ slp = 1

Init == AllOff(clk_en, reset, isolate, sleep_send)

MoveClock == /\ isolate = 0
             /\ clk_en' = 1 - clk_en
             /\ UNCHANGED <<reset, isolate, sleep_send>>

MoveIsolation == /\ clk_en = 0 /\ reset = 1
                 /\ isolate' = 1 - isolate
                 /\ UNCHANGED <<clk_en, reset, sleep_send>>

\* reset is active low: 0 holds the domain in reset.
MoveReset == /\ isolate = 1 /\ sleep_send = 0
             /\ reset' = 1 - reset
             /\ UNCHANGED <<clk_en, isolate, sleep_send>>

MoveSwitch == /\ reset = 0
              /\ sleep_send' = 1 - sleep_send
              /\ UNCHANGED <<clk_en, reset, isolate>>

PowerOnReset == AllOff(clk_en', reset', isolate', sleep_send')

Next == MoveClock \/ MoveIsolation \/ MoveReset \/ MoveSwitch \/ PowerOnReset

Spec == Init /\ [][Next]_controls
=============================================================================
