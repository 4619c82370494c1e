------------------------ MODULE MCInterruptController ------------------------
(***************************************************************************)
(* InterruptController for TLC: numbers modulo four, more than a FIFO of    *)
(* two and the register behind it can hold.                                 *)
(***************************************************************************)
EXTENDS InterruptController

Numbers == 0 .. 3
Modulo  == [t \in Numbers |-> IF t = 3 THEN 0 ELSE t + 1]
=============================================================================
