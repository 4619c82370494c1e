----------------------------- MODULE GenericFifo -----------------------------
(***************************************************************************)
(* ips/common_cells/src/deprecated/generic_fifo.sv: a ring of DATA_DEPTH    *)
(* registers between two pointers, and a machine that tells an empty ring   *)
(* from a full one when the pointers meet.                                  *)
(*                                                                          *)
(* DATA_DEPTH is a power of two, as in the one instance of the chip: the    *)
(* push into an empty ring relies on the width of its pointer to wrap,      *)
(* where the other arms compare with DATA_DEPTH - 1.                        *)
(***************************************************************************)
EXTENDS Naturals, Sequences

CONSTANTS DATA_DEPTH, Data, Zero

ASSUME FifoAssumption == DATA_DEPTH \in Nat /\ DATA_DEPTH > 1 /\ Zero \in Data

VARIABLES CS, Pop_Pointer_CS, Push_Pointer_CS, FIFO_REGISTERS

fifoVars == <<CS, Pop_Pointer_CS, Push_Pointer_CS, FIFO_REGISTERS>>

FifoInit ==
    /\ CS = "EMPTY"
    /\ Pop_Pointer_CS = 0
    /\ Push_Pointer_CS = 0
    /\ FIFO_REGISTERS = [i \in 0 .. DATA_DEPTH - 1 |-> Zero]

grant_o == CS # "FULL"
valid_o == CS # "EMPTY"
data_o  == FIFO_REGISTERS[Pop_Pointer_CS]

Successor(p) == IF p = DATA_DEPTH - 1 THEN 0 ELSE p + 1

Pushes(valid_i) == grant_o /\ valid_i
Pops(valid_i, grant_i) == valid_o /\ grant_i

\* (after a faulty variant that compares the pointers without the wrap-round)
StateNSNoWrap(valid_i, grant_i) ==
    CASE Pops(valid_i, grant_i) /\ ~Pushes(valid_i) ->
            IF CS # "FULL" /\ Pop_Pointer_CS + 1 = Push_Pointer_CS THEN "EMPTY" ELSE "MIDDLE"
      [] Pushes(valid_i) /\ ~Pops(valid_i, grant_i) ->
            IF CS # "EMPTY" /\ Push_Pointer_CS + 1 = Pop_Pointer_CS THEN "FULL" ELSE "MIDDLE"
      [] OTHER -> CS

StateNS(valid_i, grant_i) ==
    CASE Pops(valid_i, grant_i) /\ ~Pushes(valid_i) ->
            IF CS # "FULL" /\ Successor(Pop_Pointer_CS) = Push_Pointer_CS
            THEN "EMPTY" ELSE "MIDDLE"
      [] Pushes(valid_i) /\ ~Pops(valid_i, grant_i) ->
            IF CS # "EMPTY" /\ Successor(Push_Pointer_CS) = Pop_Pointer_CS
            THEN "FULL" ELSE "MIDDLE"
      [] OTHER -> CS

\* One clock: valid_i with data_i on the push side, grant_i on the pop side.
FifoClk(valid_i, data_i, grant_i) ==
    /\ CS' = StateNS(valid_i, grant_i)
    /\ Pop_Pointer_CS' = IF Pops(valid_i, grant_i) THEN Successor(Pop_Pointer_CS)
                         ELSE Pop_Pointer_CS
    /\ Push_Pointer_CS' = IF Pushes(valid_i) THEN Successor(Push_Pointer_CS)
                          ELSE Push_Pointer_CS
    /\ FIFO_REGISTERS' = IF Pushes(valid_i)
                         THEN [FIFO_REGISTERS EXCEPT ![Push_Pointer_CS] = data_i]
                         ELSE FIFO_REGISTERS

-----------------------------------------------------------------------------
\* The elements between the pointers, oldest first.
Around(p) == IF p < DATA_DEPTH THEN p ELSE p - DATA_DEPTH

Count ==
    CASE CS = "EMPTY" -> 0
      [] CS = "FULL"  -> DATA_DEPTH
      [] OTHER -> IF Pop_Pointer_CS < Push_Pointer_CS
                  THEN Push_Pointer_CS - Pop_Pointer_CS
                  ELSE DATA_DEPTH + Push_Pointer_CS - Pop_Pointer_CS

Contents == [i \in 1 .. Count |-> FIFO_REGISTERS[Around(Pop_Pointer_CS + i - 1)]]

FifoTypeOK ==
    /\ CS \in {"EMPTY", "MIDDLE", "FULL"}
    /\ Pop_Pointer_CS \in 0 .. DATA_DEPTH - 1
    /\ Push_Pointer_CS \in 0 .. DATA_DEPTH - 1
    /\ FIFO_REGISTERS \in [0 .. DATA_DEPTH - 1 -> Data]

\* The pointers meet when the ring is empty or full, and only then.
PointersMeet == (Pop_Pointer_CS = Push_Pointer_CS) <=> (CS # "MIDDLE")
=============================================================================
