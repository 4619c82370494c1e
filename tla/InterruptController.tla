------------------------- MODULE InterruptController -------------------------
(***************************************************************************)
(* ips/apb_interrupt_cntrl/apb_interrupt_cntrl.sv with its FIFO of event    *)
(* numbers, and the side of the core it shakes hands with:                  *)
(* ips/riscv/rtl/riscv_int_controller.sv, which latches the number of the   *)
(* line when it sees a request and may acknowledge it much later.           *)
(*                                                                          *)
(* Registers of 32 bits are sets of lines.  Line 26, FifoLine, is not an    *)
(* input: it is high while the FIFO holds a number.  An acknowledge of that *)
(* line, and a register write that clears its bit, take one number out into *)
(* r_fifo_event, where software reads it.                                   *)
(*                                                                          *)
(* One step is one clock.  A number stands for the order of its arrival:    *)
(* Follows of the one before.  The core takes an interrupt whenever it      *)
(* likes and may write any register in any clock, with one condition: no    *)
(* number is read twice on purpose.  `clean' remembers that software has    *)
(* kept to the rules of Disciplined, under which the hardware owes it every *)
(* number in order.                                                         *)
(***************************************************************************)
EXTENDS GenericFifo

CONSTANTS
    Lines,      \* the interrupt lines of the instance
    FifoLine,   \* the line of the FIFO of event numbers
    Values,     \* what software writes: sets of lines
    Follows     \* the number that arrives after each number

ASSUME InterruptAssumption ==
    /\ Follows \in [Data -> Data]
    /\ Lines \subseteq Nat
    /\ \A S \in SUBSET Lines : S # {} => \E i \in S : \A j \in S : j <= i
    /\ FifoLine \in Lines
    /\ Values \subseteq SUBSET Lines

VARIABLES
    r_mask, r_int, r_ack, r_fifo_event,
    exc_ctrl_cs,    \* riscv_int_controller: IDLE, IRQ_PENDING or IRQ_DONE
    irq_id_q,       \* the line latched there
    m_IE,           \* interrupts are enabled in the core
    \* History and software.
    next,           \* the number that arrives next
    expected,       \* the number software must read next
    unread,         \* software has been told of a number it has not read yet
    wrong,          \* it has read another number than the expected one
    clean           \* software has kept to the rules

intVars == <<r_mask, r_int, r_ack, r_fifo_event, exc_ctrl_cs, irq_id_q, m_IE>>
vars == <<fifoVars, intVars, next, expected, unread, wrong, clean>>

Registers == {"MASK", "MASK_SET", "MASK_CLEAR", "INT", "INT_SET", "INT_CLEAR",
              "ACK", "ACK_SET", "ACK_CLEAR"}

\* One APB access or none in a clock; the reads of no effect are left out.
NoAccess == [reg |-> "none", pwdata |-> {}]
Writes   == [reg : Registers, pwdata : Values]

\* What the core does in this clock.
CoreActions == {"none", "ack", "kill", "enable", "disable", "read"}

Init ==
    /\ FifoInit
    /\ r_mask = {} /\ r_int = {} /\ r_ack = {} /\ r_fifo_event = Zero
    /\ exc_ctrl_cs = "IDLE" /\ irq_id_q = 0 /\ m_IE = FALSE
    /\ next = Follows[Zero] /\ expected = Follows[Zero]
    /\ unread = FALSE /\ wrong = FALSE /\ clean = TRUE

Pending == r_int \cap r_mask

core_irq_req_o == Pending # {}
core_irq_id_o  == IF Pending = {} THEN 0 ELSE CHOOSE i \in Pending : \A j \in Pending : j <= i

Acked(core) == IF core = "ack" THEN {irq_id_q} ELSE {}

ClearsFifoLine(access) ==
    \/ access.reg = "INT_CLEAR" /\ FifoLine \in access.pwdata
    \/ access.reg = "INT" /\ FifoLine \notin access.pwdata

\* (after a faulty variant that does not look at the number of the line)
s_event_fifo_ready_any(core, access) == core = "ack" \/ ClearsFifoLine(access)

s_event_fifo_ready(core, access) ==
    FifoLine \in Acked(core) \/ ClearsFifoLine(access)

\* (after a faulty variant that asks when the FIFO has filled up)
s_events_full(fired) == fired \cup (IF grant_o THEN {} ELSE {FifoLine})

s_events(fired) == fired \cup (IF valid_o THEN {FifoLine} ELSE {})

MaskNxt(access) ==
    CASE access.reg = "MASK"       -> access.pwdata
      [] access.reg = "MASK_SET"   -> r_mask \cup access.pwdata
      [] access.reg = "MASK_CLEAR" -> r_mask \ access.pwdata
      [] OTHER -> r_mask

\* (after a faulty variant in which an event wins over the acknowledge)
IntNxtEventWins(core, access, fired) ==
    CASE access.reg = "INT"       -> access.pwdata \ Acked(core)
      [] access.reg = "INT_SET"   -> (r_int \cup access.pwdata \cup s_events(fired)) \ Acked(core)
      [] access.reg = "INT_CLEAR" -> ((r_int \cup s_events(fired)) \ access.pwdata) \ Acked(core)
      [] OTHER -> (r_int \ Acked(core)) \cup s_events(fired)

\* proc_int: the acknowledge wins over the write, the write over the event.
IntNxt(core, access, fired) ==
    CASE access.reg = "INT"       -> access.pwdata \ Acked(core)
      [] access.reg = "INT_SET"   -> (r_int \cup s_events(fired) \cup access.pwdata) \ Acked(core)
      [] access.reg = "INT_CLEAR" -> (r_int \cup s_events(fired)) \ (access.pwdata \cup Acked(core))
      [] OTHER -> (r_int \cup s_events(fired)) \ Acked(core)

AckNxt(core, access) ==
    Acked(core) \cup
    CASE access.reg = "ACK"       -> access.pwdata
      [] access.reg = "ACK_SET"   -> r_ack \cup access.pwdata
      [] access.reg = "ACK_CLEAR" -> r_ack \ access.pwdata
      [] OTHER -> r_ack

-----------------------------------------------------------------------------
\* The core: a request is latched when interrupts are enabled, and taken,
\* dropped or kept waiting afterwards, whatever has become of its line.
CanAct(core) ==
    CASE core = "ack"     -> exc_ctrl_cs = "IRQ_PENDING" /\ m_IE
      [] core = "kill"    -> exc_ctrl_cs = "IRQ_PENDING"
      [] core = "enable"  -> ~m_IE
      [] core = "disable" -> m_IE
      [] core = "read"    -> unread
      [] OTHER -> TRUE

Latches == exc_ctrl_cs = "IDLE" /\ m_IE /\ core_irq_req_o

CoreStateNxt(core) ==
    CASE Latches       -> "IRQ_PENDING"
      [] core = "ack"  -> "IRQ_DONE"
      [] core = "kill" -> "IDLE"
      [] exc_ctrl_cs = "IRQ_DONE" -> "IDLE"
      [] OTHER -> exc_ctrl_cs

\* Taking an interrupt disables the others, until software or its return.
EnableNxt(core) ==
    CASE core \in {"ack", "disable"} -> FALSE
      [] core = "enable" -> TRUE
      [] OTHER -> m_IE

(***************************************************************************)
(* The rules of software.  It never overwrites REG_INT, never sets the bit  *)
(* of the FIFO by hand, clears it only in polling mode (the line masked, no *)
(* interrupt of it on the way, its bit seen), and once it has been told of  *)
(* a number it reads it before it enables or unmasks anything.              *)
(***************************************************************************)
Disciplined(core, access) ==
    /\ access.reg # "INT"
    /\ access.reg = "INT_SET" => FifoLine \notin access.pwdata
    /\ ClearsFifoLine(access) =>
          /\ FifoLine \in r_int \ r_mask
          /\ ~(exc_ctrl_cs = "IRQ_PENDING" /\ irq_id_q = FifoLine)
          /\ ~unread
    /\ unread => core # "enable" /\ access.reg \notin {"MASK", "MASK_SET"}

\* Software takes an interrupt of the line, or its own clear, for a number.
Software(core, access) ==
    /\ clean' = (clean /\ Disciplined(core, access))
    /\ unread' = (s_event_fifo_ready(core, access) \/ (unread /\ core # "read"))
    /\ expected' = CASE ~clean' -> Zero
                     [] core = "read" -> Follows[expected]
                     [] OTHER -> expected
    /\ wrong' = (clean' /\ (wrong \/ (core = "read" /\ r_fifo_event # expected)))

Clk(fired, arrives, access, core) ==
    /\ CanAct(core)
    /\ core = "read" => access = NoAccess
    /\ FifoClk(arrives, next, s_event_fifo_ready(core, access))
    /\ next' = IF Pushes(arrives) THEN Follows[next] ELSE next
    /\ r_fifo_event' = IF Pops(arrives, s_event_fifo_ready(core, access))
                       THEN data_o ELSE r_fifo_event
    /\ r_mask' = MaskNxt(access)
    /\ r_int' = IntNxt(core, access, fired)
    /\ r_ack' = AckNxt(core, access)
    /\ exc_ctrl_cs' = CoreStateNxt(core)
    /\ irq_id_q' = IF Latches THEN core_irq_id_o ELSE irq_id_q
    /\ m_IE' = EnableNxt(core)
    /\ Software(core, access)

Next ==
    \E core \in CoreActions, fired \in SUBSET (Lines \ {FifoLine}), arrives \in BOOLEAN,
       access \in Writes \cup {NoAccess} : Clk(fired, arrives, access, core)

(***************************************************************************)
(* The clock runs; software reads what it was told of and then enables      *)
(* interrupts again, weakly fair; and a core that could take a request      *)
(* again and again takes one, strongly fair.  ENABLED is written out: some  *)
(* register can always change, a read needs `unread' only, and so on.       *)
(***************************************************************************)
Fairness ==
    /\ []<><<TRUE>>_vars
    /\ []<>~unread
    /\ []<>(m_IE \/ unread)
    /\ []<>(exc_ctrl_cs = "IRQ_PENDING" /\ m_IE) => []<>(exc_ctrl_cs = "IRQ_DONE")

Spec == Init /\ [][Next]_vars /\ Fairness

-----------------------------------------------------------------------------
TypeOK ==
    /\ FifoTypeOK
    /\ r_mask \subseteq Lines /\ r_int \subseteq Lines /\ r_ack \subseteq Lines
    /\ r_fifo_event \in Data
    /\ exc_ctrl_cs \in {"IDLE", "IRQ_PENDING", "IRQ_DONE"}
    /\ irq_id_q \in Lines \cup {0}
    /\ next \in Data /\ expected \in Data
    /\ {m_IE, unread, wrong, clean} \subseteq BOOLEAN

Queue == INSTANCE BoundedQueue
    WITH queue <- Contents, Elements <- Data, Capacity <- DATA_DEPTH

(***************************************************************************)
(* Whatever the registers and the core do to it, the FIFO is a queue: full  *)
(* and empty are told apart, nothing is overtaken, doubled or overwritten   *)
(* (generic_fifo.sv:98-258).                                                *)
(***************************************************************************)
FifoIsQueue == Queue!Spec

(***************************************************************************)
(* The n-th number that arrives is the n-th that software reads.  It rests  *)
(* on more than the queue: the line must ask once for every number, must    *)
(* not ask again after the last although it was high in the clock of the    *)
(* acknowledge, and must not be answered in the name of another line while  *)
(* the core holds a latched request (apb_interrupt_cntrl.sv:98, 156-176,    *)
(* 212; riscv_int_controller.sv:81-106).                                    *)
(***************************************************************************)
NumbersInOrder == ~wrong

(***************************************************************************)
(* An interrupt that the core has latched is still pending in the           *)
(* controller when it is taken, unless software has dismissed it: none is   *)
(* taken twice for one event (apb_interrupt_cntrl.sv:160, 213;              *)
(* riscv_int_controller.sv:83-93).                                          *)
(***************************************************************************)
NoPhantomNumber ==
    clean /\ exc_ctrl_cs = "IRQ_PENDING" /\ irq_id_q = FifoLine
        => FifoLine \in r_int /\ valid_o

\* Nothing keeps the core from the numbers but the critical sections of software.
Open == clean /\ FifoLine \in r_mask /\ \A i \in Pending : i <= FifoLine

Disables == m_IE /\ ~m_IE' /\ exc_ctrl_cs' # "IRQ_DONE"

Waits(t) == \E i \in 1 .. Count : Contents[i] = t

(***************************************************************************)
(* A number does not stay in the FIFO for ever while its line is the        *)
(* highest that asks, if software does not go on disabling interrupts: it   *)
(* is not forgotten by a line that lost its level or by a request that the  *)
(* core dropped (apb_interrupt_cntrl.sv:90, 160-174).                       *)
(***************************************************************************)
NumbersLeave ==
    \A t \in Data : []<>~(Open /\ Waits(t)) \/ []<><<Disables>>_vars
=============================================================================
