------------------------------ MODULE SocEvents ------------------------------
(***************************************************************************)
(* ips/pulp_soc/rtl/pulp_soc/soc_event_generator.sv with its queues         *)
(* (soc_event_queue.sv) and its arbiter (soc_event_arbiter.sv): every event *)
(* has a counter of two bits, one event at a time is offered to the         *)
(* destinations that do not mask it, and it leaves when all of them take it. *)
(*                                                                          *)
(* Events are numbered 0 .. EVNT_NUM - 1, bit vectors are sets of events,   *)
(* and the one-hot r_priority is the position of its one (MCSocEvents).     *)
(* One step is one clock of HCLK.  The reset state is Init.                 *)
(***************************************************************************)
EXTENDS EventArbiterLogic

CONSTANTS
    EVNT_NUM,       \* events
    Destinations,   \* fc, cl and pr
    Words,          \* the events of each 32-bit register word
    Masks,          \* values software writes to the masks
    ApbEvents       \* events that software fires through REG_EVENT

ASSUME SocEventsAssumption ==
    /\ EVNT_NUM \in Nat /\ EVNT_NUM > 1
    /\ Words \subseteq SUBSET Slots(EVNT_NUM)
    /\ Masks \subseteq SUBSET Slots(EVNT_NUM)
    /\ ApbEvents \subseteq Slots(EVNT_NUM)

Events == Slots(EVNT_NUM)

VARIABLES
    r_event_count,  \* how often each event waits to be served
    r_priority,     \* where the arbiter starts its search
    mask,           \* r_fc_mask, r_cl_mask, r_pr_mask
    r_apb_events,   \* events fired by the last write of REG_EVENT
    r_err,          \* events that met a full counter since their word was read
    \* History.
    acked,          \* the event served in the last clock, if any
    bypassed,       \* how many others were served while an event waits
    lost            \* events that were dropped, but for those of the clock
                    \* of a read, since their word of r_err was read

vars == <<r_event_count, r_priority, mask, r_apb_events, r_err, acked, bypassed, lost>>

Init ==
    /\ r_event_count = [e \in Events |-> 0]
    /\ r_priority = 0
    /\ mask = [d \in Destinations |-> Events]
    /\ r_apb_events = {}
    /\ r_err = {}
    /\ acked = {}
    /\ bypassed = [e \in Events |-> 0]
    /\ lost = {}

s_req   == {e \in Events : r_event_count[e] # 0}
s_grant == Nearest(EVNT_NUM, s_req, r_priority)

s_valid(d) == s_grant \ mask[d] # {}

\* ready: the destinations that accept an event in this clock.
s_event_ready(ready) == \A d \in Destinations : s_valid(d) => d \in ready

s_ack(ready) == IF s_event_ready(ready) THEN s_grant ELSE {}

Full(e) == r_event_count[e] = 3

\* (after a faulty variant that warns at the last free place)
s_err_early(s_events) == {e \in s_events : r_event_count[e] = 2}

s_err(s_events) == {e \in s_events : Full(e)}

\* An event and its acknowledge in one clock leave the counter as it is.
s_event_count(e, event_i, event_ack_i) ==
    CASE event_i /\ ~event_ack_i /\ ~Full(e) -> r_event_count[e] + 1
      [] event_ack_i /\ ~event_i /\ r_event_count[e] # 0 -> r_event_count[e] - 1
      [] OTHER -> r_event_count[e]

\* (after a faulty variant that goes back to the event it has served)
PointerStays(ack) ==
    IF ack = {} THEN r_priority ELSE CHOOSE e \in ack : TRUE

PointerNxt(ack) ==
    IF ack = {} THEN r_priority ELSE After(EVNT_NUM, CHOOSE e \in ack : TRUE)

Dropped(s_events, ack) == {e \in s_events \ ack : Full(e)}

\* Counts to EVNT_NUM, one more than BoundedBypass allows.
BypassedNxt(e, ack) ==
    CASE e \notin s_req \/ e \in ack -> 0
      [] e \in s_req /\ e \notin ack /\ ack # {} /\ bypassed[e] < EVNT_NUM -> bypassed[e] + 1
      [] OTHER -> bypassed[e]

\* A read of REG_ERR clears its word, the errors of this clock included.
ReadErr(word, err) == (r_err \cup err) \ word

-----------------------------------------------------------------------------
\* What the APB access of this clock, if any, does to the registers.
NoAccess(err, drop) ==
    /\ r_apb_events' = {}
    /\ r_err' = r_err \cup err
    /\ lost' = lost \cup drop
    /\ UNCHANGED mask

WriteEvent(events, err, drop) ==
    /\ r_apb_events' = events
    /\ r_err' = r_err \cup err
    /\ lost' = lost \cup drop
    /\ UNCHANGED mask

WriteMask(d, word, value, err, drop) ==
    /\ mask' = [mask EXCEPT ![d] = (@ \ word) \cup (value \cap word)]
    /\ r_apb_events' = {}
    /\ r_err' = r_err \cup err
    /\ lost' = lost \cup drop

ReadErrors(word, err, drop) ==
    /\ r_err' = ReadErr(word, err)
    /\ lost' = (lost \cup drop) \ word
    /\ r_apb_events' = {}
    /\ UNCHANGED mask

Access(err, drop) ==
    \/ NoAccess(err, drop)
    \/ \E events \in SUBSET ApbEvents : WriteEvent(events, err, drop)
    \/ \E d \in Destinations, word \in Words, value \in Masks :
          WriteMask(d, word, value, err, drop)
    \/ \E word \in Words : ReadErrors(word, err, drop)

\* fired: the events of the peripherals and of the low-speed clock.
Clk(fired, ready) ==
    LET s_events == fired \cup r_apb_events
        ack == s_ack(ready)
    IN /\ r_event_count' = [e \in Events |-> s_event_count(e, e \in s_events, e \in ack)]
       /\ r_priority' = PointerNxt(ack)
       /\ acked' = ack
       /\ bypassed' = [e \in Events |-> BypassedNxt(e, ack)]
       /\ Access(s_err(s_events), Dropped(s_events, ack))

Next ==
    \E fired \in SUBSET (Events \ ApbEvents), ready \in SUBSET Destinations :
        Clk(fired, ready)

\* The clock runs, and now and then every destination has room at once: pr
\* always has (ips/udma/udma_core/rtl/common/udma_ctrl.sv:77), and fc when its
\* FIFO has been emptied.  So as long as events wait, one is served in the end:
\* the weak fairness of the clocks that serve, with its ENABLED written out.
Fairness == []<>(s_req = {}) \/ []<><<acked' # {}>>_vars

Spec == Init /\ [][Next]_vars /\ Fairness

-----------------------------------------------------------------------------
TypeOK ==
    /\ r_event_count \in [Events -> 0 .. 3]
    /\ r_priority \in Events
    /\ mask \in [Destinations -> SUBSET Events]
    /\ r_apb_events \subseteq ApbEvents
    /\ r_err \subseteq Events
    /\ acked \subseteq Events
    /\ bypassed \in [Events -> 0 .. EVNT_NUM]
    /\ lost \subseteq Events

(***************************************************************************)
(* While an event waits, each other event is served at most once before it, *)
(* EVNT_NUM - 1 services in all, however the destinations stall and however *)
(* the others fire (soc_event_arbiter.sv:88-104).  The offer moves to       *)
(* another event when a nearer one fires before it is taken: the bound is   *)
(* on services, not on offers.                                              *)
(***************************************************************************)
BoundedBypass == \A e \in Events : bypassed[e] < EVNT_NUM

\* What makes BoundedBypass inductive: every service of another event brings
\* the pointer nearer.
BypassRoom ==
    \A e \in Events :
        IF e \in s_req
        THEN bypassed[e] + Distance(EVNT_NUM, r_priority, e) < EVNT_NUM
        ELSE bypassed[e] = 0

(***************************************************************************)
(* An event that the queue drops shows in r_err until software reads its    *)
(* word, whatever else is served, written or read in the meantime           *)
(* (soc_event_queue.sv:29-45, soc_event_generator.sv:209-211, 324-342).  An *)
(* event dropped in the clock of the read of its word is cleared with it:   *)
(* it is seen on err_event_o only.                                          *)
(***************************************************************************)
LostEventsShow == lost \subseteq r_err

\* Every event that waits is served, though others keep firing and software
\* keeps changing the masks.
Served == \A e \in Events : (e \in s_req) ~> (e \in acked)
=============================================================================
