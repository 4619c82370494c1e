----------------------------- MODULE MCSocEvents -----------------------------
(***************************************************************************)
(* SocEvents for TLC, and the arbiter's prefix network by itself for every  *)
(* number of events up to a bound.                                          *)
(***************************************************************************)
EXTENDS SocEvents

CONSTANT MaxSize    \* bound on the number of events of NetworkIsRoundRobin

Computes(n, req, pointer) ==
    LET next(grant_ack) == PriorityNxt(n, req, {pointer}, grant_ack)
    IN /\ gnt(n, req, {pointer}) = Nearest(n, req, pointer)
       /\ anyGnt(n, req) <=> req # {}
       /\ next(FALSE) = {pointer}
       /\ next(TRUE) = IF req = {} THEN {pointer}
                       ELSE {After(n, e) : e \in Nearest(n, req, pointer)}

EverySizeComputes ==
    \A n \in 2 .. MaxSize : \A req \in SUBSET Slots(n), pointer \in Slots(n) :
        Computes(n, req, pointer)

(***************************************************************************)
(* The log-depth network, with its wrap-round for numbers of events that    *)
(* are no power of two, computes what SocEvents uses: it grants the request *)
(* a linear search from the pointer would find, says that it grants one     *)
(* exactly when it does, and on an acknowledge moves the pointer, which     *)
(* stays one-hot, next to the grant (soc_event_arbiter.sv:88-91, "true      *)
(* round robin").                                                           *)
(***************************************************************************)
NetworkIsRoundRobin == EverySizeComputes /\ Computes(EVNT_NUM, s_req, r_priority)
=============================================================================
