---------------------------- MODULE BoundedQueue ----------------------------
(***************************************************************************)
(* What a hardware FIFO promises: elements leave in the order in which they *)
(* came, none is lost or doubled, and it never holds more than Capacity.    *)
(* In one step it may take an element, give one, or both.                   *)
(***************************************************************************)
EXTENDS Naturals, Sequences

CONSTANTS Elements, Capacity

VARIABLE queue

Init == queue = <<>>

Put(e) == Len(queue) < Capacity /\ queue' = Append(queue, e)
Get    == queue # <<>> /\ queue' = Tail(queue)
PutGet(e) ==
    /\ queue # <<>>
    /\ Len(queue) < Capacity
    /\ queue' = Append(Tail(queue), e)

Next == Get \/ \E e \in Elements : Put(e) \/ PutGet(e)

Spec == Init /\ [][Next]_queue
=============================================================================
