-------------------------- MODULE EventArbiterLogic --------------------------
(***************************************************************************)
(* ips/pulp_soc/rtl/pulp_soc/soc_event_arbiter.sv: the parallel-prefix      *)
(* network that picks one of n requests, and what it is meant to compute,   *)
(* the first request at or after the priority pointer.  Bit vectors are the *)
(* sets of the positions of their ones.                                     *)
(***************************************************************************)
EXTENDS Naturals

Slots(n) == 0 .. n - 1

\* The slot d places before slot j, round the end (d <= n).
Before(n, j, d) == (j + n - d) % n

\* $clog2(EVNT_NUM)
Levels(n) == CHOOSE s \in 1 .. n : 2^s >= n /\ 2^(s - 1) < n

\* p[i][j]: none of the 2^i slots before j is requested.
Propagate(n, req) ==
    LET p[i \in 0 .. Levels(n) - 1] ==
            [j \in Slots(n) |->
                IF i = 0 THEN Before(n, j, 1) \notin req
                ELSE p[i - 1][j] /\ p[i - 1][Before(n, j, 2^(i - 1))]]
    IN p

\* g[i][j]: the priority reaches j from one of the 2^i slots that end with j.
Generate(n, req, priority) ==
    LET p == Propagate(n, req)
        g[i \in 0 .. Levels(n)] ==
            [j \in Slots(n) |->
                IF i = 0 THEN j \in priority
                ELSE \/ g[i - 1][j]
                     \/ p[i - 1][j] /\ g[i - 1][Before(n, j, 2^(i - 1))]]
    IN g

gnt(n, req, priority) ==
    {j \in req : Generate(n, req, priority)[Levels(n)][j]}

\* (after a faulty variant that looks at one half of the requests)
anyGntHalf(n, req) == ~Propagate(n, req)[Levels(n) - 1][n - 1]

anyGnt(n, req) ==
    LET p == Propagate(n, req)[Levels(n) - 1]
    IN ~(p[n - 1] /\ p[(n \div 2) - 1])

\* The pointer moves on when the grant is acknowledged.
PriorityNxt(n, req, priority, grant_ack) ==
    IF anyGnt(n, req) /\ grant_ack
    THEN {(j + 1) % n : j \in gnt(n, req, priority)}
    ELSE priority

-----------------------------------------------------------------------------
\* How far e is ahead of the pointer, and the requests that are next to it:
\* one, if there are any.
Distance(n, pointer, e) == IF e >= pointer THEN e - pointer ELSE e + n - pointer

Nearest(n, req, pointer) ==
    {e \in req : \A f \in req : Distance(n, pointer, e) <= Distance(n, pointer, f)}

\* The slot after e, round the end.
After(n, e) == IF e = n - 1 THEN 0 ELSE e + 1
=============================================================================
