--------------------------- MODULE SocEvents_proofs ---------------------------
(***************************************************************************)
(* What SocEvents promises for any number of events, destinations, register *)
(* words and mask values.                                                   *)
(***************************************************************************)
EXTENDS SocEvents, TLAPS

\* The search reaches one event first: no two are as far from the pointer.
LEMMA OneGrant ==
    ASSUME NEW n \in Nat, NEW req \in SUBSET Slots(n), NEW pointer \in Slots(n),
           NEW e \in Nearest(n, req, pointer), NEW f \in Nearest(n, req, pointer)
    PROVE  e = f
<1>1. /\ e \in 0 .. n - 1 /\ f \in 0 .. n - 1 /\ pointer \in 0 .. n - 1
      /\ Distance(n, pointer, e) <= Distance(n, pointer, f)
      /\ Distance(n, pointer, f) <= Distance(n, pointer, e)
    BY DEF Nearest, Slots
<1> QED  BY <1>1 DEF Distance

\* A service of f, the nearest, brings the pointer nearer to every other request.
LEMMA Nearer ==
    ASSUME NEW n \in Nat, NEW req \in SUBSET Slots(n), NEW pointer \in Slots(n),
           NEW f \in Nearest(n, req, pointer), NEW e \in req, e # f
    PROVE  Distance(n, After(n, f), e) < Distance(n, pointer, e)
<1>1. /\ e \in 0 .. n - 1 /\ f \in 0 .. n - 1 /\ pointer \in 0 .. n - 1
      /\ Distance(n, pointer, f) <= Distance(n, pointer, e)
    BY DEF Nearest, Slots
<1> QED  BY <1>1 DEF Distance, After

LEMMA AfterIsSlot ==
    ASSUME NEW n \in Nat, NEW e \in Slots(n)
    PROVE  After(n, e) \in Slots(n)
BY DEF After, Slots

LEMMA DistanceRange ==
    ASSUME NEW n \in Nat, NEW pointer \in Slots(n), NEW e \in Slots(n)
    PROVE  Distance(n, pointer, e) \in 0 .. n - 1
BY DEF Distance, Slots

\* What is acknowledged is the grant, and the grant is one event that waits.
LEMMA AckIsGrant ==
    ASSUME TypeOK, NEW ready
    PROVE  /\ s_ack(ready) \subseteq s_req
           /\ s_ack(ready) \subseteq s_grant
           /\ \A e, f \in s_ack(ready) : e = f
<1>1. EVNT_NUM \in Nat /\ s_req \in SUBSET Slots(EVNT_NUM) /\ r_priority \in Slots(EVNT_NUM)
    BY SocEventsAssumption DEF TypeOK, Events, s_req
<1>2. s_ack(ready) \subseteq s_grant
    BY DEF s_ack
<1>3. s_grant \subseteq s_req
    BY DEF s_grant, Nearest
<1>4. \A e, f \in s_grant : e = f
    BY <1>1, OneGrant DEF s_grant
<1> QED  BY <1>2, <1>3, <1>4

-----------------------------------------------------------------------------
LEMMA PointerType ==
    ASSUME TypeOK, NEW ready
    PROVE  PointerNxt(s_ack(ready)) \in Events
<1>1. CASE s_ack(ready) = {}
    BY <1>1 DEF PointerNxt, TypeOK
<1>2. CASE s_ack(ready) # {}
  <2>1. PICK f \in s_ack(ready) : f = CHOOSE e \in s_ack(ready) : TRUE
      BY <1>2
  <2>2. f \in Slots(EVNT_NUM) /\ EVNT_NUM \in Nat
      BY <2>1, AckIsGrant, SocEventsAssumption DEF s_req, Events
  <2> QED  BY <1>2, <2>1, <2>2, AfterIsSlot DEF PointerNxt, Events
<1> QED  BY <1>1, <1>2

\* Every access leaves the registers with their types.
LEMMA AccessType ==
    ASSUME TypeOK, NEW err \in SUBSET Events, NEW drop \in SUBSET Events, Access(err, drop)
    PROVE  /\ mask' \in [Destinations -> SUBSET Events]
           /\ r_apb_events' \subseteq ApbEvents
           /\ r_err' \subseteq Events
           /\ lost' \subseteq Events
<1>1. CASE NoAccess(err, drop)
    BY <1>1 DEF NoAccess, TypeOK
<1>2. ASSUME NEW events \in SUBSET ApbEvents, WriteEvent(events, err, drop)
      PROVE  /\ mask' \in [Destinations -> SUBSET Events]
             /\ r_apb_events' \subseteq ApbEvents
             /\ r_err' \subseteq Events
             /\ lost' \subseteq Events
    BY <1>2 DEF WriteEvent, TypeOK
<1>3. ASSUME NEW d \in Destinations, NEW word \in Words, NEW value \in Masks,
             WriteMask(d, word, value, err, drop)
      PROVE  /\ mask' \in [Destinations -> SUBSET Events]
             /\ r_apb_events' \subseteq ApbEvents
             /\ r_err' \subseteq Events
             /\ lost' \subseteq Events
  <2>1. word \subseteq Events
      BY SocEventsAssumption DEF Events
  <2>2. (mask[d] \ word) \cup (value \cap word) \in SUBSET Events
      BY <2>1 DEF TypeOK
  <2> QED  BY <1>3, <2>2 DEF WriteMask, TypeOK
<1>4. ASSUME NEW word \in Words, ReadErrors(word, err, drop)
      PROVE  /\ mask' \in [Destinations -> SUBSET Events]
             /\ r_apb_events' \subseteq ApbEvents
             /\ r_err' \subseteq Events
             /\ lost' \subseteq Events
    BY <1>4 DEF ReadErrors, ReadErr, TypeOK
<1> QED  BY <1>1, <1>2, <1>3, <1>4 DEF Access

(***************************************************************************)
(* Every register keeps its width, and the pointer stays one-hot            *)
(* (soc_event_queue.sv:34-56, soc_event_arbiter.sv:94-107).                 *)
(***************************************************************************)
THEOREM Typing == Spec => []TypeOK
<1>1. Init => TypeOK
    BY SocEventsAssumption DEF Init, TypeOK, Events, Slots
<1>2. ASSUME TypeOK, [Next]_vars
      PROVE  TypeOK'
  <2>1. CASE UNCHANGED vars
      BY <1>2, <2>1 DEF vars, TypeOK
  <2>2. ASSUME NEW fired \in SUBSET (Events \ ApbEvents), NEW ready \in SUBSET Destinations,
               Clk(fired, ready)
        PROVE  TypeOK'
    <3> DEFINE s_events == fired \cup r_apb_events
               ack == s_ack(ready)
    <3>1. /\ s_events \subseteq Events
          /\ ack \subseteq Events
        BY <1>2, AckIsGrant, SocEventsAssumption DEF TypeOK, s_req, Events
    <3>2. /\ r_event_count' = [e \in Events |-> s_event_count(e, e \in s_events, e \in ack)]
          /\ r_priority' = PointerNxt(ack)
          /\ acked' = ack
          /\ bypassed' = [e \in Events |-> BypassedNxt(e, ack)]
          /\ Access(s_err(s_events), Dropped(s_events, ack))
        BY <2>2 DEF Clk
    <3>3. r_event_count' \in [Events -> 0 .. 3]
      <4>1. ASSUME NEW e \in Events
            PROVE  s_event_count(e, e \in s_events, e \in ack) \in 0 .. 3
        <5>1. r_event_count[e] \in 0 .. 3
            BY <1>2, <4>1 DEF TypeOK
        <5> QED  BY <5>1 DEF s_event_count, Full
      <4> QED  BY <3>2, <4>1
    <3>4. r_priority' \in Events
        BY <1>2, <3>2, PointerType
    <3>5. acked' \subseteq Events
        BY <3>1, <3>2
    <3>6. bypassed' \in [Events -> 0 .. EVNT_NUM]
      <4>1. ASSUME NEW e \in Events
            PROVE  BypassedNxt(e, ack) \in 0 .. EVNT_NUM
        <5>1. bypassed[e] \in 0 .. EVNT_NUM /\ EVNT_NUM \in Nat
            BY <1>2, <4>1, SocEventsAssumption DEF TypeOK
        <5> QED  BY <5>1 DEF BypassedNxt
      <4> QED  BY <3>2, <4>1
    <3>7. /\ s_err(s_events) \in SUBSET Events
          /\ Dropped(s_events, ack) \in SUBSET Events
        BY <3>1 DEF s_err, Dropped
    <3> QED  BY <1>2, <3>2, <3>3, <3>4, <3>5, <3>6, <3>7, AccessType DEF TypeOK
  <2> QED  BY <1>2, <2>1, <2>2 DEF Next
<1> QED  BY <1>1, <1>2, PTL DEF Spec

-----------------------------------------------------------------------------
\* A clock keeps the room of every event that waits.
LEMMA BypassStep ==
    ASSUME TypeOK, BypassRoom, NEW ready,
           NEW e \in Events, e \in s_req, e \notin s_ack(ready)
    PROVE  BypassedNxt(e, s_ack(ready)) + Distance(EVNT_NUM, PointerNxt(s_ack(ready)), e)
               < EVNT_NUM
<1> DEFINE ack == s_ack(ready)
<1>1. /\ EVNT_NUM \in Nat
      /\ bypassed[e] \in Nat
      /\ bypassed[e] + Distance(EVNT_NUM, r_priority, e) < EVNT_NUM
      /\ Distance(EVNT_NUM, r_priority, e) \in 0 .. EVNT_NUM - 1
    BY SocEventsAssumption, DistanceRange DEF TypeOK, BypassRoom, Events
<1>2. CASE ack = {}
    BY <1>1, <1>2 DEF BypassedNxt, PointerNxt
<1>3. CASE ack # {}
  <2>1. PICK f \in ack : f = CHOOSE g \in ack : TRUE
      BY <1>3
  <2>2. PointerNxt(ack) = After(EVNT_NUM, f)
      BY <1>3, <2>1 DEF PointerNxt
  <2>3. f \in Nearest(EVNT_NUM, s_req, r_priority) /\ f # e /\ f \in Slots(EVNT_NUM)
      BY <2>1, AckIsGrant DEF s_grant, s_req, Events
  <2>4. Distance(EVNT_NUM, After(EVNT_NUM, f), e) < Distance(EVNT_NUM, r_priority, e)
      BY <1>1, <2>3, Nearer DEF TypeOK, s_req, Events
  <2>5. Distance(EVNT_NUM, After(EVNT_NUM, f), e) \in 0 .. EVNT_NUM - 1
      BY <1>1, <2>3, AfterIsSlot, DistanceRange DEF Events
  <2>6. BypassedNxt(e, ack) = bypassed[e] + 1
      BY <1>1, <1>3 DEF BypassedNxt
  <2> QED  BY <1>1, <2>2, <2>4, <2>5, <2>6
<1> QED  BY <1>2, <1>3

(***************************************************************************)
(* An event that waits is overtaken by fewer services than there are events *)
(* (soc_event_arbiter.sv:88-104).                                           *)
(***************************************************************************)
THEOREM RoundRobinRoom == Spec => []BypassRoom
<1>1. Init => BypassRoom
    BY DEF Init, BypassRoom, s_req
<1>2. ASSUME TypeOK, TypeOK', BypassRoom, [Next]_vars
      PROVE  BypassRoom'
  <2>1. CASE UNCHANGED vars
      BY <1>2, <2>1 DEF vars, BypassRoom, s_req
  <2>2. ASSUME NEW fired \in SUBSET (Events \ ApbEvents), NEW ready \in SUBSET Destinations,
               Clk(fired, ready), NEW e \in Events
        PROVE  IF e \in s_req'
               THEN bypassed'[e] + Distance(EVNT_NUM, r_priority', e) < EVNT_NUM
               ELSE bypassed'[e] = 0
    <3> DEFINE s_events == fired \cup r_apb_events
               ack == s_ack(ready)
    <3>1. /\ r_event_count'[e] = s_event_count(e, e \in s_events, e \in ack)
          /\ r_priority' = PointerNxt(ack)
          /\ bypassed'[e] = BypassedNxt(e, ack)
        BY <2>2 DEF Clk
    <3>2. CASE e \in s_req /\ e \notin ack
      <4>1. e \in s_req'
        <5>1. r_event_count[e] \in 1 .. 3
            BY <1>2, <2>2, <3>2 DEF TypeOK, s_req
        <5>2. r_event_count'[e] # 0
            BY <3>1, <3>2, <5>1 DEF s_event_count, Full
        <5> QED  BY <2>2, <5>2 DEF s_req
      <4> QED  BY <1>2, <2>2, <3>1, <3>2, <4>1, BypassStep
    <3>3. CASE e \notin s_req \/ e \in ack
      <4>1. bypassed'[e] = 0
          BY <3>1, <3>3 DEF BypassedNxt
      <4>2. EVNT_NUM \in Nat /\ Distance(EVNT_NUM, r_priority', e) \in 0 .. EVNT_NUM - 1
          BY <1>2, SocEventsAssumption, DistanceRange DEF TypeOK, Events
      <4> QED  BY <4>1, <4>2
    <3> QED  BY <3>2, <3>3
  <2> QED  BY <1>2, <2>1, <2>2 DEF Next, BypassRoom
<1> QED  BY <1>1, <1>2, Typing, PTL DEF Spec

\* No event is overtaken EVNT_NUM times.
THEOREM RoundRobin == Spec => []BoundedBypass
<1>1. TypeOK /\ BypassRoom => BoundedBypass
  <2> SUFFICES ASSUME TypeOK, BypassRoom, NEW e \in Events
               PROVE  bypassed[e] < EVNT_NUM
      BY DEF BoundedBypass
  <2>1. /\ EVNT_NUM \in Nat /\ EVNT_NUM > 1
        /\ bypassed[e] \in Nat
        /\ Distance(EVNT_NUM, r_priority, e) \in 0 .. EVNT_NUM - 1
      BY SocEventsAssumption, DistanceRange DEF TypeOK, Events
  <2>2. CASE e \in s_req
      BY <2>1, <2>2 DEF BypassRoom
  <2>3. CASE e \notin s_req
      BY <2>1, <2>3 DEF BypassRoom
  <2> QED  BY <2>2, <2>3
<1> QED  BY <1>1, Typing, RoundRobinRoom, PTL

-----------------------------------------------------------------------------
\* A dropped event shows until its word is read, for every order of firings,
\* services and accesses.
THEOREM LossShows == Spec => []LostEventsShow
<1>1. Init => LostEventsShow
    BY DEF Init, LostEventsShow
<1>2. ASSUME LostEventsShow, [Next]_vars
      PROVE  LostEventsShow'
  <2>1. CASE UNCHANGED vars
      BY <1>2, <2>1 DEF vars, LostEventsShow
  <2>2. ASSUME NEW fired \in SUBSET (Events \ ApbEvents), NEW ready \in SUBSET Destinations,
               Clk(fired, ready)
        PROVE  LostEventsShow'
    <3> DEFINE s_events == fired \cup r_apb_events
               err == s_err(s_events)
               drop == Dropped(s_events, s_ack(ready))
    <3>1. drop \subseteq err
        BY DEF Dropped, s_err
    <3>2. Access(err, drop)
        BY <2>2 DEF Clk
    <3> HIDE DEF err, drop
    <3>3. CASE NoAccess(err, drop)
        BY <1>2, <3>1, <3>3 DEF NoAccess, LostEventsShow
    <3>4. ASSUME NEW events, WriteEvent(events, err, drop)
          PROVE  LostEventsShow'
        BY <1>2, <3>1, <3>4 DEF WriteEvent, LostEventsShow
    <3>5. ASSUME NEW d, NEW word, NEW value, WriteMask(d, word, value, err, drop)
          PROVE  LostEventsShow'
        BY <1>2, <3>1, <3>5 DEF WriteMask, LostEventsShow
    <3>6. ASSUME NEW word, ReadErrors(word, err, drop)
          PROVE  LostEventsShow'
        BY <1>2, <3>1, <3>6 DEF ReadErrors, ReadErr, LostEventsShow
    <3> QED  BY <3>2, <3>3, <3>4, <3>5, <3>6 DEF Access
  <2> QED  BY <1>2, <2>1, <2>2 DEF Next
<1> QED  BY <1>1, <1>2, PTL DEF Spec
=============================================================================
