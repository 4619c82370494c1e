---------------------- MODULE InterruptController_proofs ----------------------
(***************************************************************************)
(* What holds of the interrupt controller for every depth of the FIFO, any  *)
(* lines, any numbers and any use of the registers.                         *)
(***************************************************************************)
EXTENDS InterruptController, SequenceTheorems, TLAPS

FifoInv == FifoTypeOK /\ PointersMeet

(***************************************************************************)
(* The FIFO is a ring.                                                      *)
(***************************************************************************)
LEMMA FifoStarts == FifoInit => FifoInv /\ Contents = <<>>
<1> SUFFICES ASSUME FifoInit PROVE FifoInv /\ Contents = <<>>
  OBVIOUS
<1>1. FifoInv
  BY FifoAssumption DEF FifoInit, FifoInv, FifoTypeOK, PointersMeet
<1>2. Count = 0
  BY DEF FifoInit, Count
<1>3. Contents = [i \in 1 .. 0 |-> FIFO_REGISTERS[Around(Pop_Pointer_CS + i - 1)]]
  BY <1>2 DEF Contents
<1>4. Contents = <<>>
  BY <1>3
<1> QED BY <1>1, <1>4

LEMMA CountBounds ==
    ASSUME FifoInv
    PROVE  /\ Count \in 0 .. DATA_DEPTH
           /\ valid_o <=> Count # 0
           /\ grant_o <=> Count # DATA_DEPTH
BY FifoAssumption DEF FifoInv, FifoTypeOK, PointersMeet, Count, valid_o, grant_o

LEMMA ContentsAreData ==
    ASSUME FifoInv
    PROVE  /\ Contents \in Seq(Data) /\ Len(Contents) = Count
           /\ \A i \in 1 .. Count :
                 Contents[i] = FIFO_REGISTERS[Around(Pop_Pointer_CS + i - 1)]
<1>1. Count \in 0 .. DATA_DEPTH
  BY CountBounds
<1>2. \A i \in 1 .. Count : FIFO_REGISTERS[Around(Pop_Pointer_CS + i - 1)] \in Data
  <2> SUFFICES ASSUME NEW i \in 1 .. Count
               PROVE  FIFO_REGISTERS[Around(Pop_Pointer_CS + i - 1)] \in Data
    OBVIOUS
  <2>1. Around(Pop_Pointer_CS + i - 1) \in 0 .. DATA_DEPTH - 1
    BY <1>1, FifoAssumption DEF FifoInv, FifoTypeOK, Around
  <2> QED BY <2>1 DEF FifoInv, FifoTypeOK
<1>3. Contents \in [1 .. Count -> Data]
  BY <1>2 DEF Contents
<1> QED BY <1>1, <1>3, FifoAssumption DEF Contents

LEMMA FifoStaysTyped ==
    ASSUME FifoInv, NEW v \in BOOLEAN, NEW d \in Data, NEW g \in BOOLEAN,
           FifoClk(v, d, g)
    PROVE  FifoInv'
<1>1. FifoTypeOK'
  BY FifoAssumption DEF FifoInv, FifoTypeOK, FifoClk, StateNS, Successor, Pushes, Pops,
     grant_o, valid_o
<1>2. PointersMeet'
  BY FifoAssumption DEF FifoInv, FifoTypeOK, FifoClk, StateNS, Successor, Pushes, Pops,
     grant_o, valid_o, PointersMeet
<1> QED BY <1>1, <1>2 DEF FifoInv

LEMMA AroundRange ==
    ASSUME NEW p \in 0 .. DATA_DEPTH - 1, NEW i \in 1 .. DATA_DEPTH
    PROVE  Around(p + i - 1) \in 0 .. DATA_DEPTH - 1
BY FifoAssumption DEF Around

LEMMA FunctionIsSequence ==
    ASSUME NEW n \in Nat, NEW f \in [1 .. n -> Data]
    PROVE  f \in Seq(Data) /\ Len(f) = n
OBVIOUS

\* How many elements are left, and where each of them has moved to.
LEMMA FifoStep ==
    ASSUME FifoInv, NEW v \in BOOLEAN, NEW d \in Data, NEW g \in BOOLEAN,
           FifoClk(v, d, g)
    PROVE  LET gone == IF Pops(v, g) THEN 1 ELSE 0
               come == IF Pushes(v) THEN 1 ELSE 0
           IN /\ Count' = Count - gone + come
              /\ \A i \in 1 .. Count - gone : Contents'[i] = Contents[i + gone]
              /\ Pushes(v) => Contents'[Count'] = d
<1> DEFINE gone == IF Pops(v, g) THEN 1 ELSE 0
           come == IF Pushes(v) THEN 1 ELSE 0
<1>0. FifoInv'
  BY FifoStaysTyped
<1>1. /\ Count \in 0 .. DATA_DEPTH /\ Count' \in 0 .. DATA_DEPTH
      /\ valid_o <=> Count # 0
      /\ grant_o <=> Count # DATA_DEPTH
  <2>1. Count' \in 0 .. DATA_DEPTH
    BY <1>0, FifoAssumption DEF FifoInv, FifoTypeOK, PointersMeet, Count
  <2> QED BY <2>1, CountBounds
<1>2. Count' = Count - gone + come
  <2>1. CASE Pops(v, g) /\ ~Pushes(v)
    BY <2>1, FifoAssumption DEF FifoInv, FifoTypeOK, PointersMeet, FifoClk, StateNS, Successor,
       Pops, valid_o, Count
  <2>2. CASE Pushes(v) /\ ~Pops(v, g)
    BY <2>2, FifoAssumption DEF FifoInv, FifoTypeOK, PointersMeet, FifoClk, StateNS, Successor,
       Pushes, grant_o, Count
  <2>3. CASE Pushes(v) /\ Pops(v, g)
    BY <2>3, FifoAssumption DEF FifoInv, FifoTypeOK, PointersMeet, FifoClk, StateNS, Successor,
       Pushes, Pops, grant_o, valid_o, Count
  <2>4. CASE ~Pushes(v) /\ ~Pops(v, g)
    BY <2>4, FifoAssumption DEF FifoInv, FifoTypeOK, FifoClk, StateNS, Count
  <2> QED BY <2>1, <2>2, <2>3, <2>4
<1>3. \A i \in 1 .. Count' :
         Contents'[i] = FIFO_REGISTERS'[Around(Pop_Pointer_CS' + i - 1)]
  BY Zenon DEF Contents, Around
<1>4. \A i \in 1 .. Count - gone : Contents'[i] = Contents[i + gone]
  <2> SUFFICES ASSUME NEW i \in 1 .. Count - gone
               PROVE  Contents'[i] = Contents[i + gone]
    OBVIOUS
  <2>1. gone \in {0, 1} /\ come \in {0, 1} /\ i \in 1 .. Count'
        /\ i + gone \in 1 .. Count
    BY <1>1, <1>2
  <2>2. Around(Pop_Pointer_CS' + i - 1) = Around(Pop_Pointer_CS + (i + gone) - 1)
    BY <1>1, <2>1, FifoAssumption DEF FifoInv, FifoTypeOK, FifoClk, Successor, Around
  <2>3. Pushes(v) => Around(Pop_Pointer_CS + (i + gone) - 1) # Push_Pointer_CS
    <3> SUFFICES ASSUME Pushes(v), NEW j \in 1 .. Count
                 PROVE  Around(Pop_Pointer_CS + j - 1) # Push_Pointer_CS
      BY <2>1
    <3>1. CS # "FULL"
      BY DEF Pushes, grant_o
    <3> QED BY <3>1, FifoAssumption DEF FifoInv, FifoTypeOK, PointersMeet, Around, Count
  <2>4. FIFO_REGISTERS'[Around(Pop_Pointer_CS' + i - 1)]
          = FIFO_REGISTERS[Around(Pop_Pointer_CS' + i - 1)]
    <3>1. Around(Pop_Pointer_CS' + i - 1) \in 0 .. DATA_DEPTH - 1
      <4>1. Pop_Pointer_CS' \in 0 .. DATA_DEPTH - 1
        BY <1>0 DEF FifoInv, FifoTypeOK
      <4>2. Count' \in 0 .. DATA_DEPTH /\ i \in 1 .. Count'
        BY <1>1, <2>1
      <4>3. i \in 1 .. DATA_DEPTH
        BY <4>2, FifoAssumption
      <4> QED BY <4>1, <4>3, AroundRange
    <3> HIDE DEF gone
    <3> QED BY <2>2, <2>3, <3>1 DEF FifoClk, FifoInv, FifoTypeOK
  <2>5. Contents[i + gone] = FIFO_REGISTERS[Around(Pop_Pointer_CS + (i + gone) - 1)]
    BY <2>1, ContentsAreData
  <2> HIDE DEF gone
  <2> QED BY <1>3, <2>1, <2>2, <2>4, <2>5
<1>5. Pushes(v) => Contents'[Count'] = d
  <2> SUFFICES ASSUME Pushes(v) PROVE Contents'[Count'] = d
    OBVIOUS
  <2>1. Count' \in 1 .. Count'
    <3>1. come = 1 /\ gone \in {0, 1} /\ (gone = 1 => Count # 0)
      BY <1>1 DEF Pops
    <3> HIDE DEF come, gone
    <3> QED BY <1>1, <1>2, <3>1
  <2>2. Around(Pop_Pointer_CS' + Count' - 1) = Push_Pointer_CS
    <3>1. come = 1 /\ Count' = Count - gone + 1
      BY <1>2, <1>1 
    <3>2. Pop_Pointer_CS' = IF gone = 1 THEN Successor(Pop_Pointer_CS) ELSE Pop_Pointer_CS
      BY DEF FifoClk
    <3>3. gone \in {0, 1} /\ (gone = 1 => CS # "EMPTY") /\ CS # "FULL"
      BY DEF Pops, valid_o, Pushes, grant_o
    <3> HIDE DEF gone, come
    <3>4. CASE gone = 0
      BY <3>1, <3>2, <3>3, <3>4, FifoAssumption
         DEF FifoInv, FifoTypeOK, PointersMeet, Around, Count
    <3>5. CASE gone = 1
      BY <3>1, <3>2, <3>3, <3>5, FifoAssumption
         DEF FifoInv, FifoTypeOK, PointersMeet, Around, Count, Successor
    <3> QED BY <3>3, <3>4, <3>5
  <2>3. FIFO_REGISTERS'[Push_Pointer_CS] = d
    BY DEF FifoClk, FifoInv, FifoTypeOK
  <2> QED BY <1>3, <2>1, <2>2, <2>3
<1> QED BY <1>2, <1>4, <1>5

(***************************************************************************)
(* The controller's FIFO implements a queue for any depth and any use of    *)
(* the registers (generic_fifo.sv:98-258).                                  *)
(***************************************************************************)
LEMMA FifoRefines ==
    ASSUME FifoInv, NEW v \in BOOLEAN, NEW d \in Data, NEW g \in BOOLEAN,
           FifoClk(v, d, g)
    PROVE  [Queue!Next]_Contents
<1> DEFINE gone == IF Pops(v, g) THEN 1 ELSE 0
<1>0. FifoInv'
  BY FifoStaysTyped
<1>1. /\ Contents \in Seq(Data) /\ Len(Contents) = Count
      /\ Count \in 0 .. DATA_DEPTH
      /\ (valid_o <=> Count # 0) /\ (grant_o <=> Count # DATA_DEPTH)
  BY ContentsAreData, CountBounds
<1>2. Contents' \in Seq(Data) /\ Len(Contents') = Count' /\ Count' \in Nat
  <2>1. Contents' = [i \in 1 .. Count' |-> FIFO_REGISTERS'[Around(Pop_Pointer_CS' + i - 1)]]
    BY Zenon DEF Contents, Around
  <2>2. Count' \in 0 .. DATA_DEPTH
    BY <1>0, FifoAssumption DEF FifoInv, FifoTypeOK, PointersMeet, Count
  <2>3. /\ Pop_Pointer_CS' \in 0 .. DATA_DEPTH - 1
        /\ FIFO_REGISTERS' \in [0 .. DATA_DEPTH - 1 -> Data]
    BY <1>0 DEF FifoInv, FifoTypeOK
  <2> DEFINE after == [i \in 1 .. Count' |-> FIFO_REGISTERS'[Around(Pop_Pointer_CS' + i - 1)]]
  <2>4. \A i \in 1 .. Count' : FIFO_REGISTERS'[Around(Pop_Pointer_CS' + i - 1)] \in Data
    <3> SUFFICES ASSUME NEW i \in 1 .. Count'
                 PROVE  FIFO_REGISTERS'[Around(Pop_Pointer_CS' + i - 1)] \in Data
      OBVIOUS
    <3>1. i \in 1 .. DATA_DEPTH
      BY <2>2, FifoAssumption
    <3>2. Around(Pop_Pointer_CS' + i - 1) \in 0 .. DATA_DEPTH - 1
      BY <2>3, <3>1, AroundRange
    <3> QED BY <2>3, <3>2
  <2>6. after \in [1 .. Count' -> Data] /\ Count' \in Nat
    BY <2>2, <2>4, FifoAssumption
  <2>5. Contents' \in Seq(Data) /\ Len(Contents') = Count'
    BY <2>1, <2>6, FunctionIsSequence
  <2> QED BY <2>2, <2>5, FifoAssumption
<1>3. /\ Count' = Count - gone + (IF Pushes(v) THEN 1 ELSE 0)
      /\ \A i \in 1 .. Count - gone : Contents'[i] = Contents[i + gone]
      /\ Pushes(v) => Contents'[Count'] = d
  BY FifoStep
<1>4. CASE Pops(v, g) /\ Pushes(v)
  <2>1. Contents # <<>> /\ Tail(Contents) \in Seq(Data)
        /\ Len(Tail(Contents)) = Count - 1
        /\ \A i \in 1 .. Count - 1 : Tail(Contents)[i] = Contents[i + 1]
    BY <1>1, <1>4, HeadTailProperties DEF Pops
  <2>2. Contents' = Append(Tail(Contents), d)
    BY <1>1, <1>2, <1>3, <1>4, <2>1, AppendProperties, SeqEqual
  <2>3. Queue!PutGet(d)
    BY <1>1, <1>4, <2>1, <2>2, FifoAssumption DEF Queue!PutGet, Pushes
  <2> QED BY <2>3 DEF Queue!Next
<1>5. CASE Pops(v, g) /\ ~Pushes(v)
  <2>1. Contents # <<>> /\ Tail(Contents) \in Seq(Data)
        /\ Len(Tail(Contents)) = Count - 1
        /\ \A i \in 1 .. Count - 1 : Tail(Contents)[i] = Contents[i + 1]
    BY <1>1, <1>5, HeadTailProperties DEF Pops
  <2>2. Contents' = Tail(Contents)
    BY <1>1, <1>2, <1>3, <1>5, <2>1, SeqEqual
  <2> QED BY <2>1, <2>2 DEF Queue!Next, Queue!Get
<1>6. CASE ~Pops(v, g) /\ Pushes(v)
  <2>1. Contents' = Append(Contents, d)
    BY <1>1, <1>2, <1>3, <1>6, AppendProperties, SeqEqual
  <2>2. Queue!Put(d)
    BY <1>1, <1>6, <2>1, FifoAssumption DEF Queue!Put, Pushes
  <2> QED BY <2>2 DEF Queue!Next
<1>7. CASE ~Pops(v, g) /\ ~Pushes(v)
  BY <1>1, <1>2, <1>3, <1>7, SeqEqual
<1> QED BY <1>4, <1>5, <1>6, <1>7

-----------------------------------------------------------------------------
\* Every register of the controller keeps its width, with any access in any clock.
LatchedType == exc_ctrl_cs = "IRQ_PENDING" => irq_id_q \in Lines

Inv == TypeOK /\ PointersMeet /\ LatchedType

LEMMA InitInv == Init => Inv
BY FifoStarts, FifoAssumption, InterruptAssumption DEF Init, Inv, TypeOK, LatchedType, FifoInv

\* The line the controller offers is one that asks and is not masked.
LEMMA OfferIsPending ==
    ASSUME TypeOK, core_irq_req_o
    PROVE  core_irq_id_o \in Pending
<1>1. Pending \in SUBSET Lines /\ Pending # {}
  BY DEF TypeOK, Pending, core_irq_req_o
<1>2. \E i \in Pending : \A j \in Pending : j <= i
  BY <1>1, InterruptAssumption
<1> QED BY <1>1, <1>2 DEF core_irq_id_o

LEMMA ClkInv ==
    ASSUME Inv, NEW fired \in SUBSET (Lines \ {FifoLine}), NEW arrives \in BOOLEAN,
           NEW access \in Writes \cup {NoAccess}, NEW core \in CoreActions,
           Clk(fired, arrives, access, core)
    PROVE  Inv'
<1> DEFINE ready == s_event_fifo_ready(core, access)
<1>1. ready \in BOOLEAN /\ next \in Data /\ FifoInv
  BY DEF s_event_fifo_ready, ClearsFifoLine, Inv, TypeOK, FifoInv
<1>2. FifoClk(arrives, next, ready)
  BY DEF Clk
<1>3. FifoInv'
  BY <1>1, <1>2, FifoStaysTyped
<1>4. access.pwdata \in SUBSET Lines
  <2>1. CASE access \in Writes
    BY <2>1, InterruptAssumption DEF Writes
  <2>2. CASE access = NoAccess
    BY <2>2 DEF NoAccess
  <2> QED BY <2>1, <2>2
<1>5. r_mask' \subseteq Lines
  BY <1>4 DEF Inv, TypeOK, Clk, MaskNxt
<1>6. r_int' \subseteq Lines
  BY <1>4, InterruptAssumption DEF Inv, TypeOK, Clk, IntNxt, s_events
<1>7. r_ack' \subseteq Lines
  <2>1. exc_ctrl_cs = "IRQ_PENDING" => irq_id_q \in Lines
    BY DEF Inv, LatchedType
  <2> QED BY <1>4, <2>1 DEF Inv, TypeOK, Clk, AckNxt, Acked, CanAct
<1>8. r_fifo_event' \in Data
  <2>1. data_o \in Data
    BY <1>1 DEF data_o, FifoInv, FifoTypeOK
  <2> QED BY <2>1 DEF Inv, TypeOK, Clk
<1>9. exc_ctrl_cs' \in {"IDLE", "IRQ_PENDING", "IRQ_DONE"}
  BY DEF Inv, TypeOK, Clk, CoreStateNxt
<1>10. irq_id_q' \in Lines \cup {0} /\ LatchedType'
  <2>1. Latches => core_irq_id_o \in Lines
    BY OfferIsPending DEF Latches, Pending, Inv, TypeOK
  <2>2. exc_ctrl_cs' = "IRQ_PENDING" => Latches \/ exc_ctrl_cs = "IRQ_PENDING"
    BY DEF Clk, CoreStateNxt
  <2>3. irq_id_q' = IF Latches THEN core_irq_id_o ELSE irq_id_q
    BY DEF Clk
  <2> QED BY <2>1, <2>2, <2>3 DEF Inv, TypeOK, LatchedType
<1>11. next' \in Data /\ expected' \in Data
  BY <1>1, FifoAssumption, InterruptAssumption DEF Inv, TypeOK, Clk, Software
<1>12. m_IE' \in BOOLEAN
  BY DEF Inv, TypeOK, Clk, EnableNxt
<1>13. clean' \in BOOLEAN /\ unread' \in BOOLEAN /\ wrong' \in BOOLEAN
  BY Zenon DEF Inv, TypeOK, Clk, Software
<1> QED BY <1>3, <1>5, <1>6, <1>7, <1>8, <1>9, <1>10, <1>11, <1>12, <1>13
        DEF Inv, TypeOK, FifoInv

-----------------------------------------------------------------------------
(***************************************************************************)
(* The numbers.  Due is the one that software reads after those it has been *)
(* told of.  While software keeps to the rules, the FIFO holds it first,    *)
(* the others in order behind it, and the line asks for it exactly while it *)
(* is there; and software that has been told of a number cannot be told of  *)
(* another before it has read it.                                           *)
(***************************************************************************)
Due == IF unread THEN Follows[expected] ELSE expected

InARow ==
    /\ Count # 0 => Contents[1] = Due
    /\ \A i \in 1 .. Count - 1 : Contents[i + 1] = Follows[Contents[i]]
    /\ next = IF Count = 0 THEN Due ELSE Follows[Contents[Count]]

LatchedFifo == exc_ctrl_cs = "IRQ_PENDING" /\ irq_id_q = FifoLine

LineAsks ==
    /\ FifoLine \in r_int => valid_o
    /\ LatchedFifo => FifoLine \in r_int

OneAtATime ==
    unread => /\ r_fifo_event = expected
              /\ m_IE => FifoLine \notin r_mask /\ ~LatchedFifo

NumberInvariant == ~wrong /\ (clean => InARow /\ LineAsks /\ OneAtATime)

LEMMA NumbersStart == Init => NumberInvariant
<1>1. Init => Count = 0
  BY DEF Init, FifoInit, Count
<1> QED BY <1>1 DEF Init, NumberInvariant, InARow, LineAsks, OneAtATime, Due, LatchedFifo

LEMMA ClkNumbers ==
    ASSUME Inv, NumberInvariant,
           NEW fired \in SUBSET (Lines \ {FifoLine}), NEW arrives \in BOOLEAN,
           NEW access \in Writes \cup {NoAccess}, NEW core \in CoreActions,
           Clk(fired, arrives, access, core), clean'
    PROVE  InARow' /\ LineAsks' /\ OneAtATime' /\ ~wrong'
<1> DEFINE ready == s_event_fifo_ready(core, access)
<1>1. /\ clean /\ Disciplined(core, access) /\ ~wrong
      /\ InARow /\ LineAsks /\ OneAtATime
  BY DEF Clk, Software, NumberInvariant
<1>2. ready \in BOOLEAN /\ next \in Data /\ FifoInv /\ FifoClk(arrives, next, ready)
  BY DEF s_event_fifo_ready, ClearsFifoLine, Inv, TypeOK, FifoInv, Clk
<1>3. ready => valid_o /\ ~unread
  <2>1. CASE FifoLine \in Acked(core)
    BY <1>1, <2>1 DEF Acked, Clk, CanAct, LineAsks, LatchedFifo, OneAtATime
  <2>2. CASE ClearsFifoLine(access)
    BY <1>1, <2>2 DEF Disciplined, LineAsks
  <2> QED BY <2>1, <2>2 DEF s_event_fifo_ready
<1>4. core = "read" => unread /\ ~ready
  BY DEF Clk, CanAct, s_event_fifo_ready, Acked, ClearsFifoLine, NoAccess
<1>5. Pops(arrives, ready) <=> ready
  BY <1>2, <1>3 DEF Pops
<1>6. /\ unread' = (ready \/ (unread /\ core # "read"))
      /\ expected' = IF core = "read" THEN Follows[expected] ELSE expected
  BY DEF Clk, Software
<1>7. Due' = IF ready THEN Follows[Due] ELSE Due
  BY <1>3, <1>4, <1>6 DEF Due
<1>8. InARow'
  <2> DEFINE gone == IF Pops(arrives, ready) THEN 1 ELSE 0
             come == IF Pushes(arrives) THEN 1 ELSE 0
  <2>1. /\ Count' = Count - gone + come
        /\ \A i \in 1 .. Count - gone : Contents'[i] = Contents[i + gone]
        /\ Pushes(arrives) => Contents'[Count'] = next
    BY <1>2, FifoStep
  <2>2. /\ Count \in Nat
        /\ ready => Count # 0
    BY <1>2, <1>3, CountBounds, FifoAssumption
  <2>3. next' = IF Pushes(arrives) THEN Follows[next] ELSE next
    BY DEF Clk
  <2>4. gone = (IF ready THEN 1 ELSE 0)
    BY <1>5
  <2>5. come = 1 \/ come = 0
    OBVIOUS
  <2>6. (come = 1 <=> Pushes(arrives)) /\ (come = 0 <=> ~Pushes(arrives))
    OBVIOUS
  <2>7. InARow
    BY <1>1
  <2> HIDE DEF gone, come, ready
  <2>8. CASE Count' = 0
    <3>1. come = 0 /\ Count = gone
      BY <2>1, <2>2, <2>4, <2>5, <2>8
    <3>2. next' = next
      BY <2>3, <2>6, <3>1
    <3>3. next = Due'
      <4>1. CASE ready
        <5>1. Count = 1
          BY <2>4, <3>1, <4>1
        <5>2. next = Follows[Contents[1]] /\ Contents[1] = Due
          BY <2>7, <5>1 DEF InARow
        <5> QED BY <1>7, <4>1, <5>2
      <4>2. CASE ~ready
        <5>1. Count = 0
          BY <2>4, <3>1, <4>2
        <5>2. next = Due
          BY <2>7, <5>1 DEF InARow
        <5> QED BY <1>7, <4>2, <5>2
      <4> QED BY <4>1, <4>2
    <3>4. 1 .. Count' - 1 = {}
      BY <2>8
    <3> QED BY <2>8, <3>2, <3>3, <3>4 DEF InARow
  <2>9. CASE Count' # 0
    <3>1. /\ Count' \in Nat \ {0} /\ Count - gone \in Nat
          /\ gone \in {0, 1} /\ come \in {0, 1}
      BY <2>1, <2>2, <2>4, <2>5, <2>9
    <3>2. \A i \in 1 .. Count' - 1 : Contents'[i + 1] = Follows[Contents'[i]]
      <4> SUFFICES ASSUME NEW i \in 1 .. Count' - 1
                   PROVE  Contents'[i + 1] = Follows[Contents'[i]]
        OBVIOUS
      <4>1. i \in 1 .. Count - gone /\ Contents'[i] = Contents[i + gone]
        BY <2>1, <3>1
      <4>2. CASE i + 1 <= Count - gone
        <5>1. i + 1 \in 1 .. Count - gone /\ i + gone \in 1 .. Count - 1
          BY <2>2, <3>1, <4>1, <4>2
        <5>2. Contents'[i + 1] = Contents[(i + 1) + gone]
          BY <2>1, <5>1
        <5>3. Contents[(i + gone) + 1] = Follows[Contents[i + gone]]
          BY <2>7, <5>1 DEF InARow
        <5>4. (i + 1) + gone = (i + gone) + 1
          BY <3>1
        <5> QED BY <4>1, <5>2, <5>3, <5>4
      <4>3. CASE ~(i + 1 <= Count - gone)
        <5>1. come = 1 /\ i + 1 = Count' /\ i + gone = Count /\ Count # 0
          BY <2>1, <2>2, <3>1, <4>1, <4>3
        <5>2. Contents'[i + 1] = next
          BY <2>1, <2>6, <5>1
        <5>3. next = Follows[Contents[Count]]
          BY <2>7, <5>1 DEF InARow
        <5> QED BY <4>1, <5>1, <5>2, <5>3
      <4> QED BY <4>2, <4>3
    <3>3. next' = Follows[Contents'[Count']]
      <4>1. CASE come = 1
        BY <2>1, <2>3, <2>6, <4>1
      <4>2. CASE come = 0
        <5>1. /\ next' = next /\ Count' = Count - gone /\ Count # 0
              /\ Count' \in 1 .. Count - gone /\ Count' + gone = Count
          BY <2>1, <2>2, <2>3, <2>6, <3>1, <4>2
        <5>2. Contents'[Count'] = Contents[Count' + gone]
          BY <2>1, <5>1
        <5>3. next = Follows[Contents[Count]]
          BY <2>7, <5>1 DEF InARow
        <5> QED BY <5>1, <5>2, <5>3
      <4> QED BY <3>1, <4>1, <4>2
    <3>4. Contents'[1] = Due'
      <4>1. CASE Count - gone = 0
        <5>1. come = 1 /\ Count' = 1 /\ Contents'[1] = next /\ Count = gone
          BY <2>1, <2>2, <2>6, <2>9, <3>1, <4>1
        <5>2. CASE ready
          <6>1. Count = 1
            BY <2>4, <5>1, <5>2
          <6>2. next = Follows[Contents[1]] /\ Contents[1] = Due
            BY <2>7, <6>1 DEF InARow
          <6> QED BY <1>7, <5>1, <5>2, <6>2
        <5>3. CASE ~ready
          <6>1. Count = 0
            BY <2>4, <5>1, <5>3
          <6>2. next = Due
            BY <2>7, <6>1 DEF InARow
          <6> QED BY <1>7, <5>1, <5>3, <6>2
        <5> QED BY <5>2, <5>3
      <4>2. CASE Count - gone # 0
        <5>1. 1 \in 1 .. Count - gone /\ Count # 0
          BY <2>2, <3>1, <4>2
        <5>2. Contents'[1] = Contents[1 + gone] /\ Contents[1] = Due
          BY <2>1, <2>7, <5>1 DEF InARow
        <5>3. CASE ready
          <6>1. gone = 1 /\ 1 \in 1 .. Count - 1
            BY <2>2, <2>4, <3>1, <4>2, <5>3
          <6>2. Contents[1 + 1] = Follows[Contents[1]]
            BY <2>7, <6>1 DEF InARow
          <6> QED BY <1>7, <5>2, <5>3, <6>1, <6>2
        <5>4. CASE ~ready
          <6>1. 1 + gone = 1
            BY <2>4, <5>4
          <6> QED BY <1>7, <5>2, <5>4, <6>1
        <5> QED BY <5>3, <5>4
      <4> QED BY <4>1, <4>2
    <3> QED BY <2>9, <3>2, <3>3, <3>4 DEF InARow
  <2> QED BY <2>8, <2>9
<1>9. FifoLine \in r_int' => valid_o'
  <2> SUFFICES ASSUME FifoLine \in r_int' PROVE valid_o'
    OBVIOUS
  <2>1. r_int' = IntNxt(core, access, fired)
    BY DEF Clk
  <2>2. FifoLine \notin Acked(core) /\ ~ClearsFifoLine(access)
    BY <1>1, <2>1 DEF IntNxt, ClearsFifoLine, Disciplined
  <2>3. valid_o /\ ~ready
    BY <1>1, <2>1, <2>2 DEF IntNxt, s_events, LineAsks, Disciplined, s_event_fifo_ready
  <2> QED BY <1>2, <1>5, <2>3 DEF FifoClk, StateNS, valid_o
<1>10. LatchedFifo' => FifoLine \in r_int'
  <2> SUFFICES ASSUME LatchedFifo' PROVE FifoLine \in r_int'
    OBVIOUS
  <2>1. CASE Latches
    <3>1. FifoLine \in r_int \cap r_mask
      BY <2>1, OfferIsPending DEF Latches, Pending, Clk, LatchedFifo, Inv
    <3>2. Acked(core) = {}
      BY <2>1 DEF Latches, Clk, CanAct, Acked
    <3> QED BY <1>1, <3>1, <3>2 DEF Clk, IntNxt, Disciplined, ClearsFifoLine
  <2>2. CASE ~Latches
    <3>1. LatchedFifo /\ core # "ack"
      BY <2>2 DEF LatchedFifo, Clk, CoreStateNxt
    <3> QED BY <1>1, <3>1 DEF Clk, IntNxt, Acked, Disciplined, ClearsFifoLine, LineAsks, LatchedFifo
  <2> QED BY <2>1, <2>2
<1>11. unread' => r_fifo_event' = expected'
  <2>1. CASE ready
    <3>1. data_o = Contents[1]
      <4>1. 1 \in 1 .. Count /\ Pop_Pointer_CS \in 0 .. DATA_DEPTH - 1
        BY <1>2, <1>3, <2>1, CountBounds, FifoAssumption DEF FifoInv, FifoTypeOK
      <4>2. Around(Pop_Pointer_CS + 1 - 1) = Pop_Pointer_CS
        BY <4>1, FifoAssumption DEF Around
      <4> QED BY <1>2, <4>1, <4>2, ContentsAreData DEF data_o
    <3>2. Contents[1] = expected
      BY <1>1, <1>2, <1>3, <2>1, CountBounds DEF InARow, Due
    <3> QED BY <1>4, <1>5, <1>6, <2>1, <3>1, <3>2 DEF Clk
  <2>2. CASE ~ready
    BY <1>1, <1>5, <1>6, <2>2 DEF Clk, OneAtATime
  <2> QED BY <2>1, <2>2
<1>12. unread' /\ m_IE' => FifoLine \notin r_mask' /\ ~LatchedFifo'
  <2> SUFFICES ASSUME unread', m_IE' PROVE FifoLine \notin r_mask' /\ ~LatchedFifo'
    OBVIOUS
  <2>1. FifoLine \notin r_mask /\ ~LatchedFifo /\ FifoLine \notin MaskNxt(access)
    <3>1. CASE ready
      <4>1. core # "ack"
        BY DEF Clk, EnableNxt
      <4>2. ClearsFifoLine(access)
        BY <3>1, <4>1 DEF s_event_fifo_ready, Acked
      <4> QED BY <1>1, <4>2 DEF Disciplined, LatchedFifo, ClearsFifoLine, MaskNxt
    <3>2. CASE ~ready
      <4>1. unread /\ core # "enable" /\ access.reg \notin {"MASK", "MASK_SET"}
        BY <1>1, <1>6, <3>2 DEF Disciplined
      <4>2. m_IE
        BY <4>1 DEF Clk, EnableNxt, Inv, TypeOK
      <4> QED BY <1>1, <4>1, <4>2 DEF OneAtATime, MaskNxt
    <3> QED BY <3>1, <3>2
  <2>2. ~LatchedFifo'
    <3>1. Latches => core_irq_id_o # FifoLine
      BY <2>1, OfferIsPending DEF Latches, Pending, Inv
    <3> QED BY <2>1, <3>1 DEF LatchedFifo, Clk, CoreStateNxt
  <2> QED BY <2>1, <2>2 DEF Clk
<1>13. ~wrong'
  BY <1>1, <1>4 DEF Clk, Software, OneAtATime
<1> QED BY <1>8, <1>9, <1>10, <1>11, <1>12, <1>13 DEF LineAsks, OneAtATime

(***************************************************************************)
(* The theorems.                                                            *)
(***************************************************************************)
FullInvariant == Inv /\ NumberInvariant

\* The registers keep their widths, and the numbers stand in a row.
THEOREM InterruptInvariance == Spec => []FullInvariant
<1>1. Init => FullInvariant
  BY InitInv, NumbersStart DEF FullInvariant
<1>2. FullInvariant /\ [Next]_vars => FullInvariant'
  <2> SUFFICES ASSUME FullInvariant, [Next]_vars PROVE FullInvariant'
    OBVIOUS
  <2>1. ASSUME NEW fired \in SUBSET (Lines \ {FifoLine}), NEW arrives \in BOOLEAN,
               NEW access \in Writes \cup {NoAccess}, NEW core \in CoreActions,
               Clk(fired, arrives, access, core)
        PROVE  FullInvariant'
    <3>1. Inv'
      BY <2>1, ClkInv DEF FullInvariant
    <3>2. CASE clean'
      BY <2>1, <3>1, <3>2, ClkNumbers DEF FullInvariant, NumberInvariant
    <3>3. CASE ~clean'
      BY <2>1, <3>1, <3>3 DEF FullInvariant, NumberInvariant, Clk, Software
    <3> QED BY <3>2, <3>3
  <2>2. CASE UNCHANGED vars
    <3>1. Inv'
      BY <2>2 DEF FullInvariant, Inv, TypeOK, FifoTypeOK, PointersMeet, LatchedType,
         vars, fifoVars, intVars
    <3>2. Count' = Count /\ Contents' = Contents
      BY <2>2 DEF vars, fifoVars, Count, Contents
    <3>3. NumberInvariant'
      BY <2>2, <3>2 DEF FullInvariant, NumberInvariant, InARow, LineAsks, OneAtATime, Due,
         LatchedFifo, valid_o, vars, fifoVars, intVars
    <3> QED BY <3>1, <3>3 DEF FullInvariant
  <2> QED BY <2>1, <2>2 DEF Next
<1> QED BY <1>1, <1>2, PTL DEF Spec

(***************************************************************************)
(* The FIFO is a queue, for every depth, and whatever software and the core *)
(* do (generic_fifo.sv:98-258).                                             *)
(***************************************************************************)
THEOREM FifoImplementsQueue == Spec => FifoIsQueue
<1>1. Init => Queue!Init
  BY FifoStarts DEF Init, Queue!Init
<1>2. FullInvariant /\ [Next]_vars => [Queue!Next]_Contents
  <2> SUFFICES ASSUME FullInvariant, [Next]_vars PROVE [Queue!Next]_Contents
    OBVIOUS
  <2>1. ASSUME NEW fired \in SUBSET (Lines \ {FifoLine}), NEW arrives \in BOOLEAN,
               NEW access \in Writes \cup {NoAccess}, NEW core \in CoreActions,
               Clk(fired, arrives, access, core)
        PROVE  [Queue!Next]_Contents
    <3>1. /\ s_event_fifo_ready(core, access) \in BOOLEAN /\ next \in Data /\ FifoInv
          /\ FifoClk(arrives, next, s_event_fifo_ready(core, access))
      BY <2>1 DEF s_event_fifo_ready, ClearsFifoLine, FullInvariant, Inv, TypeOK, FifoInv, Clk
    <3> QED BY <3>1, FifoRefines
  <2>2. CASE UNCHANGED vars
    BY <2>2 DEF vars, fifoVars, Contents, Count
  <2> QED BY <2>1, <2>2 DEF Next
<1> QED BY <1>1, <1>2, InterruptInvariance, PTL DEF Spec, FifoIsQueue, Queue!Spec

(***************************************************************************)
(* Software that keeps to the rules reads the numbers in the order in which *)
(* they arrive, each once, for every depth, any lines and any interleaving  *)
(* of arrivals, acknowledges, polls and other accesses                      *)
(* (apb_interrupt_cntrl.sv:98, 156-176, 212).                               *)
(***************************************************************************)
THEOREM EachNumberOnce == Spec => []NumbersInOrder
<1>1. FullInvariant => NumbersInOrder
  BY DEF FullInvariant, NumberInvariant, NumbersInOrder
<1> QED BY <1>1, InterruptInvariance, PTL

(***************************************************************************)
(* A latched interrupt of the FIFO always finds a number                    *)
(* (apb_interrupt_cntrl.sv:160, 213; riscv_int_controller.sv:83-93).        *)
(***************************************************************************)
THEOREM LatchedFindsNumber == Spec => []NoPhantomNumber
<1>1. FullInvariant => NoPhantomNumber
  BY DEF FullInvariant, NumberInvariant, NoPhantomNumber, LineAsks, LatchedFifo
<1> QED BY <1>1, InterruptInvariance, PTL
=============================================================================
