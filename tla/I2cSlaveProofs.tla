--------------------------- MODULE I2cSlaveProofs ---------------------------
(***************************************************************************)
(* The result ring and the acknowledge of the I2C slave, for rings of any  *)
(* size, transactions of any length, any timeout and interrupts anywhere.  *)
(* What the task and the handler share holds until a handler runs inside   *)
(* the task's incr_buffer (cut): from there on the ring may be broken.     *)
(***************************************************************************)
EXTENDS I2cSlave, SequenceTheorems, TLAPS

-----------------------------------------------------------------------------
(* The inductive invariant.                                                *)

\* The slots a, a + 1, ... before b, around the ring.
Between(a, b, i) == IF a <= b THEN a <= i /\ i < b ELSE a <= i \/ i < b

\* Within incr_buffer the old slot is filed before the new one is opened.
Moving == {"wrap", "meet", "give", "back", "take", "point"}

OpenSlot ==
  /\ pc \notin Inside \/ pc \in {"ack", "flag", "rest"} => ptr = pos /\ ~ring[ptr].has
  /\ pc = "step" => ptr = pos /\ ring[ptr].has
  /\ pc = "blank" => ptr = pos

\* The page will find a result in every slot from where it stands to the open
\* one, however often it has been overtaken.
WaitingFiled == \A i \in Slots : Between(PageAt, Wrap(pos), i) => ring[i].has

\* Slots that may hold a result the page will not see again: the row it has just
\* copied, the result being filed, the old content of the slot to be opened.
Left ==
  CASE pc = "clear" -> {idx}
    [] pc = "step" -> {ptr}
    [] pc \in Moving \cup {"blank"} -> {Wrap(pos)}
    [] OTHER -> {}

OnlyWaitingFiled ==
  lapped \/ \A i \in Slots : ring[i].has => i \in Left \/ Between(PageAt, Wrap(pos), i)

CaughtUp ==
  /\ pc \in {"idle", "test"} /\ ~event => ref = pos
  /\ pc = "store" /\ ~event => idx = pos

\* The acknowledge of the open result is the one its register got.
OpenAck ==
  /\ (pc \notin Inside \/ pc \in {"ack", "flag"}) /\ ring[ptr].first # "none" =>
       ackState = (IF ring[ptr].first = "known" THEN ACK ELSE NACK)
  /\ pc = "ack" => held = [slot |-> ptr, ack |-> ackState]
  /\ pc = "flag" => ring[ptr].ack = ackState

FiledAck ==
  \A i \in Slots : ring[i].has /\ ring[i].first # "none" =>
    ring[i].ack = (IF ring[i].first = "known" THEN ACK ELSE NACK)

\* ack_state may be out of step with the peripheral in one direction only.
AckCache ==
  /\ ackState = ACK => hwAck = ACK
  /\ bus = "idle" => hwAck = ACK /\ fifo = <<>>

RingInv == TypeOK /\ (~cut => OpenSlot /\ WaitingFiled /\ OnlyWaitingFiled /\ CaughtUp)
RegisterInv == RingInv /\ (~cut => OpenAck /\ FiledAck)
AckInv == TypeOK /\ AckCache /\ PeripheralFollows

-----------------------------------------------------------------------------
(* Types.                                                                  *)

\* The index after a slot, wrapped, is a slot.
LEMMA WrapNext == \A i \in Slots : Wrap(i + 1) \in Slots /\ Wrap(i + 1) # i
  BY SizeAssumption DEF Slots, Wrap

LEMMA WrapSlot == \A i \in Slots : Wrap(i) = i
  BY SizeAssumption DEF Slots, Wrap

LEMMA WrapEnd == \A i \in 0 .. Size : Wrap(i) \in Slots /\ Wrap(i + 1) \in Slots
  BY SizeAssumption DEF Slots, Wrap

LEMMA EmptyResult == EmptySlot \in Result
  BY DEF EmptySlot, Result

LEMMA CloseType ==
  ASSUME made \in Nat
  PROVE  \A r \in Result, a \in {ACK, NACK} :
           [r EXCEPT !.ack = a] \in Result /\ Filed(r) \in Result
  <1> SUFFICES ASSUME NEW r \in Result, NEW a \in {ACK, NACK}
               PROVE  [r EXCEPT !.ack = a] \in Result /\ Filed(r) \in Result
    OBVIOUS
  <1>1. [r EXCEPT !.ack = a] \in Result
    BY DEF Result
  <1>2. Filed(r) \in Result
    <2>1. made + 1 \in Nat
      OBVIOUS
    <2>2. \A n \in Nat : [r EXCEPT !.has = TRUE, !.id = n] \in Result
      BY DEF Result
    <2> QED
      BY <2>1, <2>2 DEF Filed
  <1> QED
    BY <1>1, <1>2

\* What a read of the FIFO makes of the open slot and of the acknowledge.
LEMMA ReadTypes ==
  ASSUME TypeOK
  PROVE  /\ NewRegister \in Registers \cup {"none"}
         /\ AckOf(NewRegister) \in {ACK, NACK}
         /\ SlotRead \in Result
  <1>1. NewRegister \in Registers \cup {"none"}
    BY DEF TypeOK, NewRegister
  <1> QED
    BY <1>1 DEF TypeOK, AckOf, SlotRead, Registers, Result

\* The task's index and the page's leave the ring within incr_buffer only.
LEMMA Ranges ==
  ASSUME TypeOK
  PROVE  /\ pc # "wrap" => pos \in Slots
         /\ pc # "back" => ref \in Slots
         /\ Wrap(pos) \in Slots /\ Wrap(pos + 1) \in Slots
  <1>1. pos \in 0 .. Size /\ (pos = Size => pc = "wrap")
    BY DEF TypeOK
  <1>2. ref \in 0 .. Size /\ (ref = Size => pc = "back")
    BY DEF TypeOK
  <1>3. Wrap(pos) \in Slots /\ Wrap(pos + 1) \in Slots
    BY <1>1, WrapEnd
  <1> QED
    BY <1>1, <1>2, <1>3, SizeAssumption DEF Slots

\* The history of handlers inside incr_buffer.
LEMMA CutByHandler == Interrupt => cut' \in {TRUE, cut} /\ (~cut' => ~cut /\ pc \notin Inside)
  <1>1. CASE pc \in Inside
    BY <1>1, Zenon DEF Interrupt
  <1>2. CASE pc \notin Inside
    BY <1>2, Zenon DEF Interrupt
  <1> QED
    BY <1>1, <1>2

LEMMA TypeInit == Init => TypeOK
  <1> SUFFICES ASSUME Init PROVE TypeOK
    OBVIOUS
  <1>1. ring \in [Slots -> Result]
    BY EmptyResult DEF Init
  <1>2. fifo \in Seq(Registers) /\ Len(fifo) <= FifoFull
    BY BoundsAssumption, EmptySeq DEF Init
  <1>3. 0 \in Slots
    BY SizeAssumption DEF Slots
  <1> QED
    BY <1>1, <1>2, <1>3, BoundsAssumption, SizeAssumption
    DEF Init, TypeOK, Positions

\* Closing a result, also with pos or ref at the end of the ring.
LEMMA CloseTypes ==
  ASSUME TypeOK, NEW slot \in Result, NEW ack \in {ACK, NACK}, CloseResult(slot, ack)
  PROVE  /\ ring' \in [Slots -> Result]
         /\ pos' \in Slots /\ ptr' \in Slots
         /\ ref' \in 0 .. Size /\ (ref' = Size => ref = Size)
         /\ made' = made + 1 /\ made' \in Nat
  <1> PICK s \in Stored :
        LET closed == [ring EXCEPT ![ptr] = [slot EXCEPT !.ack = ack]]
            filed  == IF pos \in Slots THEN [closed EXCEPT ![pos] = Filed(@)] ELSE closed
            next   == Wrap(s[1] + 1)
        IN  /\ ring' = [filed EXCEPT ![next] = EmptySlot]
            /\ pos' = next
            /\ ptr' = next
            /\ ref' = MoveReader(s[2], next)
            /\ made' = made + 1
    BY DEF CloseResult
  <1> DEFINE closed == [ring EXCEPT ![ptr] = [slot EXCEPT !.ack = ack]]
             filed  == IF pos \in Slots THEN [closed EXCEPT ![pos] = Filed(@)] ELSE closed
             next   == Wrap(s[1] + 1)
  <1>1. /\ s[1] \in 0 .. Size /\ s[2] \in 0 .. Size
        /\ s[2] = Size => ref = Size
    BY SizeAssumption DEF Stored, TypeOK, Slots
  <1>2. next \in Slots
    BY <1>1, WrapEnd
  <1>3. ring \in [Slots -> Result] /\ made \in Nat
    BY DEF TypeOK
  <1>4. closed \in [Slots -> Result]
    BY <1>3, CloseType
  <1>5. filed \in [Slots -> Result]
    <2>1. \A i \in Slots : Filed(closed[i]) \in Result
      BY <1>3, <1>4, CloseType
    <2> HIDE DEF closed
    <2> QED
      BY <1>4, <2>1
  <1>6. ring' \in [Slots -> Result]
    <2>1. ring' = [filed EXCEPT ![next] = EmptySlot]
      OBVIOUS
    <2> HIDE DEF filed, next
    <2> QED
      BY <1>2, <1>5, <2>1, EmptyResult
  <1>7. ref' \in 0 .. Size /\ (ref' = Size => ref = Size)
    <2>1. ref' = MoveReader(s[2], next)
      OBVIOUS
    <2> HIDE DEF next
    <2> QED
      BY <1>1, <1>2, <2>1, WrapNext, SizeAssumption DEF MoveReader, Slots
  <1> QED
    BY <1>2, <1>3, <1>6, <1>7

LEMMA TypeNext == TypeOK /\ [Next]_vars => TypeOK'
  <1> SUFFICES ASSUME TypeOK, [Next]_vars PROVE TypeOK'
    OBVIOUS
  <1> USE DEF pageVars, ackVars, busVars, history
  <1>1. CASE rx_fifo_full \/ stretch
    <2>1. ring' \in [Slots -> Result] /\ ackState' \in {ACK, NACK}
      BY <1>1, ReadTypes DEF TypeOK, rx_fifo_full, stretch, analyze_rcv
    <2>2. hwAck' \in {ACK, NACK} /\ fifo' = <<>>
      BY <1>1, <2>1 DEF TypeOK, rx_fifo_full, stretch, analyze_rcv, HwAckOf
    <2>3. cut' \in BOOLEAN /\ traced' \in BOOLEAN
      BY <1>1, CutByHandler DEF TypeOK, rx_fifo_full, stretch, Interrupt
    <2>4. bus' \in {"idle", "write", "read"}
      BY <1>1 DEF TypeOK, rx_fifo_full, stretch
    <2>5. fifo' \in Seq(Registers) /\ Len(fifo') <= FifoFull
      BY <2>2, EmptySeq, BoundsAssumption
    <2> QED
      BY <1>1, <2>1, <2>2, <2>3, <2>4, <2>5 DEF TypeOK, rx_fifo_full, stretch
  <1>2. CASE stop
    <2>1. SlotRead \in Result /\ AckOf(NewRegister) \in {ACK, NACK}
      BY ReadTypes
    <2>2. /\ ring' \in [Slots -> Result] /\ pos' \in Slots /\ ptr' \in Slots
          /\ ref' \in 0 .. Size /\ (ref' = Size => ref = Size) /\ made' \in Nat
      BY <1>2, <2>1, CloseTypes DEF stop
    <2>3. hwAck' \in {ACK, NACK} /\ ackState' \in {ACK, NACK}
      BY <1>2, <2>1 DEF TypeOK, stop, HwAckOf
    <2>4. cut' \in BOOLEAN /\ traced' \in BOOLEAN
      BY <1>2, CutByHandler DEF TypeOK, stop, Interrupt
    <2>5. lapped' \in BOOLEAN
      <3>1. CASE Overtakes
        BY <1>2, <3>1, Zenon DEF stop
      <3>2. CASE ~Overtakes
        BY <1>2, <3>2 DEF stop, TypeOK
      <3> QED
        BY <3>1, <3>2
    <2>6. fifo' \in Seq(Registers) /\ Len(fifo') <= FifoFull
      BY <1>2, EmptySeq, BoundsAssumption DEF stop
    <2>7. /\ pos' \in 0 .. Size /\ (pos' = Size => pc' = "wrap")
          /\ ref' \in 0 .. Size /\ (ref' = Size => pc' = "back")
      <3>1. pc' = pc
        BY <1>2 DEF stop
      <3> QED
        BY <2>2, <3>1, SizeAssumption DEF TypeOK, Slots
    <2>8. bus' = "idle" /\ sent' \in 0 .. MaxBytes /\ event' = TRUE
      BY <1>2, BoundsAssumption DEF stop
    <2>9. UNCHANGED <<pc, count, idx, held>> /\ stopped' = TRUE
      BY <1>2 DEF stop
    <2> QED
      BY <2>2, <2>3, <2>4, <2>5, <2>6, <2>7, <2>8, <2>9 DEF TypeOK
  <1>3. CASE MasterWrites
    <2>1. PICK byte \in Registers : fifo' = Append(fifo, byte)
      BY <1>3 DEF MasterWrites
    <2>2. fifo' \in Seq(Registers) /\ Len(fifo') <= FifoFull
      BY <1>3, <2>1, BoundsAssumption, AppendProperties DEF TypeOK, MasterWrites
    <2>3. sent' \in 0 .. MaxBytes /\ bus' = "write"
      BY <1>3, BoundsAssumption DEF TypeOK, MasterWrites
    <2> QED
      BY <1>3, <2>2, <2>3 DEF TypeOK, MasterWrites
  <1>4. CASE Look
    <2>1. CASE update
      <3>1. count' \in 0 .. TickLimit
        BY <2>1, BoundsAssumption DEF TypeOK, update, Expired
      <3>2. pc = "idle" /\ pc' \in {"late", "test"}
        BY <2>1 DEF update, At
      <3> QED
        BY <2>1, <3>1, <3>2 DEF TypeOK, update, Rest, Positions
    <2>2. CASE TestEvent
      BY <2>2 DEF TypeOK, TestEvent, At, Rest, Positions
    <2>3. CASE ClearEvent
      BY <2>3 DEF TypeOK, ClearEvent, At, Rest, Positions
    <2> QED
      BY <1>4, <2>1, <2>2, <2>3 DEF Look
  <1>5. CASE incr_buffer
    <2> USE DEF TypeOK, At, Rest, Positions, Inside
    <2>0. CASE ForceLoad
      BY <2>0 DEF ForceLoad
    <2>1. CASE ForceAck
      <3>1. ring' \in [Slots -> Result]
        BY <2>1 DEF ForceAck, Result
      <3>2. held' \in [slot : Slots, ack : {ACK, NACK}]
        BY <2>1, SizeAssumption DEF ForceAck, NothingHeld, Slots
      <3> QED
        BY <2>1, <3>1, <3>2 DEF ForceAck
    <2>2. CASE ForceFlag
      BY <2>2 DEF ForceFlag, Result
    <2>3. CASE ForceStep
      <3>1. made' \in Nat /\ made' = made + 1
        BY <2>3 DEF ForceStep
      <3>2. pos \in Slots /\ pos + 1 \in 0 .. Size
        BY <2>3, Ranges, SizeAssumption DEF ForceStep, Slots
      <3>3. ring' = [ring EXCEPT ![pos].id = made']
        BY <2>3, <3>1 DEF ForceStep
      <3>4. ring' \in [Slots -> Result]
        BY <3>1, <3>2, <3>3 DEF Result
      <3> QED
        BY <2>3, <3>1, <3>2, <3>4 DEF ForceStep
    <2>4. CASE ForceWrap
      <3>1. pos' \in Slots
        BY <2>4, Ranges DEF ForceWrap
      <3> QED
        BY <2>4, <3>1, SizeAssumption DEF ForceWrap, Slots
    <2>5. CASE ForceMeet
      BY <2>5 DEF ForceMeet
    <2>6. CASE ForceGive
      <3>1. ref \in Slots
        BY <2>6, Ranges DEF ForceGive
      <3> QED
        BY <2>6, <3>1, SizeAssumption DEF ForceGive, Slots
    <2>7. CASE ForceBack
      <3>1. ref' \in Slots
        BY <2>7, WrapEnd DEF ForceBack
      <3> QED
        BY <2>7, <3>1, SizeAssumption DEF ForceBack, Slots
    <2>8. CASE ForceTake
      <3>1. pos' \in Slots
        BY <2>8, Ranges DEF ForceTake
      <3> QED
        BY <2>8, <3>1, SizeAssumption DEF ForceTake, Slots
    <2>9. CASE ForcePoint
      <3>1. pos \in Slots
        BY <2>9, Ranges DEF ForcePoint
      <3> QED
        BY <2>9, <3>1 DEF ForcePoint
    <2>10. CASE ForceBlank
      BY <2>10 DEF ForceBlank, Result
    <2>11. CASE ForceRest
      <3>1. ring' \in [Slots -> Result]
        <4> DEFINE blank(r) == [r EXCEPT !.first = "none", !.ack = ACK, !.id = 0]
        <4>1. \A r \in Result : blank(r) \in Result
          BY DEF Result
        <4>2. ring' = [ring EXCEPT ![ptr] = blank(@)] /\ ring \in [Slots -> Result]
          BY <2>11 DEF ForceRest
        <4> HIDE DEF blank
        <4> QED
          BY <4>1, <4>2
      <3> QED
        BY <2>11, <3>1 DEF ForceRest
    <2> QED
      BY <1>5, <2>0, <2>1, <2>2, <2>3, <2>4, <2>5, <2>6, <2>7, <2>8, <2>9, <2>10, <2>11
      DEF incr_buffer
  <1>6. CASE Drain
    <2> USE DEF TypeOK, At, Rest, Positions, Reading
    <2>1. CASE TakeTrace \/ Check \/ Copy
      BY <2>1 DEF TakeTrace, Check, Copy
    <2>2. CASE Fetch
      BY <2>2, Ranges DEF Fetch
    <2>3. CASE Clear
      BY <2>3, WrapNext DEF Clear, Result
    <2>4. CASE Store
      BY <2>4, SizeAssumption DEF Store, Slots
    <2> QED
      BY <1>6, <2>1, <2>2, <2>3, <2>4 DEF Drain
  <1>7. CASE UNCHANGED vars
    BY <1>7 DEF TypeOK, vars
  <1> QED
    BY <1>1, <1>2, <1>3, <1>4, <1>5, <1>6, <1>7 DEF Next, Handler, Page

\* Types and ranges of the debug protocol and of the page, wherever handlers run:
\* the page's index and the ring's leave the ring for one statement each.
THEOREM TypeCorrect == Spec => []TypeOK
  BY TypeInit, TypeNext, PTL DEF Spec

-----------------------------------------------------------------------------
(* The ring.                                                               *)

\* Moving the open slot on adds the closed one to the filed slots, and costs the
\* oldest when the page's index has to give way.
LEMMA BetweenMoved ==
  ASSUME NEW r \in Slots, NEW p \in Slots, NEW i \in Slots
  PROVE  Between(IF r = Wrap(p + 1) THEN Wrap(r + 1) ELSE r, Wrap(p + 1), i)
           <=> i = p \/ (i # Wrap(p + 1) /\ Between(r, p, i))
  <1> DEFINE n == Wrap(p + 1)
             m == Wrap(r + 1)
  <1>1. /\ Size \in Nat /\ Size > 1 /\ n \in Nat /\ m \in Nat
        /\ (p + 1 < Size /\ n = p + 1) \/ (p + 1 = Size /\ n = 0)
        /\ (r + 1 < Size /\ m = r + 1) \/ (r + 1 = Size /\ m = 0)
        /\ r \in Nat /\ p \in Nat /\ i \in Nat /\ r < Size /\ p < Size /\ i < Size
    BY SizeAssumption DEF Wrap, Slots
  <1> HIDE DEF n, m
  <1>2. CASE r = n
    <2>1. Between(m, n, i) <=> i = p \/ (i # n /\ Between(r, p, i))
      BY <1>1, <1>2 DEF Between
    <2> QED
      BY <1>2, <2>1 DEF n, m
  <1>3. CASE r # n
    <2>1. Between(r, n, i) <=> i = p \/ (i # n /\ Between(r, p, i))
      BY <1>1, <1>3 DEF Between
    <2> QED
      BY <1>3, <2>1 DEF n, m
  <1> QED
    BY <1>2, <1>3

\* A stretch begins with its first slot, and does not reach its end.
LEMMA BetweenNext ==
  ASSUME NEW a \in Slots, NEW p \in Slots, NEW i \in Slots
  PROVE  /\ a # p => (Between(a, p, i) <=> i = a \/ Between(Wrap(a + 1), p, i))
         /\ a # p => Between(a, p, a)
         /\ ~Between(Wrap(a + 1), p, a) /\ ~Between(a, p, p)
         /\ Between(p, Wrap(p + 1), i) => i = p
  BY SizeAssumption DEF Between, Wrap, Slots

LEMMA PageAtSlot ==
  ASSUME TypeOK
  PROVE  PageAt \in Slots
  BY Ranges, WrapNext, WrapEnd DEF TypeOK, PageAt, MoveReader

LEMMA RingInit == Init => RingInv
  <1> SUFFICES ASSUME Init PROVE RingInv
    OBVIOUS
  <1>1. TypeOK
    BY TypeInit
  <1>2. 0 \in Slots /\ Wrap(0) = 0
    BY SizeAssumption DEF Slots, Wrap
  <1>3. pc = "idle" /\ pos = 0 /\ ref = 0 /\ ptr = 0 /\ PageAt = 0 /\ Left = {}
    BY DEF Init, PageAt, Left, Moving
  <1>4. \A i \in Slots : ~ring[i].has
    BY DEF Init, EmptySlot
  <1>5. \A i \in Slots : ~Between(0, 0, i)
    BY DEF Between, Slots
  <1> QED
    BY <1>1, <1>2, <1>3, <1>4, <1>5
    DEF RingInv, OpenSlot, WaitingFiled, OnlyWaitingFiled, CaughtUp, Inside

\* Reading the FIFO files nothing.
LEMMA AnalyzeRing ==
  ASSUME RingInv, rx_fifo_full \/ stretch, ~cut'
  PROVE  ~cut /\ OpenSlot' /\ WaitingFiled' /\ OnlyWaitingFiled' /\ CaughtUp'
  <1>1. ~cut
    BY CutByHandler DEF rx_fifo_full, stretch
  <1>2. /\ UNCHANGED <<pos, ptr, ref, event, pc, idx, lapped>>
        /\ ring' = [ring EXCEPT ![ptr] = SlotRead]
    BY DEF rx_fifo_full, stretch, analyze_rcv, pageVars
  <1>3. \A i \in Slots : ring'[i].has = ring[i].has
    BY <1>2, ReadTypes DEF RingInv, TypeOK, SlotRead, Result
  <1>4. PageAt' = PageAt /\ ptr \in Slots /\ Left' = Left
    BY <1>2 DEF PageAt, MoveReader, Left, RingInv, TypeOK
  <1>5. OpenSlot /\ WaitingFiled /\ OnlyWaitingFiled /\ CaughtUp
    BY <1>1 DEF RingInv
  <1>6. OpenSlot' /\ CaughtUp'
    BY <1>2, <1>3, <1>4, <1>5 DEF OpenSlot, CaughtUp
  <1>7. WaitingFiled'
    BY <1>2, <1>3, <1>4, <1>5 DEF WaitingFiled
  <1>8. OnlyWaitingFiled'
    BY <1>2, <1>3, <1>4, <1>5 DEF OnlyWaitingFiled
  <1> QED
    BY <1>1, <1>6, <1>7, <1>8

\* What a STOP does to the ring, outside of incr_buffer.
LEMMA StopEffect ==
  ASSUME RingInv, stop, ~cut'
  PROVE  /\ ~cut /\ pc \notin Inside /\ UNCHANGED <<pc, count, idx>>
         /\ pos \in Slots /\ ref \in Slots /\ ptr = pos /\ ~ring[pos].has
         /\ pos' = Wrap(pos + 1) /\ ptr' = pos' /\ ref' = MoveReader(ref, pos')
         /\ pos' \in Slots /\ pos' # pos
         /\ made' = made + 1
         /\ ring'[pos'] = EmptySlot
         /\ ring'[pos].has /\ ring'[pos].id = made'
         /\ ring'[pos].first = SlotRead.first /\ ring'[pos].ack = AckOf(NewRegister)
         /\ \A i \in Slots \ {pos, pos'} : ring'[i] = ring[i]
  <1> DEFINE ack    == AckOf(NewRegister)
             shut   == [SlotRead EXCEPT !.ack = ack]
             closed == [ring EXCEPT ![ptr] = shut]
             n      == Wrap(pos + 1)
  <1>1. ~cut /\ pc \notin Inside /\ UNCHANGED <<pc, count, idx>>
    BY CutByHandler DEF stop, pageVars
  <1>2. pos \in Slots /\ ref \in Slots /\ ptr = pos /\ ~ring[pos].has /\ made \in Nat
    BY <1>1, Ranges DEF RingInv, OpenSlot, Inside, TypeOK
  <1>3. /\ ring' = [[closed EXCEPT ![pos] = Filed(@)] EXCEPT ![n] = EmptySlot]
        /\ pos' = n /\ ptr' = n /\ ref' = MoveReader(ref, n) /\ made' = made + 1
    <2>1. CloseResult(SlotRead, ack)
      BY DEF stop
    <2>2. Stored = {<<pos, ref>>}
      BY <1>2 DEF Stored
    <2>3. \E s \in {<<pos, ref>>} :
            /\ ring' = [[closed EXCEPT ![pos] = Filed(@)] EXCEPT ![Wrap(s[1] + 1)] = EmptySlot]
            /\ pos' = Wrap(s[1] + 1) /\ ptr' = Wrap(s[1] + 1)
            /\ ref' = MoveReader(s[2], Wrap(s[1] + 1)) /\ made' = made + 1
      <3> HIDE DEF ack
      <3> QED
        BY <1>2, <2>1, <2>2, Zenon DEF CloseResult
    <2>4. <<pos, ref>>[1] = pos /\ <<pos, ref>>[2] = ref
      OBVIOUS
    <2> HIDE DEF closed
    <2> QED
      BY <2>3, <2>4, Zenon
  <1>4. n \in Slots /\ n # pos
    BY <1>2, WrapNext
  <1>5. ring \in [Slots -> Result] /\ shut \in Result /\ SlotRead \in Result
    BY <1>2, ReadTypes, CloseType DEF RingInv, TypeOK
  <1>6. shut.first = SlotRead.first /\ shut.ack = ack
    BY <1>5 DEF Result
  <1> HIDE DEF shut, n, ack
  <1>7. /\ ring'[n] = EmptySlot /\ ring'[pos] = Filed(shut)
        /\ \A i \in Slots \ {pos, n} : ring'[i] = ring[i]
    <2>1. closed \in [Slots -> Result] /\ closed[pos] = shut
          /\ \A i \in Slots \ {pos} : closed[i] = ring[i]
      BY <1>2, <1>5
    <2> HIDE DEF closed
    <2>2. \A i \in Slots : Filed(closed[i]) \in Result
      BY <1>2, <2>1, CloseType
    <2> QED
      BY <1>2, <1>3, <1>4, <2>1, <2>2
  <1>8. /\ Filed(shut).has /\ Filed(shut).id = made + 1
        /\ Filed(shut).first = shut.first /\ Filed(shut).ack = shut.ack
    BY <1>5 DEF Filed, Result
  <1> QED
    BY <1>1, <1>2, <1>3, <1>4, <1>6, <1>7, <1>8 DEF n, ack

\* Where that leaves the page: as it was, moved out of the way, or overtaken.
LEMMA StopPage ==
  ASSUME RingInv, stop, ~cut'
  PROVE  \/ PageAt # pos' /\ PageAt' = PageAt /\ lapped' = lapped
         \/ PageAt = pos' /\ PageAt' = Wrap(PageAt + 1) /\ lapped' = lapped
         \/ PageAt = pos' /\ PageAt' \in {pos, pos'} /\ lapped' /\ pc \in Reading
  <1>1. /\ pc \notin Inside /\ UNCHANGED <<pc, idx>> /\ pos \in Slots
        /\ pos' = Wrap(pos + 1) /\ ref' = MoveReader(ref, pos') /\ pos' # pos
    BY StopEffect
  <1>2. Overtakes => lapped'
    BY DEF stop
  <1>3. ~Overtakes => lapped' = lapped
    BY DEF stop
  <1>4. Overtakes <=> pc \in Reading /\ PageAt = pos' /\ (pc = "copy" => idx = pos)
    BY <1>1 DEF Overtakes
  <1>5. CASE pc = "copy"
    BY <1>1, <1>2, <1>3, <1>4, <1>5 DEF PageAt, Reading
  <1>6. CASE pc \in {"check", "store", "clear"}
    BY <1>1, <1>2, <1>3, <1>4, <1>6 DEF PageAt, Reading
  <1>7. CASE pc \notin Reading
    BY <1>1, <1>2, <1>3, <1>4, <1>7 DEF PageAt, Reading, Inside, MoveReader
  <1> QED
    BY <1>5, <1>6, <1>7 DEF Reading

\* A STOP files the open slot and opens the next.
LEMMA StopRing ==
  ASSUME RingInv, stop, ~cut'
  PROVE  ~cut /\ OpenSlot' /\ WaitingFiled' /\ OnlyWaitingFiled' /\ CaughtUp'
  <1> DEFINE a == PageAt
             n == Wrap(pos + 1)
  <1>1. /\ ~cut /\ pc \notin Inside /\ UNCHANGED <<pc, idx>>
        /\ pos \in Slots /\ n \in Slots /\ n # pos
        /\ pos' = n /\ ptr' = n /\ event' = TRUE
    BY StopEffect DEF stop
  <1>2. Wrap(pos) = pos /\ Wrap(pos') = n /\ a \in Slots
    BY <1>1, WrapSlot, PageAtSlot DEF RingInv
  <1>3. \A i \in Slots : ring'[i].has <=> (i = pos \/ (i # n /\ ring[i].has))
    BY StopEffect DEF EmptySlot
  <1>4. \A i \in Slots : Between(a, pos, i) => ring[i].has
    BY <1>1, <1>2 DEF RingInv, WaitingFiled
  <1>5. OpenSlot' /\ CaughtUp'
    BY <1>1, <1>3 DEF OpenSlot, CaughtUp, Inside
  <1>6. /\ WaitingFiled' <=> \A i \in Slots : Between(PageAt', n, i) => ring'[i].has
        /\ OnlyWaitingFiled' <=>
             lapped' \/ \A i \in Slots : ring'[i].has => i \in Left' \/ Between(PageAt', n, i)
    BY <1>2 DEF WaitingFiled, OnlyWaitingFiled
  <1> HIDE DEF a, n
  <1>7. CASE PageAt' = (IF a = n THEN Wrap(a + 1) ELSE a) /\ lapped' = lapped
    <2>1. \A i \in Slots : Between(PageAt', n, i) <=> i = pos \/ (i # n /\ Between(a, pos, i))
      BY <1>1, <1>2, <1>7, BetweenMoved DEF n
    <2>2. WaitingFiled'
      BY <1>3, <1>4, <1>6, <2>1
    <2>3. Left' = Left
      BY <1>1 DEF Left, Moving, Inside
    <2>4. OnlyWaitingFiled'
      <3>1. lapped \/ \A i \in Slots : ring[i].has => i \in Left \/ Between(a, pos, i)
        BY <1>1, <1>2 DEF RingInv, OnlyWaitingFiled, a
      <3> QED
        BY <1>3, <1>6, <1>7, <2>1, <2>3, <3>1
    <2> QED
      BY <1>1, <1>5, <2>2, <2>4
  <1>8. CASE PageAt' \in {pos, n} /\ lapped'
    <2>1. \A i \in Slots : Between(PageAt', n, i) => i = pos
      BY <1>1, <1>8, BetweenNext DEF n
    <2> QED
      BY <1>1, <1>3, <1>5, <1>6, <1>8, <2>1
  <1> QED
    BY <1>1, <1>7, <1>8, StopPage DEF a, n

\* A step of the task leads on from where it stood, and no handler runs in it.
LEMMA TaskStep ==
  ASSUME RingInv, Page, ~cut'
  PROVE  /\ ~cut /\ lapped' = lapped
         /\ OpenSlot /\ WaitingFiled /\ OnlyWaitingFiled /\ CaughtUp
  <1>1. cut' = cut /\ lapped' = lapped
    BY DEF Page, Look, update, TestEvent, ClearEvent, incr_buffer, ForceLoad, ForceAck, ForceFlag,
           ForceStep, ForceWrap, ForceMeet, ForceGive, ForceBack, ForceTake, ForcePoint,
           ForceBlank, ForceRest, Drain, TakeTrace, Fetch, Check, Copy, Clear, Store,
           Rest, history
  <1> QED
    BY <1>1 DEF RingInv

\* A step that leaves the slots, what waits and what is left behind.
LEMMA RingKept ==
  ASSUME WaitingFiled, OnlyWaitingFiled, lapped' = lapped,
         PageAt' = PageAt, Wrap(pos') = Wrap(pos),
         \A i \in Slots : ring'[i].has = ring[i].has, Left \subseteq Left'
  PROVE  WaitingFiled' /\ OnlyWaitingFiled'
  <1>1. WaitingFiled'
    BY DEF WaitingFiled
  <1>2. OnlyWaitingFiled'
    BY DEF OnlyWaitingFiled
  <1> QED
    BY <1>1, <1>2

LEMMA LookRing ==
  ASSUME RingInv, Look, ~cut'
  PROVE  OpenSlot' /\ WaitingFiled' /\ OnlyWaitingFiled' /\ CaughtUp'
  <1>1. /\ UNCHANGED <<ring, pos, ptr, ref, idx>> /\ ~cut /\ lapped' = lapped
        /\ OpenSlot /\ WaitingFiled /\ OnlyWaitingFiled /\ CaughtUp
    BY TaskStep DEF Page, Look, update, TestEvent, ClearEvent
  <1>2. /\ pc \in {"idle", "test", "seen", "late"}
        /\ pc' \in {"idle", "test", "seen", "late", "trace", "force"}
    BY DEF Look, update, TestEvent, ClearEvent, At
  <1>3. PageAt' = PageAt /\ Left' = Left
    BY <1>1, <1>2 DEF PageAt, Left, Moving
  <1>4. OpenSlot'
    BY <1>1, <1>2 DEF OpenSlot, Inside
  <1>5. CaughtUp'
    <2>1. CASE update
      BY <1>1, <2>1 DEF update, At, CaughtUp, Forces
    <2>2. CASE TestEvent
      BY <1>1, <2>2 DEF TestEvent, At, CaughtUp
    <2>3. CASE ClearEvent
      BY <2>3 DEF ClearEvent, At, CaughtUp
    <2> QED
      BY <2>1, <2>2, <2>3 DEF Look
  <1> QED
    BY <1>1, <1>3, <1>4, <1>5, RingKept

LEMMA ForceRing ==
  ASSUME RingInv, incr_buffer, ~cut'
  PROVE  OpenSlot' /\ WaitingFiled' /\ OnlyWaitingFiled' /\ CaughtUp'
  <1>1. /\ ~cut /\ lapped' = lapped /\ idx' = idx /\ event' = event
        /\ OpenSlot /\ WaitingFiled /\ OnlyWaitingFiled
    BY TaskStep DEF Page, incr_buffer, ForceLoad, ForceAck, ForceFlag, ForceStep, ForceWrap, ForceMeet,
       ForceGive, ForceBack, ForceTake, ForcePoint, ForceBlank, ForceRest, Rest
  <1>2. CaughtUp'
    BY DEF CaughtUp, incr_buffer, ForceLoad, ForceAck, ForceFlag, ForceStep, ForceWrap, ForceMeet,
       ForceGive, ForceBack, ForceTake, ForcePoint, ForceBlank, ForceRest, At
  <1>3. /\ ring \in [Slots -> Result] /\ ptr \in Slots /\ idx \in Slots /\ Wrap(pos) \in Slots
        /\ pos \in 0 .. Size /\ ref \in 0 .. Size
        /\ pc # "wrap" => pos \in Slots /\ Wrap(pos) = pos
        /\ pc # "back" => ref \in Slots
    BY Ranges, WrapSlot DEF RingInv, TypeOK
  <1> USE DEF At, Left, Moving, Inside
  <1>4. CASE ForceLoad \/ ForceAck
    <2>1. /\ pc \in {"force", "ack"} /\ pc' \in {"ack", "flag"} /\ UNCHANGED <<pos, ptr, ref>>
          /\ \A i \in Slots : ring'[i].has = ring[i].has
      BY <1>3, <1>4 DEF ForceLoad, ForceAck, Result
    <2>2. OpenSlot'
      BY <1>1, <1>3, <2>1 DEF OpenSlot
    <2>3. PageAt' = PageAt
      BY <2>1 DEF PageAt
    <2> QED
      BY <1>1, <1>2, <2>1, <2>2, <2>3, RingKept
  <1>5. CASE ForceFlag
    <2>1. /\ pc = "flag" /\ pc' = "step" /\ UNCHANGED <<pos, ptr, ref>>
          /\ ptr = pos /\ pos \in Slots
          /\ ring'[pos].has /\ \A i \in Slots \ {pos} : ring'[i].has = ring[i].has
      BY <1>1, <1>3, <1>5 DEF ForceFlag, Result, OpenSlot
    <2>2. OpenSlot'
      BY <2>1 DEF OpenSlot
    <2>3. PageAt' = PageAt /\ Left' = {pos} /\ Left = {}
      BY <2>1 DEF PageAt
    <2>4. WaitingFiled'
      BY <1>1, <2>1, <2>3 DEF WaitingFiled
    <2>5. OnlyWaitingFiled'
      BY <1>1, <2>1, <2>3 DEF OnlyWaitingFiled
    <2> QED
      BY <1>2, <2>2, <2>4, <2>5
  <1>6. CASE ForceStep
    <2>1. /\ pc = "step" /\ pc' = "wrap" /\ UNCHANGED <<ptr, ref>> /\ pos' = pos + 1
          /\ ptr = pos /\ pos \in Slots /\ ref \in Slots /\ ring[pos].has /\ Wrap(pos) = pos
          /\ \A i \in Slots : ring'[i].has = ring[i].has
      BY <1>1, <1>3, <1>6 DEF ForceStep, Result, OpenSlot
    <2>2. OpenSlot'
      BY <2>1 DEF OpenSlot
    <2> DEFINE n == Wrap(pos + 1)
    <2>3. /\ PageAt = ref /\ PageAt' = (IF ref = n THEN Wrap(ref + 1) ELSE ref)
          /\ Wrap(pos') = n /\ Left' = {n} /\ Left = {pos}
      BY <2>1 DEF PageAt, MoveReader
    <2>4. \A i \in Slots : Between(PageAt', n, i) <=> i = pos \/ (i # n /\ Between(ref, pos, i))
      BY <2>1, <2>3, BetweenMoved
    <2> HIDE DEF n
    <2>5. WaitingFiled'
      BY <1>1, <2>1, <2>3, <2>4 DEF WaitingFiled
    <2>6. OnlyWaitingFiled'
      BY <1>1, <2>1, <2>3, <2>4 DEF OnlyWaitingFiled
    <2> QED
      BY <1>2, <2>2, <2>5, <2>6
  <1>7. CASE ForceWrap \/ ForceMeet \/ ForceGive \/ ForceBack \/ ForceTake
    <2>1. /\ pc \in {"wrap", "meet", "give", "back", "take"} /\ pc' \in Moving
          /\ UNCHANGED <<ring, ptr>> /\ pos' \in {pos, Wrap(pos)}
      BY <1>7 DEF ForceWrap, ForceMeet, ForceGive, ForceBack, ForceTake
    <2>2. OpenSlot'
      BY <2>1 DEF OpenSlot
    <2>3. Wrap(pos') = Wrap(pos) /\ Left' = Left
      BY <1>3, <2>1, WrapSlot
    <2>4. PageAt' = PageAt
      <3>1. CASE ForceWrap
        BY <1>3, <3>1, WrapSlot DEF ForceWrap, PageAt
      <3>2. CASE ForceMeet
        BY <1>3, <3>2 DEF ForceMeet, PageAt, MoveReader
      <3>3. CASE ForceGive \/ ForceBack
        BY <3>3 DEF ForceGive, ForceBack, PageAt
      <3>4. CASE ForceTake
        BY <3>4 DEF ForceTake, PageAt
      <3> QED
        BY <1>7, <3>1, <3>2, <3>3, <3>4
    <2> QED
      BY <1>1, <1>2, <2>1, <2>2, <2>3, <2>4, RingKept
  <1>8. CASE ForcePoint
    <2>1. /\ pc = "point" /\ pc' = "blank" /\ UNCHANGED <<ring, pos, ref>> /\ ptr' = pos
      BY <1>8 DEF ForcePoint
    <2>2. OpenSlot'
      BY <2>1 DEF OpenSlot
    <2>3. PageAt' = PageAt /\ Left' = Left
      BY <2>1 DEF PageAt
    <2> QED
      BY <1>1, <1>2, <2>1, <2>2, <2>3, RingKept
  <1>9. CASE ForceBlank
    <2>1. /\ pc = "blank" /\ pc' = "rest" /\ UNCHANGED <<pos, ptr, ref>> /\ ptr = pos
          /\ pos \in Slots /\ Wrap(pos) = pos
          /\ ~ring'[pos].has /\ \A i \in Slots \ {pos} : ring'[i].has = ring[i].has
      BY <1>1, <1>3, <1>9 DEF ForceBlank, OpenSlot, Result
    <2>2. OpenSlot'
      BY <2>1 DEF OpenSlot
    <2>3. PageAt' = PageAt /\ Left = {pos} /\ Left' = {}
      BY <2>1 DEF PageAt
    <2>4. ~Between(PageAt, pos, pos)
      BY <2>1, PageAtSlot, BetweenNext DEF RingInv
    <2>5. WaitingFiled'
      BY <1>1, <2>1, <2>3, <2>4 DEF WaitingFiled
    <2>6. OnlyWaitingFiled'
      BY <1>1, <2>1, <2>3 DEF OnlyWaitingFiled
    <2> QED
      BY <1>2, <2>2, <2>5, <2>6
  <1>10. CASE ForceRest
    <2>1. /\ pc = "rest" /\ pc' = "trace" /\ UNCHANGED <<pos, ptr, ref>>
          /\ \A i \in Slots : ring'[i].has = ring[i].has
      BY <1>3, <1>10 DEF ForceRest, Result
    <2>2. OpenSlot'
      BY <1>1, <1>3, <2>1 DEF OpenSlot
    <2>3. PageAt' = PageAt
      BY <2>1 DEF PageAt
    <2> QED
      BY <1>1, <1>2, <2>1, <2>2, <2>3, RingKept
  <1> QED
    BY <1>4, <1>5, <1>6, <1>7, <1>8, <1>9, <1>10 DEF incr_buffer

LEMMA DrainRing ==
  ASSUME RingInv, Drain, ~cut'
  PROVE  OpenSlot' /\ WaitingFiled' /\ OnlyWaitingFiled' /\ CaughtUp'
  <1>1. /\ ~cut /\ lapped' = lapped /\ event' = event
        /\ OpenSlot /\ WaitingFiled /\ OnlyWaitingFiled
    BY TaskStep DEF Page, Drain, TakeTrace, Fetch, Check, Copy, Clear, Store, Rest
  <1>2. /\ pc \in Reading \cup {"trace", "fetch"} /\ pc' \in Reading \cup {"fetch", "idle"}
        /\ pc' \notin Inside
        /\ ring \in [Slots -> Result] /\ idx \in Slots /\ pos \in Slots /\ ref \in Slots
        /\ Wrap(pos) = pos /\ ptr = pos /\ ~ring[pos].has
    BY <1>1, Ranges, WrapSlot
    DEF Drain, TakeTrace, Fetch, Check, Copy, Clear, Store, At, Reading, Inside, RingInv,
        TypeOK, OpenSlot
  <1> USE DEF At, Left, Moving, Reading
  <1>3. CASE TakeTrace \/ Fetch
    <2>1. /\ UNCHANGED <<ring, pos, ptr>> /\ pc' \in {"fetch", "check"}
          /\ PageAt' = PageAt /\ Left' = Left
      BY <1>3 DEF TakeTrace, Fetch, PageAt
    <2>2. OpenSlot' /\ CaughtUp'
      BY <1>2, <2>1 DEF OpenSlot, CaughtUp
    <2> QED
      BY <1>1, <2>1, <2>2, RingKept
  <1>4. CASE Check
    <2>1. UNCHANGED <<ring, pos, ptr, idx>> /\ pc = "check" /\ PageAt = idx
          /\ pc' = IF ring[idx].has THEN "copy" ELSE "store"
      BY <1>4 DEF Check, PageAt
    <2>2. ~ring[idx].has => idx = pos
      BY <1>1, <1>2, <2>1, BetweenNext DEF WaitingFiled
    <2>3. ring[idx].has => idx # pos
      BY <1>2
    <2>4. PageAt' = PageAt /\ Left' = Left
      BY <2>1, <2>3 DEF PageAt
    <2>5. OpenSlot' /\ CaughtUp'
      BY <1>2, <2>1, <2>2 DEF OpenSlot, CaughtUp
    <2> QED
      BY <1>1, <2>1, <2>4, <2>5, RingKept
  <1>5. CASE Copy
    <2>1. /\ UNCHANGED <<ring, pos, ptr, idx>> /\ pc = "copy" /\ pc' = "clear"
          /\ PageAt' = Wrap(idx + 1) /\ Left = {} /\ Left' = {idx}
      BY <1>5 DEF Copy, PageAt
    <2>2. OpenSlot' /\ CaughtUp'
      BY <1>2, <2>1 DEF OpenSlot, CaughtUp
    <2>3. CASE idx = pos
      <3>1. PageAt' = PageAt /\ Left \subseteq Left'
        BY <2>1, <2>3 DEF PageAt
      <3> QED
        BY <1>1, <2>1, <2>2, <3>1, RingKept
    <2>4. CASE idx # pos
      <3>1. /\ PageAt = idx
            /\ \A i \in Slots : Between(idx, pos, i) <=> i = idx \/ Between(PageAt', pos, i)
        BY <1>2, <2>1, <2>4, BetweenNext DEF PageAt
      <3>2. WaitingFiled'
        BY <1>1, <1>2, <2>1, <3>1 DEF WaitingFiled
      <3>3. OnlyWaitingFiled'
        BY <1>1, <1>2, <2>1, <3>1 DEF OnlyWaitingFiled
      <3> QED
        BY <2>2, <3>2, <3>3
    <2> QED
      BY <2>3, <2>4
  <1>6. CASE Clear
    <2>1. /\ UNCHANGED <<pos, ptr>> /\ pc = "clear" /\ pc' = "check" /\ idx' = Wrap(idx + 1)
          /\ PageAt' = PageAt /\ PageAt = Wrap(idx + 1) /\ Left = {idx}
          /\ ~ring'[idx].has /\ \A i \in Slots \ {idx} : ring'[i].has = ring[i].has
      BY <1>2, <1>6 DEF Clear, PageAt, Result
    <2>2. OpenSlot' /\ CaughtUp'
      BY <1>2, <2>1 DEF OpenSlot, CaughtUp
    <2>3. WaitingFiled'
      BY <1>1, <1>2, <2>1, BetweenNext DEF WaitingFiled
    <2>4. OnlyWaitingFiled'
      BY <1>1, <1>2, <2>1 DEF OnlyWaitingFiled
    <2> QED
      BY <2>2, <2>3, <2>4
  <1>7. CASE Store
    <2>1. UNCHANGED <<ring, pos, ptr>> /\ pc = "store" /\ pc' = "idle" /\ ref' = idx
          /\ PageAt' = PageAt /\ Left' = Left
      BY <1>7 DEF Store, PageAt
    <2>2. CaughtUp
      BY <1>1 DEF RingInv
    <2>3. OpenSlot' /\ CaughtUp'
      BY <1>1, <1>2, <2>1, <2>2 DEF OpenSlot, CaughtUp
    <2> QED
      BY <1>1, <2>1, <2>3, RingKept
  <1> QED
    BY <1>3, <1>4, <1>5, <1>6, <1>7 DEF Drain

LEMMA RingNext ==
  ASSUME RingInv, [Next]_vars
  PROVE  RingInv'
  <1>1. TypeOK'
    BY TypeNext DEF RingInv
  <1>2. ASSUME ~cut' PROVE OpenSlot' /\ WaitingFiled' /\ OnlyWaitingFiled' /\ CaughtUp'
    <2>1. CASE Handler
      BY <1>2, <2>1, AnalyzeRing, StopRing DEF Handler
    <2>2. CASE Page
      BY <1>2, <2>2, LookRing, ForceRing, DrainRing DEF Page
    <2>3. CASE MasterWrites \/ UNCHANGED vars
      <3>1. UNCHANGED <<ring, pos, ptr, ref, event, pc, idx, cut, lapped>>
        BY <2>3 DEF MasterWrites, vars, pageVars, history
      <3>2. PageAt' = PageAt /\ Left' = Left
        BY <3>1 DEF PageAt, Left
      <3> QED
        BY <1>2, <3>1, <3>2, RingKept DEF RingInv, OpenSlot, CaughtUp
    <2> QED
      BY <2>1, <2>2, <2>3 DEF Next
  <1> QED
    BY <1>1, <1>2 DEF RingInv

\* The ring between handler and task, for any size and wherever handlers run: from
\* the page's place to the open slot every slot is filed, and other slots are only
\* after a lap -- until a handler runs inside incr_buffer of the task.
THEOREM RingInvariance == Spec => []RingInv
  BY RingInit, RingNext, PTL DEF Spec

\* The page comes to the open slot whenever it takes the flag for down, and leaves
\* no result behind unless a handler has overtaken it.
THEOREM PageEmptiesRing == Spec => []NothingLeftBehind
  <1>1. RingInv => NothingLeftBehind
    <2> SUFFICES ASSUME RingInv, ~cut, pc = "idle", ~event
                 PROVE  ref = pos /\ (lapped \/ \A i \in Slots : ~ring[i].has)
      BY DEF NothingLeftBehind
    <2>1. ref = pos /\ PageAt = pos /\ Left = {} /\ pos \in Slots /\ Wrap(pos) = pos
      BY Ranges, WrapSlot DEF RingInv, CaughtUp, PageAt, Left, Moving
    <2>2. \A i \in Slots : ~Between(pos, pos, i)
      BY <2>1 DEF Between, Slots
    <2> QED
      BY <2>1, <2>2 DEF RingInv, OnlyWaitingFiled
  <1> QED
    BY <1>1, RingInvariance, PTL

\* The handler finds one open slot, not filed; the page has it in hand only when
\* every other slot has been filled since it looked.
THEOREM OpenSlotPrivate == Spec => []OpenResultIsPrivate
  <1>1. RingInv => OpenResultIsPrivate
    <2> SUFFICES ASSUME RingInv, ~cut PROVE OpenResultIsPrivate
      BY DEF OpenResultIsPrivate
    <2>1. pc \notin Inside => ptr = pos /\ ~ring[ptr].has
      BY DEF RingInv, OpenSlot
    <2>2. ASSUME pc = "copy", idx = pos, NEW i \in Slots \ {pos} PROVE ring[i].has
      <3>1. PageAt = Wrap(pos + 1) /\ pos \in Slots /\ Wrap(pos) = pos
        BY <2>2, Ranges, WrapSlot DEF PageAt, RingInv
      <3>2. Between(Wrap(pos + 1), pos, i)
        BY <3>1, SizeAssumption DEF Between, Wrap, Slots
      <3> QED
        BY <3>1, <3>2 DEF RingInv, WaitingFiled
    <2> QED
      BY <2>1, <2>2 DEF OpenResultIsPrivate
  <1> QED
    BY <1>1, RingInvariance, PTL

-----------------------------------------------------------------------------
(* The acknowledge.                                                        *)

LEMMA AckInit == Init => AckInv
  BY TypeInit DEF Init, AckInv, AckCache, PeripheralFollows, ACK, NACK

LEMMA AckNext == AckInv /\ [Next]_vars => AckInv'
  <1> SUFFICES ASSUME AckInv, [Next]_vars PROVE AckInv'
    OBVIOUS
  <1> USE DEF AckInv, AckCache, PeripheralFollows
  <1>1. TypeOK'
    BY TypeNext
  <1>2. CASE rx_fifo_full
    <2>1. fifo # <<>>
      BY <1>2, BoundsAssumption DEF rx_fifo_full
    <2> QED
      BY <1>1, <1>2, <2>1 DEF rx_fifo_full, analyze_rcv, HwAckOf
  <1>3. CASE stretch
    BY <1>1, <1>3 DEF stretch, analyze_rcv, HwAckOf
  <1>4. CASE stop
    BY <1>1, <1>4, ReadTypes DEF stop, HwAckOf, ACK, NACK
  <1>5. CASE MasterWrites
    BY <1>1, <1>5 DEF MasterWrites, ackVars, history
  <1>6. CASE Page
    <2>1. UNCHANGED <<ackVars, busVars, stopped>>
      BY <1>6 DEF Page, Look, update, TestEvent, ClearEvent, incr_buffer, ForceLoad, ForceAck, ForceFlag,
         ForceStep, ForceWrap, ForceMeet, ForceGive, ForceBack, ForceTake, ForcePoint,
         ForceBlank, ForceRest, Drain, TakeTrace, Fetch, Check, Copy, Clear, Store,
         Rest, history
    <2> QED
      BY <1>1, <2>1 DEF ackVars, busVars
  <1>7. CASE UNCHANGED vars
    BY <1>1, <1>7 DEF vars, ackVars, busVars, history
  <1> QED
    BY <1>2, <1>3, <1>4, <1>5, <1>6, <1>7 DEF Next, Handler

\* The slave acknowledges its address at every START, wherever the interrupt
\* hits the loop task.
THEOREM AddressAcknowledged == Spec => []AckAtRest
  <1>1. AckInv => AckAtRest
    BY DEF AckInv, AckCache, AckAtRest
  <1> QED
    BY <1>1, AckInit, AckNext, PTL DEF Spec

\* Once a STOP has been handled, ack_state is what the peripheral does, whatever
\* set_ack leaves out because it takes the two for equal.
THEOREM CacheIsTrue == Spec => []PeripheralFollows
  <1>1. AckInv => PeripheralFollows
    BY DEF AckInv
  <1> QED
    BY <1>1, AckInit, AckNext, PTL DEF Spec

\* The acknowledge a register byte gets.
Due(register) == IF register = "known" THEN ACK ELSE NACK

LEMMA ReadAck ==
  ASSUME TypeOK, OpenAck, pc \notin Inside
  PROVE  SlotRead.first # "none" => AckOf(NewRegister) = Due(SlotRead.first)
  <1>1. SlotRead.first = IF NewRegister = "none" THEN ring[ptr].first ELSE NewRegister
    BY DEF TypeOK, SlotRead, Result
  <1>2. NewRegister \in Registers \cup {"none"}
    BY ReadTypes
  <1> QED
    BY <1>1, <1>2 DEF AckOf, OpenAck, Due, Registers

LEMMA RegisterNext ==
  ASSUME RegisterInv, [Next]_vars
  PROVE  RegisterInv'
  <1> USE DEF Due
  <1>1. RingInv' /\ RingInv
    BY RingNext DEF RegisterInv
  <1>2. TypeOK /\ ring \in [Slots -> Result] /\ ptr \in Slots /\ idx \in Slots
    BY <1>1 DEF RingInv, TypeOK
  <1>3. ASSUME ~cut' PROVE OpenAck' /\ FiledAck'
    <2>1. CASE rx_fifo_full \/ stretch
      <3>1. /\ ~cut /\ pc \notin Inside /\ ptr' = ptr /\ pc' = pc
            /\ ring' = [ring EXCEPT ![ptr] = SlotRead] /\ ackState' = AckOf(NewRegister)
        BY <1>3, <2>1, CutByHandler DEF rx_fifo_full, stretch, analyze_rcv, pageVars
      <3>2. OpenAck /\ FiledAck /\ ~ring[ptr].has
        BY <1>1, <3>1 DEF RegisterInv, RingInv, OpenSlot
      <3>3. SlotRead.has = ring[ptr].has
        BY <1>2 DEF SlotRead, Result
      <3>4. SlotRead.first # "none" => AckOf(NewRegister) = Due(SlotRead.first)
        BY <1>2, <3>1, <3>2, ReadAck
      <3>5. OpenAck'
        BY <1>2, <3>1, <3>4 DEF OpenAck, Inside
      <3>6. FiledAck'
        BY <1>2, <3>1, <3>2, <3>3 DEF FiledAck
      <3> QED
        BY <3>5, <3>6
    <2>2. CASE stop
      <3>1. /\ ~cut /\ pc \notin Inside /\ pc' = pc /\ pos \in Slots /\ ptr' = pos'
            /\ ring'[pos'] = EmptySlot
            /\ ring'[pos].first = SlotRead.first /\ ring'[pos].ack = AckOf(NewRegister)
            /\ \A i \in Slots \ {pos, pos'} : ring'[i] = ring[i]
        BY <1>1, <1>3, <2>2, StopEffect
      <3>2. OpenAck /\ FiledAck
        BY <1>1, <3>1 DEF RegisterInv
      <3>3. SlotRead.first # "none" => AckOf(NewRegister) = Due(SlotRead.first)
        BY <1>2, <3>1, <3>2, ReadAck
      <3>4. OpenAck'
        BY <3>1 DEF OpenAck, EmptySlot, Inside
      <3>5. FiledAck'
        BY <3>1, <3>2, <3>3 DEF FiledAck, EmptySlot
      <3> QED
        BY <3>4, <3>5
    <2>3. CASE Page
      <3>1. ~cut /\ OpenAck /\ FiledAck /\ ackState' = ackState /\ OpenSlot
        <4>1. ackState' = ackState
          BY <2>3 DEF Page, Look, update, TestEvent, ClearEvent, incr_buffer, ForceLoad,
             ForceAck, ForceFlag, ForceStep, ForceWrap, ForceMeet, ForceGive, ForceBack, ForceTake,
             ForcePoint, ForceBlank, ForceRest, Drain, TakeTrace, Fetch, Check, Copy,
             Clear, Store, Rest, ackVars
        <4> QED
          BY <1>1, <1>3, <2>3, <4>1, TaskStep DEF RegisterInv
      <3> USE DEF At, Inside
      <3>2. CASE ForceAck
        <4>1. /\ pc = "ack" /\ pc' = "flag" /\ ptr' = ptr /\ ring'[ptr].ack = ackState
              /\ \A i \in Slots : ring'[i].first = ring[i].first /\ ring'[i].has = ring[i].has
              /\ \A i \in Slots \ {ptr} : ring'[i] = ring[i]
          BY <1>2, <3>1, <3>2 DEF ForceAck, Result, OpenAck
        <4>2. ~ring[ptr].has
          BY <3>1, <4>1 DEF OpenSlot
        <4> QED
          BY <1>2, <3>1, <4>1, <4>2 DEF OpenAck, FiledAck
      <3>3. CASE ForceFlag
        <4>1. /\ pc = "flag" /\ pc' = "step" /\ ptr' = ptr /\ ptr = pos
              /\ ring'[ptr].first = ring[ptr].first /\ ring'[ptr].ack = ring[ptr].ack
              /\ \A i \in Slots \ {ptr} : ring'[i] = ring[i]
          BY <1>2, <3>1, <3>3 DEF ForceFlag, Result, OpenSlot
        <4> QED
          BY <1>2, <3>1, <4>1 DEF OpenAck, FiledAck
      <3>4. CASE ForceStep \/ ForceBlank \/ ForceRest
        <4>1. /\ pc' \in {"wrap", "rest", "trace"}
              /\ pc' = "trace" => ring'[ptr'].first = "none"
          BY <1>2, <3>4 DEF ForceStep, ForceBlank, ForceRest, Result
        <4>2. \A i \in Slots : \/ ring'[i].first = "none"
                               \/ /\ ring'[i].first = ring[i].first /\ ring'[i].ack = ring[i].ack
                                  /\ ring'[i].has => ring[i].has
          BY <1>2, <3>4 DEF ForceStep, ForceBlank, ForceRest, Result
        <4>3. OpenAck'
          BY <4>1 DEF OpenAck
        <4>4. FiledAck'
          BY <3>1, <4>2 DEF FiledAck
        <4> QED
          BY <4>3, <4>4
      <3>5. CASE ForceWrap \/ ForceMeet \/ ForceGive \/ ForceBack \/ ForceTake \/ ForcePoint
        <4>1. ring' = ring /\ pc' \in {"meet", "give", "back", "take", "point", "blank"}
          BY <3>5 DEF ForceWrap, ForceMeet, ForceGive, ForceBack, ForceTake, ForcePoint
        <4> QED
          BY <3>1, <4>1 DEF OpenAck, FiledAck
      <3>6. CASE Clear
        <4>1. /\ ptr' = ptr /\ pc = "clear" /\ pc' = "check"
              /\ \A i \in Slots : /\ ring'[i].first = ring[i].first /\ ring'[i].ack = ring[i].ack
                                  /\ ring'[i].has => ring[i].has
          BY <1>2, <3>6 DEF Clear, Result
        <4> QED
          BY <1>2, <3>1, <4>1 DEF OpenAck, FiledAck
      <3>0. CASE ForceLoad
        <4>1. /\ pc = "force" /\ pc' = "ack" /\ UNCHANGED <<ring, ptr>>
              /\ held' = [slot |-> ptr, ack |-> ackState]
          BY <3>0 DEF ForceLoad
        <4> QED
          BY <3>1, <4>1 DEF OpenAck, FiledAck
      <3>7. CASE Look \/ TakeTrace \/ Fetch \/ Check \/ Copy \/ Store
        <4>1. UNCHANGED <<ring, ptr>> /\ pc \notin Inside /\ pc' \notin Inside
          BY <3>7 DEF Look, update, TestEvent, ClearEvent, TakeTrace, Fetch, Check, Copy, Store
        <4> QED
          BY <3>1, <4>1 DEF OpenAck, FiledAck
      <3> QED
        BY <2>3, <3>0, <3>2, <3>3, <3>4, <3>5, <3>6, <3>7 DEF Page, incr_buffer, Drain
    <2>4. CASE MasterWrites \/ UNCHANGED vars
      <3>1. UNCHANGED <<ring, ptr, ackState, pc, cut, held>>
        BY <2>4 DEF MasterWrites, vars, ackVars, pageVars, history
      <3> QED
        BY <1>3, <3>1 DEF RegisterInv, OpenAck, FiledAck
    <2> QED
      BY <2>1, <2>2, <2>3, <2>4 DEF Next, Handler
  <1> QED
    BY <1>1, <1>3 DEF RegisterInv

\* A result on the page shows the acknowledge the handler decided on for its
\* register; with CacheIsTrue that is what the master saw, from the first STOP on.
THEOREM ResultsShowTheirAck == Spec => []AckMatchesRegister
  <1>1. Init => RegisterInv
    <2> SUFFICES ASSUME Init PROVE RegisterInv
      OBVIOUS
    <2>1. pc = "idle" /\ ptr \in Slots /\ \A i \in Slots : ring[i].first = "none"
      BY SizeAssumption DEF Init, EmptySlot, Slots
    <2> QED
      BY <2>1, RingInit DEF RegisterInv, OpenAck, FiledAck
  <1>2. RegisterInv => AckMatchesRegister
    BY DEF RegisterInv, FiledAck, AckMatchesRegister
  <1> QED
    BY <1>1, <1>2, RegisterNext, PTL DEF Spec

-----------------------------------------------------------------------------
(* The ring is a log.                                                      *)

\* The numbers of the results in the slots of r from a to before b.
Ids(r, a, b) == [k \in 1 .. Distance(a, b) |-> r[Ahead(a, k - 1)].id]

\* A walk around the ring from a to b meets the slots between them.
LEMMA WalkBetween ==
  ASSUME NEW a \in Slots, NEW b \in Slots
  PROVE  /\ Distance(a, b) \in 0 .. Size - 1
         /\ \A k \in 1 .. Distance(a, b) :
              Ahead(a, k - 1) \in Slots /\ Between(a, b, Ahead(a, k - 1))
  BY SizeAssumption DEF Distance, Ahead, Between, Slots

LEMMA WalkToNext ==
  ASSUME NEW a \in Slots, NEW b \in Slots, Wrap(b + 1) # a
  PROVE  /\ Distance(a, Wrap(b + 1)) = Distance(a, b) + 1
         /\ Ahead(a, Distance(a, b)) = b
  BY SizeAssumption DEF Distance, Ahead, Wrap, Slots

LEMMA WalkFromNext ==
  ASSUME NEW a \in Slots, NEW b \in Slots, a # b
  PROVE  /\ Distance(a, b) = Distance(Wrap(a + 1), b) + 1
         /\ \A k \in 1 .. Distance(Wrap(a + 1), b) :
              Ahead(Wrap(a + 1), k - 1) = Ahead(a, k)
  BY SizeAssumption DEF Distance, Ahead, Wrap, Slots

LEMMA WalkAll ==
  ASSUME NEW a \in Slots, NEW b \in Slots, Wrap(b + 1) = a
  PROVE  Distance(a, b) = Size - 1 /\ a # b
  BY SizeAssumption DEF Distance, Wrap, Slots

LEMMA IdsType ==
  ASSUME NEW r \in [Slots -> Result], NEW a \in Slots, NEW b \in Slots
  PROVE  Ids(r, a, b) \in Seq(Nat) /\ Len(Ids(r, a, b)) = Distance(a, b)
  <1>1. \A k \in 1 .. Distance(a, b) : r[Ahead(a, k - 1)].id \in Nat
    BY WalkBetween DEF Result
  <1>2. Distance(a, b) \in Nat
    BY WalkBetween, SizeAssumption
  <1> QED
    BY <1>1, <1>2 DEF Ids

\* What happens outside of the walk does not matter to it.
LEMMA IdsSame ==
  ASSUME NEW r \in [Slots -> Result], NEW q \in [Slots -> Result],
         NEW a \in Slots, NEW b \in Slots,
         \A i \in Slots : Between(a, b, i) => q[i].id = r[i].id
  PROVE  Ids(q, a, b) = Ids(r, a, b)
  BY WalkBetween DEF Ids

\* The open slot, closed, comes last.
LEMMA IdsAppend ==
  ASSUME NEW r \in [Slots -> Result], NEW q \in [Slots -> Result],
         NEW a \in Slots, NEW b \in Slots, Wrap(b + 1) # a,
         \A i \in Slots : Between(a, b, i) => q[i].id = r[i].id
  PROVE  Ids(q, a, Wrap(b + 1)) = Append(Ids(r, a, b), q[b].id)
  <1> DEFINE s == Ids(r, a, b)
             t == Ids(q, a, Wrap(b + 1))
             n == Distance(a, b)
  <1>1. n \in Nat /\ s \in Seq(Nat) /\ Len(s) = n /\ q[b].id \in Nat
    BY IdsType, WalkBetween, SizeAssumption DEF Result
  <1>2. t \in Seq(Nat) /\ Len(t) = n + 1
    BY IdsType, WalkToNext, WrapNext
  <1>3. \A k \in 1 .. n : t[k] = s[k]
    BY WalkBetween, WalkToNext, SizeAssumption DEF Ids
  <1>4. t[n + 1] = q[b].id
    BY <1>1, WalkToNext DEF Ids
  <1> HIDE DEF s, t, n
  <1>5. t = Append(s, q[b].id)
    <2>1. /\ Append(s, q[b].id) \in Seq(Nat) /\ Len(Append(s, q[b].id)) = n + 1
          /\ \A k \in 1 .. n : Append(s, q[b].id)[k] = s[k]
          /\ Append(s, q[b].id)[n + 1] = q[b].id
      BY <1>1, AppendProperties
    <2>2. \A k \in 1 .. n + 1 : t[k] = Append(s, q[b].id)[k]
      <3> SUFFICES ASSUME NEW k \in 1 .. n + 1 PROVE t[k] = Append(s, q[b].id)[k]
        OBVIOUS
      <3>1. k \in 1 .. n \/ k = n + 1
        BY <1>1
      <3> QED
        BY <1>3, <1>4, <2>1, <3>1
    <2> QED
      BY <1>2, <2>1, <2>2, SeqEqual
  <1> QED
    BY <1>5 DEF s, t

\* The page moves on by one row.
LEMMA IdsTail ==
  ASSUME NEW r \in [Slots -> Result], NEW a \in Slots, NEW b \in Slots, a # b
  PROVE  Ids(r, Wrap(a + 1), b) = Tail(Ids(r, a, b)) /\ Ids(r, a, b) # <<>>
  <1> DEFINE s == Ids(r, a, b)
             t == Ids(r, Wrap(a + 1), b)
             n == Distance(Wrap(a + 1), b)
  <1>1. n \in Nat /\ t \in Seq(Nat) /\ Len(t) = n
    <2>1. Wrap(a + 1) \in Slots
      BY WrapNext
    <2>2. n \in 0 .. Size - 1
      BY <2>1, WalkBetween
    <2>3. t \in Seq(Nat) /\ Len(t) = n
      BY <2>1, IdsType
    <2> QED
      BY <2>2, <2>3, SizeAssumption
  <1>2. s \in Seq(Nat) /\ Len(s) = n + 1
    BY IdsType, WalkFromNext
  <1>3. \A k \in 1 .. n : t[k] = s[k + 1]
    BY <1>1, WalkFromNext DEF Ids
  <1> HIDE DEF s, t, n
  <1>4. s # <<>> /\ t = Tail(s)
    <2>1. s # <<>>
      BY <1>1, <1>2, EmptySeq
    <2>2. /\ Tail(s) \in Seq(Nat) /\ Len(Tail(s)) = n
          /\ \A k \in 1 .. n : Tail(s)[k] = s[k + 1]
      BY <1>1, <1>2, <2>1, HeadTailProperties
    <2> QED
      BY <1>1, <1>3, <2>1, <2>2, SeqEqual
  <1> QED
    BY <1>4 DEF s, t

LEMMA UnreadIds ==
  /\ Unread = Ids(ring, PageAt, Wrap(pos))
  /\ Unread' = Ids(ring', PageAt', Wrap(pos'))
  BY DEF Unread, Ids

\* reading is a Boolean of the page's position.
LEMMA SameReading ==
  ASSUME pc' \in Reading <=> pc \in Reading
  PROVE  UNCHANGED (pc \in Reading)
  <1>1. CASE pc \in Reading
    BY <1>1
  <1>2. CASE pc \notin Reading
    BY <1>2
  <1> QED
    BY <1>1, <1>2

\* Closing the open slot p completes a result, and costs the oldest when the
\* ring is full and the page gives way.
LEMMA CloseCompletes ==
  ASSUME TypeOK, TypeOK', NEW p \in Slots, Wrap(pos) = p, Wrap(pos') = Wrap(p + 1),
         PageAt' = IF Wrap(p + 1) = PageAt THEN Wrap(PageAt + 1) ELSE PageAt,
         \A i \in Slots \ {p, Wrap(p + 1)} : ring'[i].id = ring[i].id,
         ring'[p].id = made', made' = made + 1, pc' \in Reading <=> pc \in Reading
  PROVE  Log!Complete
  <1> DEFINE a == PageAt
             n == Wrap(p + 1)
             s == Ids(ring, a, p)
             t == Ids(ring', a, p)
  <1>1. /\ ring \in [Slots -> Result] /\ ring' \in [Slots -> Result]
        /\ a \in Slots /\ n \in Slots
    BY PageAtSlot, WrapNext DEF TypeOK
  <1>2. Unread = s /\ Unread' = Ids(ring', PageAt', n)
    BY UnreadIds
  <1>3. Len(s) = Distance(a, p) /\ Distance(a, p) \in 0 .. Size - 1
    BY <1>1, IdsType, WalkBetween
  <1>4. CASE n # a
    <2>1. \A i \in Slots : Between(a, p, i) => i # p /\ i # n
      BY <1>1, <1>4, SizeAssumption DEF Between, Slots, Wrap
    <2>2. Ids(ring', a, n) = Append(s, made')
      BY <1>1, <1>4, <2>1, IdsAppend
    <2>3. Len(s) < Size - 1
      <3>1. Distance(a, n) = Distance(a, p) + 1 /\ Distance(a, n) \in 0 .. Size - 1
        BY <1>1, <1>4, WalkToNext, WalkBetween
      <3> QED
        BY <1>3, <3>1, SizeAssumption
    <2> QED
      BY <1>2, <1>4, <2>2, <2>3, SameReading DEF Log!Complete
  <1>5. CASE n = a
    <2>1. Len(s) = Size - 1 /\ a # p
      BY <1>1, <1>3, <1>5, WalkAll
    <2> DEFINE m == Wrap(a + 1)
    <2>2. m \in Slots /\ m # a
      BY <1>1, WrapNext
    <2>3. \A i \in Slots : Between(m, p, i) => i # p /\ i # n
      BY <1>1, <1>5, <2>2, SizeAssumption DEF Between, Slots, Wrap
    <2>4. Ids(ring', m, n) = Append(Ids(ring, m, p), made')
      BY <1>1, <1>5, <2>2, <2>3, IdsAppend
    <2>5. Ids(ring, m, p) = Tail(s)
      BY <1>1, <2>1, IdsTail
    <2>6. Unread = s /\ Unread' = Append(Tail(s), made')
      BY <1>2, <1>5, <2>4, <2>5
    <2>7. ~(Len(Unread) < Size - 1)
      BY <2>1, <2>6, SizeAssumption
    <2> QED
      BY <2>6, <2>7, SameReading DEF Log!Complete
  <1> QED
    BY <1>4, <1>5

\* A step that leaves the page, the open slot and the numbers between them.
LEMMA LogStutters ==
  ASSUME TypeOK, TypeOK', PageAt' = PageAt, Wrap(pos') = Wrap(pos), made' = made,
         \A i \in Slots \ {Wrap(pos)} : ring'[i].id = ring[i].id
  PROVE  UNCHANGED <<Unread, made>>
  <1> DEFINE a == PageAt
             p == Wrap(pos)
  <1>1. /\ ring \in [Slots -> Result] /\ ring' \in [Slots -> Result]
        /\ a \in Slots /\ p \in Slots
    BY PageAtSlot, Ranges DEF TypeOK
  <1>2. \A i \in Slots : Between(a, p, i) => ring'[i].id = ring[i].id
    BY <1>1, BetweenNext
  <1>3. Ids(ring', a, p) = Ids(ring, a, p)
    BY <1>1, <1>2, IdsSame
  <1> QED
    BY <1>3, UnreadIds


LEMMA LogNext ==
  ASSUME RingInv, RingInv', [Next]_vars
  PROVE  [Log!LNext]_(Log!lvars)
  <1>1. CASE cut'
    BY <1>1 DEF Log!LNext
  <1>2. CASE ~cut'
    <2> USE <1>2 DEF At
    <2>1. TypeOK /\ TypeOK' /\ ring \in [Slots -> Result] /\ idx \in Slots /\ ptr \in Slots
      BY DEF RingInv, TypeOK
    <2>2. ASSUME ~cut, UNCHANGED <<Unread, made>>, pc' \in Reading <=> pc \in Reading
          PROVE  [Log!LNext]_(Log!lvars)
      <3>1. UNCHANGED (pc \in Reading)
        BY <2>2, SameReading
      <3>2. UNCHANGED cut
        BY <2>1, <2>2, Zenon DEF TypeOK
      <3> QED
        BY <2>2, <3>1, <3>2 DEF Log!lvars
    <2>3. CASE rx_fifo_full \/ stretch
      <3>1. /\ ring' = [ring EXCEPT ![ptr] = SlotRead] /\ SlotRead.id = ring[ptr].id
            /\ UNCHANGED <<pos, ref, made, pc, idx>> /\ ~cut
        BY <2>1, <2>3, CutByHandler
        DEF rx_fifo_full, stretch, analyze_rcv, SlotRead, Result, pageVars
      <3>2. PageAt' = PageAt /\ \A i \in Slots : ring'[i].id = ring[i].id
        BY <2>1, <3>1 DEF PageAt, MoveReader
      <3> QED
        BY <2>1, <2>2, <3>1, <3>2, LogStutters
    <2>4. CASE stop
      <3>1. /\ ~cut /\ pc' = pc /\ pos \in Slots /\ pos' \in Slots /\ pos' = Wrap(pos + 1)
            /\ pos' # pos /\ made' = made + 1 /\ ring'[pos].id = made'
            /\ \A i \in Slots \ {pos, pos'} : ring'[i].id = ring[i].id
        BY <2>4, StopEffect
      <3>2. Wrap(pos) = pos /\ Wrap(pos') = Wrap(pos + 1)
        BY <3>1, WrapSlot
      <3>3. CASE PageAt' = (IF pos' = PageAt THEN Wrap(PageAt + 1) ELSE PageAt)
        <4>1. Log!Complete
          BY <2>1, <3>1, <3>2, <3>3, CloseCompletes
        <4> QED
          BY <3>1, <4>1 DEF Log!LNext
      <3>4. CASE PageAt = pos' /\ PageAt' \in {pos, pos'} /\ pc \in Reading
        <4>1. Unread = Ids(ring, pos', pos) /\ Unread' = Ids(ring', PageAt', pos')
          BY <3>1, <3>2, <3>4, UnreadIds
        <4>2. Len(Unread) = Size - 1
          BY <2>1, <3>1, <4>1, IdsType, WalkAll
        <4>3. Unread' \in {<<>>, <<made'>>}
          <5>1. CASE PageAt' = pos'
            <6>1. Distance(pos', pos') = 0
              BY <3>1 DEF Distance, Slots
            <6> QED
              BY <4>1, <5>1, <6>1 DEF Ids
          <5>2. CASE PageAt' = pos
            <6>1. Distance(pos, pos') = 1 /\ Ahead(pos, 0) = pos
              BY <3>1, SizeAssumption DEF Distance, Ahead, Wrap, Slots
            <6>2. Unread' = [k \in 1 .. 1 |-> ring'[Ahead(pos, k - 1)].id]
              BY <4>1, <5>2, <6>1 DEF Ids
            <6>3. Unread' = <<ring'[pos].id>>
              BY <6>1, <6>2
            <6> QED
              BY <3>1, <6>3
          <5> QED
            BY <3>4, <5>1, <5>2
        <4>4. Log!Overrun
          BY <3>1, <3>4, <4>2, <4>3, SameReading DEF Log!Overrun
        <4> QED
          BY <3>1, <4>4 DEF Log!LNext
      <3> QED
        BY <2>4, <3>3, <3>4, StopPage
    <2>5. CASE Page
      <3>1. ~cut /\ OpenSlot /\ WaitingFiled
        BY <2>5, TaskStep
      <3>2. CASE ForceStep
        <4>1. /\ pc = "step" /\ pc' = "wrap" /\ pos \in Slots /\ ref \in Slots
              /\ pos' = pos + 1 /\ made' = made + 1 /\ UNCHANGED <<ref, idx>>
          BY <2>1, <3>2, Ranges DEF ForceStep
        <4>2. Wrap(pos) = pos /\ Wrap(pos') = Wrap(pos + 1)
          BY <4>1, WrapSlot
        <4>3. PageAt' = IF Wrap(pos + 1) = PageAt THEN Wrap(PageAt + 1) ELSE PageAt
          BY <4>1 DEF PageAt, MoveReader
        <4>4. ring'[pos].id = made' /\ \A i \in Slots \ {pos} : ring'[i].id = ring[i].id
          BY <2>1, <3>2, <4>1 DEF ForceStep, Result
        <4>5. pc' \in Reading <=> pc \in Reading
          BY <4>1 DEF Reading
        <4>6. Log!Complete
          BY <2>1, <4>1, <4>2, <4>3, <4>4, <4>5, CloseCompletes
        <4> QED
          BY <3>1, <4>6 DEF Log!LNext
      <3>3. CASE ForceRest
        <4>1. /\ pc = "rest" /\ pc' = "trace" /\ UNCHANGED <<pos, ref, made>>
              /\ ptr = pos /\ pos \in Slots /\ Wrap(pos) = pos
              /\ \A i \in Slots \ {pos} : ring'[i].id = ring[i].id
          BY <2>1, <3>1, <3>3, Ranges, WrapSlot DEF ForceRest, Rest, OpenSlot, Result
        <4>2. PageAt' = PageAt /\ (pc' \in Reading <=> pc \in Reading)
          BY <4>1 DEF PageAt, Reading
        <4>3. UNCHANGED <<Unread, made>>
          BY <2>1, <4>1, <4>2, LogStutters
        <4> QED
          BY <2>2, <3>1, <4>2, <4>3
      <3>4. CASE Copy /\ idx # pos
        <4>1. /\ pc = "copy" /\ pc' = "clear" /\ UNCHANGED <<ring, pos, idx, made>>
              /\ pos \in Slots /\ PageAt = idx /\ PageAt' = Wrap(idx + 1)
          BY <2>1, <3>4, Ranges DEF Copy, PageAt, Rest
        <4>2. Unread = Ids(ring, idx, pos) /\ Unread' = Ids(ring, Wrap(idx + 1), pos)
          BY <4>1, UnreadIds, WrapSlot
        <4>3. pc \in Reading /\ pc' \in Reading
          BY <4>1 DEF Reading
        <4>4. Log!Show
          BY <2>1, <3>4, <4>1, <4>2, <4>3, IdsTail, SameReading DEF Log!Show
        <4> QED
          BY <3>1, <4>4 DEF Log!LNext
      <3>5. CASE Fetch \/ Store
        <4>1. UNCHANGED <<ring, pos, made>> /\ PageAt' = PageAt /\ Wrap(pos') = Wrap(pos)
          BY <3>5 DEF Fetch, Store, PageAt, Rest
        <4>2. UNCHANGED <<Unread, made>>
          BY <2>1, <4>1, LogStutters
        <4>3. (pc' \in Reading) = ~(pc \in Reading)
          <5>1. CASE Fetch
            BY <5>1 DEF Fetch, Reading
          <5>2. CASE Store
            BY <5>2 DEF Store, Reading
          <5> QED
            BY <3>5, <5>1, <5>2
        <4>4. Log!Turn
          BY <4>2, <4>3 DEF Log!Turn
        <4> QED
          BY <3>1, <4>4 DEF Log!LNext
      <3>6. ASSUME Page, ~(ForceStep \/ ForceRest \/ (Copy /\ idx # pos) \/ Fetch \/ Store)
            PROVE  /\ UNCHANGED made /\ pos' \in {pos, Wrap(pos)} /\ PageAt' = PageAt
                   /\ pc' \in Reading <=> pc \in Reading
                   /\ \A i \in Slots : ring'[i].id = ring[i].id
        <4> USE DEF PageAt, MoveReader, Reading
        <4>1. Wrap(pos) \in Slots /\ Wrap(Wrap(pos)) = Wrap(pos)
          BY <2>1, Ranges, WrapSlot
        <4>2. CASE Look \/ TakeTrace
          BY <4>2 DEF Look, update, TestEvent, ClearEvent, TakeTrace, Rest
        <4>3. CASE ForceLoad \/ ForceAck \/ ForceFlag \/ ForceBlank
          BY <2>1, <4>3 DEF ForceLoad, ForceAck, ForceFlag, ForceBlank, Rest, Result
        <4>4. CASE ForceWrap \/ ForceTake \/ ForcePoint
          BY <4>1, <4>4 DEF ForceWrap, ForceTake, ForcePoint, Rest
        <4>5. CASE ForceMeet
          BY <2>1, <4>5, Ranges, WrapSlot DEF ForceMeet, Rest
        <4>6. CASE ForceGive \/ ForceBack
          BY <4>6 DEF ForceGive, ForceBack, Rest
        <4>7. CASE Check
          <5>1. pc = "check" /\ ptr = pos /\ ~ring[ptr].has
            BY <3>1, <4>7 DEF Check, OpenSlot, Inside
          <5> QED
            BY <4>7, <5>1 DEF Check, Rest
        <4>8. CASE Copy /\ idx = pos
          BY <4>8 DEF Copy, Rest
        <4>9. CASE Clear
          BY <2>1, <4>9 DEF Clear, Rest, Result
        <4> QED
          BY <3>6, <4>2, <4>3, <4>4, <4>5, <4>6, <4>7, <4>8, <4>9
          DEF Page, incr_buffer, Drain
      <3>7. CASE ~(ForceStep \/ ForceRest \/ (Copy /\ idx # pos) \/ Fetch \/ Store)
        <4>1. Wrap(pos') = Wrap(pos)
          BY <2>1, <2>5, <3>6, <3>7, Ranges, WrapSlot
        <4>2. UNCHANGED <<Unread, made>>
          BY <2>1, <2>5, <3>6, <3>7, <4>1, LogStutters
        <4> QED
          BY <2>2, <2>5, <3>1, <3>6, <3>7, <4>2
      <3> QED
        BY <3>2, <3>3, <3>4, <3>5, <3>7
    <2>6. CASE MasterWrites \/ UNCHANGED vars
      <3>1. UNCHANGED <<ring, pos, ref, made, pc, idx, cut>>
        BY <2>6 DEF MasterWrites, vars, pageVars, history
      <3>2. PageAt' = PageAt
        BY <3>1 DEF PageAt
      <3>3. UNCHANGED <<Unread, made>>
        BY <2>1, <3>1, <3>2, LogStutters
      <3> QED
        BY <2>2, <3>1, <3>3
    <2> QED
      BY <2>3, <2>4, <2>5, <2>6 DEF Next, Handler
  <1> QED
    BY <1>1, <1>2

\* The ring implements the log: results are shown in the order they were completed
\* and none twice; the oldest is lost when more than Size - 1 wait, and all of them
\* only when that happens while the page reads.
THEOREM RingIsALog == Spec => ImplementsLog
  <1>1. Init => Log!LInit
    <2> SUFFICES ASSUME Init PROVE Log!LInit
      OBVIOUS
    <2>1. made = 0 /\ PageAt = 0 /\ Wrap(pos) = 0 /\ 0 \in Slots /\ pc \notin Reading /\ ~cut
      BY SizeAssumption DEF Init, PageAt, Wrap, Slots, Reading
    <2>2. Unread = <<>>
      BY <2>1 DEF Unread, Distance
    <2> QED
      BY <2>1, <2>2 DEF Log!LInit
  <1> QED
    BY <1>1, RingInvariance, LogNext, PTL DEF Spec, ImplementsLog, Log!LSpec
=============================================================================
