------------------------------ MODULE I2cSlave ------------------------------
(***************************************************************************)
(* The debug protocol of the I2C slave of M5Stack_CoreS3_app: an interrupt *)
(* handler that files each transaction of the bus in a ring of results,    *)
(* and the page i2c_dump that empties the ring every 100 ms.               *)
(*                                                                         *)
(* The interrupt is allocated on the core of the loop task: a handler runs *)
(* as a whole, between any two statements of the task; nothing masks it.   *)
(* The task closes a result itself when its counter of ticks expires.      *)
(*                                                                         *)
(* Of the bytes a master writes, the first of a result is a register that  *)
(* is known (0x02) or not.  The data a master reads back is left out.      *)
(* Name_Fault is a bug that the properties have to notice in the place of  *)
(* Name.                                                                   *)
(***************************************************************************)
EXTENDS Naturals, Sequences

CONSTANTS
  Size,         \* results in the ring
  FifoFull,     \* bytes in the receive FIFO that raise its interrupt
  MaxBytes,     \* bound on the bytes of a transaction
  TickLimit,    \* ticks between two looks at the timeout
  MaxResults    \* bound on the results a STOP closes

ASSUME SizeAssumption == Size \in Nat /\ Size > 1
ASSUME BoundsAssumption ==
  /\ FifoFull \in Nat \ {0} /\ MaxBytes \in Nat /\ TickLimit \in Nat
  /\ MaxResults \in Nat

VARIABLES
  ring,      \* i2c_protocol1_result_ringbuf
  pos,       \* ..._ringbuf_pos, the index of the result being received
  ptr,       \* i2c_protocol1_result_ptr, as an index
  ref,       \* ..._ringbuf_ref_pos, the page's index
  ackState,  \* ack_state
  hwAck,     \* the acknowledge level of the peripheral
  event,     \* i2c_protocol1_event.has_update
  traced,    \* dbg_data.seq_dump_pos > 0
  bus,       \* what the master does
  sent,      \* bytes the master wrote in this transaction
  fifo,      \* receive FIFO
  pc,        \* next statement of i2c_dump::update
  count,     \* count_
  idx,       \* idx of the page's loop
  held,      \* what the task has read for the store of an acknowledge
  made,      \* results closed so far
  stopped,   \* history: a STOP has been handled
  cut,       \* history: a handler has run inside the task's incr_buffer
  lapped     \* history: a handler has overtaken the page

ackVars == <<ackState, hwAck>>
busVars == <<bus, sent, fifo>>
pageVars == <<pc, count, idx, held>>
history == <<stopped, cut, lapped>>
vars == <<ring, pos, ptr, ref, made, ackVars, event, traced, busVars, pageVars,
          history>>

Slots == 0 .. Size - 1
Registers == {"known", "other"}
ACK == 0
NACK == 1

\* i2c_protocol1_result_t; id numbers the results closed.
Result == [has: BOOLEAN, first: Registers \cup {"none"}, ack: {ACK, NACK}, id: Nat]

\* What init_buffer leaves in a slot.
EmptySlot == [has |-> FALSE, first |-> "none", ack |-> ACK, id |-> 0]

NothingHeld == [slot |-> 0, ack |-> ACK]

Wrap_FaultOffByOne(i) == IF i > Size THEN 0 ELSE i

\* if (size <= i) i = 0
Wrap(i) == IF i >= Size THEN 0 ELSE i

-----------------------------------------------------------------------------
(* Positions of the task in update, named for the statement to come.       *)

\* In incr_buffer and the init_buffer it calls, once it has read anything.
Inside == {"ack", "flag", "step", "wrap", "meet", "give", "back", "take", "point",
           "blank", "rest"}

\* In the page's loop, with its own copy idx of ref.
Reading == {"check", "copy", "clear", "store"}

Positions == {"idle", "test", "seen", "late", "force", "trace", "fetch"}
               \cup Inside \cup Reading

-----------------------------------------------------------------------------
(* The interrupt handler.  Between two interrupts of a byte-wise bus there *)
(* is time for one, so each event of the bus carries its handler's run.    *)

Interrupt ==
  /\ traced' = TRUE
  /\ cut' = IF pc \in Inside THEN TRUE ELSE cut

\* The first byte of a result that has none yet is its register.
NewRegister ==
  IF ring[ptr].first = "none" /\ fifo # <<>> THEN Head(fifo) ELSE "none"

SlotRead ==
  [ring[ptr] EXCEPT !.first = IF NewRegister = "none" THEN @ ELSE NewRegister]

AckOf_FaultKnownKeeps(register) == IF register = "other" THEN NACK ELSE ackState

AckOf(register) ==
  CASE register = "known" -> ACK [] register = "other" -> NACK
    [] register = "none" -> ackState

HwAckOf_FaultOnlyNack(ack, cached, level) == IF ack = NACK THEN ack ELSE level
HwAckOf_FaultOnlyAck(ack, cached, level) == IF ack = ACK THEN ack ELSE level

\* set_ack: the peripheral is told only when ack differs from ack_state.
HwAckOf(ack, cached, level) == IF ack # cached THEN ack ELSE level

analyze_rcv ==
  /\ ring' = [ring EXCEPT ![ptr] = SlotRead]
  /\ ackState' = AckOf(NewRegister)
  /\ hwAck' = HwAckOf(ackState', ackState, hwAck)
  /\ fifo' = <<>>

rx_fifo_full ==
  /\ Interrupt
  /\ Len(fifo) >= FifoFull
  /\ analyze_rcv
  /\ UNCHANGED <<pos, ptr, ref, made, event, bus, sent, pageVars, stopped, lapped>>

\* The master addresses the slave for reading: the clock is stretched until
\* the handler has read the FIFO.
stretch ==
  /\ Interrupt
  /\ bus \in {"idle", "write"}
  /\ bus' = "read"
  /\ analyze_rcv
  /\ UNCHANGED <<pos, ptr, ref, made, event, sent, pageVars, stopped, lapped>>

MoveReader_FaultStays(r, p) == r

\* The page's index r moves on when the new position p meets it.
MoveReader(r, p) == IF r = p THEN Wrap(r + 1) ELSE r

\* pos and ref once has_result is stored at pos: as they were, unless pos is past
\* the end of the ring and the byte hits one of the variables that follow it.
Stored == IF pos \in Slots THEN {<<pos, ref>>} ELSE {<<pos, ref>>, <<1, ref>>, <<pos, 1>>}

Filed(slot) == [slot EXCEPT !.has = TRUE, !.id = made + 1]

\* incr_buffer: close the result with acknowledge ack and move on.
CloseResult(slot, ack) ==
  \E s \in Stored :
    LET closed == [ring EXCEPT ![ptr] = [slot EXCEPT !.ack = ack]]
        filed  == IF pos \in Slots THEN [closed EXCEPT ![pos] = Filed(@)] ELSE closed
        next   == Wrap(s[1] + 1)
    IN  /\ ring' = [filed EXCEPT ![next] = EmptySlot]
        /\ pos' = next
        /\ ptr' = next
        /\ ref' = MoveReader(s[2], next)
        /\ made' = made + 1

\* The slot the page copies next, if it holds a result then.  A row that has
\* become the open slot between the check and the copy is no result any more.
PageAt == CASE pc \in {"check", "store"} -> idx
            [] pc = "copy" -> IF idx = pos THEN Wrap(idx + 1) ELSE idx
            [] pc = "clear" -> Wrap(idx + 1)
            [] pc \in {"wrap", "meet"} -> MoveReader(ref, Wrap(pos))
            [] pc \in {"give", "back"} -> IF pc = "give" THEN Wrap(ref + 1) ELSE Wrap(ref)
            [] OTHER -> ref

\* The handler makes room by moving ref.  A page that is reading goes by its own
\* copy of it, and finds the open slot where it expected the oldest result.
Overtakes == pc \in Reading /\ Wrap(pos + 1) = PageAt /\ (pc = "copy" => idx = pos)

stop ==
  /\ Interrupt
  /\ made < MaxResults
  /\ bus \in {"write", "read"}
  /\ bus' = "idle" /\ sent' = 0 /\ fifo' = <<>>
  /\ CloseResult(SlotRead, AckOf(NewRegister))
  /\ event' = TRUE
  /\ ackState' = ACK
  /\ hwAck' = HwAckOf(ACK, AckOf(NewRegister), HwAckOf(AckOf(NewRegister), ackState, hwAck))
  /\ stopped' = TRUE
  /\ lapped' = IF Overtakes THEN TRUE ELSE lapped
  /\ UNCHANGED pageVars

-----------------------------------------------------------------------------
(* The master: it begins a write and goes on while it is acknowledged.     *)

MasterWrites ==
  /\ bus \in {"idle", "write"}
  /\ Len(fifo) < FifoFull
  /\ sent < MaxBytes
  /\ hwAck = ACK
  /\ bus' = "write"
  /\ sent' = sent + 1
  /\ \E byte \in Registers : fifo' = Append(fifo, byte)
  /\ UNCHANGED <<ring, pos, ptr, ref, made, ackVars, event, traced, pageVars, history>>

-----------------------------------------------------------------------------
(* i2c_dump::update on the loop task, called every 100 ms, statement by    *)
(* statement: what precedes one may be the handler's work.                 *)

\* The statement at l leads on to m.
At(l, m) == pc = l /\ pc' = m
Rest == UNCHANGED <<made, ackVars, traced, busVars, history>>

Expired == count = TickLimit
Forces == Expired /\ traced

update ==
  /\ At("idle", IF Forces THEN "late" ELSE "test")
  /\ count' = IF Expired THEN 0 ELSE count + 1
  /\ Rest /\ UNCHANGED <<ring, pos, ptr, ref, event, idx, held>>

TestEvent ==
  /\ At("test", IF event THEN "seen" ELSE "idle")
  /\ Rest /\ UNCHANGED <<ring, pos, ptr, ref, event, count, idx, held>>

ClearEvent ==
  /\ At("seen", "trace") \/ At("late", "force")
  /\ event' = FALSE
  /\ Rest /\ UNCHANGED <<ring, pos, ptr, ref, count, idx, held>>

\* incr_buffer called by the task.  Its first statement reads the pointer and the
\* acknowledge, and stores when a handler may have changed both.
ForceLoad ==
  /\ At("force", "ack")
  /\ held' = [slot |-> ptr, ack |-> ackState]
  /\ Rest /\ UNCHANGED <<ring, pos, ptr, ref, event, count, idx>>

ForceAck ==
  /\ At("ack", "flag")
  /\ ring' = [ring EXCEPT ![held.slot].ack = held.ack]
  /\ held' = NothingHeld
  /\ Rest /\ UNCHANGED <<pos, ptr, ref, event, count, idx>>

ForceFlag ==
  /\ At("flag", "step")
  /\ ring' = [ring EXCEPT ![pos].has = TRUE]
  /\ Rest /\ UNCHANGED <<pos, ptr, ref, event, count, idx, held>>

\* The result counts as closed when pos has moved on from it.
ForceStep ==
  /\ At("step", "wrap")
  /\ pos' = pos + 1
  /\ ring' = [ring EXCEPT ![pos].id = made + 1]
  /\ made' = made + 1
  /\ UNCHANGED <<ptr, ref, ackVars, event, traced, busVars, count, idx, held, history>>

ForceWrap ==
  /\ At("wrap", "meet")
  /\ pos' = Wrap(pos)
  /\ Rest /\ UNCHANGED <<ring, ptr, ref, event, count, idx, held>>

ForceMeet ==
  /\ At("meet", IF ref = pos THEN "give" ELSE "take")
  /\ Rest /\ UNCHANGED <<ring, pos, ptr, ref, event, count, idx, held>>

ForceGive ==
  /\ At("give", "back")
  /\ ref' = ref + 1
  /\ Rest /\ UNCHANGED <<ring, pos, ptr, event, count, idx, held>>

ForceBack ==
  /\ At("back", "take")
  /\ ref' = Wrap(ref)
  /\ Rest /\ UNCHANGED <<ring, pos, ptr, event, count, idx, held>>

\* init_buffer, with the position it was called with.
ForceTake ==
  /\ At("take", "point")
  /\ pos' = Wrap(pos)
  /\ Rest /\ UNCHANGED <<ring, ptr, ref, event, count, idx, held>>

ForcePoint_FaultKeepsPointer ==
  /\ At("point", "blank")
  /\ Rest /\ UNCHANGED <<ring, pos, ptr, ref, event, count, idx, held>>

ForcePoint ==
  /\ At("point", "blank")
  /\ ptr' = pos
  /\ Rest /\ UNCHANGED <<ring, pos, ref, event, count, idx, held>>

ForceBlank ==
  /\ At("blank", "rest")
  /\ ring' = [ring EXCEPT ![ptr].has = FALSE]
  /\ Rest /\ UNCHANGED <<pos, ptr, ref, event, count, idx, held>>

ForceRest ==
  /\ At("rest", "trace")
  /\ ring' = [ring EXCEPT ![ptr].first = "none", ![ptr].ack = ACK, ![ptr].id = 0]
  /\ Rest /\ UNCHANGED <<pos, ptr, ref, event, count, idx, held>>

\* The rest of update: the trace, then the page's loop over the results.
TakeTrace ==
  /\ At("trace", "fetch")
  /\ traced' = FALSE
  /\ UNCHANGED <<ring, pos, ptr, ref, made, ackVars, event, busVars, count, idx, held, history>>

Fetch_FaultFromStart ==
  /\ At("fetch", "check")
  /\ idx' = 0
  /\ Rest /\ UNCHANGED <<ring, pos, ptr, ref, event, count, held>>

Fetch ==
  /\ At("fetch", "check")
  /\ idx' = ref
  /\ Rest /\ UNCHANGED <<ring, pos, ptr, ref, event, count, held>>

Check ==
  /\ At("check", IF ring[idx].has THEN "copy" ELSE "store")
  /\ Rest /\ UNCHANGED <<ring, pos, ptr, ref, event, count, idx, held>>

Copy ==
  /\ At("copy", "clear")
  /\ Rest /\ UNCHANGED <<ring, pos, ptr, ref, event, count, idx, held>>

Clear_FaultSameRow ==
  /\ At("clear", "check")
  /\ ring' = [ring EXCEPT ![idx].has = FALSE]
  /\ Rest /\ UNCHANGED <<pos, ptr, ref, event, count, idx, held>>

\* idx is the task's own, so that its step needs no position of its own.
Clear ==
  /\ At("clear", "check")
  /\ ring' = [ring EXCEPT ![idx].has = FALSE]
  /\ idx' = Wrap(idx + 1)
  /\ Rest /\ UNCHANGED <<pos, ptr, ref, event, count, held>>

Store ==
  /\ At("store", "idle")
  /\ ref' = idx
  /\ Rest /\ UNCHANGED <<ring, pos, ptr, event, count, idx, held>>

-----------------------------------------------------------------------------
(* app_init: i2c_slave_protocol1_init, then the driver is begun.            *)

Init ==
  /\ ring = [i \in Slots |-> EmptySlot]
  /\ pos = 0 /\ ptr = 0 /\ ref = 0 /\ made = 0
  /\ ackState = NACK /\ hwAck = ACK
  /\ event = FALSE /\ traced = FALSE
  /\ bus = "idle" /\ sent = 0 /\ fifo = <<>>
  /\ pc = "idle" /\ count = 0 /\ idx = 0 /\ held = NothingHeld
  /\ stopped = FALSE /\ cut = FALSE /\ lapped = FALSE

Handler == rx_fifo_full \/ stretch \/ stop
Look == update \/ TestEvent \/ ClearEvent
incr_buffer ==
  \/ ForceLoad \/ ForceAck \/ ForceFlag \/ ForceStep \/ ForceWrap \/ ForceMeet \/ ForceGive
  \/ ForceBack \/ ForceTake \/ ForcePoint \/ ForceBlank \/ ForceRest
Drain == TakeTrace \/ Fetch \/ Check \/ Copy \/ Clear \/ Store
Page == Look \/ incr_buffer \/ Drain

Next == Handler \/ MasterWrites \/ Page

Spec == Init /\ [][Next]_vars
FairSpec == Spec /\ WF_vars(Page)

-----------------------------------------------------------------------------
(* Properties.                                                             *)

\* Types and ranges; pos and ref leave the ring for one statement each of the
\* task's incr_buffer, also when a handler runs there.
TypeOK ==
  /\ ring \in [Slots -> Result]
  /\ pos \in 0 .. Size /\ (pos = Size => pc = "wrap")
  /\ ref \in 0 .. Size /\ (ref = Size => pc = "back")
  /\ ptr \in Slots /\ idx \in Slots /\ held \in [slot : Slots, ack : {ACK, NACK}]
  /\ made \in Nat
  /\ ackState \in {ACK, NACK} /\ hwAck \in {ACK, NACK}
  /\ event \in BOOLEAN /\ traced \in BOOLEAN
  /\ bus \in {"idle", "write", "read"} /\ sent \in 0 .. MaxBytes
  /\ fifo \in Seq(Registers) /\ Len(fifo) <= FifoFull
  /\ pc \in Positions
  /\ count \in 0 .. TickLimit
  /\ stopped \in BOOLEAN /\ cut \in BOOLEAN /\ lapped \in BOOLEAN

\* The flag has_update is cleared before the ring is read.  Still, when it is down
\* and the page is done, its index has come to the open slot: no result waits for
\* a tick that will not look.  Slots that hold a result are left behind only by a
\* handler that has overtaken the page.
NothingLeftBehind ==
  ~cut /\ pc = "idle" /\ ~event =>
    ref = pos /\ (lapped \/ \A i \in Slots : ~ring[i].has)

\* Outside of the task's incr_buffer the handler finds one open slot, not filed;
\* and that slot is not the row that the page is about to copy -- unless results
\* have filled every other slot since the page looked at the row.
OpenResultIsPrivate ==
  ~cut =>
    /\ pc \notin Inside => ptr = pos /\ ~ring[ptr].has
    /\ pc = "copy" /\ idx = pos => \A i \in Slots \ {pos} : ring[i].has

\* A filed result shows the acknowledge that the handler decided on for its
\* register, also when a timeout has split the transaction or the FIFO was read
\* in pieces.  (What the peripheral was told of it: see PeripheralFollows.)
AckMatchesRegister ==
  ~cut => \A i \in Slots : ring[i].has /\ ring[i].first # "none" =>
            ring[i].ack = (IF ring[i].first = "known" THEN ACK ELSE NACK)

\* Between transactions the slave acknowledges its address, although ack_state
\* does not start as what the peripheral starts with.
AckAtRest == bus = "idle" => hwAck = ACK

\* From the first STOP on the peripheral acknowledges as ack_state says.  Before
\* it, it may not: ack_state starts as NACK, the peripheral as ACK, and set_ack
\* tells it nothing when the first register is unknown (dbg_protocol.cpp:23, 159).
PeripheralFollows == stopped => hwAck = ackState

\* Steps round the ring: k from slot a, and from slot a to slot b.
Ahead(a, k) == IF a + k < Size THEN a + k ELSE a + k - Size
Distance(a, b) == IF a <= b THEN b - a ELSE b + Size - a

\* The unread results, from where the page stands to the open slot.
Unread ==
  [k \in 1 .. Distance(PageAt, Wrap(pos)) |-> ring[Ahead(PageAt, k - 1)].id]

\* The ring is a log: what the interrupt and the page do to it in turns never
\* reorders or repeats a result.  It loses the oldest when it is full, and, when it
\* fills up under a page that is reading, all that wait.
Log == INSTANCE ResultLog
         WITH Capacity <- Size - 1, waiting <- Unread, reading <- pc \in Reading,
              broken <- cut
ImplementsLog == Log!LSpec

\* When the bus falls silent, the page catches up: every result that waits is
\* shown, and the flag is down.
PageCatchesUp ==
  <>[][~Handler]_vars => <>[](cut \/ (~event /\ Unread = <<>>))

\* dbg_protocol.h:77-78: pos is the index of the buffer the control refers to,
\* ptr the pointer to it.  Both have to name one slot when the handler starts.
HandlerFindsItsSlot == [][Handler => ptr = pos]_vars
=============================================================================
