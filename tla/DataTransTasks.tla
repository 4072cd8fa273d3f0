--------------------------- MODULE DataTransTasks ---------------------------
(***************************************************************************)
(* The data_trans service on its two tasks.  The BLE task runs onWrite,    *)
(* the loop task runs polling and then get_event, as check_event of        *)
(* main.cpp does (lines 187-188; the GUI's loop has polling alone, app.cpp *)
(* line 31), and nothing locks the fields that the tasks share: dt_state_, *)
(* event, timeout_timer.                                                   *)
(* A step here is one access to a shared field; `event |= x` and           *)
(* `timeout_timer += cycle_ms` are a load into a register and a store.     *)
(*                                                                         *)
(* The checks of a packet, which only touch fields of the BLE task, are in *)
(* DataTrans; here a packet is good or bad and a file is Pages contents.   *)
(*                                                                         *)
(* A definition Name_Fault is not the program's: it is a bug that the      *)
(* properties have to notice when it takes the place of Name.              *)
(***************************************************************************)
EXTENDS Naturals

CONSTANTS
  Pages,         \* contents that complete a file
  TimeoutLimit   \* timeout_limit, in cycles of the loop

ASSUME PagesAssumption == Pages \in Nat \ {0}
ASSUME LimitAssumption == TimeoutLimit \in Nat

VARIABLES
  dt_state_, event, timeout_timer,  \* shared by the tasks
  recv_page,                        \* contents accepted, BLE task only
  ble,                              \* BLE task: next access, verdict, register
  loop,                             \* loop task: next access and registers
  completed \* completion raised by the BLE task and not yet seen by get_event

svcVars == <<dt_state_, event, timeout_timer, recv_page>>
vars == <<svcVars, ble, loop, completed>>

Flags == {"DataRecvStart", "DataRecving", "DataRecvSuccess",
          "DataRecvFailed", "DataRecvTimeout"}

-----------------------------------------------------------------------------
(* The BLE task.                                                           *)

BleAt(pc) == ble.pc = pc
BleGoto(pc) == ble' = [ble EXCEPT !.pc = pc]
BleKeeps == UNCHANGED loop

\* onWrite: reset_timeout() comes before the packet is looked at.
onWrite ==
  /\ BleAt("idle")
  /\ timeout_timer' = 0
  /\ BleGoto("analyze")
  /\ UNCHANGED <<dt_state_, event, recv_page, loop, completed>>

\* analyze_rx reads dt_state_ once; from there the packet's fate is decided by
\* fields of this task.  An accepted content is counted before its event.
Verdict(flag) == ble' = [ble EXCEPT !.pc = "load", !.flag = flag]

analyze_rx ==
  /\ BleAt("analyze")
  /\ \/ Verdict("DataRecvFailed") /\ UNCHANGED recv_page
     \/ dt_state_ = "Init" /\ Verdict("DataRecvStart") /\ UNCHANGED recv_page
     \/ /\ dt_state_ = "DataRecving"
        /\ recv_page' = recv_page + 1
        /\ Verdict(IF recv_page + 1 = Pages THEN "DataRecvSuccess"
                                            ELSE "DataRecving")
  /\ UNCHANGED <<dt_state_, event, timeout_timer, completed>>
  /\ BleKeeps

BleLoadEvent ==
  /\ BleAt("load")
  /\ ble' = [ble EXCEPT !.pc = "store", !.reg = event]
  /\ UNCHANGED <<svcVars, completed>>
  /\ BleKeeps

BleStoreEvent ==
  /\ BleAt("store")
  /\ event' = ble.reg \cup {ble.flag}
  /\ completed' = (completed \/ ble.flag = "DataRecvSuccess")
  /\ BleGoto(CASE ble.flag = "DataRecvStart" -> "start"
               [] ble.flag = "DataRecving" -> "idle"
               [] OTHER -> "init")
  /\ UNCHANGED <<dt_state_, timeout_timer, recv_page>>
  /\ BleKeeps

BleStart ==
  /\ BleAt("start")
  /\ dt_state_' = "DataRecving"
  /\ recv_page' = 0
  /\ BleGoto("idle")
  /\ UNCHANGED <<event, timeout_timer, completed>>
  /\ BleKeeps

\* Only the timer is reset.
BleInitState_FaultStays ==
  /\ BleAt("init")
  /\ BleGoto("reset")
  /\ UNCHANGED <<dt_state_, event, timeout_timer, recv_page, completed>>
  /\ BleKeeps

\* init_state(): the state first, then the timer.
BleInitState ==
  /\ BleAt("init")
  /\ dt_state_' = "Init"
  /\ BleGoto("reset")
  /\ UNCHANGED <<event, timeout_timer, recv_page, completed>>
  /\ BleKeeps

BleResetTimeout ==
  /\ BleAt("reset")
  /\ timeout_timer' = 0
  /\ BleGoto("idle")
  /\ UNCHANGED <<dt_state_, event, recv_page, completed>>
  /\ BleKeeps

-----------------------------------------------------------------------------
(* The loop task.                                                          *)

LoopAt(pc) == loop.pc = pc
LoopGoto(pc) == loop' = [loop EXCEPT !.pc = pc]
LoopKeeps == UNCHANGED <<recv_page, ble>>

\* A cycle begins: polling only times a transfer in progress.
polling ==
  /\ LoopAt("idle")
  /\ LoopGoto(IF dt_state_ = "Init" THEN "get" ELSE "timer")
  /\ UNCHANGED <<dt_state_, event, timeout_timer, completed>>
  /\ LoopKeeps

LoopLoadTimer ==
  /\ LoopAt("timer")
  /\ loop' = [loop EXCEPT !.pc = "add", !.timer = timeout_timer]
  /\ UNCHANGED <<dt_state_, event, timeout_timer, completed>>
  /\ LoopKeeps

LoopAddCycle ==
  /\ LoopAt("add")
  /\ timeout_timer' = loop.timer + 1
  /\ LoopGoto(IF loop.timer + 1 > TimeoutLimit THEN "load" ELSE "get")
  /\ UNCHANGED <<dt_state_, event, completed>>
  /\ LoopKeeps

LoopLoadEvent ==
  /\ LoopAt("load")
  /\ loop' = [loop EXCEPT !.pc = "store", !.reg = event]
  /\ UNCHANGED <<dt_state_, event, timeout_timer, completed>>
  /\ LoopKeeps

LoopStoreEvent ==
  /\ LoopAt("store")
  /\ event' = loop.reg \cup {"DataRecvTimeout"}
  /\ LoopGoto("init")
  /\ UNCHANGED <<dt_state_, timeout_timer, completed>>
  /\ LoopKeeps

\* Only the timer is reset.
LoopInitState_FaultStays ==
  /\ LoopAt("init")
  /\ LoopGoto("reset")
  /\ UNCHANGED <<dt_state_, event, timeout_timer, completed>>
  /\ LoopKeeps

LoopInitState ==
  /\ LoopAt("init")
  /\ dt_state_' = "Init"
  /\ LoopGoto("reset")
  /\ UNCHANGED <<event, timeout_timer, completed>>
  /\ LoopKeeps

LoopResetTimeout ==
  /\ LoopAt("reset")
  /\ timeout_timer' = 0
  /\ LoopGoto("get")
  /\ UNCHANGED <<dt_state_, event, completed>>
  /\ LoopKeeps

\* get_event: the result is read, then the word is cleared.
get_event ==
  /\ LoopAt("get")
  /\ loop' = [loop EXCEPT !.pc = "clear", !.reg = event]
  /\ completed' = (completed /\ "DataRecvSuccess" \notin event)
  /\ UNCHANGED <<dt_state_, event, timeout_timer>>
  /\ LoopKeeps

LoopClearEvent ==
  /\ LoopAt("clear")
  /\ event' = {}
  /\ LoopGoto("idle")
  /\ UNCHANGED <<dt_state_, timeout_timer, completed>>
  /\ LoopKeeps

-----------------------------------------------------------------------------
Init ==
  /\ dt_state_ = "Init"
  /\ event = {}
  /\ timeout_timer = 0
  /\ recv_page = 0
  /\ ble = [pc |-> "idle", flag |-> "DataRecvFailed", reg |-> {}]
  /\ loop = [pc |-> "idle", timer |-> 0, reg |-> {}]
  /\ completed = FALSE

BleHandler ==
  \/ analyze_rx \/ BleLoadEvent \/ BleStoreEvent
  \/ BleStart \/ BleInitState \/ BleResetTimeout

LoopTask ==
  \/ polling \/ LoopLoadTimer \/ LoopAddCycle
  \/ LoopLoadEvent \/ LoopStoreEvent \/ LoopInitState \/ LoopResetTimeout
  \/ get_event \/ LoopClearEvent

Next == onWrite \/ BleHandler \/ LoopTask

Spec == Init /\ [][Next]_vars

\* Both tasks are scheduled for ever; whether a client writes is its own affair.
FairSpec == Spec /\ WF_vars(BleHandler) /\ WF_vars(LoopTask)

-----------------------------------------------------------------------------
(* Properties.                                                             *)

TypeOK ==
  /\ dt_state_ \in {"Init", "DataRecving"}
  /\ event \subseteq Flags
  /\ timeout_timer \in 0 .. TimeoutLimit + 1
  /\ recv_page \in 0 .. Pages
  /\ ble \in [pc: {"idle", "analyze", "load", "store", "start", "init",
                   "reset"},
              flag: Flags, reg: SUBSET Flags]
  /\ loop \in [pc: {"idle", "timer", "add", "load", "store", "init", "reset",
                    "get", "clear"},
               timer: 0 .. TimeoutLimit, reg: SUBSET Flags]
  /\ completed \in BOOLEAN

\* However a timeout on the loop task cuts into a write on the BLE task, a
\* transfer that the loop still sees in progress misses contents, except while
\* onWrite is between counting the last one and init_state(): a finished file
\* is never resumed and a transfer that timed out is not revived.
InProgressMisses ==
  dt_state_ = "DataRecving" =>
    \/ recv_page < Pages
    \/ ble.flag = "DataRecvSuccess" /\ ble.pc \in {"load", "store", "init"}

\* Lost timer updates delay a timeout but never for ever: a client that stops
\* writing leaves the service ready for the next declaration.
ReceivingEnds == dt_state_ = "DataRecving" ~> dt_state_ = "Init"

\* "データ受信完了" (main.cpp:352): the completion raised by onWrite stays in
\* the event word, or in the register of a task about to store it, until
\* get_event has read it.
CompletionReported ==
  completed =>
    \/ "DataRecvSuccess" \in event
    \/ BleAt("store") /\ "DataRecvSuccess" \in ble.reg
    \/ LoopAt("store") /\ "DataRecvSuccess" \in loop.reg
=============================================================================
