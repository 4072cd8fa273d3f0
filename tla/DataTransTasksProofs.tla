------------------------- MODULE DataTransTasksProofs -------------------------
(***************************************************************************)
(* Theorems about the two tasks of the data_trans service, for every       *)
(* number of contents in a file and every limit.  What makes them          *)
(* inductive is where each task stands: the flag that a write of the BLE   *)
(* task carries says which of the later stores it may reach.               *)
(***************************************************************************)
EXTENDS DataTransTasks, TLAPS

\* The timer passes its limit only on the way of the loop task to its reset.
TimerOverLimit ==
  timeout_timer = TimeoutLimit + 1 => loop.pc \in {"load", "store", "init", "reset"}

IInv == TypeOK /\ InProgressMisses /\ TimerOverLimit

bleRecords ==
  [pc: {"idle", "analyze", "load", "store", "start", "init", "reset"},
   flag: Flags, reg: SUBSET Flags]

loopRecords ==
  [pc: {"idle", "timer", "add", "load", "store", "init", "reset", "get", "clear"},
   timer: 0 .. TimeoutLimit, reg: SUBSET Flags]

-----------------------------------------------------------------------------
(* The initial state and the steps of each task.                           *)

\* The initial state satisfies the invariant.
LEMMA InitIInv == Init => IInv
  <1> SUFFICES ASSUME Init PROVE IInv
    OBVIOUS
  <1>1. ble \in bleRecords /\ loop \in loopRecords
    BY LimitAssumption DEF Init, bleRecords, loopRecords, Flags
  <1>2. /\ timeout_timer \in 0 .. TimeoutLimit + 1
        /\ recv_page \in 0 .. Pages
    BY LimitAssumption, PagesAssumption DEF Init
  <1>3. TypeOK
    BY <1>1, <1>2 DEF Init, TypeOK, bleRecords, loopRecords
  <1> QED
    BY <1>3, LimitAssumption
       DEF Init, IInv, InProgressMisses, TimerOverLimit

\* A step of the BLE task up to the verdict on the packet.
LEMMA WriteStep ==
  ASSUME IInv, onWrite \/ analyze_rx
  PROVE  IInv'
  <1> USE LimitAssumption, PagesAssumption
        DEF IInv, BleAt, BleGoto, BleKeeps, Verdict
  <1>1. CASE onWrite
    <2>1. TypeOK'
      BY <1>1 DEF onWrite, TypeOK
    <2>2. InProgressMisses'
      BY <1>1 DEF onWrite, InProgressMisses, TypeOK
    <2>3. TimerOverLimit'
      BY <1>1 DEF onWrite, TimerOverLimit, TypeOK
    <2> QED
      BY <2>1, <2>2, <2>3
  <1>2. CASE analyze_rx
    <2>1. dt_state_ = "DataRecving" => recv_page < Pages
      BY <1>2 DEF analyze_rx, InProgressMisses
    <2>2. TypeOK'
      <3>1. recv_page' \in 0 .. Pages
        BY <1>2, <2>1 DEF analyze_rx, TypeOK
      <3>2. ble' \in bleRecords
        BY <1>2 DEF analyze_rx, TypeOK, bleRecords, Flags
      <3> QED
        BY <1>2, <3>1, <3>2 DEF analyze_rx, TypeOK, bleRecords
    <2>3. InProgressMisses'
      <3> SUFFICES ASSUME dt_state_ = "DataRecving"
                   PROVE  \/ recv_page' < Pages
                          \/ ble'.flag = "DataRecvSuccess" /\ ble'.pc = "load"
        BY <1>2 DEF analyze_rx, InProgressMisses
      <3>1. CASE recv_page' = recv_page
        BY <2>1, <3>1
      <3>2. CASE recv_page' = recv_page + 1 /\
                 Verdict(IF recv_page + 1 = Pages THEN "DataRecvSuccess" ELSE "DataRecving")
        BY <2>1, <3>2 DEF TypeOK
      <3> QED
        BY <1>2, <3>1, <3>2 DEF analyze_rx
    <2>4. TimerOverLimit'
      BY <1>2 DEF analyze_rx, TimerOverLimit, TypeOK
    <2> QED
      BY <2>2, <2>3, <2>4
  <1> QED
    BY <1>1, <1>2

\* A step of the BLE task after the verdict.
LEMMA BleStep ==
  ASSUME IInv,
         \/ BleLoadEvent \/ BleStoreEvent
         \/ BleStart \/ BleInitState \/ BleResetTimeout
  PROVE  IInv'
  <1> USE LimitAssumption, PagesAssumption DEF IInv, BleAt, BleGoto, BleKeeps
  <1>1. CASE BleLoadEvent
    <2>1. TypeOK'
      BY <1>1 DEF BleLoadEvent, TypeOK, svcVars
    <2> QED
      BY <1>1, <2>1
         DEF BleLoadEvent, InProgressMisses, TimerOverLimit, TypeOK, svcVars
  <1>2. CASE BleStoreEvent
    <2>1. /\ ble'.pc \in {"idle", "start", "init"} /\ ble'.flag = ble.flag
          /\ ble.flag = "DataRecvSuccess" => ble'.pc = "init"
      BY <1>2 DEF BleStoreEvent, TypeOK
    <2>2. event' \subseteq Flags
      BY <1>2 DEF BleStoreEvent, TypeOK
    <2>3. completed' \in BOOLEAN
      BY <1>2 DEF BleStoreEvent, TypeOK
    <2>4. ble' \in bleRecords
      BY <1>2, <2>1 DEF BleStoreEvent, TypeOK, bleRecords
    <2>5. TypeOK'
      BY <1>2, <2>2, <2>3, <2>4 DEF BleStoreEvent, TypeOK, bleRecords
    <2> QED
      BY <1>2, <2>1, <2>5
         DEF BleStoreEvent, InProgressMisses, TimerOverLimit
  <1>3. CASE BleStart
    <2>1. TypeOK'
      BY <1>3 DEF BleStart, TypeOK
    <2> QED
      BY <1>3, <2>1
         DEF BleStart, InProgressMisses, TimerOverLimit, TypeOK
  <1>4. CASE BleInitState
    <2>1. TypeOK'
      BY <1>4 DEF BleInitState, TypeOK
    <2> QED
      BY <1>4, <2>1
         DEF BleInitState, InProgressMisses, TimerOverLimit, TypeOK
  <1>5. CASE BleResetTimeout
    <2>1. TypeOK'
      BY <1>5 DEF BleResetTimeout, TypeOK
    <2> QED
      BY <1>5, <2>1
         DEF BleResetTimeout, InProgressMisses, TimerOverLimit, TypeOK
  <1> QED
    BY <1>1, <1>2, <1>3, <1>4, <1>5

\* A step of the loop task up to the sum of the timer.
LEMMA TimerStep ==
  ASSUME IInv, polling \/ LoopLoadTimer \/ LoopAddCycle
  PROVE  IInv'
  <1> USE LimitAssumption, PagesAssumption DEF IInv, LoopAt, LoopGoto, LoopKeeps
  <1>1. CASE polling
    <2>1. TypeOK'
      BY <1>1 DEF polling, TypeOK
    <2> QED
      BY <1>1, <2>1
         DEF polling, InProgressMisses, TimerOverLimit, TypeOK
  <1>2. CASE LoopLoadTimer
    <2>1. timeout_timer \in 0 .. TimeoutLimit
      BY <1>2 DEF LoopLoadTimer, TimerOverLimit, TypeOK
    <2>2. TypeOK'
      BY <1>2, <2>1 DEF LoopLoadTimer, TypeOK
    <2> QED
      BY <1>2, <2>1, <2>2
         DEF LoopLoadTimer, InProgressMisses, TimerOverLimit, TypeOK
  <1>3. CASE LoopAddCycle
    <2>1. loop.timer \in 0 .. TimeoutLimit
      BY DEF TypeOK
    <2>2. timeout_timer' \in 0 .. TimeoutLimit + 1
      BY <1>3, <2>1 DEF LoopAddCycle
    <2>3. loop'.pc = (IF loop.timer + 1 > TimeoutLimit THEN "load" ELSE "get")
      BY <1>3 DEF LoopAddCycle, TypeOK
    <2>4. TypeOK'
      BY <1>3, <2>2 DEF LoopAddCycle, TypeOK
    <2>5. TimerOverLimit'
      BY <1>3, <2>1, <2>3 DEF LoopAddCycle, TimerOverLimit
    <2> QED
      BY <1>3, <2>4, <2>5 DEF LoopAddCycle, InProgressMisses
  <1> QED
    BY <1>1, <1>2, <1>3

\* A step of the loop task that reports a timeout or reads the events.
LEMMA LoopStep ==
  ASSUME IInv,
         \/ LoopLoadEvent \/ LoopStoreEvent \/ LoopInitState \/ LoopResetTimeout
         \/ get_event \/ LoopClearEvent
  PROVE  IInv'
  <1> USE LimitAssumption, PagesAssumption DEF IInv, LoopAt, LoopGoto, LoopKeeps
  <1>1. CASE LoopLoadEvent
    <2>1. TypeOK'
      BY <1>1 DEF LoopLoadEvent, TypeOK
    <2> QED
      BY <1>1, <2>1
         DEF LoopLoadEvent, InProgressMisses, TimerOverLimit, TypeOK
  <1>2. CASE LoopStoreEvent
    <2>1. TypeOK'
      BY <1>2 DEF LoopStoreEvent, TypeOK, Flags
    <2> QED
      BY <1>2, <2>1
         DEF LoopStoreEvent, InProgressMisses, TimerOverLimit, TypeOK
  <1>3. CASE LoopInitState
    <2>1. TypeOK'
      BY <1>3 DEF LoopInitState, TypeOK
    <2> QED
      BY <1>3, <2>1
         DEF LoopInitState, InProgressMisses, TimerOverLimit, TypeOK
  <1>4. CASE LoopResetTimeout
    <2>1. TypeOK'
      BY <1>4 DEF LoopResetTimeout, TypeOK
    <2> QED
      BY <1>4, <2>1
         DEF LoopResetTimeout, InProgressMisses, TimerOverLimit, TypeOK
  <1>5. CASE get_event
    <2>1. completed' \in BOOLEAN
      BY <1>5 DEF get_event, TypeOK
    <2>2. TypeOK'
      BY <1>5, <2>1 DEF get_event, TypeOK
    <2> QED
      BY <1>5, <2>2
         DEF get_event, InProgressMisses, TimerOverLimit, TypeOK
  <1>6. CASE LoopClearEvent
    <2>1. TypeOK'
      BY <1>6 DEF LoopClearEvent, TypeOK
    <2> QED
      BY <1>6, <2>1
         DEF LoopClearEvent, InProgressMisses, TimerOverLimit, TypeOK
  <1> QED
    BY <1>1, <1>2, <1>3, <1>4, <1>5, <1>6

-----------------------------------------------------------------------------
(* Theorems.                                                               *)

\* The invariant of the two tasks: types, and what each position of a task
\* implies for the transfer, the flag and the timer.
THEOREM Invariance == Spec => []IInv
  <1>1. Init => IInv
    BY InitIInv
  <1>2. IInv /\ [Next]_vars => IInv'
    <2> SUFFICES ASSUME IInv, [Next]_vars PROVE IInv'
      OBVIOUS
    <2>1. CASE onWrite \/ BleHandler
      BY <2>1, WriteStep, BleStep DEF BleHandler
    <2>2. CASE LoopTask
      BY <2>2, TimerStep, LoopStep DEF LoopTask
    <2>3. CASE UNCHANGED vars
      BY <2>3 DEF vars, svcVars, IInv, TypeOK, InProgressMisses, TimerOverLimit
    <2> QED
      BY <2>1, <2>2, <2>3 DEF Next
  <1> QED
    BY <1>1, <1>2, PTL DEF Spec

\* A finished file is never resumed and a transfer that timed out is not
\* revived, for any number of contents: analyze_rx and polling, unlocked.
THEOREM NeverResumed == Spec => []InProgressMisses
  <1>1. IInv => InProgressMisses
    BY DEF IInv
  <1> QED
    BY <1>1, Invariance, PTL

-----------------------------------------------------------------------------
(* The completion a consumer never hears of.  Events are lost where one     *)
(* task stores the event word between the other's two accesses; of the      *)
(* cuts that the two tasks can make, only one loses a completion.           *)

\* The loop task stands between its two accesses to the event word: the load
\* and the store of `event |=`, or the read and the clear of get_event.
LoopHoldsEvent == loop.pc \in {"store", "clear"}

\* onWrite does not store the event word there.
StoresApart == BleStoreEvent => ~LoopHoldsEvent

\* What the loop task holds is the word; what the BLE task holds may be older
\* but has the completion that the word has, as only this task raises it.
RegistersAgree ==
  /\ LoopHoldsEvent => loop.reg = event
  /\ BleAt("store") /\ "DataRecvSuccess" \in event => "DataRecvSuccess" \in ble.reg

CompletionWaits ==
  completed => "DataRecvSuccess" \in event /\ ~LoopAt("clear")

\* The other order of the same two tasks is harmless: whatever the loop task
\* does while onWrite holds the event word, the completion of a file stays in
\* the word until get_event has read it, provided that onWrite never stores
\* the word while the loop task holds it (data_trans.hpp: event |= and
\* get_event).
THEOREM CompletionWithStoresApart ==
  Spec /\ [][StoresApart]_vars => []CompletionReported
  <1> DEFINE Inv == RegistersAgree /\ CompletionWaits
  <1> USE DEF RegistersAgree, CompletionWaits, LoopHoldsEvent, BleAt, LoopAt
  <1>1. Init => Inv
    BY DEF Init
  <1>2. IInv /\ Inv /\ [Next]_vars /\ [StoresApart]_vars => Inv'
    <2> SUFFICES ASSUME IInv, Inv, [Next]_vars, [StoresApart]_vars PROVE Inv'
      OBVIOUS
    <2>0. TypeOK
      BY DEF IInv
    <2> USE DEF BleGoto, LoopGoto, BleKeeps, LoopKeeps
    <2>1. CASE onWrite \/ analyze_rx
      <3>1. /\ ble'.pc # "store"
            /\ UNCHANGED <<event, loop, completed>>
        BY <2>0, <2>1 DEF onWrite, analyze_rx, Verdict, TypeOK
      <3> QED
        BY <3>1
    <2>2. CASE BleLoadEvent
      BY <2>0, <2>2 DEF BleLoadEvent, TypeOK, svcVars
    <2>3. CASE BleStoreEvent
      <3>1. CASE UNCHANGED vars
        BY <3>1 DEF vars, svcVars
      <3>2. CASE StoresApart
        <4>1. ~LoopHoldsEvent /\ loop' = loop
          BY <2>3, <3>2 DEF StoresApart, BleStoreEvent
        <4>2. ble'.pc # "store"
          BY <2>0, <2>3 DEF BleStoreEvent, TypeOK
        <4>3. completed' => "DataRecvSuccess" \in event'
          BY <2>3 DEF BleStoreEvent
        <4> QED
          BY <4>1, <4>2, <4>3
      <3> QED
        BY <3>1, <3>2
    <2>4. CASE BleStart \/ BleInitState \/ BleResetTimeout
      <3>1. /\ ble'.pc # "store"
            /\ UNCHANGED <<event, loop, completed>>
        BY <2>0, <2>4 DEF BleStart, BleInitState, BleResetTimeout, TypeOK
      <3> QED
        BY <3>1
    <2>5. CASE polling \/ LoopLoadTimer \/ LoopAddCycle \/ LoopInitState \/ LoopResetTimeout
      <3>1. /\ loop'.pc \notin {"store", "clear"}
            /\ UNCHANGED <<event, ble, completed>>
        BY <2>0, <2>5 DEF polling, LoopLoadTimer, LoopAddCycle, LoopInitState,
                          LoopResetTimeout, TypeOK
      <3> QED
        BY <3>1
    <2>6. CASE LoopLoadEvent
      BY <2>0, <2>6 DEF LoopLoadEvent, TypeOK
    <2>7. CASE LoopStoreEvent
      <3>1. /\ loop'.pc = "init" /\ ble' = ble /\ completed' = completed
            /\ "DataRecvSuccess" \in event' <=> "DataRecvSuccess" \in event
        BY <2>0, <2>7 DEF LoopStoreEvent, TypeOK
      <3> QED
        BY <3>1
    <2>8. CASE get_event
      BY <2>0, <2>8 DEF get_event, TypeOK
    <2>9. CASE LoopClearEvent
      BY <2>0, <2>9 DEF LoopClearEvent, TypeOK
    <2>10. CASE UNCHANGED vars
      BY <2>10 DEF vars, svcVars
    <2> QED
      BY <2>1, <2>2, <2>3, <2>4, <2>5, <2>6, <2>7, <2>8, <2>9, <2>10
         DEF Next, BleHandler, LoopTask
  <1>3. Inv => CompletionReported
    BY DEF CompletionReported
  <1> QED
    BY <1>1, <1>2, <1>3, Invariance, PTL DEF Spec
=============================================================================
