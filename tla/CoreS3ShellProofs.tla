-------------------------- MODULE CoreS3ShellProofs --------------------------
(***************************************************************************)
(* The shell of M5Stack_CoreS3_app, for any carries of the timer and any   *)
(* size of the pool of received codes.                                     *)
(***************************************************************************)
EXTENDS CoreS3Shell, TLAPS

\* Why no release restarts the camera under the menu: whoever opened the menu
\* over the camera has told it so.
CameraKnowsMenu ==
  /\ isUpdate => ~isMenuOpen
  /\ front = "menu" /\ topPage = "camera" => isMenuOpen

ShellInv == TypeOK /\ MarkedIsSeen /\ CameraOnlyInFront /\ CameraKnowsMenu

-----------------------------------------------------------------------------
LEMMA RolledRange ==
  ASSUME NEW limit \in Nat \ {0}, NEW n \in 0 .. limit - 1
  PROVE  Rolled(n, limit) \in 0 .. limit - 1
  BY DEF Rolled

LEMMA ZeroClock == Zero \in Clock
  BY ClockAssumption DEF Zero, Clock

LEMMA CountType ==
  ASSUME NEW c \in Clock
  PROVE  Count(c) \in Clock
  <1>1. /\ c.msec \in 0 .. Tenths - 1 /\ c.sec \in 0 .. Seconds - 1
        /\ c.min \in 0 .. Minutes - 1
    BY DEF Clock
  <1>2. /\ Rolled(c.msec, Tenths) \in 0 .. Tenths - 1
        /\ Rolled(c.sec, Seconds) \in 0 .. Seconds - 1
        /\ Rolled(c.min, Minutes) \in 0 .. Minutes - 1
    BY <1>1, RolledRange, ClockAssumption
  <1> QED
    BY <1>1, <1>2 DEF Count, Clock

\* The rollers that are not set are those whose counter did not change.
LEMMA RollersFollow ==
  ASSUME NEW c \in Clock, rollers = c
  PROVE  SetRollers(c, Count(c)) = Count(c)
  BY DEF Clock, SetRollers, Count, Carries

LEMMA TypeInit == Init => TypeOK
  <1> SUFFICES ASSUME Init PROVE TypeOK
    OBVIOUS
  <1>1. clock \in Clock /\ rollers \in Clock
    BY ZeroClock DEF Init
  <1>2. visible \in [Pages -> BOOLEAN]
    BY DEF Init
  <1>3. pos \in 0 .. PoolSize - 1 /\ head \in 0 .. PoolSize - 1
    BY ClockAssumption DEF Init
  <1> QED
    BY <1>1, <1>2, <1>3 DEF Init, TypeOK, Pages, Objects

LEMMA TypeNext == TypeOK /\ [Next]_vars => TypeOK'
  <1> SUFFICES ASSUME TypeOK, [Next]_vars PROVE TypeOK'
    OBVIOUS
  <1> USE DEF TypeOK, stackVars, cameraVars, timerVars, irVars, touchVars
  <1>1. CASE Press \/ Scroll
    BY <1>1 DEF Press, Scroll
  <1>2. CASE on_touch
    BY <1>2, ZeroClock DEF on_touch, TouchCamera, TouchTimer, TouchDump
  <1>3. CASE event_item_cb
    <2>1. Chosen(press) \in Pages
      BY <1>3 DEF event_item_cb, Chosen, Items
    <2> QED
      BY <1>3, <2>1 DEF event_item_cb, disp_app, show, Switch, UpdateAfterHide, Objects
  <1>4. CASE Swipe
    BY <1>4 DEF Swipe, gesture_event, Objects
  <1>5. CASE lvgl_100ms_timer
    <2>1. clock' \in Clock
      BY <1>5, CountType DEF lvgl_100ms_timer, count
    <2>2. rollers' \in Clock
      <3>1. SetRollers(clock, clock') \in Clock
        BY <2>1 DEF SetRollers, Clock
      <3> QED
        BY <1>5, <3>1 DEF lvgl_100ms_timer, count
    <2>3. captured' \in BOOLEAN /\ pos' \in 0 .. PoolSize - 1 /\ head' \in 0 .. PoolSize - 1
      <3>1. PoolAfter \in 0 .. PoolSize - 1
        BY ClockAssumption DEF PoolAfter, Rolled
      <3> QED
        BY <1>5, <3>1 DEF lvgl_100ms_timer, update
    <2> QED
      BY <1>5, <2>1, <2>2, <2>3 DEF lvgl_100ms_timer
  <1>6. CASE IrArrives
    BY <1>6 DEF IrArrives
  <1>7. CASE UNCHANGED vars
    BY <1>7 DEF vars
  <1> QED
    BY <1>1, <1>2, <1>3, <1>4, <1>5, <1>6, <1>7 DEF Next, Touch

\* Types and ranges: every selection names a page, every counter and index
\* stays in its range.
THEOREM TypeCorrect == Spec => []TypeOK
  BY TypeInit, TypeNext, PTL DEF Spec

-----------------------------------------------------------------------------
LEMMA ShellInit == Init => ShellInv
  BY TypeInit DEF Init, ShellInv, MarkedIsSeen, CameraOnlyInFront, CameraKnowsMenu

LEMMA ShellNext == ShellInv /\ [Next]_vars => ShellInv'
  <1> SUFFICES ASSUME ShellInv, [Next]_vars PROVE ShellInv'
    OBVIOUS
  <1> USE DEF ShellInv, MarkedIsSeen, CameraOnlyInFront, CameraKnowsMenu
  <1>1. TypeOK'
    BY TypeNext
  <1>2. CASE on_touch
    <2>1. UNCHANGED stackVars
      BY <1>2 DEF on_touch
    <2>2. CASE TouchCamera
      BY <1>1, <2>1, <2>2 DEF TouchCamera, MayToggle, stackVars, TypeOK
    <2>3. CASE TouchTimer \/ TouchDump
      BY <1>1, <2>1, <2>3 DEF TouchTimer, TouchDump, stackVars, cameraVars
    <2> QED
      BY <1>2, <2>2, <2>3 DEF on_touch
  <1>3. CASE event_item_cb
    <2> DEFINE page == Chosen(press)
    <2>1. page \in Pages /\ disp \in Pages /\ visible \in [Pages -> BOOLEAN]
      BY <1>3 DEF event_item_cb, Chosen, Items, TypeOK
    <2>2. /\ visible' = [[visible EXCEPT ![disp] = FALSE] EXCEPT ![page] = TRUE]
          /\ disp' = page /\ front' = page /\ topPage' = page
          /\ isUpdate' = (isUpdate /\ disp # "camera")
          /\ isMenuOpen' = (IF page = "camera" THEN FALSE ELSE isMenuOpen)
      BY <1>3 DEF event_item_cb, disp_app, show, Switch, UpdateAfterHide
    <2>3. \A p \in Pages : visible'[p] <=> p = page
      BY <2>1, <2>2
    <2>4. ~isUpdate'
      BY <2>2 DEF TypeOK, Pages
    <2> QED
      BY <1>1, <2>1, <2>2, <2>3, <2>4 DEF Pages
  <1>4. CASE Swipe
    BY <1>1, <1>4 DEF Swipe, gesture_event, TypeOK, Pages
  <1>5. CASE Press \/ Scroll \/ lvgl_100ms_timer \/ IrArrives \/ UNCHANGED vars
    BY <1>1, <1>5 DEF Press, Scroll, lvgl_100ms_timer, IrArrives, vars, stackVars, cameraVars
  <1> QED
    BY <1>2, <1>3, <1>4, <1>5 DEF Next, Touch

\* The invariant of the shell: the page that is seen, the one marked visible and
\* the camera's two flags.
THEOREM ShellInvariance == Spec => []ShellInv
  BY ShellInit, ShellNext, PTL DEF Spec

\* The camera never draws over another page or over the menu.
THEOREM CameraStaysInFront == Spec => []CameraOnlyInFront
  <1>1. ShellInv => CameraOnlyInFront
    BY DEF ShellInv
  <1> QED
    BY <1>1, ShellInvariance, PTL

\* One page carries the mark that timer.cpp:137 and ir_recv_dump.cpp:107 test, and
\* it is the one that is seen.
THEOREM OnePageMarked == Spec => []MarkedIsSeen
  <1>1. ShellInv => MarkedIsSeen
    BY DEF ShellInv
  <1> QED
    BY <1>1, ShellInvariance, PTL

-----------------------------------------------------------------------------
(* The timer.                                                              *)

LEMMA RollersNext == TypeOK /\ RollersShowCount /\ [Next]_vars => RollersShowCount'
  <1> SUFFICES ASSUME TypeOK, RollersShowCount, [Next]_vars PROVE RollersShowCount'
    OBVIOUS
  <1> USE DEF RollersShowCount
  <1>1. CASE lvgl_100ms_timer
    <2>1. clock \in Clock
      BY DEF TypeOK
    <2> QED
      BY <1>1, <2>1, RollersFollow DEF lvgl_100ms_timer, count
  <1>2. CASE on_touch
    BY <1>2 DEF on_touch, TouchCamera, TouchTimer, TouchDump, timerVars
  <1>3. CASE Press \/ Scroll \/ event_item_cb \/ Swipe \/ IrArrives \/ UNCHANGED vars
    BY <1>3 DEF Press, Scroll, event_item_cb, Swipe, gesture_event, IrArrives, vars, timerVars
  <1> QED
    BY <1>1, <1>2, <1>3 DEF Next, Touch

\* The rollers always show the counters.
THEOREM RollersAreTrue == Spec => []RollersShowCount
  <1>1. Init => RollersShowCount
    BY DEF Init, RollersShowCount
  <1> QED
    BY <1>1, TypeInit, TypeNext, RollersNext, PTL DEF Spec

\* Counting adds one to the elapsed tenths, or wraps all three counters.
Tens(c) == (c.min * Seconds + c.sec) * Tenths + c.msec

LEMMA CountFields ==
  ASSUME NEW c
  PROVE  /\ Count(c).msec = Rolled(c.msec, Tenths)
         /\ Count(c).sec = (IF c.msec + 1 >= Tenths THEN Rolled(c.sec, Seconds) ELSE c.sec)
         /\ Count(c).min = (IF c.msec + 1 >= Tenths /\ c.sec + 1 >= Seconds
                             THEN Rolled(c.min, Minutes) ELSE c.min)
  BY DEF Count, Carries

LEMMA CountAdds ==
  ASSUME NEW c \in Clock
  PROVE  Tens(Count(c)) = (Tens(c) + 1) % (Minutes * Seconds * Tenths)
  <1> DEFINE full == Minutes * Seconds * Tenths
             n == Count(c)
  <1>1. /\ c.min \in Nat /\ c.sec \in Nat /\ c.msec \in Nat
        /\ c.min <= Minutes - 1 /\ c.sec <= Seconds - 1 /\ c.msec <= Tenths - 1
        /\ Minutes \in Nat /\ Seconds \in Nat /\ Tenths \in Nat
        /\ Minutes > 0 /\ Seconds > 0 /\ Tenths > 0
    BY ClockAssumption DEF Clock
  <1>2. c.min * Seconds <= (Minutes - 1) * Seconds
    BY <1>1
  <1>3. /\ c.min * Seconds + c.sec \in Nat /\ Minutes * Seconds \in Nat
        /\ c.min * Seconds + c.sec <= Minutes * Seconds - 1
    BY <1>1, <1>2
  <1>4. (c.min * Seconds + c.sec) * Tenths <= (Minutes * Seconds - 1) * Tenths
    BY <1>1, <1>3
  <1>5. /\ Tens(c) \in Nat /\ full \in Nat
        /\ Tens(c) + 1 <= full - Tenths + c.msec + 1
    BY <1>1, <1>3, <1>4 DEF Tens
  <1>6. /\ n.msec = Rolled(c.msec, Tenths)
        /\ n.sec = (IF c.msec + 1 >= Tenths THEN Rolled(c.sec, Seconds) ELSE c.sec)
        /\ n.min = (IF c.msec + 1 >= Tenths /\ c.sec + 1 >= Seconds
                    THEN Rolled(c.min, Minutes) ELSE c.min)
    BY CountFields
  <1> HIDE DEF n
  <1>7. CASE c.msec + 1 < Tenths
    <2>1. n.msec = c.msec + 1 /\ n.sec = c.sec /\ n.min = c.min
      BY <1>1, <1>6, <1>7 DEF Rolled
    <2>2. Tens(n) = Tens(c) + 1
      BY <1>1, <2>1 DEF Tens
    <2>3. Tens(c) + 1 < full
      BY <1>1, <1>5, <1>7
    <2> HIDE DEF full
    <2>4. (Tens(c) + 1) % full = Tens(c) + 1
      BY <1>5, <2>3
    <2> QED
      BY <2>2, <2>4 DEF full, n
  <1>8. CASE c.msec + 1 = Tenths /\ c.sec + 1 < Seconds
    <2>1. n.msec = 0 /\ n.sec = c.sec + 1 /\ n.min = c.min
      BY <1>1, <1>6, <1>8 DEF Rolled
    <2>2. Tens(n) = Tens(c) + 1
      BY <1>1, <1>8, <2>1 DEF Tens
    <2>3. Tens(c) + 1 < full
      <3>1. (c.min * Seconds + c.sec) + 1 <= Minutes * Seconds - 1
        BY <1>1, <1>2, <1>8
      <3>2. ((c.min * Seconds + c.sec) + 1) * Tenths <= (Minutes * Seconds - 1) * Tenths
        BY <1>1, <1>3, <3>1
      <3> QED
        BY <1>1, <1>3, <1>8, <3>2 DEF Tens
    <2> HIDE DEF full
    <2>4. (Tens(c) + 1) % full = Tens(c) + 1
      BY <1>5, <2>3
    <2> QED
      BY <2>2, <2>4 DEF full, n
  <1>9. CASE c.msec + 1 = Tenths /\ c.sec + 1 = Seconds /\ c.min + 1 < Minutes
    <2>1. n.msec = 0 /\ n.sec = 0 /\ n.min = c.min + 1
      BY <1>1, <1>6, <1>9 DEF Rolled
    <2>2. Tens(n) = Tens(c) + 1
      BY <1>1, <1>9, <2>1 DEF Tens
    <2>3. Tens(c) + 1 < full
      <3>1. (c.min + 1) * Seconds <= (Minutes - 1) * Seconds
        BY <1>1, <1>9
      <3>2. (c.min * Seconds + c.sec) + 1 <= Minutes * Seconds - Seconds
        BY <1>1, <1>9, <3>1
      <3>3. ((c.min * Seconds + c.sec) + 1) * Tenths <= (Minutes * Seconds - Seconds) * Tenths
        BY <1>1, <1>3, <3>2
      <3>4. Seconds * Tenths > 0
        BY <1>1
      <3> QED
        BY <1>1, <1>3, <1>9, <3>3, <3>4 DEF Tens
    <2> HIDE DEF full
    <2>4. (Tens(c) + 1) % full = Tens(c) + 1
      BY <1>5, <2>3
    <2> QED
      BY <2>2, <2>4 DEF full, n
  <1>10. CASE c.msec + 1 = Tenths /\ c.sec + 1 = Seconds /\ c.min + 1 = Minutes
    <2>1. n.msec = 0 /\ n.sec = 0 /\ n.min = 0
      BY <1>1, <1>6, <1>10 DEF Rolled
    <2>2. Tens(n) = 0
      BY <1>1, <2>1 DEF Tens
    <2>3. Tens(c) + 1 = full
      <3>1. c.min * Seconds + c.sec = Minutes * Seconds - 1
        <4>1. c.min * Seconds = (Minutes - 1) * Seconds
          BY <1>1, <1>10
        <4> QED
          BY <1>1, <1>10, <4>1
      <3>2. (c.min * Seconds + c.sec) * Tenths = (Minutes * Seconds - 1) * Tenths
        BY <3>1
      <3>3. \A a \in Nat : (a - 1) * Tenths = a * Tenths - Tenths
        BY <1>1
      <3>4. (Minutes * Seconds - 1) * Tenths = full - Tenths
        BY <1>3, <3>3
      <3>5. Tens(c) = full - Tenths + c.msec
        BY <3>2, <3>4 DEF Tens
      <3> QED
        BY <1>1, <1>5, <1>10, <3>5
    <2>4. full > 0
      BY <1>5, <2>3
    <2> HIDE DEF full
    <2>5. (Tens(c) + 1) % full = 0
      BY <1>5, <2>3, <2>4
    <2> QED
      BY <2>2, <2>5 DEF full, n
  <1> QED
    BY <1>1, <1>7, <1>8, <1>9, <1>10

\* The carries of the timer lose no tenth of a second and add none.
THEOREM TimerIsExact == Spec => TimerStepsByTenths
  <1>1. TypeOK /\ [Next]_vars =>
          [Elapsed' \in {Elapsed, (Elapsed + 1) % (Minutes * Seconds * Tenths), 0}]_vars
    <2> SUFFICES ASSUME TypeOK, [Next]_vars
        PROVE  Elapsed' \in {Elapsed, (Elapsed + 1) % (Minutes * Seconds * Tenths), 0}
      OBVIOUS
    <2>1. Elapsed = Tens(clock) /\ Elapsed' = Tens(clock')
      BY DEF Elapsed, Tens
    <2>2. CASE lvgl_100ms_timer
      <3>1. clock' = Count(clock) \/ clock' = clock
        BY <2>2 DEF lvgl_100ms_timer, count
      <3> QED
        BY <2>1, <3>1, CountAdds DEF TypeOK
    <2>3. CASE on_touch
      <3>1. clock' = clock \/ clock' = Zero
        BY <2>3 DEF on_touch, TouchCamera, TouchTimer, TouchDump, timerVars
      <3>2. Tens(Zero) = 0
        BY ClockAssumption DEF Tens, Zero
      <3> QED
        BY <2>1, <3>1, <3>2
    <2>4. CASE Press \/ Scroll \/ event_item_cb \/ Swipe \/ IrArrives \/ UNCHANGED vars
      <3>1. clock' = clock
        BY <2>4 DEF Press, Scroll, event_item_cb, Swipe, gesture_event, IrArrives, vars, timerVars
      <3> QED
        BY <2>1, <3>1
    <2> QED
      BY <2>2, <2>3, <2>4 DEF Next, Touch
  <1> QED
    BY <1>1, TypeInit, TypeNext, PTL DEF Spec, TimerStepsByTenths
=============================================================================
