----------------------------- MODULE CoreS3Shell -----------------------------
(***************************************************************************)
(* The shell of M5Stack_CoreS3_app: four pages and a menu, all children of *)
(* one LVGL screen, switched by a swipe and a menu item, and served by one *)
(* LVGL timer of 100 ms.  Everything runs on the loop task, a callback at  *)
(* a time.  LVGL delivers the release of a touch to the object that was    *)
(* pressed, also when the touch became a swipe in between.                 *)
(*                                                                         *)
(* Of the stacking order of the children, the frontmost object and the     *)
(* frontmost page are kept: nothing else is seen or touched.  The contents *)
(* of the page i2c_dump are module I2cSlave.  Speaker, fonts and the       *)
(* camera's frames are left out.                                           *)
(*                                                                         *)
(* Name_Fault is a bug that the properties have to notice in the place of  *)
(* Name.                                                                   *)
(***************************************************************************)
EXTENDS Naturals

CONSTANTS
  Tenths, Seconds, Minutes,   \* 10, 60 and 60: where the timer carries
  PoolSize                    \* ir_recv_pool_size

ASSUME ClockAssumption ==
  /\ Tenths \in Nat \ {0} /\ Seconds \in Nat \ {0} /\ Minutes \in Nat \ {0}
  /\ PoolSize \in Nat /\ PoolSize > 1

VARIABLES
  front,        \* the frontmost child of the screen
  topPage,      \* the frontmost page
  visible,      \* is_visible_ of the pages
  disp,         \* disp_app_ptr
  state,        \* app_menu.state_
  isUpdate,     \* camera.is_update_: the camera draws over the display
  isMenuOpen,   \* camera.is_menu_open_
  isCount,      \* timer.is_count_
  clock,        \* timer.count_min_, count_sec_, count_msec_
  rollers,      \* what the timer's rollers show
  captured,     \* the receiver holds a code that is not decoded yet
  pos, head,    \* ir_recv_pool_pos, ir_recv_pool_head
  press,        \* the object under the finger
  gestured      \* the touch was reported as a swipe

stackVars == <<front, topPage, visible, disp, state>>
cameraVars == <<isUpdate, isMenuOpen>>
timerVars == <<isCount, clock, rollers>>
irVars == <<captured, pos, head>>
touchVars == <<press, gestured>>
vars == <<stackVars, cameraVars, timerVars, irVars, touchVars>>

Pages == {"timer", "i2c_dump", "ir_recv_dump", "camera"}
Objects == Pages \cup {"menu"}
Items == Pages \cup {"MAX"}       \* MAX: the items that name no page

Clock == [min: 0 .. Minutes - 1, sec: 0 .. Seconds - 1, msec: 0 .. Tenths - 1]
Zero == [min |-> 0, sec |-> 0, msec |-> 0]

-----------------------------------------------------------------------------
(* Pages.                                                                  *)

\* base::show and hide, with the camera's on_show and on_hide.
show(page) ==
  /\ front' = page /\ topPage' = page
  /\ isMenuOpen' = (IF page = "camera" THEN FALSE ELSE isMenuOpen)

UpdateAfterHide(page) == isUpdate /\ page # "camera"

Chosen_FaultStoresAny(item) == item

Chosen(item) == IF item = "MAX" THEN state ELSE item

Switch_FaultKeepsOld(page) == [visible EXCEPT ![page] = TRUE]

Switch_FaultShowsFirst(page) == [[visible EXCEPT ![page] = TRUE] EXCEPT ![disp] = FALSE]

Switch(page) == [[visible EXCEPT ![disp] = FALSE] EXCEPT ![page] = TRUE]

\* A menu item stores its page, if it has one, and the screen shows it.
disp_app(item) ==
  /\ state' = Chosen(item)
  /\ disp' = Chosen(item)
  /\ visible' = Switch(Chosen(item))
  /\ isUpdate' = UpdateAfterHide(disp)
  /\ show(Chosen(item))

-----------------------------------------------------------------------------
(* Touches.                                                                *)

\* LVGL: a press reaches an object that is in front.
Press ==
  /\ press = "none"
  /\ press' \in (IF front = "menu" THEN Items ELSE {"page"})
  /\ gestured' = FALSE
  /\ UNCHANGED <<stackVars, cameraVars, timerVars, irVars>>

\* LVGL: a touch that scrolls the list is no click.
Scroll ==
  /\ press \in Items
  /\ press' = "none"
  /\ UNCHANGED <<gestured, stackVars, cameraVars, timerVars, irVars>>

\* The page learns of every swipe, the menu opens on one to the right only.
gesture_event(right) ==
  /\ press # "none" /\ ~gestured
  /\ gestured' = TRUE
  /\ isUpdate' = (isUpdate /\ disp # "camera")
  /\ isMenuOpen' = (isMenuOpen \/ disp = "camera")
  /\ front' = IF right THEN "menu" ELSE front
  /\ UNCHANGED <<topPage, visible, disp, state, press, timerVars, irVars>>

MayToggle_FaultAlways == TRUE

MayToggle == ~isMenuOpen

\* camera_tfl::on_touch
TouchCamera ==
  /\ topPage = "camera"
  /\ isUpdate' = IF MayToggle THEN ~isUpdate ELSE isUpdate
  /\ UNCHANGED <<isMenuOpen, timerVars>>

\* timer::begin: a touch of the rollers starts from zero.
TouchTimer ==
  /\ topPage = "timer"
  /\ isCount' = TRUE
  /\ clock' = Zero /\ rollers' = Zero
  /\ UNCHANGED cameraVars

\* The dump pages clear their text.
TouchDump ==
  /\ topPage \in {"i2c_dump", "ir_recv_dump"}
  /\ UNCHANGED <<cameraVars, timerVars>>

on_touch ==
  /\ press = "page"
  /\ press' = "none"
  /\ TouchCamera \/ TouchTimer \/ TouchDump
  /\ UNCHANGED <<gestured, stackVars, irVars>>

\* The click of a menu item, or the release beside the menu's list.
event_item_cb ==
  /\ press \in Items
  /\ press' = "none"
  /\ disp_app(press)
  /\ UNCHANGED <<gestured, timerVars, irVars>>

-----------------------------------------------------------------------------
(* The timer of 100 ms.                                                    *)

Carries(c) == [sec |-> c.msec + 1 >= Tenths,
               min |-> c.msec + 1 >= Tenths /\ c.sec + 1 >= Seconds]

Rolled(n, limit) == IF n + 1 >= limit THEN 0 ELSE n + 1

Count_FaultNoCarry(c) ==
  [msec |-> Rolled(c.msec, Tenths),
   sec  |-> IF Carries(c).sec THEN Rolled(c.sec, Seconds) ELSE c.sec,
   min  |-> IF c.sec + 1 >= Seconds THEN Rolled(c.min, Minutes) ELSE c.min]

Count(c) ==
  [msec |-> Rolled(c.msec, Tenths),
   sec  |-> IF Carries(c).sec THEN Rolled(c.sec, Seconds) ELSE c.sec,
   min  |-> IF Carries(c).min THEN Rolled(c.min, Minutes) ELSE c.min]

SetRollers_FaultMinuteLate(c, n) ==
  [rollers EXCEPT !.msec = n.msec, !.sec = IF Carries(c).sec THEN n.sec ELSE @]

\* A roller is set when its counter changes.
SetRollers(c, n) ==
  [msec |-> n.msec,
   sec  |-> IF Carries(c).sec THEN n.sec ELSE rollers.sec,
   min  |-> IF Carries(c).min THEN n.min ELSE rollers.min]

count ==
  IF visible["timer"] /\ isCount
  THEN clock' = Count(clock) /\ rollers' = SetRollers(clock, clock')
  ELSE UNCHANGED <<clock, rollers>>

\* ir_recv_check files the code, over the oldest when the pool is full, and the
\* page shows everything up to it.
PoolAfter == Rolled(pos, PoolSize)

update ==
  IF visible["ir_recv_dump"] /\ captured
  THEN captured' = FALSE /\ pos' = PoolAfter /\ head' = pos'
  ELSE UNCHANGED irVars

lvgl_100ms_timer ==
  /\ count
  /\ update
  /\ UNCHANGED <<isCount, stackVars, cameraVars, touchVars>>

\* The infrared receiver keeps one code until it is decoded.
IrArrives ==
  /\ ~captured
  /\ captured' = TRUE
  /\ UNCHANGED <<pos, head, stackVars, cameraVars, timerVars, touchVars>>

-----------------------------------------------------------------------------
\* app_init ends in disp_app with the menu's first item.
Init ==
  /\ front = "i2c_dump" /\ topPage = "i2c_dump"
  /\ visible = [p \in Pages |-> p = "i2c_dump"]
  /\ disp = "i2c_dump" /\ state = "i2c_dump"
  /\ isUpdate = FALSE /\ isMenuOpen = FALSE
  /\ isCount = FALSE /\ clock = Zero /\ rollers = Zero
  /\ captured = FALSE /\ pos = 0 /\ head = 0
  /\ press = "none" /\ gestured = FALSE

Touch == Press \/ Scroll \/ on_touch \/ event_item_cb
Swipe == \E right \in BOOLEAN : gesture_event(right)

Next == Touch \/ Swipe \/ lvgl_100ms_timer \/ IrArrives

Spec == Init /\ [][Next]_vars
FairSpec == Spec /\ WF_vars(lvgl_100ms_timer)

-----------------------------------------------------------------------------
(* Properties.                                                             *)

\* Types and ranges.
TypeOK ==
  /\ front \in Objects /\ topPage \in Pages
  /\ visible \in [Pages -> BOOLEAN]
  /\ disp \in Pages /\ state \in Pages
  /\ isUpdate \in BOOLEAN /\ isMenuOpen \in BOOLEAN
  /\ isCount \in BOOLEAN /\ clock \in Clock /\ rollers \in Clock
  /\ captured \in BOOLEAN /\ pos \in 0 .. PoolSize - 1 /\ head \in 0 .. PoolSize - 1
  /\ press \in Items \cup {"none", "page"} /\ gestured \in BOOLEAN

\* The camera writes its frames straight to the display, over whatever LVGL has
\* drawn: it does so only while its page is in front, and never on the menu,
\* although the release of the swipe that opens the menu reaches the page.
CameraOnlyInFront == isUpdate => front = "camera"

\* is_visible_, which the timer and the IR page test before they do anything in
\* the 100 ms tick (timer.cpp:137, ir_recv_dump.cpp:107), marks the page that was
\* switched to, no other page, and that page is the one seen, alone or under the
\* menu.  It says nothing of the I2C page and the camera, which the tick calls
\* without a test of the mark (app.cpp:43-46).
MarkedIsSeen ==
  /\ \A p \in Pages : visible[p] <=> p = topPage
  /\ front \in {"menu", topPage}
  /\ disp = topPage

\* The rollers show the counters, whichever counters the tick carried into.
RollersShowCount == rollers = clock

Elapsed == (clock.min * Seconds + clock.sec) * Tenths + clock.msec

\* A step of the timer adds a tenth of a second, around at its end, or it starts
\* from zero: the carries lose and add nothing.
TimerStepsByTenths ==
  [][Elapsed' \in {Elapsed, (Elapsed + 1) % (Minutes * Seconds * Tenths), 0}]_vars

\* A code that the receiver holds is shown once its page stays in front.
CodeIsShown == captured /\ disp = "ir_recv_dump" ~> ~captured \/ disp # "ir_recv_dump"
=============================================================================
