# TLA+ verification of sketch_book

The repository holds five firmware sketches for M5Stack boards:

- `M5PaperS3_app`: an e-paper application with a page framework of its own, a
  BLE server and a BLE service that receives picture files.
- `M5Stack_CoreS3_app`: an LVGL application (timer, camera, IR receiver) with
  an I2C slave protocol run from an interrupt.
- `AtomS3_platformio_uart`: a menu library, a UART echo and an I2C master.
- `uart_echo_disp` and `test_led_uart`: small sequential sketches.

The core is the BLE side of `M5PaperS3_app`. It has a packet protocol with
memory, timeouts and restarts, runs on two tasks without locks, and a client
depends on it. Around it are modelled the BLE server below, the page framework
above, and of the other sketches what keeps state over several steps: the I2C
slave and the shell of CoreS3, the menu library of AtomS3.

Source paths below are relative to `src/M5PaperS3_app/` unless they start with
another sketch's name.

## 1. Inventory

### Modelled

**data_trans service** (`lib/lib_ble/src/ble/service/data_trans.{cpp,hpp}`).
State: the protocol state (`Init`, `DataRecving`), the event word, a timeout
counter, the last declaration, a PSRAM block with its remembered size, the
counters of the transfer, the last answer. A client writes a *declare* packet
with the total length, then *content* packets numbered from 1; each write is
answered by a notification. `polling` is called by the loop and ends a silent
transfer. `get_event` reads and clears the event word and `get_buff` swaps the
block with the application's. The writes arrive on the task of the BLE stack,
the rest is called by the loop task, and there is no lock. Hard: reuse of
blocks, many exits, the 8-bit page number, timeouts between two pages, unlocked
fields. Correct means: a transfer completes exactly when the declared length
was received, both sides count alike, a silent client does not block the
service, and a completion reaches the application.

**BLE server** (`lib/lib_ble/src/ble/server.{cpp,hpp}`, `defines.hpp`,
`service/service_base.*`) and **app_ble page** (`src/app/pages/app_ble.*`).
State: `state_`, the event word, which services run, the page's `status`.
`start` and `stop` come from a button on the loop task; `onConnect`,
`onDisconnect` and the security callbacks come from the stack's task and write
the same state. Hard: every interleaving of the two. Correct means: a stopped
server serves nobody, `is_connected()` is true only with a client, the states
mean what they are named for.

**Consumer** (`src/main.cpp:302-379`). Reacts to the event word once a cycle and
takes the file. It belongs to `app__()`, whose call in `loop()` (line 84) is
commented out at this commit in favour of the GUI; it is nevertheless the only
consumer of the service that the repository has, so the service is modelled
against it. Where a result depends on it this document says so.

**Page framework** (`lib/lib_mini_appfx/src/lib_mini_appfx/`) with the **menu
pages** and `app.cpp`. State: the layer of pages, `is_active` of each page, the
request queue, the menu bar's `is_show`, the loop's period. One task; hard are
the long sequences of touches in which three pages' ideas of what is shown may
drift apart.

**I2C slave protocol**, CoreS3 (`M5Stack_CoreS3_app/src/i2c/dbg_protocol.*`,
`lib/periph_drv/i2c/i2c_slave_handler.hpp`, `src/apps/i2c/i2c_dump.cpp`). State:
a ring of 5 results with an index and a pointer for the interrupt and an index
for the page, a cached acknowledge level, an event flag. The interrupt files one
result per transaction; the page empties the ring every 100 ms and, when about
three seconds have passed, closes the open result itself. Hard: both sides move
the ring, and the oldest result is dropped by moving the page's index from the
interrupt. Correct means: results are shown in order and once, what is lost is
lost to a full ring, each shows the acknowledge decided on for its register, and
the peripheral acknowledges as the code believes.

**Shell, menu, timer, camera and IR receiver**, CoreS3 (`src/app.cpp`,
`src/apps/`, `src/ir_recv.cpp`). State: which object is in front, which page is
visible, the menu's choice, the camera's two flags, the timer's counters and
rollers, the captured code. One task of LVGL callbacks; hard are touches that
turn into swipes, and a page that works on under the menu. Correct means: the
page marked visible is the one seen, the camera never draws over the menu,
the timer is exact, a code that arrived is shown.

**Menu library**, AtomS3 (`AtomS3_platformio_uart/include/menu.hpp`). State: the
stack of menus, the manager's copy of the front menu's size and selection, the
memory of every menu, the row count of the buffer. Hard: the copies are handed
over through fields that refused entries and popups write too. Correct means:
the selection is a row of the menu in front, and going back finds the item that
led down.

### Not modelled

| Part | Why |
|---|---|
| I2C slave driver, CoreS3 (`lib/periph_drv/i2c/hal_drv.c`) | register writes for one peripheral, called once at start; `end` is called nowhere |
| BLE serial service (`service/serial.cpp`) | its reader `check_event_ble_serial` is called nowhere (main.cpp:184-185 calls `check_event_ble_server` twice); its start and stop are in `BleServer` |
| Drawing pages | a stroke state of two values behind hit tests that are not modelled |
| Main loop and drivers, AtomS3 (`src/main.cpp`, `serial.cpp`, `ir.cpp`) | one call after the other within one loop, no state that two steps share; the menu tree of `main.cpp` is `AtomMenu`'s instance, but no call in the loop reaches it |
| `uart_echo_disp`, `test_led_uart` | read, show, echo, in one loop |
| Rendering components, static pages, LVGL port, speaker, `camera_160x120` | layout, glue, or not used |
| `src/i2c/protocol.c`, CoreS3 | compiled out |
| Fonts, wave tables, `lv_conf.h`, glyph tables | data: of the 55 500 lines of the repository these are about 46 000, so no model covers a large share of its lines |

## 2. Modules

| Module | Models | Composition |
|---|---|---|
| `Transfer` | abstract specification: one transfer at a time, finished exactly at its size | implemented by `DataTrans` |
| `DataTrans` | the service, one action per callback or call | EXTENDed by the next two |
| `DataTransConsumer` | service and the consumer that swaps buffers, with any client | EXTENDS `DataTrans` |
| `DataTransClient` | service, consumer and a client that follows the protocol | EXTENDS `DataTransConsumer` |
| `DataTransTasks` | the same service at the grain of single accesses to the shared fields, on two tasks | stands alone |
| `BleServer` | server, app_ble's button and the BLE stack below | stands alone |
| `AppFx` | page framework and menu | stands alone |
| `ResultLog` | abstract specification: a log that never reorders or repeats, and says what a full one loses | implemented by `I2cSlave` |
| `I2cSlave` | interrupt handler, loop task and bus master | stands alone |
| `CoreS3Shell` | shell, menu, timer, camera, IR receiver and LVGL's touches | stands alone |
| `AtomMenu` | menu manager over any tree | stands alone |
| `DataTransProofs`, `DataTransTasksProofs`, `DataTransClientProofs`, `BleServerProofs`, `AppFxProofs`, `I2cSlaveProofs`, `CoreS3ShellProofs`, `AtomMenuProofs` | theorems and proofs | EXTEND their module and TLAPS; `DataTransClientProofs` also builds on `DataTransProofs` |
| `MC*` | instances for TLC | EXTEND their module |

A definition `Name_Fault...` is not the program's. It is a plausible bug in
`Name`; with it in the place of `Name`, one of the properties is violated. Each
property of each passing run has one, so none of them holds whatever the code
does.

### DataTrans

Variables carry the names of the code. A packet is a record of the fields the
service reads, and the kind of its length (`declare`, `content`, `other`: 16,
128 or any other number of bytes); its bytes are left out. `data_type = "MAX"`
stands for every value but `file_PNG`. `data_buff` is the size of the owned
block, 0 for the null pointer. `event` is the set of flags in the word.

`onWrite` is the whole callback. `Fail` is the common error exit (event, answer,
`init_state`). `Allocate` sets the remembered size before it knows the result
of `malloc`, as data_trans.cpp:163-165 does, and `malloc` may fail at any time.
A content is copied before its sum is looked at, without a look at the block
(`Fits`): with no block, or one that is too small, the write may not return.
`CrashingWrite` is that end of `onWrite`: the device panics and restarts with
everything at its initial value (`Reboot`, the default of the Arduino core).
Through the null pointer that is certain; past the end of a block the bytes
fall into memory that is not modelled, which crashes or goes unnoticed, and both
are followed.
The timer is 0 after every write, because `onWrite` resets it before anything
else and only `polling` adds to it. `start` and `stop` leave the protocol state
alone. The state `DataRecved` of the code is never entered and is left out.
`get_event` is enabled with a non-empty word only; reading an empty one changes
nothing. The service is a global object, so its members that the constructor
does not name start as zeros.

`uint32_t` fields cannot overflow: `PageLimit` bounds what they count, and the
timer is at most the limit plus one cycle. `recv_page + 1` is computed in 32
bits and compared with an 8-bit page, which is `IsNextPage` (no modulus on the
left).

### DataTransTasks

Each action is one access to `dt_state_`, `event` or `timeout_timer`; `|=` and
`+=` are a load and a store, with the register in the task's record. Whether a
packet is good is decided by fields of the BLE task alone, so it is a
nondeterministic verdict; a file is `Pages` contents. `completed` is a history
variable: a completion raised and not yet read. The loop task polls and then
reads the events, as `check_event` of main.cpp does (lines 180-189); the GUI's
`operator()` (app.cpp:25-58) only polls.

### DataTransConsumer and DataTransClient

`check_event_ble_data_trans` is the consumer's whole function: it reads and
clears the event word, lets any failure win, and on a received picture swaps
blocks and sizes (`get_buff`).

There is no client in the repository; the one of `DataTransClient` does what
the service's checks ask of it (pages numbered from 1, data_trans.cpp:216-217),
and is marked external. It declares, waits for the answer, sends the next page,
starts over after a rejection or a crash (`SendPageCrash`), and may lose its
place; when a file is complete it goes on with another. A write and its notification are one step: the link keeps their order
and the client waits. The consumer takes its events at any moment in between
(`TakeEvents`).

### BleServer

`start`, `stop`, `onConnect` and `onDisconnect` are split at every access to
`state_`, to the services and to the advertising, because the two tasks may
alternate there. `loop` and `cb` are the tasks' positions. The stack is
external: it takes a link only while it advertises, stops advertising when it
does, and runs one callback at a time. `event_` is the set of bits of the word,
and `Bits` gives each enumerator the bits of its value: 3 is `{1, 2}`. `status`
is app_ble's `ble_status`, of which the code only ever sets two values.

### AppFx

One action is one touch or one executed request. A touch appends to the queue;
`ExecRequest` takes them in order; `EndExec` is the end of `exec_request` with
`on_change_app`. The queue starts with the 10 default requests its constructor
creates (`request_queue(10)`, app.hpp:48), which the first touch executes along
with its own. Touches of app pages and of the menu items Power and Settings
request nothing and are left out, and so is rendering.

### I2cSlave

An action of the handler is the whole interrupt for one event of the bus
(`rx_fifo_full`, `stretch`, `stop`). The interrupt is allocated on the core of
the loop task and nothing masks it, so it runs as a whole between any two
statements of the task. The task's `update`, `incr_buffer` and `init_buffer` are
split at every statement that reads or writes what the handler shares with it
(`pc`): the check of a row, its copy and its clearing are three steps
(i2c_dump.cpp:162, 165, 205), and the transient values of `pos` and `ref`
outside the ring (dbg_protocol.cpp:68-79) are states. Line 66 reads and stores
in two steps (`ForceLoad`, `ForceAck`): a handler in between may leave a stale
acknowledge in a filed slot. From there to the end of `incr_buffer` a statement
is one step; splitting `pos++` too would add other ways to break a ring that is
given up there anyway (`cut`). The statements are taken in program order: the
calls of `snprintf` and `incr_buffer` keep a compiler from moving these globals
over one another. `pos` and `ptr` are the index and the pointer of the slot
being received; `ref` is the page's index. `ackState` is the cached level and
starts as NACK, `hwAck` is the peripheral's and starts as ACK: `set_ack` writes
the peripheral only when the cache differs. Of the bytes, the first of a result
is a register that is known (0x02) or not; the data sent to a reading master is
left out.

When the handler runs between the task's `pos++` and its wrap, `pos` is one past
the ring and the handler stores `has_result` there: `Stored` lets that byte hit
`pos`, `ref` or neither, all that an optimiser may have laid out behind the ring.

Three histories say what has happened. `cut`: a handler has run inside the
task's `incr_buffer`; then index and pointer may name different slots for good
and the ring promises nothing more (`i2c_slave_race` shows the first moment of
it), except for its types and for the acknowledge. `lapped`: a handler has
overtaken the page (`Overtakes`). The handler makes room by moving `ref`, but a
page that is reading goes by its copy `idx`, which does not give way: it finds
the open slot where it expected the oldest result, takes it for the end of the
ring, and stores its copy over `ref` (i2c_dump.cpp:214), so that a ring full of
results is skipped. `stopped`: a STOP has been handled. The properties hold in
the presence of laps, and say what they cost:

- `NothingLeftBehind`: the page has come to the open slot whenever it takes the
  flag for down; slots before it hold results only after a lap.
- `OpenResultIsPrivate`: the page may check a row, and copy it after STOPs have
  made it the open slot. It does so only when every other slot has been filled
  in between, so that the row is lost to the full ring as well.
- `ImplementsLog`: order is kept and nothing is shown twice. `ResultLog` loses
  one result, the oldest, when a full log takes one more, or all that wait when
  this happens under a page that is reading (`Overrun`).
- `AckMatchesRegister` is about the handler's decision, `PeripheralFollows`
  about the peripheral: from the first STOP on the two are the same. In the
  first transaction they are not when its register is unknown: `ack_state`
  starts as NACK, so `set_ack` leaves the peripheral at ACK
  (dbg_protocol.cpp:23, 157-164) and the master sees an acknowledge where the
  page shows NACK.

### CoreS3Shell

Pages and menu are children of one LVGL screen; `front` and `topPage` keep of
their stacking order what is seen. A touch is a press, perhaps a swipe, and a
release, which LVGL delivers to the object that was pressed. `gesture_event`
tells the page of every swipe and opens the menu on a swipe to the right.
`disp_app` hides the old page and shows the chosen one; an item that names no
page (`MAX`) leads back to the page before. `lvgl_100ms_timer` counts the timer
and shows what the IR receiver captured, each if its page is marked visible. It
calls the I2C page and the camera without looking at the mark (app.cpp:43-46),
so `MarkedIsSeen` is about the mark; `I2cSlave` relies on the call. Speaker,
texts and the camera's frames are left out.

### AtomMenu

Variables carry the names of the code; `data` is `data_interface`, through which
nodes hand their size and selection to the manager. `Enter` is `exec_entry`;
`on_confirm_menu` is `on_confirm` with whatever it leads to: `on_req_back` for a
leaf (its actor asks to go back), `Enter` for a menu, `Refuse` for an empty
element of a container, which has handed over its data before it refuses. A
popup copies that data too, and a popup may come over a popup: the only actor of
a popup asks to close it, so popups lie on top of the menus of the stack and
`popups` counts them. The number of rows under a popup has one place to be kept
(`popup_pos`); `covered` is a history variable, set when a popup comes over a
popup and cleared when the rows are made again. With an empty stack, or an index
beyond a menu's table, the code reads outside its vectors; from there the model
stops, and its run does not check for deadlock.

## 3. Runs

All runs but `atom_menu` check for deadlock, and none finds one: some action of
the environment is always possible.

| Run | States | Shows |
|---|---|---|
| `data_trans` | 61 963 | The service under all sequences of writes, polls, restarts, failed allocations and crashes: a transfer in progress misses bytes, a reused block is large enough, what the client was told is what was counted; it implements `Transfer`; every transfer ends. |
| `data_trans_tasks` | 515 539 | On two tasks without locks: a finished or timed-out transfer is not revived, and a lost update of the timer delays a timeout but not for ever. |
| `data_trans_client` | 73 469 | Client, service and consumer over three files in any order, again and again: client and service agree through timeouts, restarts and crashes that only one of them noticed; a page is refused exactly when its number does not fit the byte; blocks keep their sizes through every swap; and a file that fits is always finished. |
| `ble_server` | 9 376 | `is_connected` implies a client; a stopped server and a server in `Init` have no service running, whatever callbacks cut in. |
| `app_fx` | 101 | One app page with at most one menu over it, exactly the page shown is active, the period follows the page, an open menu is never taken for closed. |
| `i2c_slave` | 1 755 467 | With interrupts between any two statements: the page comes to the open slot before it rests, and only a lap leaves results behind; it has the open result in hand only when the ring filled up meanwhile; filed results show the acknowledge decided on, and from the first STOP on the peripheral gives it; the address is acknowledged between transactions; the ring implements `ResultLog`; when the bus falls silent the page catches up. |
| `core_s3_shell` | 9 528 | The camera draws only while its page is in front, also when the release of a swipe reaches it under the menu; one page is marked visible, and it is the one seen; rollers and counters agree and step by tenths; a captured code is shown once its page stays. |
| `atom_menu` | 8 422 | Over the tree of `main.cpp`: the selection is a row of the menu in front, the stack is a way down the tree, the buffer holds the front menu's rows also after a popup, and none after a popup over a popup, and going back finds an item that leads to the menu left. |

Four runs show that the code does not do what one of its comments says. TLC
finds each of these properties violated:

| Run | Property | What happens |
|---|---|---|
| `data_trans_tasks_event` | `CompletionReported` | A completion stored between the read and the clear of `get_event` is lost (data_trans.hpp:154-155). |
| `data_trans_taken` | `TakenIsReceived` | A client that declares its next file before the consumer has seen the completion of the last one: the consumer takes the block of the transfer in progress, and that transfer goes on into the consumer's old block, or crashes when there was none (main.cpp:357-361). |
| `ble_server_running` | `NotInitMeansRunning` | A callback that sets `state_` after `stop()` stopped the services leaves a server that is connected or advertising without services (server.cpp:79-91). A client that stays connected over the stop and leaves later gives the same result without any race. |
| `i2c_slave_race` | `HandlerFindsItsSlot` | An interrupt within the loop task's `incr_buffer` finds index and pointer of the ring naming different slots, the index even outside the ring (i2c_dump.cpp:141, dbg_protocol.h:77-78). |

### Bounds, and why they are enough

- `data_trans`: 4 page values instead of 256 and 2 bytes per content instead of
  255. The lengths 0, 1, 3 and 7 give an empty file, a file of one content, one
  of several contents, and one that no sequence of pages can complete. The limit
  of 2 with cycles of 1 and 2 makes the timer hit the limit, pass it, and pass
  it by more than one.
- `data_trans_tasks`: two contents, a limit of 2: each task can be anywhere in
  its sequence while the other runs through all of its own.
- `data_trans_client`: files of 3, 5 and 7 bytes are two, three and four pages.
  With four page values the last page of the second has the largest number
  there is and the last page of the third has none; a block of one file is too
  small, exact or too large for another.
  At most 6 cycles of the loop (`MaxPolls`) and 2 restarts (`MaxRestarts`):
  enough for several timeouts, before and after a restart.
  `data_trans_taken` needs neither.
- `ble_server`: both services of main.cpp, each of which may have failed to set
  up, and two clients (`MaxLinks`), so that one can connect or leave while the
  other stays.
- `app_fx`: the real pages and the real initial queue. Nothing is capped: the
  layer and the queue stay finite by themselves.
- `i2c_slave`: 3 slots instead of 5 and 5 results (`MaxResults`), so that the
  ring wraps and overflows while the page is anywhere in its loop, and is lapped
  at each of its statements; a FIFO of 2 bytes and 3 bytes per transaction
  (`MaxBytes`), so that a transaction is read in one piece or in several; a
  timeout of 2 ticks instead of 30.
- `core_s3_shell`: all pages, items and swipes are real. Carries at 2, 3 and 2
  instead of 10, 60 and 60 meet in every combination; a pool of 3 codes wraps.
- `atom_menu`: the shipped tree with its refused element; at most three popups
  over one another (`MaxPopups`), the third behaves as the second.

### Fairness

- `DataTrans!FairSpec`: weak fairness of `Polling` alone. `loop()` runs for
  ever and `app::operator()` polls the service in each cycle (app.cpp:31). A
  client is not assumed to write, nor to stop writing: good pages are used up,
  and any other write ends the transfer.
- `DataTransTasks!FairSpec`: weak fairness of each task's own steps, since
  FreeRTOS schedules both. `onWrite` is not fair: a client need not write.
- `DataTransClient!CFairSpec`: the client goes on (a liveness claim about a
  client that gives up would be void), the application starts the service, and
  `malloc` succeeds again and again when tried again and again: strong fairness
  of `GetsMemory`. Without it a client could be refused for ever, which is what
  the service does when PSRAM stays full. The cycles that find the client idle
  are bounded by `MaxPolls`: a client slower than the timeout for ever never
  finishes, in the code as in the model. The consumer is not fair: the client
  does not wait for it.
- `I2cSlave!FairSpec`: weak fairness of the steps of `i2c_dump::update`, which
  the LVGL timer calls for ever (app.cpp:186). The master need not write.
  `PageCatchesUp` claims something of a bus that falls silent, and says so
  (`<>[][~Handler]_vars`): with results arriving as fast as rows are printed the
  page's loop would have no end in the code either.
- `CoreS3Shell!FairSpec`: weak fairness of the 100 ms timer alone. Touches and
  codes come when they come.

## 4. Proofs

Proved for every value of the constants, by TLAPS. The assumptions are those
named in the modules: that numbers of pages, lengths and times are natural
numbers, that a ring has more than one slot, that a menu tree is one. One
theorem needs more and states it as its hypothesis: `IndexIsChecked` of
`AtomMenu` (`RefusedFits`).

All invariants and action properties of the passing runs and both refinements
are proved. Of the four properties that a run finds violated there are theorems
too, of what keeps them. Three are proved of the executions without one kind of
step, named in the theorem as an action that never happens (`[][...]_vars`). For
the ring that step is a handler inside the task's `incr_buffer`, and it needs no
hypothesis: the properties themselves hold until it happens (`cut`).

**DataTrans.** `Invariance` proves the inductive invariant `IInv`, in two parts.
`CoreInv` is `TypeOK`, `StillMissing`, `ClientToldTheTruth`, `PageLimit` and
`NothingReadyWhileReceiving` (which is why a crash gives a transfer up and takes
back no file): an answer can only match the counters if the page
accepted is a value of the 8-bit field, and a transfer in progress is only
distinguished from a finished one by its completion flag. `BlockHoldsFile` is
proved on top of it; the other parts do not need it, which matters below. From
the two follow `TypeCorrect`, `TransferStillMissing`, `BlockLargeEnough`,
`NotificationsAreTrue`, `PagesNeverWrap`. `Refinement` proves
`Spec => ImplementsTransfer`. Every step of the service is first shown to be of
one of six kinds (`Idle`, `Waits`, `Begins`, `Receives`, `Finishes`, `GivesUp`),
each named by its effect on state, counters and completion; then each kind is a
step of `Transfer` or a stutter, with the invariant before and after.

**DataTransTasks.** `Invariance` ties what a task may still store to where it
stands: the timer passes its limit only while the loop task is on its way to the
reset (`TimerOverLimit`), and a finished file is counted before its state is
put back (`InProgressMisses`). It yields `NeverResumed`.
`CompletionWithStoresApart` is the complement of `data_trans_tasks_event`. Two
tasks that load, change and store one word can cut into each other in two
orders. The loop task's accesses within a load and store of `onWrite` are
harmless to a completion, which `onWrite` alone raises (`RegistersAgree`); a
store of `onWrite` within the loop task's `event |=` or within `get_event` is
what loses one.

**DataTransConsumer and DataTransClient.** With any client, the consumer swaps
the service's block at any moment between two calls. `ServiceInvariance` shows
that `CoreInv` survives this, by the proofs of `DataTrans` step for step; so the
counters and answers stay true (`ProtocolSurvivesConsumer`), the service still
implements `Transfer` (`AnyClientTransfers`), and a block keeps its size
(`SizesFollowBlocks`). `BlockHoldsFile` does not survive. `PatientClientKeepsBlocks`
says what it takes: that no client declares while a completion is waiting to be
read (`Early` is such a declaration). Then a block is only swapped while no
transfer uses it, it holds the file in progress, and an announced completion is
a file received whole. `PatientClientIsTaken` draws the conclusion for
`TakenIsReceived`, the property that `data_trans_taken` finds violated. The
hypothesis is one about the client; nothing in the service enforces it.

The client that follows the protocol is one of the any-client systems
(`ClientIsAClient`), so these theorems carry over (`SizesFollowWithClient`,
`TransferWithClient`). `Agreement` proves `ClientInv`: while the client sends,
its bytes are its pages times a full page, and a service that receives has the
same counters and the file's declaration. `PagesUpToTheLastNumber` follows from
that, for files of any size.

**BleServer.** `Invariance` adds two facts to the properties. The state of the
application follows the position of the loop (`LoopFollowsUser`: Connecting
within `start`, Disconnect within `stop`, no service running once `stop` is
about to set `Init`), and before `setup` nothing can call back
(`CallbacksAfterSetup`). It yields `TypeCorrect`, `StoppedServer` and
`InitServer` for any set of services and any number of links.
`ConnectedServer` needs that a link exists from the beginning of `onConnect` to
its end (`LinkedWhileConnecting`). `RunningUnlessLinkedAtStop` proves
`NotInitMeansRunning` of the executions in which no client is linked and no
callback is under way while `stop` tests for the advertising and ends it
(`StopsAlone`, a condition on those two steps; connects, disconnects and starts
remain free). It rests on
`StoppedIsAlone`: from such a stop to the next start there is no link and no
advertising, so nothing calls back. A client that is linked at a stop is thus
the cause of the violation, with a race or without.

**AppFx.** `Invariance` adds which queues are possible over which layer
(`QueueShape`: a popup is the last request, with `is_show` set, over a layer of
one page; a change is the last request and comes after a close, or over a layer
of one page) and that an open menu is known to the menu bar or about to be
closed (`MenuKnownOrClosing`). It yields `TypeCorrect`, `MenuNeverPilesUp`,
`OneActivePage`, `OpenMenuIsKnown` and, since `has_app_change_` remembers a
change until `on_change_app` looks at it, `PeriodFollowsPage`, for every set of
pages and every number of default requests.

**I2cSlave.** No theorem restricts the interrupt. `RingInvariance` describes the
ring by intervals (`Between`), as long as no handler has cut into `incr_buffer`:
every slot from where the page stands (`PageAt`) to the open one is filed
(`WaitingFiled`); other slots are only where the page or the task is about to
clear them (`Left`), or after a lap (`OnlyWaitingFiled`); index and pointer part
only inside `incr_buffer` (`OpenSlot`); and the page has caught up when it says
so (`CaughtUp`). `WaitingFiled` holds through laps, since an overtaken page
waits for nothing; this is what `PageEmptiesRing` and `OpenSlotPrivate` rest on.
`StopPage` names the three ways in which a STOP meets the page: out of its way,
moving it on, or overtaking it. `BetweenMoved` is the heart of the second:
moving the open slot on adds one slot and costs the oldest one exactly when the
indices meet.

`AckInv` says that the cached level is out of step with the peripheral in one
direction only (`AckCache`), and after the first STOP not at all; it gives
`AddressAcknowledged` and `CacheIsTrue`, and like `TypeCorrect` it holds after a
cut as well. `ResultsShowTheirAck` adds that the open result's register has had
the acknowledge that is cached (`OpenAck`).

`RingIsALog` proves that the ring implements `ResultLog`, for every size. The
mapping reads the ids off the slots from `PageAt` to the open slot (`Ids`); the
walk between two slots is counted by `Distance` and the `Walk` lemmas say what
one step at either end does to it. From these `IdsAppend` (a result closed) and
`IdsTail` (a result shown, or given up to a full ring) are the two ways a
sequence of ids changes. A STOP is a `Complete`, or an `Overrun` when it
overtakes the page; the task's own `ForceStep` is a `Complete`, the copy of a
row a `Show`; the page's entering and leaving its loop is a `Turn`; the rest
stutters.

**CoreS3Shell.** `ShellInvariance` adds that whoever opened the menu over the
camera has told it so (`CameraKnowsMenu`): this is why the release of the swipe
does not restart it. `TimerIsExact` is arithmetic over the three carries, for
any places of them, without reference to the shell.

**AtomMenu.** `MenuInvariance` holds for every tree: the stack goes down it
level by level (`Levels`), so no menu is on it twice and leaving one cannot
change the memory of another; each menu remembers the item that leads on
(`Remembers`); what the manager has copied is of the menu in front, or of a menu
that refused to be entered from it (`Kept`, `Counts`). `IndexIsChecked` has a
hypothesis, `RefusedFits`: a menu which refuses to be entered is not longer than
the one above it. It holds of the shipped tree (4 rows below 5); the library
does not ask for it, and in a tree without it a popup copies a count beyond the
rows of the menu in front, so the theorem is false there. `RowsAreShown` says
what becomes of the rows under popups: they come back, unless a popup came over
a popup, which leaves the menu without rows until it is entered or returned to.

Only model-checked: the four liveness properties (`ReceivingEnds`, checked of two
modules, `ClientFinishes`, `PageCatchesUp`, `CodeIsShown`), since the prover has
no rule for fairness; and that the four steps named by the hypotheses above do
lead to a violation, which TLC shows by a trace.

## 5. Limits

- Memory contents and layout are not modelled; a block is its size.
- The models of the service treat a callback as atomic except in
  `DataTransTasks`, which in turn leaves out the packets' details.
- In `BleServer` the event word is or-ed and cleared in one step; that these can
  lose events is shown for the service's word, by `data_trans_tasks_event`.
- The BLE stack, LVGL's touches, the I2C bus and the IR receiver are modelled
  from how the code uses them.
- `AtomMenu` models the actors of main.cpp: a leaf's asks to go back, a popup's
  to close it. No call in the loop of
  AtomS3 reaches the menu at this commit; the manager's interface is modelled.

Seen while modelling, and not stated as properties of their own:

- After a failed allocation the remembered size stays (data_trans.cpp:163), so
  the next declaration of that length or less is accepted without a block, and
  its first byte of content is copied through the null pointer (238). The same
  happens when the consumer takes the block of a transfer in progress and had
  none to give. `CrashingWrite` models both.
- A file of more than 255 full pages is declared with success and can never
  complete (data_trans.cpp:157, 217): its 256th page is refused, every time.
  `PagesAccepted` says exactly this.
- A write's reset of the timer can be overwritten by `polling`. A timeout that
  was decided for one transfer may also run its `init_state` after the client
  failed with a bad packet and declared again, and ends the new transfer
  (data_trans.cpp:92-97).
- An interrupt that laps the page while it reads makes it skip all that waits
  (i2c_dump.cpp:161-214; `Overtakes`, `ResultLog!Overrun`).
- The first transaction with an unknown register is acknowledged by the
  peripheral and shown as NACK (dbg_protocol.cpp:23, 159).
- The consumer is given the size of a reused block, not that of the file.
- A failure after a completed file makes the consumer drop the completion: the
  events of both share one word (main.cpp:310-333).
- The button's status says Connecting when `start()` refused.
- Enumerators of `server_event` from `onPassKeyRequest` on are 3 to 7 and not
  single bits, so a security event tests as a connect or a disconnect
  (defines.hpp:24-30).
- A menu item closes the menu and leaves `is_show` set, so the next press of the
  menu button does nothing visible (menu_header.cpp:54).
- The comment at data_trans.hpp:78 numbers pages from 0 to `page_max-1`; the
  code wants 1 to `page_max`, as the comment at data_trans.cpp:216 says. The
  client of `DataTransClient` follows the code; one that follows the header has
  its first page refused and gets no file through.
- A swipe that does not open the menu leaves the camera page deaf to touches
  until it is shown again (app.cpp:83-86, camera_tfl.cpp:76-81).
- A popup over a popup overwrites the saved number of rows with 0: the menu comes
  back empty (menu.hpp:383, 369).
- Confirming a leaf of the menu's root pops the last menu and reads before the
  stack (menu.hpp:430-431; the leaves of main.cpp:167-168).
- The check before a read of the I2C FIFO looks at where the read begins, not at
  where it ends (dbg_protocol.cpp:182-190).

## 6. What is left

What the repository's own steps do over time is modelled, up to the parts
listed under "Not modelled". Worth adding when the code grows towards them: the
BLE serial service, once its events are read; the lock of `data_02h`, once a
task calls `set_data1`; the hit tests of the framework with the drawing canvas
behind them.

## 7. How to run

    tlc -config MCDataTrans.cfg MCDataTrans.tla
    tlapm DataTransProofs.tla

and likewise for the other configurations and proof modules.
