------------------------------ MODULE BleServer ------------------------------
(***************************************************************************)
(* The BLE server of M5PaperS3_app, the BLE stack below it and the button  *)
(* of the app_ble page above it.                                           *)
(*                                                                         *)
(* The loop task runs the button (start and stop) and get_event; the BLE   *)
(* task runs the callbacks of the stack.  Both write state_ and call the   *)
(* advertising object, and nothing locks them, so start, stop, onConnect   *)
(* and onDisconnect are sequences of steps here.  The stack is external:   *)
(* it takes a link only while it advertises, and then stops advertising.   *)
(*                                                                         *)
(* A definition Name_Fault is not the program's: it is a bug that the      *)
(* properties have to notice when it takes the place of Name.              *)
(***************************************************************************)
EXTENDS Naturals

CONSTANTS
  Services,   \* services added to the server before setup
  MaxLinks    \* clients the stack connects at a time

ASSUME MaxLinksAssumption == MaxLinks \in Nat

VARIABLES
  state_,       \* server_state
  active,       \* services whose setup succeeded
  running,      \* services that are started
  event_,       \* the bits set in the event word
  status,       \* ble_status of app_ble
  loop,         \* loop task: next step of start() or stop()
  cb,           \* BLE task: next step of the callback it runs
  advertising,  \* the stack advertises
  links         \* clients connected

serviceVars == <<active, running>>
vars == <<state_, serviceVars, event_, status, loop, cb, advertising, links>>

-----------------------------------------------------------------------------
(* Events.  The enumerators are not disjoint bits: after onDisconnect = 2   *)
(* they count on, 3 to 7.                                                  *)

Bits == [onConnect |-> {1}, onDisconnect |-> {2}, onPassKeyRequest |-> {1, 2},
         onPassKeyNotify |-> {4}, onSecurityRequest |-> {1, 4},
         onAuthenticationComplete |-> {2, 4}, onConfirmPIN |-> {1, 2, 4}]

server_event == DOMAIN Bits

\* event_ |= e
Raise(e) == event_' = event_ \cup Bits[e]

-----------------------------------------------------------------------------
(* The loop task.                                                          *)

LoopGoto(pc) == loop' = pc
LoopKeeps == UNCHANGED <<active, event_, status, cb, links>>

\* A service whose setup fails is disabled, the server goes on without it.
setup ==
  /\ state_ = "NotSetUp"
  /\ state_' = "Init"
  /\ active' \in SUBSET Services
  /\ UNCHANGED <<running, event_, status, loop, cb, advertising, links>>

\* The button starts what it believes stopped and stops everything else.
on_connect_button ==
  /\ state_ # "NotSetUp"
  /\ loop = "idle"
  /\ \/ status = "Disconnect" /\ status' = "Connecting" /\ LoopGoto("start")
     \/ status # "Disconnect" /\ status' = "Disconnect" /\ LoopGoto("stop")
  /\ UNCHANGED <<state_, serviceVars, event_, cb, advertising, links>>

\* Disabled services are started too.
StartServices_FaultStartsAll ==
  /\ loop = "start"
  /\ \/ /\ state_ # "Init"
        /\ LoopGoto("idle")
        /\ UNCHANGED running
     \/ /\ state_ = "Init"
        /\ running' = Services
        /\ LoopGoto("start.state")
  /\ UNCHANGED <<state_, advertising>>
  /\ LoopKeeps

StartServices ==
  /\ loop = "start"
  /\ \/ /\ state_ # "Init"
        /\ LoopGoto("idle")
        /\ UNCHANGED running
     \/ /\ state_ = "Init"
        /\ running' = active
        /\ LoopGoto("start.state")
  /\ UNCHANGED <<state_, advertising>>
  /\ LoopKeeps

StartState ==
  /\ loop = "start.state"
  /\ state_' = "Advertising"
  /\ LoopGoto("start.advertise")
  /\ UNCHANGED <<running, advertising>>
  /\ LoopKeeps

StartAdvertise ==
  /\ loop = "start.advertise"
  /\ advertising' = TRUE
  /\ LoopGoto("idle")
  /\ UNCHANGED <<state_, running>>
  /\ LoopKeeps

StopBegin ==
  /\ loop = "stop"
  /\ \/ state_ = "Init" /\ LoopGoto("idle")
     \/ state_ # "Init" /\ LoopGoto("stop.test")
  /\ UNCHANGED <<state_, running, advertising>>
  /\ LoopKeeps

\* stop() reads state_ again, and a callback may have moved it since.
StopTest ==
  /\ loop = "stop.test"
  /\ \/ state_ = "Advertising" /\ LoopGoto("stop.advertise")
     \/ state_ # "Advertising" /\ LoopGoto("stop.services")
  /\ UNCHANGED <<state_, running, advertising>>
  /\ LoopKeeps

\* The state changes before the services are stopped.
StopAdvertise_FaultStateFirst ==
  /\ loop = "stop.advertise"
  /\ state_' = "Init"
  /\ advertising' = FALSE
  /\ LoopGoto("stop.services")
  /\ UNCHANGED running
  /\ LoopKeeps

\* Connected clients are left connected.
StopAdvertise ==
  /\ loop = "stop.advertise"
  /\ advertising' = FALSE
  /\ LoopGoto("stop.services")
  /\ UNCHANGED <<state_, running>>
  /\ LoopKeeps

\* Only the advertising is stopped.
StopServices_FaultKeepsRunning ==
  /\ loop = "stop.services"
  /\ LoopGoto("stop.state")
  /\ UNCHANGED <<state_, running, advertising>>
  /\ LoopKeeps

StopServices ==
  /\ loop = "stop.services"
  /\ running' = {}
  /\ LoopGoto("stop.state")
  /\ UNCHANGED <<state_, advertising>>
  /\ LoopKeeps

StopState ==
  /\ loop = "stop.state"
  /\ state_' = "Init"
  /\ LoopGoto("idle")
  /\ UNCHANGED <<running, advertising>>
  /\ LoopKeeps

get_event ==
  /\ loop = "idle"
  /\ event_ # {}
  /\ event_' = {}
  /\ UNCHANGED <<state_, serviceVars, status, loop, cb, advertising, links>>

-----------------------------------------------------------------------------
(* The BLE task: the stack and the callbacks it makes, one at a time.      *)

BleKeeps == UNCHANGED <<serviceVars, status, loop>>

Connect ==
  /\ cb = "idle" /\ advertising /\ links < MaxLinks
  /\ links' = links + 1
  /\ advertising' = FALSE
  /\ cb' = "onConnect"
  /\ UNCHANGED <<state_, event_>>
  /\ BleKeeps

Disconnect ==
  /\ cb = "idle" /\ links > 0
  /\ links' = links - 1
  /\ cb' = "onDisconnect"
  /\ UNCHANGED <<state_, event_, advertising>>
  /\ BleKeeps

onConnectStop ==
  /\ cb = "onConnect"
  /\ advertising' = FALSE
  /\ cb' = "onConnect.state"
  /\ UNCHANGED <<state_, event_, links>>
  /\ BleKeeps

onConnectState ==
  /\ cb = "onConnect.state"
  /\ state_' = "Connected"
  /\ Raise("onConnect")
  /\ cb' = "idle"
  /\ UNCHANGED <<advertising, links>>
  /\ BleKeeps

onDisconnectAdvertise ==
  /\ cb = "onDisconnect"
  /\ advertising' = TRUE
  /\ cb' = "onDisconnect.state"
  /\ UNCHANGED <<state_, event_, links>>
  /\ BleKeeps

\* The state is left to the next connect.
onDisconnectState_FaultStays ==
  /\ cb = "onDisconnect.state"
  /\ Raise("onDisconnect")
  /\ cb' = "idle"
  /\ UNCHANGED <<state_, advertising, links>>
  /\ BleKeeps

onDisconnectState ==
  /\ cb = "onDisconnect.state"
  /\ state_' = "Advertising"
  /\ Raise("onDisconnect")
  /\ cb' = "idle"
  /\ UNCHANGED <<advertising, links>>
  /\ BleKeeps

\* onPassKeyRequest, onPassKeyNotify, onSecurityRequest,
\* onAuthenticationComplete and onConfirmPIN of a connected client.
onSecurity ==
  /\ cb = "idle" /\ links > 0
  /\ \E e \in server_event \ {"onConnect", "onDisconnect"} : Raise(e)
  /\ UNCHANGED <<state_, cb, advertising, links>>
  /\ BleKeeps

-----------------------------------------------------------------------------
Init ==
  /\ state_ = "NotSetUp"
  /\ active = {} /\ running = {}
  /\ event_ = {}
  /\ status = "Disconnect"
  /\ loop = "idle" /\ cb = "idle"
  /\ advertising = FALSE
  /\ links = 0

LoopSteps ==
  \/ StartServices \/ StartState \/ StartAdvertise
  \/ StopBegin \/ StopTest \/ StopAdvertise \/ StopServices \/ StopState

Callbacks ==
  onConnectStop \/ onConnectState \/ onDisconnectAdvertise \/ onDisconnectState

Next ==
  \/ setup \/ on_connect_button \/ LoopSteps \/ get_event
  \/ Connect \/ Disconnect \/ Callbacks \/ onSecurity

Spec == Init /\ [][Next]_vars

-----------------------------------------------------------------------------
(* Properties.                                                             *)

TypeOK ==
  /\ state_ \in {"NotSetUp", "Init", "Advertising", "Connected"}
  /\ active \subseteq Services /\ running \subseteq active
  /\ event_ \subseteq {1, 2, 4}
  /\ status \in {"Disconnect", "Connecting"}
  /\ loop \in {"idle", "start", "start.state", "start.advertise",
               "stop", "stop.test", "stop.advertise", "stop.services", "stop.state"}
  /\ cb \in {"idle", "onConnect", "onConnect.state", "onDisconnect",
             "onDisconnect.state"}
  /\ advertising \in BOOLEAN
  /\ links \in 0 .. MaxLinks

Quiet == loop = "idle" /\ cb = "idle"

\* is_connected() never reports a connection that is gone: whatever the loop
\* task does meanwhile, Connected means that a client is linked.
ConnectedIsLinked == state_ = "Connected" /\ cb = "idle" => links > 0

\* A server the user stopped serves nobody, also when the stop ran into
\* connects and disconnects on the other task (server.cpp:65-84).
StoppedServesNobody ==
  loop = "idle" /\ status = "Disconnect" => running = {}

\* stop() returns early in the state Init: no interleaving leaves services
\* running in that state, where neither the button nor the stack could stop
\* them (server.cpp:67-71).
InitServesNobody == state_ = "Init" /\ loop # "start.state" => running = {}

\* "初期状態でなければService稼働中" (server.cpp:79): a server that is not in its
\* initial state has its services running.
NotInitMeansRunning ==
  Quiet /\ state_ \in {"Advertising", "Connected"} => running = active
=============================================================================
