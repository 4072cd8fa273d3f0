--------------------------- MODULE BleServerProofs ---------------------------
(***************************************************************************)
(* A stopped BLE server serves nobody, for every set of services, every    *)
(* number of links and every interleaving of the loop task with the        *)
(* callbacks of the stack.                                                 *)
(***************************************************************************)
EXTENDS BleServer, TLAPS

-----------------------------------------------------------------------------
(* The inductive invariant.  start() runs for a user who asked to connect   *)
(* and stop() for one who asked to disconnect; between the two writes of    *)
(* start() the services run although state_ is still Init, and between the  *)
(* two of stop() none run although it is not Init yet.                      *)

Starting == loop \in {"start", "start.state", "start.advertise"}
PastReturn == loop \in {"stop.test", "stop.advertise", "stop.services", "stop.state"}
Stopping == loop = "stop" \/ PastReturn

LoopFollowsUser ==
  /\ Starting => status = "Connecting"
  /\ Stopping => status = "Disconnect"
  /\ loop = "stop.state" => running = {}
  /\ PastReturn => state_ \in {"Advertising", "Connected"}

\* The stack only calls back a server that has been set up.
CallbacksAfterSetup ==
  state_ = "NotSetUp" =>
    /\ running = {} /\ loop = "idle" /\ cb = "idle"
    /\ ~advertising /\ links = 0

IInv ==
  /\ TypeOK
  /\ StoppedServesNobody
  /\ InitServesNobody
  /\ LoopFollowsUser
  /\ CallbacksAfterSetup

-----------------------------------------------------------------------------
(* Lemmas: one per actor.                                                  *)

\* The server that is not set up satisfies the invariant.
LEMMA InitIInv == Init => IInv
  <1> SUFFICES ASSUME Init PROVE IInv
    OBVIOUS
  <1>1. TypeOK
    <2>1. links \in 0 .. MaxLinks
      BY MaxLinksAssumption DEF Init
    <2>2. event_ \subseteq {1, 2, 4}
      BY DEF Init
    <2>3. active \subseteq Services /\ running \subseteq active
      BY DEF Init
    <2> QED
      BY <2>1, <2>2, <2>3 DEF Init, TypeOK
  <1>2. StoppedServesNobody /\ InitServesNobody
    BY DEF Init, StoppedServesNobody, InitServesNobody
  <1>3. LoopFollowsUser /\ CallbacksAfterSetup
    BY DEF Init, LoopFollowsUser, Starting, Stopping, PastReturn, CallbacksAfterSetup
  <1> QED
    BY <1>1, <1>2, <1>3 DEF IInv

\* or-ing an event sets bits of the word and nothing else.
LEMMA RaiseType ==
  ASSUME TypeOK, NEW e \in server_event, Raise(e)
  PROVE  event_' \subseteq {1, 2, 4}
  <1>1. Bits[e] \subseteq {1, 2, 4}
    BY DEF server_event, Bits
  <1> QED
    BY <1>1 DEF Raise, TypeOK

\* setup and the loop task: the button, start(), stop() and get_event.
LEMMA LoopStep ==
  ASSUME IInv, setup \/ on_connect_button \/ LoopSteps \/ get_event
  PROVE  IInv'
  <1> USE DEF IInv, TypeOK, StoppedServesNobody, InitServesNobody,
              LoopFollowsUser, Starting, Stopping, PastReturn, CallbacksAfterSetup
  <1>1. CASE setup
    BY <1>1 DEF setup
  <1>2. CASE on_connect_button
    BY <1>2 DEF on_connect_button, LoopGoto, serviceVars
  <1>3. CASE StartServices
    BY <1>3 DEF StartServices, LoopGoto, LoopKeeps
  <1>4. CASE StartState
    BY <1>4 DEF StartState, LoopGoto, LoopKeeps
  <1>5. CASE StartAdvertise
    BY <1>5 DEF StartAdvertise, LoopGoto, LoopKeeps
  <1>6. CASE StopBegin \/ StopTest
    BY <1>6 DEF StopBegin, StopTest, LoopGoto, LoopKeeps
  <1>7. CASE StopAdvertise
    BY <1>7 DEF StopAdvertise, LoopGoto, LoopKeeps
  <1>8. CASE StopServices
    BY <1>8 DEF StopServices, LoopGoto, LoopKeeps
  <1>9. CASE StopState
    BY <1>9 DEF StopState, LoopGoto, LoopKeeps
  <1>10. CASE get_event
    BY <1>10 DEF get_event, serviceVars
  <1> QED
    BY <1>1, <1>2, <1>3, <1>4, <1>5, <1>6, <1>7, <1>8, <1>9, <1>10 DEF LoopSteps

\* The stack and its callbacks: they move state_ between Advertising and
\* Connected, also under a start() or stop() that is half done.
LEMMA BleStep ==
  ASSUME IInv, Connect \/ Disconnect \/ Callbacks \/ onSecurity
  PROVE  IInv'
  <1>0. /\ "onConnect" \in server_event /\ "onDisconnect" \in server_event
        /\ TypeOK
    BY DEF server_event, Bits, IInv
  <1> USE DEF IInv, TypeOK, StoppedServesNobody, InitServesNobody,
              LoopFollowsUser, Starting, Stopping, PastReturn, CallbacksAfterSetup
  <1>1. CASE Connect
    <2>1. links' \in 0 .. MaxLinks
      BY <1>1, MaxLinksAssumption DEF Connect
    <2> QED
      BY <1>1, <2>1 DEF Connect, BleKeeps, serviceVars
  <1>2. CASE Disconnect
    <2>1. links' \in 0 .. MaxLinks
      BY <1>2, MaxLinksAssumption DEF Disconnect
    <2> QED
      BY <1>2, <2>1 DEF Disconnect, BleKeeps, serviceVars
  <1>3. CASE onConnectStop
    BY <1>3 DEF onConnectStop, BleKeeps, serviceVars
  <1>4. CASE onConnectState
    <2>1. event_' \subseteq {1, 2, 4}
      BY <1>0, <1>4, RaiseType DEF onConnectState
    <2> QED
      BY <1>4, <2>1 DEF onConnectState, BleKeeps, serviceVars
  <1>5. CASE onDisconnectAdvertise
    BY <1>5 DEF onDisconnectAdvertise, BleKeeps, serviceVars
  <1>6. CASE onDisconnectState
    <2>1. event_' \subseteq {1, 2, 4}
      BY <1>0, <1>6, RaiseType DEF onDisconnectState
    <2> QED
      BY <1>6, <2>1 DEF onDisconnectState, BleKeeps, serviceVars
  <1>7. CASE onSecurity
    <2>1. event_' \subseteq {1, 2, 4}
      BY <1>0, <1>7, RaiseType DEF onSecurity
    <2> QED
      BY <1>7, <2>1 DEF onSecurity, BleKeeps, serviceVars
  <1> QED
    BY <1>1, <1>2, <1>3, <1>4, <1>5, <1>6, <1>7 DEF Callbacks

LEMMA NextIInv == IInv /\ [Next]_vars => IInv'
  <1>1. ASSUME IInv, UNCHANGED vars PROVE IInv'
    BY <1>1 DEF vars, serviceVars, IInv, TypeOK,
                StoppedServesNobody, InitServesNobody, LoopFollowsUser,
                Starting, Stopping, PastReturn, CallbacksAfterSetup
  <1> QED
    BY <1>1, LoopStep, BleStep DEF Next

-----------------------------------------------------------------------------
(* Theorems.                                                               *)

\* The inductive invariant holds through every interleaving.
THEOREM Invariance == Spec => []IInv
  <1> QED
    BY InitIInv, NextIInv, PTL DEF Spec

\* A server its user stopped runs no service, however the stop crossed with
\* the connects and disconnects of clients (server.cpp:65-84).
THEOREM StoppedServer == Spec => []StoppedServesNobody
  <1>1. IInv => StoppedServesNobody
    BY DEF IInv
  <1> QED
    BY <1>1, Invariance, PTL

\* No service is left running in the state in which stop() returns without
\* doing anything (server.cpp:67-71).
THEOREM InitServer == Spec => []InitServesNobody
  <1>1. IInv => InitServesNobody
    BY DEF IInv
  <1> QED
    BY <1>1, Invariance, PTL

\* Every variable keeps its range, and only services whose setup succeeded run.
THEOREM TypeCorrect == Spec => []TypeOK
  <1>1. IInv => TypeOK
    BY DEF IInv
  <1> QED
    BY <1>1, Invariance, PTL

-----------------------------------------------------------------------------
(* is_connected().                                                         *)

\* The stack calls onConnect for a client that is linked.
LinkedWhileConnecting == cb \in {"onConnect", "onConnect.state"} => links > 0

\* is_connected() never reports a connection that is gone: the callback of a
\* disconnect always brings the state back from Connected (server.cpp:86-103).
THEOREM ConnectedServer == Spec => []ConnectedIsLinked
  <1> DEFINE Inv == ConnectedIsLinked /\ LinkedWhileConnecting
  <1>1. Init => Inv
    BY DEF Init, ConnectedIsLinked, LinkedWhileConnecting
  <1>2. IInv /\ Inv /\ [Next]_vars => Inv'
    <2> SUFFICES ASSUME IInv, Inv, [Next]_vars PROVE Inv'
      OBVIOUS
    <2> USE DEF ConnectedIsLinked, LinkedWhileConnecting
    <2>1. CASE setup \/ on_connect_button \/ get_event
      BY <2>1 DEF setup, on_connect_button, get_event
    <2>2. CASE LoopSteps
      BY <2>2 DEF LoopSteps, StartServices, StartState, StartAdvertise,
                  StopBegin, StopTest, StopAdvertise, StopServices, StopState,
                  LoopKeeps
    <2>3. CASE Connect
      <3>1. links \in Nat
        BY MaxLinksAssumption DEF IInv, TypeOK
      <3> QED
        BY <2>3, <3>1 DEF Connect
    <2>4. CASE Disconnect \/ Callbacks \/ onSecurity
      BY <2>4 DEF Disconnect, Callbacks, onConnectStop, onConnectState,
                  onDisconnectAdvertise, onDisconnectState, onSecurity
    <2>5. CASE UNCHANGED vars
      BY <2>5 DEF vars
    <2> QED
      BY <2>1, <2>2, <2>3, <2>4, <2>5 DEF Next
  <1> QED
    BY <1>1, <1>2, Invariance, PTL DEF Spec

-----------------------------------------------------------------------------
(* A stop that nobody is connected for.  stop() leaves clients linked, and  *)
(* the disconnect of a link that outlived it advertises a server without    *)
(* services.                                                                *)

\* No client is linked and no callback is under way while the button's stop()
\* looks at the advertising and ends it.
StopsAlone == StopTest \/ StopAdvertise => links = 0 /\ cb = "idle"

\* Nothing can call back a server that has stopped, nor is start() about to
\* advertise one.
StoppedIsAlone ==
  state_ = "Init" \/ loop \in {"stop.services", "stop.state"} =>
    links = 0 /\ cb = "idle" /\ ~advertising /\ loop # "start.advertise"

\* NotInitMeansRunning, also between the steps of start() and stop().
ServicesRun ==
  /\ state_ \in {"Advertising", "Connected"} /\ loop # "stop.state" => running = active
  /\ loop = "start.state" => running = active

\* As the comment in stop() has it, a server outside its initial state has its
\* services running: in every execution in which the user stops the server
\* only while no client is linked, whatever the clients do at other times
\* (server.cpp:79).
THEOREM RunningUnlessLinkedAtStop ==
  Spec /\ [][StopsAlone]_vars => []NotInitMeansRunning
  <1> DEFINE Inv == StoppedIsAlone /\ ServicesRun
  <1> USE DEF StoppedIsAlone, ServicesRun
  <1>1. Init => Inv
    BY DEF Init
  <1>2. IInv /\ ConnectedIsLinked /\ Inv /\ [Next]_vars /\ [StopsAlone]_vars => Inv'
    <2> SUFFICES ASSUME IInv, ConnectedIsLinked, Inv, [Next]_vars, [StopsAlone]_vars
                 PROVE  Inv'
      OBVIOUS
    <2>0. TypeOK /\ CallbacksAfterSetup /\ LoopFollowsUser
      BY DEF IInv
    <2>1. CASE setup
      BY <2>0, <2>1 DEF setup, CallbacksAfterSetup
    <2>2. CASE on_connect_button \/ get_event
      BY <2>2 DEF on_connect_button, get_event, LoopGoto, serviceVars
    <2>3. CASE StartServices \/ StartState \/ StartAdvertise
      BY <2>3 DEF StartServices, StartState, StartAdvertise, LoopGoto, LoopKeeps
    <2>4. CASE StopTest \/ StopAdvertise
      <3>1. CASE UNCHANGED vars
        BY <3>1 DEF vars, serviceVars
      <3>2. CASE StopsAlone
        <4>1. links = 0 /\ cb = "idle"
          BY <2>4, <3>2 DEF StopsAlone
        <4>2. state_ = "Advertising"
          BY <2>0, <2>4, <4>1
             DEF StopTest, StopAdvertise, ConnectedIsLinked, LoopFollowsUser, PastReturn
        <4> QED
          BY <2>4, <4>1, <4>2 DEF StopTest, StopAdvertise, LoopGoto, LoopKeeps
      <3> QED
        BY <3>1, <3>2
    <2>5. CASE StopServices \/ StopState
      BY <2>5 DEF StopServices, StopState, LoopGoto, LoopKeeps
    <2>6. CASE Connect \/ Disconnect \/ onSecurity
      <3>1. state_ # "Init" /\ loop \notin {"stop.services", "stop.state"}
        BY <2>6 DEF Connect, Disconnect, onSecurity
      <3> QED
        BY <2>6, <3>1 DEF Connect, Disconnect, onSecurity, BleKeeps, serviceVars
    <2>7. CASE Callbacks
      <3>1. cb # "idle" /\ BleKeeps
        BY <2>7 DEF Callbacks, onConnectStop, onConnectState,
                    onDisconnectAdvertise, onDisconnectState
      <3>2. state_ # "Init" /\ loop \notin {"stop.services", "stop.state"}
        BY <3>1
      <3>3. CASE state_ = "NotSetUp"
        BY <2>0, <3>1, <3>3 DEF CallbacksAfterSetup
      <3>4. CASE state_ # "NotSetUp"
        <4>1. state_ \in {"Advertising", "Connected"} /\ state_' # "Init"
          BY <2>0, <2>7, <3>2, <3>4
             DEF TypeOK, Callbacks, onConnectStop, onConnectState,
                 onDisconnectAdvertise, onDisconnectState
        <4> QED
          BY <3>1, <3>2, <4>1 DEF BleKeeps, serviceVars
      <3> QED
        BY <3>3, <3>4
    <2>8. CASE StopBegin
      BY <2>8 DEF StopBegin, LoopGoto, LoopKeeps
    <2>9. CASE UNCHANGED vars
      BY <2>9 DEF vars, serviceVars
    <2> QED
      BY <2>1, <2>2, <2>3, <2>4, <2>5, <2>6, <2>7, <2>8, <2>9 DEF Next, LoopSteps
  <1>3. Inv => NotInitMeansRunning
    BY DEF NotInitMeansRunning, Quiet
  <1> QED
    BY <1>1, <1>2, <1>3, Invariance, ConnectedServer, PTL DEF Spec
=============================================================================
