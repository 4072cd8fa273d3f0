---------------------------- MODULE AppFxProofs ----------------------------
(***************************************************************************)
(* The menu never piles up on the layer of pages, for every set of pages   *)
(* and every queue the app starts with.                                    *)
(***************************************************************************)
EXTENDS AppFx, TLAPS

-----------------------------------------------------------------------------
(* The inductive invariant: what can be in the queue, and how is_show      *)
(* follows the menu while the queue is executed.                           *)

\* Requests that do something come last: a popup of the menu, a close, or the
\* close and change of a menu item.
QueueShape ==
  \A i \in 1 .. Len(request_queue) :
    LET req == request_queue[i] IN
    /\ req.event = "AppPopup" =>
         /\ executing /\ is_show
         /\ i = Len(request_queue)
         /\ Len(app_page_layer) = 1
    /\ req.event = "AppChange" =>
         /\ executing
         /\ i = Len(request_queue)
         /\ i = 1 => Len(app_page_layer) = 1
         /\ i > 1 => request_queue[i - 1].event = "AppClosePopup"
    /\ req.event = "AppClosePopup" =>
         /\ executing
         /\ \/ i = Len(request_queue)
            \/ /\ i = Len(request_queue) - 1
               /\ request_queue[i + 1].event = "AppChange"

\* An open menu is known to the menu bar, or about to be closed.
MenuKnownOrClosing ==
  Len(app_page_layer) = 2 =>
    \/ is_show
    \/ \E i \in 1 .. Len(request_queue) :
         request_queue[i].event = "AppClosePopup"

IInv ==
  /\ TypeOK
  /\ MenuAboveApp
  /\ ShownIsActive
  /\ QueueShape
  /\ MenuKnownOrClosing

-----------------------------------------------------------------------------
(* Lemmas about the layer and the queue.                                   *)

LEMMA FrontOfOne ==
  ASSUME NEW S, NEW q \in Seq(S), Len(q) = 1
  PROVE  Front(q) \in Seq(S) /\ Len(Front(q)) = 0
  BY DEF Front

LEMMA FrontOfTwo ==
  ASSUME NEW S, NEW q \in Seq(S), Len(q) = 2
  PROVE  Front(q) \in Seq(S) /\ Len(Front(q)) = 1 /\ Front(q)[1] = q[1]
  BY DEF Front

LEMMA AppendToNone ==
  ASSUME NEW S, NEW q \in Seq(S), NEW e \in S, Len(q) = 0
  PROVE  /\ Append(q, e) \in Seq(S) /\ Len(Append(q, e)) = 1
         /\ Append(q, e)[1] = e
  OBVIOUS

LEMMA AppendToOne ==
  ASSUME NEW S, NEW q \in Seq(S), NEW e \in S, Len(q) = 1
  PROVE  /\ Append(q, e) \in Seq(S) /\ Len(Append(q, e)) = 2
         /\ Append(q, e)[1] = q[1] /\ Append(q, e)[2] = e
  <1>1. /\ Append(q, e) \in Seq(S) /\ Len(Append(q, e)) = Len(q) + 1
        /\ Append(q, e)[Len(q) + 1] = e
        /\ \A i \in 1 .. Len(q) : Append(q, e)[i] = q[i]
    OBVIOUS
  <1> QED
    BY <1>1

LEMMA TailIndex ==
  ASSUME NEW S, NEW q \in Seq(S), q # <<>>
  PROVE  /\ Tail(q) \in Seq(S) /\ Len(Tail(q)) = Len(q) - 1
         /\ Len(q) \in Nat \ {0}
         /\ Head(q) = q[1] /\ Head(q) \in S
         /\ \A i \in 1 .. Len(q) - 1 : Tail(q)[i] = q[i + 1]
  OBVIOUS

LEMMA ConcatOne ==
  ASSUME NEW S, NEW q \in Seq(S), NEW a \in S
  PROVE  /\ q \o <<a>> \in Seq(S) /\ Len(q \o <<a>>) = Len(q) + 1
         /\ \A i \in 1 .. Len(q) : (q \o <<a>>)[i] = q[i]
         /\ (q \o <<a>>)[Len(q) + 1] = a
  OBVIOUS

LEMMA ConcatTwo ==
  ASSUME NEW S, NEW q \in Seq(S), NEW a \in S, NEW b \in S
  PROVE  /\ q \o <<a, b>> \in Seq(S) /\ Len(q \o <<a, b>>) = Len(q) + 2
         /\ \A i \in 1 .. Len(q) : (q \o <<a, b>>)[i] = q[i]
         /\ (q \o <<a, b>>)[Len(q) + 1] = a
         /\ (q \o <<a, b>>)[Len(q) + 2] = b
  OBVIOUS

\* The fields of a request, by its event.
LEMMA RequestFields ==
  ASSUME NEW req \in Requests
  PROVE  /\ req.event \in {"None", "AppChange", "AppPopup", "AppClosePopup"}
         /\ req.event = "AppChange" => req.page_id \in MenuTargets
         /\ req.event = "AppPopup" => req.page_id = MenuPopup
  BY DEF Requests, None, req_change, req_popup, req_close_popup

-----------------------------------------------------------------------------
(* The initial state.                                                      *)

LEMMA InitIInv == Init => IInv
  <1> SUFFICES ASSUME Init PROVE IInv
    OBVIOUS
  <1> USE QueueAssumption DEF Init
  <1>1. /\ request_queue \in Seq(Requests)
        /\ \A i \in 1 .. Len(request_queue) : request_queue[i] = None
    <2>1. None \in Requests
      BY DEF Requests
    <2> QED
      BY <2>1
  <1>2. /\ app_page_layer \in Seq(Pages) /\ Len(app_page_layer) = 1
        /\ app_page_layer[1] = AppMain /\ AppMain \in AppPages
        /\ AppMain \in Pages
    BY DEF Pages, AppPages
  <1>3. TypeOK
    BY <1>1, <1>2 DEF TypeOK
  <1>4. MenuAboveApp /\ ShownIsActive /\ MenuKnownOrClosing
    BY <1>2 DEF MenuAboveApp, ShownIsActive, MenuKnownOrClosing
  <1>5. QueueShape
    BY <1>1 DEF QueueShape, None
  <1> QED
    BY <1>3, <1>4, <1>5 DEF IInv

-----------------------------------------------------------------------------
(* Touches: requests are appended to a queue of requests that do nothing.  *)

LEMMA WaitingQueue ==
  ASSUME IInv, ~executing
  PROVE  /\ request_queue \in Seq(Requests) /\ Len(request_queue) \in Nat
         /\ \A i \in 1 .. Len(request_queue) : request_queue[i].event = "None"
  <1>1. request_queue \in Seq(Requests) /\ Len(request_queue) \in Nat
    BY DEF IInv, TypeOK
  <1>2. ASSUME NEW i \in 1 .. Len(request_queue)
        PROVE  request_queue[i].event = "None"
    <2>1. request_queue[i] \in Requests
      BY <1>1
    <2> QED
      BY <2>1, RequestFields DEF IInv, QueueShape
  <1> QED
    BY <1>1, <1>2

LEMMA MenuButtonStep ==
  ASSUME IInv, TouchMenuButton
  PROVE  IInv'
  <1> DEFINE req == IF is_show THEN req_close_popup ELSE req_popup(MenuPopup)
             n == Len(request_queue)
  <1>1. req \in Requests /\ req.event \in {"AppClosePopup", "AppPopup"}
    BY DEF Requests, req_close_popup, req_popup
  <1>2. ~executing /\ Request(<<req>>)
    BY DEF TouchMenuButton, Request
  <1> HIDE DEF req
  <1>3. /\ request_queue' \in Seq(Requests) /\ n \in Nat
        /\ Len(request_queue') = n + 1
        /\ \A i \in 1 .. n : request_queue'[i].event = "None"
        /\ request_queue'[n + 1] = req
    <2>1. request_queue' = request_queue \o <<req>>
      BY <1>2 DEF Request
    <2> QED
      BY <1>1, <1>2, <2>1, WaitingQueue, ConcatOne
  <1>4. /\ executing' = TRUE /\ is_show' = ~is_show
        /\ UNCHANGED <<app_page_layer, app_page, is_active, cycle_time_ms_>>
        /\ has_app_change_' = FALSE
    BY DEF TouchMenuButton, Request, pageVars
  <1>5. \A i \in 1 .. n : request_queue[i].event # "AppClosePopup"
    BY <1>2 DEF IInv, QueueShape
  <1>6. /\ req.event = "AppPopup" => is_show' /\ Len(app_page_layer) = 1
        /\ req.event = "AppClosePopup" \/ req.event = "AppPopup"
    <2>1. CASE is_show
      BY <2>1 DEF req, req_close_popup
    <2>2. CASE ~is_show
      <3>1. Len(app_page_layer) # 2
        BY <1>5, <2>2 DEF IInv, MenuKnownOrClosing
      <3>2. Len(app_page_layer) = 1
        BY <3>1 DEF IInv, MenuAboveApp
      <3>3. is_show'
        BY <1>4, <2>2
      <3>4. req.event = "AppPopup"
        BY <2>2 DEF req, req_popup
      <3> QED
        BY <3>2, <3>3, <3>4
    <2> QED
      BY <2>1, <2>2
  <1>7. TypeOK'
    BY <1>3, <1>4 DEF IInv, TypeOK
  <1>8. MenuAboveApp' /\ ShownIsActive'
    BY <1>4 DEF IInv, MenuAboveApp, ShownIsActive
  <1>9. QueueShape'
    BY <1>3, <1>4, <1>6 DEF QueueShape
  <1>10. MenuKnownOrClosing'
    BY <1>3, <1>4, <1>6 DEF MenuKnownOrClosing
  <1> QED
    BY <1>7, <1>8, <1>9, <1>10 DEF IInv

LEMMA MenuItemStep ==
  ASSUME IInv, NEW page \in MenuTargets, TouchMenuItem(page)
  PROVE  IInv'
  <1> DEFINE n == Len(request_queue)
  <1>1. /\ req_close_popup \in Requests /\ req_change(page) \in Requests
        /\ ~executing
    BY DEF TouchMenuItem, Request, Requests
  <1>2. /\ request_queue' \in Seq(Requests) /\ n \in Nat
        /\ Len(request_queue') = n + 2
        /\ \A i \in 1 .. n : request_queue'[i].event = "None"
        /\ request_queue'[n + 1] = req_close_popup
        /\ request_queue'[n + 2] = req_change(page)
    <2>1. request_queue' = request_queue \o <<req_close_popup, req_change(page)>>
      BY DEF TouchMenuItem, Request
    <2> QED
      BY <1>1, <2>1, WaitingQueue, ConcatTwo
  <1>3. /\ executing' = TRUE /\ is_show' = is_show
        /\ UNCHANGED <<app_page_layer, app_page, is_active, cycle_time_ms_>>
        /\ has_app_change_' = FALSE
    BY DEF TouchMenuItem, Request, pageVars
  <1>4. /\ request_queue'[n + 1].event = "AppClosePopup"
        /\ request_queue'[n + 2].event = "AppChange"
    BY <1>2 DEF req_close_popup, req_change
  <1>5. TypeOK'
    BY <1>2, <1>3 DEF IInv, TypeOK
  <1>6. MenuAboveApp' /\ ShownIsActive'
    BY <1>3 DEF IInv, MenuAboveApp, ShownIsActive
  <1>7. QueueShape'
    <2> SUFFICES ASSUME NEW i \in 1 .. n + 2,
                        i \in 1 .. n \/ i = n + 1 \/ i = n + 2
                 PROVE  LET req == request_queue'[i] IN
                        /\ req.event = "AppPopup" => FALSE
                        /\ req.event = "AppChange" => i = n + 2
                        /\ req.event = "AppClosePopup" => i = n + 1
      BY <1>2, <1>3, <1>4 DEF QueueShape
    <2> QED
      BY <1>2, <1>4
  <1>8. MenuKnownOrClosing'
    BY <1>2, <1>4 DEF MenuKnownOrClosing
  <1> QED
    BY <1>5, <1>6, <1>7, <1>8 DEF IInv

-----------------------------------------------------------------------------
(* Execution: the first request is taken off and changes the layer.        *)

\* Whatever layer is shown, its last page is the page shown and the only one
\* active.
LEMMA ShowLast ==
  ASSUME IInv, NEW STATE layer, layer \in Seq(Pages), Len(layer) \in Nat \ {0},
         ShowLastOf(layer)
  PROVE  /\ app_page_layer' = layer
         /\ app_page' \in Pages /\ is_active' \subseteq Pages
         /\ has_app_change_' \in BOOLEAN
         /\ ShownIsActive'
  <1>1. layer[Len(layer)] \in Pages
    OBVIOUS
  <1>2. app_page' = layer[Len(layer)] /\ is_active' = {app_page'}
    BY DEF ShowLastOf, IInv, ShownIsActive
  <1> QED
    BY <1>1, <1>2 DEF ShowLastOf, ShownIsActive

LEMMA ExecStep ==
  ASSUME IInv, ExecRequest
  PROVE  IInv'
  <1> DEFINE q == request_queue
             layer == app_page_layer
             req == Head(q)
  <1>1. /\ q \in Seq(Requests) /\ q # <<>> /\ Len(q) \in Nat \ {0}
        /\ req = q[1] /\ req \in Requests
        /\ q' \in Seq(Requests) /\ Len(q') = Len(q) - 1
        /\ \A i \in 1 .. Len(q) - 1 : q'[i] = q[i + 1]
    <2>1. q \in Seq(Requests) /\ q # <<>> /\ q' = Tail(q)
      BY DEF ExecRequest, IInv, TypeOK
    <2> QED
      BY <2>1, TailIndex
  <1>2. UNCHANGED <<executing, is_show, cycle_time_ms_>> /\ executing
    BY DEF ExecRequest
  <1>3. /\ layer \in Seq(Pages) /\ Len(layer) \in 1 .. 2 /\ layer # <<>>
        /\ layer[1] \in AppPages
        /\ Len(layer) = 2 => layer[2] = MenuPopup
    BY DEF IInv, TypeOK, MenuAboveApp
  <1>4. req.event \in {"None", "AppChange", "AppPopup", "AppClosePopup"}
    BY <1>1, RequestFields
  <1>5. exec_request_impl(req)
    BY DEF ExecRequest
  <1>6. /\ req.event = "AppPopup" => is_show /\ Len(q) = 1 /\ Len(layer) = 1
        /\ req.event = "AppChange" => Len(q) = 1 /\ Len(layer) = 1
        /\ req.event = "AppClosePopup" =>
             \/ Len(q) = 1
             \/ (Len(q) = 2 /\ q[2].event = "AppChange")
    <2>1. 1 \in 1 .. Len(q)
      BY <1>1
    <2>2. /\ q[1].event = "AppPopup" =>
               is_show /\ 1 = Len(q) /\ Len(layer) = 1
          /\ q[1].event = "AppChange" => 1 = Len(q) /\ Len(layer) = 1
          /\ q[1].event = "AppClosePopup" =>
               1 = Len(q) \/ (1 = Len(q) - 1 /\ q[1 + 1].event = "AppChange")
      BY <2>1 DEF IInv, QueueShape
    <2> QED
      BY <1>1, <2>2
  <1> HIDE DEF q, layer, req
  <1>7. CASE req.event = "AppPopup"
    <2>1. /\ req.page_id = MenuPopup /\ MenuPopup \in Pages
          /\ ShowLastOf(Append(layer, MenuPopup))
      BY <1>1, <1>5, <1>7, RequestFields DEF exec_request_impl, Pages, layer
    <2>2. Len(layer) = 1 /\ Len(q) = 1 /\ is_show
      BY <1>7, <1>6
    <2>3. /\ layer' \in Seq(Pages) /\ Len(layer') = 2
          /\ layer'[1] = layer[1] /\ layer'[2] = MenuPopup
          /\ app_page' \in Pages /\ is_active' \subseteq Pages
          /\ has_app_change_' \in BOOLEAN
          /\ ShownIsActive'
      <3> DEFINE new == Append(layer, MenuPopup)
      <3>1. /\ new \in Seq(Pages) /\ Len(new) = 2
            /\ new[1] = layer[1] /\ new[2] = MenuPopup
            /\ ShowLastOf(new)
        BY <1>3, <2>1, <2>2, AppendToOne
      <3> HIDE DEF new
      <3>2. /\ layer' = new
            /\ app_page' \in Pages /\ is_active' \subseteq Pages
            /\ has_app_change_' \in BOOLEAN
            /\ ShownIsActive'
        BY <3>1, ShowLast DEF layer
      <3> QED
        BY <3>1, <3>2
    <2>4. TypeOK'
      BY <1>1, <1>2, <2>3 DEF IInv, TypeOK, q, layer
    <2>5. MenuAboveApp' /\ QueueShape' /\ MenuKnownOrClosing'
      BY <1>1, <1>2, <1>3, <2>2, <2>3
      DEF MenuAboveApp, QueueShape, MenuKnownOrClosing, q, layer
    <2> QED
      BY <2>3, <2>4, <2>5 DEF IInv
  <1>8. CASE req.event = "AppChange"
    <2>1. /\ req.page_id \in AppPages /\ req.page_id \in Pages
          /\ ShowLastOf(Append(Front(layer), req.page_id))
      BY <1>1, <1>5, <1>8, RequestFields
      DEF exec_request_impl, Pages, AppPages, layer
    <2>2. Len(layer) = 1 /\ Len(q) = 1
      BY <1>8, <1>6
    <2>3. /\ layer' \in Seq(Pages) /\ Len(layer') = 1
          /\ layer'[1] = req.page_id
          /\ app_page' \in Pages /\ is_active' \subseteq Pages
          /\ has_app_change_' \in BOOLEAN
          /\ ShownIsActive'
      <3>1. Front(layer) \in Seq(Pages) /\ Len(Front(layer)) = 0
        BY <1>3, <2>2, FrontOfOne
      <3> DEFINE new == Append(Front(layer), req.page_id)
      <3>2. /\ new \in Seq(Pages) /\ Len(new) = 1
            /\ new[1] = req.page_id
            /\ ShowLastOf(new)
        BY <3>1, <2>1, AppendToNone
      <3> HIDE DEF new
      <3>3. /\ layer' = new
            /\ app_page' \in Pages /\ is_active' \subseteq Pages
            /\ has_app_change_' \in BOOLEAN
            /\ ShownIsActive'
        BY <3>2, ShowLast DEF layer
      <3> QED
        BY <3>2, <3>3
    <2>4. TypeOK'
      BY <1>1, <1>2, <2>3 DEF IInv, TypeOK, q, layer
    <2>5. MenuAboveApp' /\ QueueShape' /\ MenuKnownOrClosing'
      BY <1>1, <1>2, <2>1, <2>2, <2>3
      DEF MenuAboveApp, QueueShape, MenuKnownOrClosing, q, layer
    <2> QED
      BY <2>3, <2>4, <2>5 DEF IInv
  <1>9. CASE req.event = "AppClosePopup" /\ Len(layer) = 2
    <2>1. ShowLastOf(Front(layer))
      BY <1>5, <1>9 DEF exec_request_impl, layer
    <2>2. /\ layer' \in Seq(Pages) /\ Len(layer') = 1
          /\ layer'[1] = layer[1]
          /\ app_page' \in Pages /\ is_active' \subseteq Pages
          /\ has_app_change_' \in BOOLEAN
          /\ ShownIsActive'
      <3>1. /\ Front(layer) \in Seq(Pages) /\ Len(Front(layer)) = 1
            /\ Front(layer)[1] = layer[1]
        BY <1>3, <1>9, FrontOfTwo
      <3> QED
        BY <2>1, <3>1, ShowLast DEF layer
    <2>3. TypeOK'
      BY <1>1, <1>2, <2>2 DEF IInv, TypeOK, q, layer
    <2>4. Len(q) = 1 \/ (Len(q) = 2 /\ q[2].event = "AppChange")
      BY <1>9, <1>6
    <2>5. MenuAboveApp' /\ MenuKnownOrClosing'
      BY <1>3, <2>2 DEF MenuAboveApp, MenuKnownOrClosing, layer
    <2>6. QueueShape'
      <3>1. CASE Len(q) = 1
        BY <1>1, <3>1 DEF QueueShape, q
      <3>2. CASE Len(q) = 2 /\ q[2].event = "AppChange"
        <4>1. Len(q') = 1 /\ q'[1] = q[2]
          <5>1. 1 \in 1 .. Len(q) - 1 /\ 1 + 1 = 2
            BY <3>2
          <5> QED
            BY <1>1, <3>2, <5>1
        <4>2. QueueShape' =
                \A i \in {1} : LET r == q'[i] IN
                  r.event = "AppChange" => executing' /\ Len(layer') = 1
          BY <3>2, <4>1 DEF QueueShape, q, layer
        <4> QED
          BY <1>2, <2>2, <4>2
      <3> QED
        BY <2>4, <3>1, <3>2
    <2> QED
      BY <2>2, <2>3, <2>5, <2>6 DEF IInv
  <1>10. CASE \/ req.event = "None"
              \/ req.event = "AppClosePopup" /\ Len(layer) = 1
    <2>1. UNCHANGED <<app_page_layer, app_page, is_active, has_app_change_>>
      BY <1>3, <1>5, <1>10 DEF exec_request_impl, pageVars, layer
    <2>2. TypeOK'
      BY <1>1, <1>2, <2>1 DEF IInv, TypeOK, q
    <2>3. MenuAboveApp' /\ ShownIsActive'
      BY <2>1 DEF IInv, MenuAboveApp, ShownIsActive
    <2>4. MenuKnownOrClosing'
      <3>1. CASE Len(layer) # 2
        BY <2>1, <3>1 DEF MenuKnownOrClosing, layer
      <3>2. CASE Len(layer) = 2 /\ ~is_show
        <4>1. PICK i \in 1 .. Len(q) : q[i].event = "AppClosePopup"
          BY <3>2 DEF IInv, MenuKnownOrClosing, q, layer
        <4>2. i # 1
          BY <1>1, <1>10, <3>2, <4>1
        <4>3. i - 1 \in 1 .. Len(q) - 1 /\ (i - 1) + 1 = i
          BY <1>1, <4>2
        <4>4. i - 1 \in 1 .. Len(q') /\ q'[i - 1].event = "AppClosePopup"
          BY <1>1, <4>1, <4>3
        <4> QED
          BY <4>4 DEF MenuKnownOrClosing, q
      <3> QED
        BY <1>2, <3>1, <3>2 DEF MenuKnownOrClosing
    <2>5. QueueShape'
      <3>1. QueueShape
        BY DEF IInv
      <3> SUFFICES ASSUME NEW i \in 1 .. Len(q) - 1
                   PROVE  LET r == q'[i] IN
                     /\ r.event = "AppPopup" =>
                          /\ executing /\ is_show
                          /\ i = Len(q')
                          /\ Len(layer) = 1
                     /\ r.event = "AppChange" =>
                          /\ executing
                          /\ i = Len(q')
                          /\ i = 1 => Len(layer) = 1
                          /\ i > 1 => q'[i - 1].event = "AppClosePopup"
                     /\ r.event = "AppClosePopup" =>
                          /\ executing
                          /\ \/ i = Len(q')
                             \/ /\ i = Len(q') - 1
                                /\ q'[i + 1].event = "AppChange"
        BY <1>1, <1>2, <2>1 DEF QueueShape, q, layer
      <3>2. /\ i + 1 \in 1 .. Len(q) /\ q'[i] = q[i + 1]
            /\ i > 1 => q'[i - 1] = q[i]
            /\ i + 1 \in 1 .. Len(q) - 1 => q'[i + 1] = q[i + 2]
            /\ i = 1 => q[i].event # "AppClosePopup" \/ Len(layer) = 1
        BY <1>1, <1>10
      <3>3. LET r == q[i + 1] IN
            /\ r.event = "AppPopup" => is_show /\ i + 1 = Len(q) /\ Len(layer) = 1
            /\ r.event = "AppChange" =>
                 i + 1 = Len(q) /\ q[i].event = "AppClosePopup"
            /\ r.event = "AppClosePopup" =>
                 \/ i + 1 = Len(q)
                 \/ i + 1 = Len(q) - 1 /\ q[i + 2].event = "AppChange"
        BY <3>1, <3>2 DEF QueueShape, q, layer
      <3> QED
        BY <1>1, <1>2, <3>2, <3>3
    <2> QED
      BY <2>2, <2>3, <2>4, <2>5 DEF IInv
  <1> QED
    BY <1>3, <1>4, <1>7, <1>8, <1>9, <1>10

LEMMA EndStep ==
  ASSUME IInv, EndExec \/ UNCHANGED vars
  PROVE  IInv'
  <1>1. CASE EndExec
    <2>1. /\ request_queue = <<>> /\ executing' = FALSE
          /\ cycle_time_ms_' \in {50, 100}
          /\ UNCHANGED <<app_page_layer, app_page, is_active, request_queue,
                         has_app_change_, is_show>>
      BY <1>1 DEF EndExec, on_change_app, pageVars, IInv, TypeOK
    <2>2. TypeOK'
      BY <2>1 DEF IInv, TypeOK
    <2>3. MenuAboveApp' /\ ShownIsActive' /\ MenuKnownOrClosing'
      BY <2>1 DEF IInv, MenuAboveApp, ShownIsActive, MenuKnownOrClosing
    <2>4. Len(request_queue') = 0
      BY <2>1
    <2>5. QueueShape'
      BY <2>4 DEF QueueShape
    <2> QED
      BY <2>2, <2>3, <2>5 DEF IInv
  <1>2. CASE UNCHANGED vars
    BY <1>2 DEF vars, pageVars, queueVars, IInv, TypeOK, MenuAboveApp,
                ShownIsActive, QueueShape, MenuKnownOrClosing
  <1> QED
    BY <1>1, <1>2

LEMMA NextIInv == IInv /\ [Next]_vars => IInv'
  BY MenuButtonStep, MenuItemStep, ExecStep, EndStep DEF Next

-----------------------------------------------------------------------------
(* Theorems.                                                               *)

\* The inductive invariant holds through every sequence of touches.
THEOREM Invariance == Spec => []IInv
  <1> QED
    BY InitIInv, NextIInv, PTL DEF Spec

\* The layer never holds more than an app page and the menu on top, although
\* the menu's items leave the menu bar with a wrong is_show
\* (menu_header.cpp:43-54, menu_popup.cpp:73-100).
THEOREM MenuNeverPilesUp == Spec => []MenuAboveApp
  <1>1. IInv => MenuAboveApp
    BY DEF IInv
  <1> QED
    BY <1>1, Invariance, PTL

\* The page shown is the last of the layer and the only active one
\* (app.hpp:291-346).
THEOREM OneActivePage == Spec => []ShownIsActive
  <1>1. IInv => ShownIsActive
    BY DEF IInv
  <1> QED
    BY <1>1, Invariance, PTL

\* Every variable keeps its range.
THEOREM TypeCorrect == Spec => []TypeOK
  <1>1. IInv => TypeOK
    BY DEF IInv
  <1> QED
    BY <1>1, Invariance, PTL

\* Between touches an open menu is known to the menu bar: of the two ways a
\* menu can be closed, the one that leaves is_show set is the harmless one
\* (menu_header.cpp:43-54).
THEOREM OpenMenuIsKnown == Spec => []MenuIsKnown
  <1>1. IInv => MenuIsKnown
    <2> SUFFICES ASSUME IInv, ~executing, app_page = MenuPopup PROVE is_show
      BY DEF MenuIsKnown
    <2>1. Len(app_page_layer) = 2
      <3>1. /\ Len(app_page_layer) \in 1 .. 2 /\ app_page_layer[1] \in AppPages
            /\ app_page_layer[Len(app_page_layer)] = MenuPopup
        BY DEF IInv, MenuAboveApp, ShownIsActive
      <3>2. app_page_layer[1] # MenuPopup
        BY <3>1, PagesAssumption
      <3>3. Len(app_page_layer) = 1 \/ Len(app_page_layer) = 2
        BY <3>1
      <3> QED
        BY <3>1, <3>2, <3>3
    <2>2. \A i \in 1 .. Len(request_queue) : request_queue[i].event # "AppClosePopup"
      BY DEF IInv, QueueShape
    <2> QED
      BY <2>1, <2>2 DEF IInv, MenuKnownOrClosing
  <1> QED
    BY <1>1, Invariance, PTL

\* The period that belongs to the page shown.
CycleOf(page) == IF page = AppDrawCanvas THEN 50 ELSE 100

\* The loop runs on the period of the page shown, whichever requests of a queue
\* changed it: until on_change_app looks, has_app_change_ remembers that one did
\* (app.cpp:106-122).
THEOREM PeriodFollowsPage == Spec => []CycleFollowsPage
  <1> DEFINE Inv == (executing /\ has_app_change_) \/ cycle_time_ms_ = CycleOf(app_page)
  <1>1. Init => Inv
    BY PagesAssumption DEF Init, CycleOf
  <1>2. IInv /\ Inv /\ [Next]_vars => Inv'
    <2> SUFFICES ASSUME IInv, Inv, [Next]_vars PROVE Inv'
      OBVIOUS
    <2>1. CASE TouchMenuButton \/ \E page \in MenuTargets : TouchMenuItem(page)
      BY <2>1 DEF TouchMenuButton, TouchMenuItem, Request, pageVars
    <2>2. CASE ExecRequest
      <3>1. executing /\ UNCHANGED <<executing, cycle_time_ms_>>
        BY <2>2 DEF ExecRequest
      <3>2. has_app_change_' \/ UNCHANGED <<app_page, has_app_change_>>
        BY <2>2 DEF ExecRequest, exec_request_impl, ShowLastOf, pageVars
      <3> QED
        BY <3>1, <3>2 DEF CycleOf
    <2>3. CASE EndExec
      BY <2>3 DEF EndExec, on_change_app, pageVars, CycleOf
    <2>4. CASE UNCHANGED vars
      BY <2>4 DEF vars, pageVars, queueVars, CycleOf
    <2> QED
      BY <2>1, <2>2, <2>3, <2>4 DEF Next
  <1>3. Inv => CycleFollowsPage
    BY DEF CycleFollowsPage, CycleOf
  <1> QED
    BY <1>1, <1>2, <1>3, Invariance, PTL DEF Spec
=============================================================================
