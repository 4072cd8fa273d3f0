------------------------------- MODULE AppFx -------------------------------
(***************************************************************************)
(* The page framework lib_mini_appfx with the two pages of M5PaperS3_app   *)
(* that send it requests: the menu bar and the menu it pops up.            *)
(*                                                                         *)
(* A touch makes a page append requests to the queue of the app, which     *)
(* executes them one by one before the next touch is looked at; one action *)
(* is one touch or one request.  What pages draw is left out, and touches  *)
(* that neither request anything nor change state are left out with it:    *)
(* those of the app pages and of the menu items Power and Settings.        *)
(*                                                                         *)
(* A definition Name_Fault is not the program's: it is a bug that the      *)
(* properties have to notice when it takes the place of Name.              *)
(***************************************************************************)
EXTENDS Naturals, Sequences

CONSTANTS
  MenuPopup,      \* the page of the menu
  AppMain,        \* the page shown first
  AppDrawCanvas,  \* the page that runs on the short cycle
  MenuTargets,    \* the pages that the menu's items open
  InitialQueue    \* requests the queue is constructed with

AppPages == MenuTargets \cup {AppMain}
Pages == AppPages \cup {MenuPopup}

ASSUME PagesAssumption ==
  /\ MenuPopup \notin AppPages
  /\ AppMain # AppDrawCanvas
ASSUME QueueAssumption == InitialQueue \in Nat

VARIABLES
  app_page_layer,   \* pages one can go back to, the one shown last
  app_page,         \* the page shown and touched
  is_active,        \* pages with is_active set, the menu bar aside
  request_queue,    \* requests not executed yet
  executing,        \* exec_request is running
  has_app_change_,  \* a request of this run changed the page shown
  is_show,          \* the menu bar believes that the menu is shown
  cycle_time_ms_    \* period of the loop

pageVars == <<app_page_layer, app_page, is_active>>
queueVars == <<request_queue, executing, has_app_change_>>
vars == <<pageVars, queueVars, is_show, cycle_time_ms_>>

-----------------------------------------------------------------------------
(* Requests.                                                               *)

None == [event |-> "None"]
req_change(page) == [event |-> "AppChange", page_id |-> page]
req_popup(page) == [event |-> "AppPopup", page_id |-> page]
req_close_popup == [event |-> "AppClosePopup"]

Requests ==
  {None, req_close_popup} \cup {req_popup(MenuPopup)}
    \cup {req_change(page) : page \in MenuTargets}

\* The handler has appended its requests and returned true: exec_request runs.
Request(reqs) ==
  /\ ~executing
  /\ request_queue' = request_queue \o reqs
  /\ executing' = TRUE
  /\ has_app_change_' = FALSE
  /\ UNCHANGED <<pageVars, cycle_time_ms_>>

-----------------------------------------------------------------------------
(* Touches.                                                                *)

\* The button opens a menu whether or not there is one.
TouchMenuButton_FaultOpens ==
  /\ Request(<<req_popup(MenuPopup)>>)
  /\ is_show' = ~is_show

\* The menu bar forgets the menu that it opened.
TouchMenuButton_FaultForgets ==
  /\ Request(<<IF is_show THEN req_close_popup ELSE req_popup(MenuPopup)>>)
  /\ is_show' = FALSE

\* The menu button toggles on what the menu bar believes, not on the page.
TouchMenuButton ==
  /\ Request(<<IF is_show THEN req_close_popup ELSE req_popup(MenuPopup)>>)
  /\ is_show' = ~is_show

\* An item can only be touched while the menu is the page shown.
TouchMenuItem(page) ==
  /\ app_page = MenuPopup
  /\ Request(<<req_close_popup, req_change(page)>>)
  /\ UNCHANGED is_show

-----------------------------------------------------------------------------
(* Execution of the requests.                                              *)

Front(layer) == SubSeq(layer, 1, Len(layer) - 1)

\* The page that was shown stays active.
ShowLastOf_FaultKeepsActive(layer) ==
  /\ app_page_layer' = layer
  /\ app_page' = layer[Len(layer)]
  /\ is_active' = is_active \cup {layer[Len(layer)]}
  /\ has_app_change_' = TRUE

\* The page shown is taken from the end of the layer and loses is_active.
ShowLastOf(layer) ==
  /\ app_page_layer' = layer
  /\ app_page' = layer[Len(layer)]
  /\ is_active' = (is_active \ {app_page}) \cup {layer[Len(layer)]}
  /\ has_app_change_' = TRUE

exec_request_impl(req) ==
  \/ /\ req.event = "AppChange"
     /\ ShowLastOf(Append(Front(app_page_layer), req.page_id))
  \/ /\ req.event = "AppPopup"
     /\ ShowLastOf(Append(app_page_layer, req.page_id))
  \/ /\ req.event = "AppClosePopup"
     /\ Len(app_page_layer) > 1
     /\ ShowLastOf(Front(app_page_layer))
  \/ /\ \/ req.event = "None"
        \/ req.event = "AppClosePopup" /\ Len(app_page_layer) <= 1
     /\ UNCHANGED <<pageVars, has_app_change_>>

ExecRequest ==
  /\ executing
  /\ request_queue # <<>>
  /\ exec_request_impl(Head(request_queue))
  /\ request_queue' = Tail(request_queue)
  /\ UNCHANGED <<executing, is_show, cycle_time_ms_>>

\* The pages other than the canvas have no period.
on_change_app_FaultNoDefault(page) ==
  cycle_time_ms_' = IF page = AppDrawCanvas THEN 50 ELSE 0

\* Opening the menu is not taken for a change of the page.
on_change_app_FaultIgnoresMenu(page) ==
  cycle_time_ms_' = CASE page = AppDrawCanvas -> 50
                      [] page = MenuPopup -> cycle_time_ms_
                      [] OTHER -> 100

\* The loop's period follows the page, once per queue, if the page changed.
on_change_app(page) ==
  cycle_time_ms_' = IF page = AppDrawCanvas THEN 50 ELSE 100

EndExec ==
  /\ executing
  /\ request_queue = <<>>
  /\ \/ has_app_change_ /\ on_change_app(app_page)
     \/ ~has_app_change_ /\ UNCHANGED cycle_time_ms_
  /\ executing' = FALSE
  /\ UNCHANGED <<pageVars, request_queue, has_app_change_, is_show>>

-----------------------------------------------------------------------------
Init ==
  /\ app_page_layer = <<AppMain>>
  /\ app_page = AppMain
  /\ is_active = {AppMain}
  /\ request_queue = [i \in 1 .. InitialQueue |-> None]
  /\ executing = FALSE
  /\ has_app_change_ = FALSE
  /\ is_show = FALSE
  /\ cycle_time_ms_ = 100

Next ==
  \/ TouchMenuButton
  \/ \E page \in MenuTargets : TouchMenuItem(page)
  \/ ExecRequest
  \/ EndExec

Spec == Init /\ [][Next]_vars

-----------------------------------------------------------------------------
(* Properties.                                                             *)

TypeOK ==
  /\ app_page_layer \in Seq(Pages)
  /\ app_page \in Pages
  /\ is_active \subseteq Pages
  /\ request_queue \in Seq(Requests)
  /\ executing \in BOOLEAN
  /\ has_app_change_ \in BOOLEAN
  /\ is_show \in BOOLEAN
  /\ cycle_time_ms_ \in {50, 100}

\* The layer is one app page with at most the menu on top, at every point of
\* every queue: popups never pile up, although the menu button decides by
\* is_show alone and the menu's items leave is_show as it is.
MenuAboveApp ==
  /\ Len(app_page_layer) \in 1 .. 2
  /\ app_page_layer[1] \in AppPages
  /\ Len(app_page_layer) = 2 => app_page_layer[2] = MenuPopup

\* Exactly the page shown has is_active set, through any queue of changes,
\* popups and closes (app.hpp:291-346 sets it in four places).
ShownIsActive ==
  /\ app_page = app_page_layer[Len(app_page_layer)]
  /\ is_active = {app_page}

\* Between two touches the loop runs on the period of the page shown, also
\* when the page came back by closing a popup (app.hpp:331-342).
CycleFollowsPage ==
  ~executing => cycle_time_ms_ = IF app_page = AppDrawCanvas THEN 50 ELSE 100

\* The menu bar never takes an open menu for a closed one: a second menu is
\* not opened over the first.
MenuIsKnown == ~executing /\ app_page = MenuPopup => is_show
=============================================================================
