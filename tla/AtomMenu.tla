------------------------------ MODULE AtomMenu ------------------------------
(***************************************************************************)
(* lib_menu of AtomS3_platformio_uart: menu_mng walks a tree of menus with *)
(* three buttons and puts a popup over it.  The manager keeps its own copy *)
(* of the front menu's size and selection, handed over by the nodes in     *)
(* data_interface.                                                         *)
(*                                                                         *)
(* The tree is a constant.  An item leads to a menu or is a leaf whose     *)
(* actor asks to go back (actor_back, the only actor of main.cpp).  The    *)
(* items of a menu over a container share one menu, and an empty element   *)
(* of the container refuses to be entered.  Labels and rendering are left  *)
(* out, of the buffer the number of rows is kept.  The popup's actor only  *)
(* asks to close it (popup_progress of main.cpp), so popups lie on top of  *)
(* the menus of the stack and are counted.                                 *)
(*                                                                         *)
(* Name_Fault is a bug that the properties have to notice in the place of  *)
(* Name.                                                                   *)
(***************************************************************************)
EXTENDS Naturals, Sequences

CONSTANTS
  Menus, Root,   \* the nodes with children, and the one on top
  Items,         \* the items of each menu, in their order
  Level,         \* distance of a menu from the root
  MaxPopups      \* bound: popups open at a time

Item == [to: Menus \cup {"back"}, valid: BOOLEAN]

ASSUME TreeAssumption ==
  /\ Root \in Menus /\ "back" \notin Menus
  /\ Items \in [Menus -> Seq(Item)]
  /\ \A m \in Menus : Items[m] # <<>>
  /\ \A m \in Menus : \A i \in 1 .. Len(Items[m]) :
       ~Items[m][i].valid => Items[m][i].to \in Menus

\* A tree: every way down leads one level deeper, so none leads round.
ASSUME LevelAssumption ==
  /\ Level \in [Menus -> Nat] /\ Level[Root] = 0
  /\ \A m \in Menus : \A i \in 1 .. Len(Items[m]) :
       Items[m][i].to \in Menus => Level[Items[m][i].to] = Level[m] + 1

ASSUME PopupAssumption == MaxPopups \in Nat

VARIABLES
  open,             \* between on_entry and on_exit
  confirm_stack,    \* the menus of confirm_stack_, the way from the root
  popups,           \* the popups on top of them
  select_idx,       \* select_idx_
  children_count,   \* children_count_
  confirm_index,    \* confirm_index_ of each menu
  data,             \* data_interface: menu_count and select_index
  pos,              \* rows in the buffer
  popup_pos,        \* popup_bk_buff_ptr_pos_
  covered \* a popup came over a popup since the rows were made

vars == <<open, confirm_stack, popups, select_idx, children_count, confirm_index,
          data, pos, popup_pos, covered>>

Front(stack) == stack[Len(stack)]
Parent(stack) == SubSeq(stack, 1, Len(stack) - 1)
Rows(m) == Len(Items[m])

AtMenu == open /\ confirm_stack # <<>> /\ popups = 0
AtPopup == open /\ confirm_stack # <<>> /\ popups > 0

\* export_info of a menu.
Info(m) == [menu_count |-> Rows(m), select_index |-> confirm_index[m]]

-----------------------------------------------------------------------------
(* Entering and leaving menus.                                             *)

\* exec_entry: the manager copies what was handed over.
Enter(stack, m) ==
  /\ confirm_stack' = Append(stack, m)
  /\ data' = Info(m)
  /\ select_idx' = data'.select_index
  /\ children_count' = data'.menu_count
  /\ pos' = Rows(m)
  /\ covered' = FALSE

on_entry ==
  /\ ~open
  /\ open' = TRUE
  /\ popups' = 0
  /\ Enter(<<>>, Root)
  /\ UNCHANGED <<confirm_index, popup_pos>>

on_exit ==
  /\ open /\ confirm_stack # <<>>
  /\ open' = FALSE
  /\ select_idx' = 0
  /\ UNCHANGED <<confirm_stack, popups, children_count, confirm_index, data, pos,
                 popup_pos, covered>>

\* menu_node::on_exit
Left(m) == [confirm_index EXCEPT ![m] = 0]

SelectionAfterBack_FaultKeeps(info) == select_idx

SelectionAfterBack(info) == info.select_index

\* exec_exit.  Without a menu above, the manager reads before its stack: what
\* it does from then on is not modelled.
on_req_back ==
  /\ confirm_index' = Left(Front(confirm_stack))
  /\ confirm_stack' = Parent(confirm_stack)
  /\ IF confirm_stack' = <<>>
     THEN UNCHANGED <<select_idx, children_count, data, pos, covered>>
     ELSE LET m == Front(confirm_stack')
          IN  /\ data' = [menu_count |-> Rows(m), select_index |-> confirm_index'[m]]
              /\ select_idx' = SelectionAfterBack(data')
              /\ children_count' = data'.menu_count
              /\ pos' = Rows(m)
              /\ covered' = FALSE

\* An entry that is refused has already handed over its size and selection.
Refuse(m) ==
  /\ data' = Info(m)
  /\ UNCHANGED <<confirm_stack, select_idx, children_count, pos, covered>>

-----------------------------------------------------------------------------
(* The buttons.                                                            *)

NextIndex_FaultNoWrap(i) == IF i + 1 > children_count THEN 0 ELSE i + 1

NextIndex(i) == IF i + 1 >= children_count THEN 0 ELSE i + 1

PrevIndex_FaultNoWrap(i) == i - 1

PrevIndex(i) == IF i = 0 THEN children_count - 1 ELSE i - 1

Select(index(_)) ==
  /\ AtMenu \/ AtPopup
  /\ select_idx' = index(select_idx)
  /\ UNCHANGED <<open, confirm_stack, popups, children_count, confirm_index, data,
                 pos, popup_pos, covered>>

on_select_next == Select(NextIndex)
on_select_prev == Select(PrevIndex)

Chosen_FaultFirst(m) == confirm_index

\* menu_node::on_confirm remembers the item.
Chosen(m) == [confirm_index EXCEPT ![m] = select_idx]

\* Beyond its items a menu reads outside its table: what it does from then on
\* is not modelled.
on_confirm_menu ==
  /\ AtMenu /\ select_idx < Rows(Front(confirm_stack))
  /\ UNCHANGED <<open, popups, popup_pos>>
  /\ LET m    == Front(confirm_stack)
         item == Items[m][select_idx + 1]
     IN  CASE item.to = "back" -> on_req_back
           [] item.to # "back" /\ item.valid ->
                confirm_index' = Chosen(m) /\ Enter(confirm_stack, item.to)
           [] item.to # "back" /\ ~item.valid ->
                confirm_index' = Chosen(m) /\ Refuse(item.to)

-----------------------------------------------------------------------------
(* The popup, which may come over another one.                             *)

on_popup ==
  /\ open /\ confirm_stack # <<>> /\ popups < MaxPopups
  /\ popups' = popups + 1
  /\ popup_pos' = pos
  /\ pos' = 0
  /\ data' = [data EXCEPT !.select_index = select_idx]
  /\ children_count' = data.menu_count
  /\ covered' = (covered \/ popups > 0)
  /\ UNCHANGED <<open, confirm_stack, select_idx, confirm_index>>

RowsAfterPopup_FaultForgotten == pos

RowsAfterPopup == popup_pos

\* on_confirm of the popup's actor asks to close it.
on_exit_popup ==
  /\ AtPopup
  /\ popups' = popups - 1
  /\ pos' = RowsAfterPopup
  /\ UNCHANGED <<open, confirm_stack, select_idx, children_count, confirm_index, data,
                 popup_pos, covered>>

-----------------------------------------------------------------------------
Init ==
  /\ open = FALSE /\ confirm_stack = <<>> /\ popups = 0
  /\ select_idx = 0 /\ children_count = 0
  /\ confirm_index = [m \in Menus |-> 0]
  /\ data = [menu_count |-> 0, select_index |-> 0]
  /\ pos = 0 /\ popup_pos = 0 /\ covered = FALSE

Button == on_select_next \/ on_select_prev \/ on_confirm_menu
Popup == on_popup \/ on_exit_popup

Next == on_entry \/ on_exit \/ Button \/ Popup

Spec == Init /\ [][Next]_vars

-----------------------------------------------------------------------------
(* Properties.                                                             *)

\* Types.
TypeOK ==
  /\ open \in BOOLEAN
  /\ confirm_stack \in Seq(Menus) /\ popups \in 0 .. MaxPopups
  /\ select_idx \in Nat /\ children_count \in Nat
  /\ confirm_index \in [Menus -> Nat]
  /\ data \in [menu_count: Nat, select_index: Nat]
  /\ pos \in Nat /\ popup_pos \in Nat /\ covered \in BOOLEAN

\* No menu that refuses to be entered is longer than the menu above it: so it
\* is in the tree of main.cpp, the library does not ask for it.
RefusedFits ==
  \A m \in Menus : \A i \in 1 .. Len(Items[m]) :
    ~Items[m][i].valid => Len(Items[Items[m][i].to]) <= Len(Items[m])

\* menu.hpp:539: menu_node relies on the manager for the range of the index it
\* confirms.  The manager's count may be one that a refused entry handed over
\* before a popup copied it; in a tree with RefusedFits it still never exceeds
\* the rows of the menu, and nor does the selection.
SelectionInRange ==
  /\ AtMenu => select_idx < Rows(Front(confirm_stack))
  /\ AtMenu => children_count <= Rows(Front(confirm_stack)) /\ children_count > 0

\* The stack is a way down the tree, and each menu on it remembers the item that
\* leads on.
StackIsPath ==
  open =>
    /\ confirm_stack # <<>> => confirm_stack[1] = Root
    /\ \A i \in 1 .. Len(confirm_stack) - 1 :
         LET m == confirm_stack[i]
         IN  /\ confirm_index[m] < Rows(m)
             /\ Items[m][confirm_index[m] + 1].to = confirm_stack[i + 1]

\* Going back selects an item that leads to the menu that is left, whatever was
\* confirmed, refused or shown over it in between.
BackFindsSelection ==
  [][on_confirm_menu /\ Len(confirm_stack') < Len(confirm_stack) /\ confirm_stack' # <<>> =>
       Items[Front(confirm_stack')][select_idx' + 1].to = Front(confirm_stack)]_vars

\* The buffer holds the rows of the menu in front, also after a popup.  There is
\* one place to save their number (menu.hpp:383): a popup over a popup saves the
\* popup's, none, and the menu stays without rows until they are made again.
RowsOfFront == AtMenu => pos = IF covered THEN 0 ELSE Rows(Front(confirm_stack))
=============================================================================
