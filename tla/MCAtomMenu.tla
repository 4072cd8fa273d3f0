----------------------------- MODULE MCAtomMenu -----------------------------
(* Instance of AtomMenu for TLC: the tree of main.cpp.                      *)
EXTENDS AtomMenu

Way(m) == [to |-> m, valid |-> TRUE]
Empty(m) == [to |-> m, valid |-> FALSE]
Back == Way("back")

MCMenus == {"root", "menu_1", "data_c", "menu_2", "menu_3", "menu_3_1", "menu_3_1_2"}

MCItems == [m \in MCMenus |->
  CASE m = "root" -> <<Way("menu_1"), Way("menu_2"), Way("menu_3"), Back, Back>>
    [] m = "menu_1" -> <<Way("data_c"), Empty("data_c"), Way("data_c"), Back, Back>>
    [] m \in {"data_c", "menu_2", "menu_3_1_2"} -> <<Back, Back, Back, Back>>
    [] m = "menu_3" -> <<Way("menu_3_1"), Back, Back>>
    [] m = "menu_3_1" -> <<Back, Way("menu_3_1_2"), Back, Back>>]

MCLevel == [m \in MCMenus |->
  CASE m = "root" -> 0 [] m \in {"menu_1", "menu_2", "menu_3"} -> 1
    [] m \in {"data_c", "menu_3_1"} -> 2 [] m = "menu_3_1_2" -> 3]
=============================================================================
