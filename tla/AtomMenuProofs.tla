--------------------------- MODULE AtomMenuProofs ---------------------------
(***************************************************************************)
(* The menu library, for every tree of menus that TreeAssumption and its   *)
(* fellows admit.                                                          *)
(***************************************************************************)
EXTENDS AtomMenu, SequenceTheorems, TLAPS

-----------------------------------------------------------------------------
(* The inductive invariant.                                                *)

\* The stack goes down the tree from the root, level by level.
Levels(stack) ==
  /\ stack # <<>> => stack[1] = Root
  /\ \A i \in 1 .. Len(stack) : Level[stack[i]] = i - 1

\* Every menu on it but the last remembers the item that leads on.
Remembers(stack, index) ==
  \A i \in 1 .. Len(stack) - 1 : Items[stack[i]][index[stack[i]] + 1].to = stack[i + 1]

IndexInRange == \A m \in Menus : confirm_index[m] < Rows(m)

\* The counts that may be handed over while m is in front: that of m, and those
\* of the menus that refuse to be entered from it.
Counts(m) ==
  {Rows(m)} \cup {Rows(Items[m][i].to) : i \in {j \in 1 .. Len(Items[m]) : ~Items[m][j].valid}}

Shown(m) == IF covered THEN 0 ELSE Rows(m)

\* What the manager keeps of the menu in front, also while popups are over it.
Kept ==
  LET m == Front(confirm_stack)
  IN  /\ \E count \in Counts(m) : select_idx < count
      /\ children_count \in Counts(m)
      /\ data.menu_count \in Counts(m)
      /\ popups = 0 => pos = Shown(m)
      /\ popups > 0 => popup_pos = Shown(m) /\ pos = 0
      /\ popups > 1 => covered

MenuInv ==
  /\ TypeOK
  /\ IndexInRange
  /\ open => Levels(confirm_stack) /\ Remembers(confirm_stack, confirm_index)
  /\ open /\ confirm_stack # <<>> => Kept

-----------------------------------------------------------------------------
(* Stacks.                                                                 *)

Stacks == Seq(Menus)

LEMMA Positive == \A k \in Nat \ {0} : 0 < k /\ (k # 1 => k - 1 \in 1 .. k - 1) /\ (k - 1) + 1 = k
  OBVIOUS

LEMMA RowsPositive == \A m \in Menus : Rows(m) \in Nat \ {0}
  BY TreeAssumption, EmptySeq, LenProperties DEF Rows

LEMMA ItemOfRow ==
  ASSUME NEW m \in Menus, NEW i \in Nat, i < Rows(m)
  PROVE  Items[m][i + 1] \in Item /\ i + 1 \in 1 .. Len(Items[m])
  <1>1. Items[m] \in Seq(Item)
    BY TreeAssumption
  <1>2. Len(Items[m]) \in Nat /\ i + 1 \in 1 .. Len(Items[m])
    BY <1>1, LenProperties DEF Rows
  <1> QED
    BY <1>1, <1>2, ElementOfSeq

\* Every count is a number of rows, so never 0.
LEMMA CountsPositive ==
  ASSUME NEW m \in Menus
  PROVE  Counts(m) \subseteq Nat \ {0} /\ Rows(m) \in Counts(m)
  BY RowsPositive, TreeAssumption DEF Counts

LEMMA PushFacts ==
  ASSUME NEW s \in Stacks, NEW x \in Menus
  PROVE  /\ Append(s, x) \in Stacks /\ Append(s, x) # <<>>
         /\ Len(Append(s, x)) = Len(s) + 1
         /\ \A i \in 1 .. Len(s) : Append(s, x)[i] = s[i]
         /\ Append(s, x)[Len(s) + 1] = x
  BY AppendProperties DEF Stacks

LEMMA PopFacts ==
  ASSUME NEW s \in Stacks, s # <<>>
  PROVE  /\ Len(s) \in Nat \ {0}
         /\ Parent(s) \in Stacks
         /\ Len(Parent(s)) = Len(s) - 1
         /\ \A i \in 1 .. Len(s) - 1 : Parent(s)[i] = s[i]
         /\ Parent(s) = <<>> <=> Len(s) = 1
  <1>1. Len(s) \in Nat \ {0}
    BY LenProperties, EmptySeq DEF Stacks
  <1>2. /\ Parent(s) \in Stacks /\ Len(Parent(s)) = Len(s) - 1
        /\ \A i \in 1 .. Len(s) - 1 : Parent(s)[i] = s[i]
    <2> DEFINE k == Len(s) - 1
    <2>1. k \in Nat /\ k \in Int /\ 1 \in Int
      BY <1>1
    <2>2. \A i \in 1 .. k : s[i] \in Menus
      <3>1. \A i \in 1 .. k : i \in 1 .. Len(s)
        BY <1>1
      <3> QED
        BY <3>1, ElementOfSeq DEF Stacks
    <2>3. Parent(s) = SubSeq(s, 1, k)
      BY DEF Parent
    <2> HIDE DEF k
    <2>4. /\ SubSeq(s, 1, k) \in Seq(Menus)
          /\ Len(SubSeq(s, 1, k)) = IF 1 <= k THEN (k - 1) + 1 ELSE 0
          /\ \A i \in 1 .. (k - 1) + 1 : SubSeq(s, 1, k)[i] = s[(1 + i) - 1]
      BY <2>1, <2>2, SubSeqProperties
    <2>5. /\ Len(SubSeq(s, 1, k)) = k
          /\ \A i \in 1 .. k : SubSeq(s, 1, k)[i] = s[i]
      BY <2>1, <2>4
    <2> QED
      BY <2>3, <2>4, <2>5 DEF k, Stacks
  <1> QED
    BY <1>1, <1>2, LenProperties, EmptySeq DEF Stacks

\* Going one step down the tree keeps a way down the tree.
LEMMA PushMenu ==
  ASSUME NEW s \in Stacks, Levels(s), NEW m \in Menus,
         s = <<>> => m = Root,
         s # <<>> => Level[m] = Level[Front(s)] + 1
  PROVE  Levels(Append(s, m))
  <1>1. Len(s) \in Nat /\ (s = <<>> <=> Len(s) = 0)
    BY LenProperties, EmptySeq DEF Stacks
  <1>2. CASE s = <<>>
    BY <1>1, <1>2, PushFacts, LevelAssumption DEF Levels
  <1>3. CASE s # <<>>
    <2>1. Level[m] = Len(s)
      BY <1>1, <1>3, LevelAssumption DEF Levels, Front
    <2> QED
      BY <1>1, <1>3, <2>1, PushFacts DEF Levels, Front
  <1> QED
    BY <1>2, <1>3

LEMMA PopLevels ==
  ASSUME NEW s \in Stacks, s # <<>>, Levels(s)
  PROVE  Levels(Parent(s))
  <1> DEFINE p == Parent(s)
  <1>1. /\ Len(s) \in Nat \ {0} /\ p \in Stacks /\ Len(p) = Len(s) - 1
        /\ \A i \in 1 .. Len(p) : p[i] = s[i]
        /\ p = <<>> <=> Len(s) = 1
    BY PopFacts
  <1> HIDE DEF p
  <1>2. p # <<>> => 1 \in 1 .. Len(p)
    BY <1>1
  <1>3. Levels(p)
    BY <1>1, <1>2 DEF Levels
  <1> QED
    BY <1>3 DEF p

LEMMA FrontMenu ==
  ASSUME NEW s \in Stacks, s # <<>>
  PROVE  Front(s) \in Menus
  BY PopFacts, ElementOfSeq DEF Front, Stacks

\* A menu is on the stack once: what the menu in front remembers is its own.
LEMMA FrontOnce ==
  ASSUME NEW s \in Stacks, Levels(s), s # <<>>,
         NEW i \in 1 .. Len(s) - 1
  PROVE  s[i] \in Menus /\ s[i] # Front(s)
  <1>1. Len(s) \in Nat \ {0} /\ i \in 1 .. Len(s)
    BY PopFacts
  <1> QED
    BY <1>1, ElementOfSeq DEF Levels, Front, Stacks

-----------------------------------------------------------------------------
LEMMA NoPopups == 0 \in 0 .. MaxPopups
  BY PopupAssumption

LEMMA MenuInit == Init => MenuInv
  <1> SUFFICES ASSUME Init PROVE MenuInv
    OBVIOUS
  <1>1. TypeOK
    BY EmptySeq, NoPopups DEF Init, TypeOK
  <1>2. IndexInRange
    <2>1. \A m \in Menus : confirm_index[m] = 0
      BY DEF Init
    <2>2. \A m \in Menus : 0 < Rows(m)
      BY RowsPositive, Positive
    <2> QED
      BY <2>1, <2>2 DEF IndexInRange
  <1> QED
    BY <1>1, <1>2 DEF Init, MenuInv

\* Entering a menu from a stack that may lead there.
LEMMA EnterMenu ==
  ASSUME MenuInv, NEW s \in Stacks, NEW m \in Menus,
         Enter(s, m), open', popups' = 0,
         confirm_index' \in [Menus -> Nat], IndexInRange',
         confirm_index'[m] = confirm_index[m], UNCHANGED popup_pos,
         Levels(Append(s, m)), Remembers(Append(s, m), confirm_index')
  PROVE  MenuInv'
  <1>1. /\ confirm_stack' = Append(s, m) /\ confirm_stack' \in Stacks
        /\ confirm_stack' # <<>> /\ Front(confirm_stack') = m
    BY PushFacts DEF Enter, Front
  <1>2. Rows(m) \in Counts(m)
    BY CountsPositive
  <1>3. Rows(m) \in Nat \ {0} /\ confirm_index[m] \in Nat /\ confirm_index[m] < Rows(m)
    BY RowsPositive DEF MenuInv, TypeOK, IndexInRange
  <1>4. /\ data' = [menu_count |-> Rows(m), select_index |-> confirm_index[m]]
        /\ select_idx' = confirm_index[m] /\ children_count' = Rows(m) /\ pos' = Rows(m)
        /\ covered' = FALSE
    BY DEF Enter, Info
  <1>5. Kept'
    BY <1>1, <1>2, <1>3, <1>4 DEF Kept, Shown
  <1>6. TypeOK'
    BY <1>1, <1>3, <1>4, NoPopups DEF MenuInv, TypeOK, Stacks
  <1> QED
    BY <1>1, <1>5, <1>6 DEF MenuInv

LEMMA EntryStep ==
  ASSUME MenuInv, on_entry
  PROVE  MenuInv'
  <1>1. <<>> \in Stacks /\ Root \in Menus /\ Enter(<<>>, Root) /\ open'
    BY TreeAssumption, EmptySeq DEF on_entry, Stacks
  <1>2. confirm_index' = confirm_index /\ UNCHANGED popup_pos /\ popups' = 0
    BY DEF on_entry
  <1>3. /\ confirm_index' \in [Menus -> Nat]
        /\ confirm_index'[Root] = confirm_index[Root]
    BY <1>2 DEF MenuInv, TypeOK
  <1>4. IndexInRange'
    BY <1>2 DEF MenuInv, IndexInRange
  <1>5. Levels(Append(<<>>, Root))
    <2>1. Levels(<<>>)
      BY DEF Levels
    <2> QED
      BY <1>1, <2>1, PushMenu
  <1>6. Remembers(Append(<<>>, Root), confirm_index')
    BY <1>1, PushFacts DEF Remembers
  <1> QED
    BY <1>1, <1>2, <1>3, <1>4, <1>5, <1>6, EnterMenu

\* The facts about the menu in front, and those on which the buttons act.
LEMMA OpenFacts ==
  ASSUME MenuInv, open, confirm_stack # <<>>
  PROVE  /\ confirm_stack \in Stacks /\ Front(confirm_stack) \in Menus
         /\ Kept /\ Levels(confirm_stack) /\ Remembers(confirm_stack, confirm_index)
         /\ popups \in Nat /\ select_idx \in Nat
  BY FrontMenu, PopupAssumption DEF MenuInv, TypeOK, Stacks

LEMMA ConfirmFacts ==
  ASSUME MenuInv, on_confirm_menu
  PROVE  /\ open /\ confirm_stack \in Stacks /\ confirm_stack # <<>> /\ popups = 0
         /\ Front(confirm_stack) \in Menus
         /\ select_idx \in Nat /\ select_idx < Rows(Front(confirm_stack))
         /\ UNCHANGED <<open, popups, popup_pos>>
         /\ Levels(confirm_stack) /\ Remembers(confirm_stack, confirm_index) /\ Kept
  BY OpenFacts DEF on_confirm_menu, AtMenu

\* Remembering an item of the menu in front disturbs no other menu.
LEMMA ChooseFacts ==
  ASSUME MenuInv, on_confirm_menu, confirm_index' = Chosen(Front(confirm_stack))
  PROVE  /\ confirm_index' \in [Menus -> Nat] /\ IndexInRange'
         /\ confirm_index'[Front(confirm_stack)] = select_idx
         /\ \A m \in Menus \ {Front(confirm_stack)} : confirm_index'[m] = confirm_index[m]
         /\ Remembers(confirm_stack, confirm_index')
  <1> DEFINE f == Front(confirm_stack)
  <1>1. f \in Menus /\ select_idx \in Nat /\ select_idx < Rows(f)
    BY ConfirmFacts
  <1>2. confirm_index \in [Menus -> Nat] /\ confirm_index' = [confirm_index EXCEPT ![f] = select_idx]
    BY DEF MenuInv, TypeOK, Chosen
  <1>3. \A i \in 1 .. Len(confirm_stack) - 1 : confirm_stack[i] \in Menus /\ confirm_stack[i] # f
    BY ConfirmFacts, FrontOnce
  <1>4. Remembers(confirm_stack, confirm_index)
    BY ConfirmFacts
  <1> HIDE DEF f
  <1>5. IndexInRange'
    BY <1>1, <1>2 DEF MenuInv, IndexInRange
  <1>6. Remembers(confirm_stack, confirm_index')
    BY <1>1, <1>2, <1>3, <1>4 DEF Remembers
  <1> QED
    BY <1>1, <1>2, <1>5, <1>6 DEF f

LEMMA EnterStep ==
  ASSUME MenuInv, on_confirm_menu,
         NEW item \in Item, item = Items[Front(confirm_stack)][select_idx + 1],
         item.to # "back",
         confirm_index' = Chosen(Front(confirm_stack)), Enter(confirm_stack, item.to)
  PROVE  MenuInv'
  <1> DEFINE f == Front(confirm_stack)
  <1>1. /\ f \in Menus /\ confirm_stack \in Stacks /\ confirm_stack # <<>>
        /\ select_idx \in Nat /\ select_idx < Rows(f)
        /\ Levels(confirm_stack) /\ open /\ popups = 0
        /\ UNCHANGED <<open, popups, popup_pos>>
    BY ConfirmFacts
  <1>2. item.to \in Menus /\ Level[item.to] = Level[f] + 1
    BY <1>1, ItemOfRow, LevelAssumption DEF Item
  <1>3. item.to # f
    BY <1>1, <1>2, LevelAssumption
  <1>4. Levels(Append(confirm_stack, item.to))
    BY <1>1, <1>2, PushMenu
  <1>5. Remembers(Append(confirm_stack, item.to), confirm_index')
    <2>1. Remembers(confirm_stack, confirm_index') /\ confirm_index'[f] = select_idx
      BY ChooseFacts
    <2>2. f = confirm_stack[Len(confirm_stack)] /\ Len(confirm_stack) \in Nat \ {0}
      BY <1>1, PopFacts DEF Front
    <2>3. /\ Len(Append(confirm_stack, item.to)) = Len(confirm_stack) + 1
          /\ \A i \in 1 .. Len(confirm_stack) : Append(confirm_stack, item.to)[i] = confirm_stack[i]
          /\ Append(confirm_stack, item.to)[Len(confirm_stack) + 1] = item.to
      BY <1>1, <1>2, PushFacts
    <2>4. item = Items[f][select_idx + 1]
      OBVIOUS
    <2> HIDE DEF f
    <2> QED
      BY <2>1, <2>2, <2>3, <2>4 DEF Remembers
  <1> QED
    BY <1>1, <1>2, <1>3, <1>4, <1>5, ChooseFacts, EnterMenu

LEMMA RefuseStep ==
  ASSUME MenuInv, on_confirm_menu,
         NEW item \in Item, item = Items[Front(confirm_stack)][select_idx + 1],
         ~item.valid,
         confirm_index' = Chosen(Front(confirm_stack)), Refuse(item.to)
  PROVE  MenuInv'
  <1> DEFINE f == Front(confirm_stack)
  <1>1. /\ f \in Menus /\ confirm_stack # <<>> /\ open /\ Kept
        /\ select_idx \in Nat /\ select_idx < Rows(f)
        /\ Levels(confirm_stack) /\ UNCHANGED <<open, popups, popup_pos>>
    BY ConfirmFacts
  <1>2. item.to \in Menus /\ Rows(item.to) \in Counts(f)
    BY <1>1, ItemOfRow, TreeAssumption DEF Counts
  <1>3. Rows(item.to) \in Nat \ {0} /\ confirm_index[item.to] \in Nat
    BY <1>2, RowsPositive DEF MenuInv, TypeOK
  <1>4. /\ data' = [menu_count |-> Rows(item.to), select_index |-> confirm_index[item.to]]
        /\ UNCHANGED <<confirm_stack, select_idx, children_count, pos, covered>>
    BY DEF Refuse, Info
  <1>5. TypeOK'
    BY <1>1, <1>3, <1>4, ChooseFacts DEF MenuInv, TypeOK
  <1>6. Kept'
    BY <1>1, <1>2, <1>4 DEF Kept, Shown
  <1> QED
    BY <1>1, <1>4, <1>5, <1>6, ChooseFacts DEF MenuInv

LEMMA BackStep ==
  ASSUME MenuInv, on_confirm_menu, on_req_back
  PROVE  /\ MenuInv'
         /\ confirm_stack' # <<>> =>
              /\ select_idx' \in Nat
              /\ Items[Front(confirm_stack')][select_idx' + 1].to = Front(confirm_stack)
  <1> DEFINE f == Front(confirm_stack)
             s == confirm_stack
             n == Len(confirm_stack)
  <1>1. /\ f \in Menus /\ s \in Stacks /\ s # <<>> /\ Levels(s) /\ open /\ popups = 0
        /\ Remembers(s, confirm_index) /\ n \in Nat \ {0} /\ f = s[n]
        /\ UNCHANGED <<open, popups, popup_pos>>
    BY ConfirmFacts, PopFacts DEF Front
  <1>2. /\ confirm_stack' = Parent(s) /\ Parent(s) \in Stacks
        /\ Len(Parent(s)) = n - 1 /\ (Parent(s) = <<>> <=> n = 1)
        /\ \A i \in 1 .. n - 1 : Parent(s)[i] = s[i]
        /\ Levels(Parent(s))
    BY <1>1, PopFacts, PopLevels DEF on_req_back
  <1>3. /\ confirm_index' = [confirm_index EXCEPT ![f] = 0]
        /\ confirm_index \in [Menus -> Nat]
    BY DEF on_req_back, Left, MenuInv, TypeOK
  <1>4. \A i \in 1 .. n - 1 : s[i] \in Menus /\ s[i] # f
    BY <1>1, FrontOnce
  <1>5. IndexInRange' /\ confirm_index' \in [Menus -> Nat]
    BY <1>1, <1>3, RowsPositive DEF MenuInv, IndexInRange
  <1>6. \A i \in 1 .. n - 1 : confirm_index'[s[i]] = confirm_index[s[i]]
    BY <1>1, <1>3, <1>4
  <1>7. Remembers(Parent(s), confirm_index')
    BY <1>1, <1>2, <1>6 DEF Remembers
  <1>8. CASE n = 1
    <2>1. UNCHANGED <<select_idx, children_count, data, pos, covered>> /\ confirm_stack' = <<>>
      BY <1>2, <1>8 DEF on_req_back
    <2> QED
      BY <1>1, <1>2, <1>5, <1>7, <2>1 DEF MenuInv, TypeOK, Stacks
  <1>9. CASE n # 1
    <2> DEFINE m == s[n - 1]
    <2>1. m \in Menus /\ Front(Parent(s)) = m /\ Parent(s) # <<>>
      BY <1>1, <1>2, <1>4, <1>9 DEF Front
    <2>2. /\ data' = [menu_count |-> Rows(m), select_index |-> confirm_index'[m]]
          /\ select_idx' = confirm_index'[m] /\ children_count' = Rows(m) /\ pos' = Rows(m)
          /\ covered' = FALSE
      BY <1>2, <2>1 DEF on_req_back, SelectionAfterBack
    <2>3. /\ Rows(m) \in Nat \ {0} /\ confirm_index'[m] \in Nat /\ confirm_index'[m] < Rows(m)
          /\ Rows(m) \in Counts(m)
      BY <1>5, <2>1, RowsPositive, CountsPositive DEF IndexInRange
    <2>4. TypeOK'
      BY <1>1, <1>2, <1>5, <2>2, <2>3, PopupAssumption DEF MenuInv, TypeOK, Stacks
    <2>5. Kept'
      BY <1>1, <1>2, <2>1, <2>2, <2>3 DEF Kept, Shown
    <2>6. Items[m][confirm_index'[m] + 1].to = f
      <3>1. n - 1 \in 1 .. n - 1 /\ (n - 1) + 1 = n
        BY <1>1, <1>9, Positive
      <3>2. Items[s[n - 1]][confirm_index[s[n - 1]] + 1].to = s[(n - 1) + 1]
        BY <1>1, <3>1 DEF Remembers
      <3> QED
        BY <1>1, <1>6, <3>1, <3>2
    <2> QED
      BY <1>1, <1>2, <1>5, <1>7, <2>1, <2>2, <2>3, <2>4, <2>5, <2>6 DEF MenuInv
  <1> QED
    BY <1>8, <1>9

\* The selection goes round below the manager's count, whichever that is.
LEMMA SelectStep ==
  ASSUME MenuInv, on_select_next \/ on_select_prev
  PROVE  MenuInv'
  <1> DEFINE m == Front(confirm_stack)
  <1>1. open /\ confirm_stack # <<>>
    BY DEF on_select_next, on_select_prev, Select, AtMenu, AtPopup
  <1>2. /\ UNCHANGED <<open, confirm_stack, popups, children_count, confirm_index, data,
                       pos, popup_pos, covered>>
        /\ select_idx' = NextIndex(select_idx) \/ select_idx' = PrevIndex(select_idx)
    BY DEF on_select_next, on_select_prev, Select
  <1>3. /\ m \in Menus /\ Kept /\ select_idx \in Nat
        /\ Counts(m) \subseteq Nat \ {0} /\ children_count \in Counts(m)
    BY <1>1, OpenFacts, CountsPositive DEF Kept
  <1>4. PICK count \in Counts(m) : select_idx < count
    BY <1>3 DEF Kept
  <1> HIDE DEF m
  <1>5. select_idx' \in Nat /\ (select_idx' < count \/ select_idx' < children_count)
    BY <1>2, <1>3, <1>4 DEF NextIndex, PrevIndex
  <1>6. TypeOK'
    BY <1>2, <1>5 DEF MenuInv, TypeOK
  <1>7. Kept'
    BY <1>2, <1>3, <1>4, <1>5 DEF Kept, Shown, m
  <1> QED
    BY <1>1, <1>2, <1>6, <1>7 DEF MenuInv, IndexInRange

LEMMA ConfirmStep ==
  ASSUME MenuInv, on_confirm_menu
  PROVE  MenuInv'
  <1> DEFINE item == Items[Front(confirm_stack)][select_idx + 1]
  <1>1. item \in Item
    BY ConfirmFacts, ItemOfRow
  <1>2. \/ on_req_back
        \/ /\ item.to # "back" /\ item.valid
           /\ confirm_index' = Chosen(Front(confirm_stack)) /\ Enter(confirm_stack, item.to)
        \/ /\ item.to # "back" /\ ~item.valid
           /\ confirm_index' = Chosen(Front(confirm_stack)) /\ Refuse(item.to)
    BY <1>1 DEF on_confirm_menu, Item
  <1> HIDE DEF item
  <1>3. item = Items[Front(confirm_stack)][select_idx + 1]
    BY DEF item
  <1> QED
    BY <1>1, <1>2, <1>3, EnterStep, RefuseStep, BackStep

\* A popup saves the rows that the buffer holds: those of the menu, or none when
\* it comes over a popup.
LEMMA PopupStep ==
  ASSUME MenuInv, on_popup \/ on_exit_popup
  PROVE  MenuInv'
  <1> DEFINE m == Front(confirm_stack)
  <1>1. open /\ confirm_stack # <<>>
    BY DEF on_popup, on_exit_popup, AtPopup
  <1>2. /\ m \in Menus /\ Kept /\ popups \in Nat /\ data.menu_count \in Counts(m)
        /\ data \in [menu_count: Nat, select_index: Nat]
        /\ Counts(m) \subseteq Nat \ {0} /\ covered \in BOOLEAN
    BY <1>1, OpenFacts, CountsPositive DEF Kept, MenuInv, TypeOK
  <1> HIDE DEF m
  <1>3. CASE on_popup
    <2>1. /\ popups' = popups + 1 /\ popup_pos' = pos /\ pos' = 0
          /\ data' = [data EXCEPT !.select_index = select_idx]
          /\ children_count' = data.menu_count /\ covered' = (covered \/ popups > 0)
          /\ UNCHANGED <<open, confirm_stack, select_idx, confirm_index>>
      BY <1>3 DEF on_popup
    <2>2. TypeOK'
      BY <1>2, <1>3, <2>1, PopupAssumption DEF MenuInv, TypeOK, on_popup
    <2>3. data'.menu_count = data.menu_count
      BY <1>2, <2>1
    <2>4. /\ popups' > 0 /\ popup_pos' = IF covered' THEN 0 ELSE Rows(m)
          /\ popups' > 1 => covered'
      <3>1. CASE popups = 0
        <4>1. covered' = covered /\ popups' = 1 /\ pos = Shown(m)
          BY <1>2, <2>1, <3>1 DEF Kept, m
        <4> QED
          BY <2>1, <4>1 DEF Shown
      <3>2. CASE popups > 0
        <4>1. popups' > 0 /\ pos = 0
          BY <1>2, <2>1, <3>2 DEF Kept, m
        <4>2. covered' = TRUE
          BY <2>1, <3>2
        <4> QED
          BY <2>1, <4>1, <4>2
      <3> QED
        BY <1>2, <3>1, <3>2
    <2>5. m = Front(confirm_stack')
      BY <2>1 DEF m
    <2>6. Kept'
      BY <1>2, <2>1, <2>3, <2>4, <2>5 DEF Kept, Shown, m
    <2> QED
      BY <1>1, <2>1, <2>2, <2>6 DEF MenuInv, IndexInRange
  <1>4. CASE on_exit_popup
    <2>1. /\ popups > 0 /\ popups' = popups - 1 /\ pos' = popup_pos
          /\ UNCHANGED <<open, confirm_stack, select_idx, children_count, confirm_index,
                         data, popup_pos, covered>>
      BY <1>4 DEF on_exit_popup, AtPopup, RowsAfterPopup
    <2>2. TypeOK'
      BY <1>2, <2>1, PopupAssumption DEF MenuInv, TypeOK
    <2>3. Kept'
      BY <1>2, <2>1 DEF Kept, Shown, m
    <2> QED
      BY <1>1, <2>1, <2>2, <2>3 DEF MenuInv, IndexInRange
  <1> QED
    BY <1>3, <1>4

LEMMA MenuNext == MenuInv /\ [Next]_vars => MenuInv'
  <1> SUFFICES ASSUME MenuInv, [Next]_vars PROVE MenuInv'
    OBVIOUS
  <1>1. CASE on_exit
    BY <1>1 DEF on_exit, MenuInv, TypeOK, IndexInRange
  <1>2. CASE UNCHANGED vars
    BY <1>2 DEF vars, MenuInv, TypeOK, IndexInRange, Kept, Shown
  <1> QED
    BY <1>1, <1>2, EntryStep, SelectStep, ConfirmStep, PopupStep DEF Next, Button, Popup

-----------------------------------------------------------------------------
(* Theorems.                                                               *)

\* The manager's copies agree with the tree, also under popups: in any tree, the
\* count and the selection are those of the menu in front or of a menu that
\* refused to be entered from it.
THEOREM MenuInvariance == Spec => []MenuInv
  BY MenuInit, MenuNext, PTL DEF Spec

\* Types of the menu manager.
THEOREM TypeCorrect == Spec => []TypeOK
  <1>1. MenuInv => TypeOK
    BY DEF MenuInv
  <1> QED
    BY <1>1, MenuInvariance, PTL

\* A node is never asked for an item that it does not have, in a tree in which no
\* refused menu is longer than the one above it.  Without that hypothesis a popup
\* copies a count beyond the rows of the menu (menu.hpp:423).
THEOREM IndexIsChecked == ASSUME RefusedFits PROVE Spec => []SelectionInRange
  <1>1. \A m \in Menus : \A count \in Counts(m) : count \in Nat \ {0} /\ count <= Rows(m)
    <2> SUFFICES ASSUME NEW m \in Menus, NEW count \in Counts(m)
                 PROVE  count \in Nat \ {0} /\ count <= Rows(m)
      OBVIOUS
    <2>1. count \in Nat \ {0} /\ Rows(m) \in Nat
      BY CountsPositive
    <2>2. CASE count = Rows(m)
      BY <2>1, <2>2
    <2>3. CASE count # Rows(m)
      <3>1. PICK i \in 1 .. Len(Items[m]) : ~Items[m][i].valid /\ count = Rows(Items[m][i].to)
        BY <2>3 DEF Counts
      <3> QED
        BY <2>1, <3>1 DEF RefusedFits, Rows
    <2> QED
      BY <2>2, <2>3
  <1>2. MenuInv => SelectionInRange
    <2> SUFFICES ASSUME MenuInv, AtMenu PROVE SelectionInRange
      BY DEF SelectionInRange
    <2>1. Kept /\ Front(confirm_stack) \in Menus /\ select_idx \in Nat
      BY OpenFacts DEF AtMenu
    <2>2. Rows(Front(confirm_stack)) \in Nat
      BY <2>1, RowsPositive
    <2> QED
      BY <1>1, <2>1, <2>2 DEF Kept, SelectionInRange
  <1> QED
    BY <1>2, MenuInvariance, PTL

\* The stack is a way down the tree.
THEOREM StackIsAWay == Spec => []StackIsPath
  <1>1. MenuInv => StackIsPath
    <2> SUFFICES ASSUME MenuInv, open PROVE StackIsPath
      BY DEF StackIsPath
    <2>1. Levels(confirm_stack) /\ Remembers(confirm_stack, confirm_index)
          /\ confirm_stack \in Stacks /\ IndexInRange
      BY DEF MenuInv, TypeOK, Stacks
    <2>2. \A i \in 1 .. Len(confirm_stack) - 1 : confirm_stack[i] \in Menus
      BY <2>1, FrontOnce, EmptySeq DEF Stacks
    <2> QED
      BY <2>1, <2>2 DEF Levels, Remembers, StackIsPath, IndexInRange
  <1> QED
    BY <1>1, MenuInvariance, PTL

\* The buffer holds the rows of the menu in front, unless a popup came over a
\* popup: then it holds none.
THEOREM RowsAreShown == Spec => []RowsOfFront
  <1>1. MenuInv => RowsOfFront
    BY OpenFacts DEF AtMenu, Kept, Shown, RowsOfFront
  <1> QED
    BY <1>1, MenuInvariance, PTL

\* Going back finds the selection where it was left.
THEOREM BackToTheItem == Spec => BackFindsSelection
  <1>1. MenuInv /\ [Next]_vars =>
          [on_confirm_menu /\ Len(confirm_stack') < Len(confirm_stack) /\ confirm_stack' # <<>> =>
             Items[Front(confirm_stack')][select_idx' + 1].to = Front(confirm_stack)]_vars
    <2> SUFFICES ASSUME MenuInv, on_confirm_menu, confirm_stack' # <<>>,
                        Len(confirm_stack') < Len(confirm_stack)
        PROVE  Items[Front(confirm_stack')][select_idx' + 1].to = Front(confirm_stack)
      OBVIOUS
    <2>1. confirm_stack \in Stacks
      BY ConfirmFacts
    <2>2. CASE on_req_back
      BY <2>2, BackStep
    <2>3. CASE ~on_req_back
      <3> DEFINE item == Items[Front(confirm_stack)][select_idx + 1]
      <3>1. item \in Item
        BY ConfirmFacts, ItemOfRow
      <3>2. Refuse(item.to) \/ (item.to # "back" /\ Enter(confirm_stack, item.to))
        BY <2>3, <3>1 DEF on_confirm_menu, Item
      <3>3. item.to \in Menus \/ item.to = "back"
        BY <3>1 DEF Item
      <3> HIDE DEF item
      <3>4. Len(confirm_stack) \in Nat
        BY <2>1, LenProperties DEF Stacks
      <3>5. CASE Refuse(item.to)
        BY <3>4, <3>5 DEF Refuse
      <3>6. CASE item.to # "back" /\ Enter(confirm_stack, item.to)
        BY <2>1, <3>3, <3>4, <3>6, PushFacts DEF Enter
      <3> QED
        BY <3>2, <3>5, <3>6
    <2> QED
      BY <2>2, <2>3
  <1> QED
    BY <1>1, MenuInvariance, PTL DEF Spec, BackFindsSelection
=============================================================================
