----------------------------- MODULE ResultLog -----------------------------
(***************************************************************************)
(* What the result ring of the I2C slave promises to the page that shows   *)
(* it, without slots, indices or interrupts: results are shown in the      *)
(* order they were completed and none twice.  When Capacity wait and one   *)
(* more is completed, the oldest is lost -- or, while the page is reading, *)
(* all that wait, perhaps with the new one.  broken ends the promise.      *)
(***************************************************************************)
EXTENDS Naturals, Sequences

CONSTANT Capacity

VARIABLES
  waiting,  \* numbers of the results not yet shown, oldest first
  made,     \* results completed so far
  reading,  \* the page is going through the results
  broken    \* nothing is promised any more

lvars == <<waiting, made, reading, broken>>

LInit == waiting = <<>> /\ made = 0 /\ ~reading /\ ~broken

Complete ==
  /\ made' = made + 1
  /\ waiting' = IF Len(waiting) < Capacity
                THEN Append(waiting, made')
                ELSE Append(Tail(waiting), made')
  /\ UNCHANGED reading

Overrun ==
  /\ reading
  /\ Len(waiting) = Capacity
  /\ made' = made + 1
  /\ waiting' \in {<<>>, <<made'>>}
  /\ UNCHANGED reading

Show ==
  /\ reading
  /\ waiting # <<>>
  /\ waiting' = Tail(waiting)
  /\ UNCHANGED <<made, reading>>

\* The page begins to read, or ends.
Turn == reading' = ~reading /\ UNCHANGED <<waiting, made>>

LNext ==
  \/ ~broken' /\ ~broken /\ (Complete \/ Overrun \/ Show \/ Turn)
  \/ broken'

LSpec == LInit /\ [][LNext]_lvars
=============================================================================
