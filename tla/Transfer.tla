------------------------------ MODULE Transfer ------------------------------
(***************************************************************************)
(* What the data_trans service promises, without packets, pages, memory or *)
(* timers: one transfer at a time, of a size fixed when it begins, whose   *)
(* bytes only accumulate; it finishes exactly when they reach the size,    *)
(* and may be given up at any moment.  ready says that a finished file is  *)
(* there; only the beginning of the next transfer takes it back.           *)
(***************************************************************************)
EXTENDS Naturals

VARIABLES
  receiving,  \* a transfer is in progress
  need,       \* size of the transfer in progress or finished, else 0
  got,        \* bytes of it received, else 0
  ready       \* the last transfer to begin has finished

tvars == <<receiving, need, got, ready>>

TInit == receiving = FALSE /\ need = 0 /\ got = 0 /\ ready = FALSE

Begin ==
  /\ ~receiving
  /\ receiving' = TRUE
  /\ need' \in Nat
  /\ got' = 0
  /\ ready' = FALSE

Receive ==
  /\ receiving
  /\ got' \in Nat
  /\ got <= got' /\ got' < need
  /\ UNCHANGED <<receiving, need, ready>>

\* The last bytes make the received length exactly the size begun with.
Finish ==
  /\ receiving
  /\ receiving' = FALSE
  /\ ready' = TRUE
  /\ got' = need
  /\ UNCHANGED need

GiveUp ==
  /\ receiving
  /\ receiving' = FALSE
  /\ need' = 0 /\ got' = 0
  /\ UNCHANGED ready

TNext == Begin \/ Receive \/ Finish \/ GiveUp

TSpec == TInit /\ [][TNext]_tvars
=============================================================================
