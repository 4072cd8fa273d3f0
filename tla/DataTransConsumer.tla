-------------------------- MODULE DataTransConsumer --------------------------
(***************************************************************************)
(* The data_trans service with the consumer of main.cpp, which looks at    *)
(* the event word once per cycle of the loop and, on DataRecvSuccess,      *)
(* swaps the received block with the one of the picture it drew before     *)
(* (get_buff of data_trans.hpp:240-248).                                   *)
(*                                                                         *)
(* The consumer belongs to app__ of main.cpp, whose call in loop() is      *)
(* commented out since the GUI drives the display: it is the only reader   *)
(* of the received block that the repository has.                          *)
(*                                                                         *)
(* Any client may write in between; the one of DataTransClient follows the *)
(* protocol.  The callbacks are atomic here; what their interleaving adds  *)
(* is in DataTransTasks.                                                   *)
(*                                                                         *)
(* A definition Name_Fault is not the program's: it is a bug that the      *)
(* properties have to notice when it takes the place of Name.              *)
(***************************************************************************)
EXTENDS DataTrans

VARIABLES
  ble_data_png,       \* size of the block the application owns, 0: nullptr
  ble_data_png_size   \* size the application believes it has

pngVars == <<ble_data_png, ble_data_png_size>>
avars == <<vars, pngVars>>

\* Any of these makes the consumer forget the rest of the event word.
Failures == {"DataRecvFailed", "DataRecvTimeout", "PSRAMAllocFailed"}

Received == "DataRecvSuccess" \in event /\ event \cap Failures = {}

\* The blocks change sides, their sizes do not.
get_buff_FaultKeepsSizes ==
  /\ data_buff' = ble_data_png
  /\ ble_data_png' = data_buff
  /\ UNCHANGED <<data_buff_size, ble_data_png_size>>

\* get_buff(buff, buff_size): blocks and sizes change sides; data_buff_cmpl is
\* not cleared.
get_buff ==
  /\ data_buff' = ble_data_png
  /\ ble_data_png' = data_buff
  /\ data_buff_size' = ble_data_png_size
  /\ ble_data_png_size' = data_buff_size

check_event_ble_data_trans ==
  /\ event # {}
  /\ event' = {}
  /\ \/ /\ Received /\ declare_buff.data_type = "file_PNG"
        /\ get_buff
     \/ /\ ~(Received /\ declare_buff.data_type = "file_PNG")
        /\ UNCHANGED <<data_buff, data_buff_size, pngVars>>
  /\ UNCHANGED <<state_, dt_state_, timeout_timer, declare_buff,
                 data_buff_cmpl, recvVars, resp_buff>>

AInit == Init /\ ble_data_png = 0 /\ ble_data_png_size = 0

\* The rest of the service does not know of the application's block.
Service == (\E pkt \in Packets : onWrite(pkt)) \/ Polling \/ start \/ stop

\* A crash of the device takes both blocks.
Crash ==
  /\ \E pkt \in Packets : CrashingWrite(pkt)
  /\ ble_data_png' = 0 /\ ble_data_png_size' = 0

ANext ==
  \/ Service /\ UNCHANGED pngVars
  \/ Crash
  \/ check_event_ble_data_trans

ASpec == AInit /\ [][ANext]_avars

-----------------------------------------------------------------------------
(* Properties.                                                             *)

\* A block and the size that goes with it stay together through every swap:
\* on either side the size is the block's, unless there is no block at all.
SizeFollowsBlock ==
  /\ data_buff \in {0, data_buff_size}
  /\ ble_data_png \in {0, ble_data_png_size}
=============================================================================
