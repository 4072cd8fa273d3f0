---------------------------- MODULE MCDataTrans ----------------------------
(* Instance of DataTrans for TLC.                                          *)
EXTENDS DataTrans

\* Up to 3 pages of up to 2 bytes: 7 bytes cannot be received, 3 can.
MCDataLens == {0, 1, 3, 7}
MCCycles == {1, 2}

\* The liveness run: one cycle time and a limit it passes in two cycles.
LiveDataLens == {0, 1, 3}
LiveCycles == {1}
=============================================================================
