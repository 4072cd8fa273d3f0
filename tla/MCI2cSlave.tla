----------------------------- MODULE MCI2cSlave -----------------------------
(* Instance of I2cSlave for TLC: a ring of three results.                   *)
EXTENDS I2cSlave
=============================================================================
