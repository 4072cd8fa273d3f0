---------------------------- MODULE MCBleServer ----------------------------
(* Instance of BleServer for TLC: the two services main.cpp:45-46 adds.    *)
EXTENDS BleServer

CONSTANTS ble_serial, ble_data_trans

MCServices == {ble_serial, ble_data_trans}
=============================================================================
