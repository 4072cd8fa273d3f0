SPECIFICATION Spec
CONSTANTS
  ble_serial = ble_serial
  ble_data_trans = ble_data_trans
  Services <- MCServices
  MaxLinks = 2
INVARIANT
  NotInitMeansRunning
