\* Every two controls of the C interface on both routes, the texts, the status
\* and the events.  The device may be closed and opened, transfers may fail and
\* the camera may be set by others at any time.
SPECIFICATION Spec

CONSTANTS
  Den = 2
  Instances <- MCInstances
  Contents <- MCContents
  Rooms = {0, 3, 4, 10, 11, 64}
  Mac <- MCMac
  Firmware <- MCFirmware
  Serial <- MCSerial
  UsbSerials <- MCUsbSerials

INVARIANTS
  TypeOK
  
  
  RequestsUnderstood

PROPERTIES
  FailureLeavesAlone
  TextsAreWhole
