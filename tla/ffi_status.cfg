\* A registry and a device; the poller sends status events of all that it measures.
SPECIFICATION Spec

CONSTANTS
  Den = 2
  Instances <- Events
  Contents <- MCContents
  Rooms = {0, 3, 4, 10, 11, 64}
  Mac <- MCMac
  Firmware <- MCFirmware
  Serial <- MCSerial
  UsbSerials <- MCUsbSerials

INVARIANT StatusEventsFilled
