SPECIFICATION FairSpec
CONSTANTS
  Peer = {alice, bob}
  NoPeer = NoPeer
  Bonded = {alice}
  BLE_PAIRING_TIMEOUT = 1
  MaxConn = 1
  MaxUpset = 1
PROPERTIES WindowCloses
CHECK_DEADLOCK FALSE
