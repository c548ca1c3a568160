SPECIFICATION FairSpec
CONSTANTS
  Peer = {alice, bob}
  NoPeer = NoPeer
  Bonded = {alice}
  BLE_PAIRING_TIMEOUT = 1
  MaxConn = 2
  MaxUpset = 2
INVARIANTS SingleBond NoPhantomLink
PROPERTIES AdvertisesAgain
CHECK_DEADLOCK FALSE
