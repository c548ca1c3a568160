SPECIFICATION FairSpec
CONSTANTS
  ble_rx_task = ble_rx_task
  rns_proxy_session_task = rns_proxy_session_task
  halow_link_task = halow_link_task
  Task = {ble_rx_task, rns_proxy_session_task}
  Src <- MCSrc
  SW_RING_SIZE = 2
  SW_PKT_MAX = 1
  Lens = {1, 2}
  MaxRx <- MCMaxRx
  NoPkt = NoPkt
INVARIANTS HalowLossless HalowEndToEnd FreshestKept
PROPERTIES ImplementsChannel ProducersUnblock HalowDelivers
