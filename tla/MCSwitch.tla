------------------------------ MODULE MCSwitch ------------------------------
(* Small instances of Switch for TLC: one task per interface.               *)
EXTENDS Switch

CONSTANTS ble_rx_task, rns_proxy_session_task, halow_link_task

MCSrc == [t \in Task |->
            CASE t = ble_rx_task            -> SW_SRC_BLE
              [] t = rns_proxy_session_task -> SW_SRC_TCP
              [] t = halow_link_task        -> SW_SRC_HALOW]

\* BLE overflows the TCP ring and, with the packets of TCP, the HaLow ring.
MCMaxRx == [t \in Task |-> IF t = ble_rx_task THEN 3 ELSE 1]
=============================================================================
