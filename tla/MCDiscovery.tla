------------------------------ MODULE MCDiscovery ------------------------------
(* Devices in the neighbourhood, values of GATT_SCAN_RETRY, and two slots  *)
(* for polling threads, so that a second one could exist.                  *)
EXTENDS NearbyDiscovery

MCScanRetries == {-1, 0, 2}
===============================================================================
