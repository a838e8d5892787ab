--------------------------- MODULE MCTinybHandles ---------------------------
(* Handles of devices: the notifications of one property, and the pair of  *)
(* properties whose disable functions are not independent.                 *)
EXTENDS TinybHandles

CONSTANTS h1, h2, h3

OneKind == {"paired"}

DataKinds == {"manufacturer_data", "service_data"}
===============================================================================
