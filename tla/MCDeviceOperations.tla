------------------------- MODULE MCDeviceOperations -------------------------
(* The requests of the instance: pairs of kinds that interfere.            *)
EXTENDS DeviceOperations

MCOperations ==
  [u \in Users |->
     IF u = 1 THEN {"connect", "remove", "audio"}
              ELSE {"pair", "provision", "disconnect", "property", "policy"}]
=============================================================================
