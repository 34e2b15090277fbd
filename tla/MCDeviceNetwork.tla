--------------------------- MODULE MCDeviceNetwork ---------------------------
(* A response of two writes, one drop of the access point, one failure and   *)
(* one client that vanishes.                                                 *)
EXTENDS DeviceNetwork
==============================================================================
