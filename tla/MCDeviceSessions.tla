---------------------------- MODULE MCDeviceSessions ----------------------------
(* Two devices, one more than max_devices or just as many; the first one       *)
(* reconnects once.                                                            *)
EXTENDS DeviceSessions, TLC

CONSTANTS d1, d2

TwoDevices == {d1, d2}
OneReconnects == (d1 :> 2) @@ (d2 :> 1)
=============================================================================
