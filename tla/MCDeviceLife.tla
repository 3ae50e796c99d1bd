---------------------------- MODULE MCDeviceLife ----------------------------
(* A guard that waits three windows, two of which an upload may spend       *)
(* without a byte, and a queue of three.                                    *)
EXTENDS DeviceLife
=============================================================================
