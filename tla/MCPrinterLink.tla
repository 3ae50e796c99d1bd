--------------------------- MODULE MCPrinterLink ---------------------------
(* One printer, which two addresses are enough to move; they are alike, so   *)
(* a run of safety properties may swap them.                                *)
EXTENDS PrinterLink, TLC

CONSTANTS s1, a1, a2

OneSerial == {s1}
TwoAddrs == {a1, a2}
NoReports == {NoJob}
SomeReports == {NoJob, [bar |-> "IDLE", active |-> TRUE]}
Swap == Permutations({a1, a2})
=============================================================================
