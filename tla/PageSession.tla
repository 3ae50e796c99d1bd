---------------------------- MODULE PageSession ----------------------------
(***************************************************************************)
(* What the page promises about a connection to the device, whatever its   *)
(* sockets, queues and timers do: the controls are live only after the     *)
(* device has spoken on this connection, a command is given only while     *)
(* they are, commands leave in the order they were given, and none is kept *)
(* over the end of the connection it was given on.                         *)
(***************************************************************************)
EXTENDS Sequences

CONSTANT Command

VARIABLES
  spoken,    \* the device has said what it is on this connection
  live,      \* the controls work
  pending    \* commands given and not yet carried out

sessionVars == <<spoken, live, pending>>

Init == spoken = FALSE /\ live = FALSE /\ pending = <<>>

Speak == spoken' = TRUE /\ UNCHANGED <<live, pending>>

GoLive == spoken /\ live' = TRUE /\ UNCHANGED <<spoken, pending>>

Give == live /\ \E c \in Command : pending' = Append(pending, c) /\ UNCHANGED <<spoken, live>>

CarryOut == pending # <<>> /\ pending' = Tail(pending) /\ UNCHANGED <<spoken, live>>

\* the connection ends before the page knows
Fail == pending' = <<>> /\ UNCHANGED <<spoken, live>>

\* the page knows, or is loaded again
Lose == spoken' = FALSE /\ live' = FALSE /\ pending' = <<>>

Next == Speak \/ GoLive \/ Give \/ CarryOut \/ Fail \/ Lose

Spec == Init /\ [][Next]_sessionVars
=============================================================================
