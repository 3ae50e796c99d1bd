----------------------------- MODULE MCVentEnds -----------------------------
(***************************************************************************)
(* What must end, in two parts that share no state, one chosen at the      *)
(* start: the finding of a vent that moves between two addresses, and a    *)
(* copy from a vent, with two bar states so that an answer can be of the   *)
(* other one.                                                              *)
(***************************************************************************)
EXTENDS VentBridge, VentCopy

CONSTANTS v1, a1, a2, idle, printing

VARIABLE subject

OneVent == {v1}
TwoAddrs == {a1, a2}
BarStates == {idle, printing}

FindStep == subject = "find" /\ Next /\ UNCHANGED <<copyVars, subject>>
CopyStep == subject = "copy" /\ CopyNext /\ UNCHANGED <<vars, subject>>

EndsInit ==
  /\ subject \in {"find", "copy"} /\ Init /\ CopyInit
  /\ subject = "copy" => nvs = Unbound /\ \A v \in Vents : at[v] = None
EndsNext == FindStep \/ CopyStep
Ends ==
  /\ EndsInit /\ [][EndsNext]_<<vars, copyVars, subject>>
  /\ subject = "find" => Fairness
  /\ CopyFairness

\* Every variable of both holds a value of its kind, the queues, codes and
\* counts of frames within the bounds that ps_bridge.c gives them.
EndsTypeOK == TypeOK /\ CopyTypeOK
=============================================================================
