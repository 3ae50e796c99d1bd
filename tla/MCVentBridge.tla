---------------------------- MODULE MCVentBridge ----------------------------
(***************************************************************************)
(* Two plans, one chosen at the start: the binding, with two vents at two  *)
(* addresses, so that one can move and another take its place, on a        *)
(* network where nothing fails; and the pairing, with one vent, two codes, *)
(* a fault and a restart.                                                  *)
(***************************************************************************)
EXTENDS VentBridge

CONSTANTS v1, v2, a1, a2

VARIABLE plan

TwoVents == {v1, v2}
TwoAddrs == {a1, a2}

Binds ==
  /\ plan = "binding"
  /\ codes' <= 1 /\ posts' <= 2 /\ faults' = 0 /\ restarts' = 0

\* the other vent stays off, and nothing of it or of its address is stored
Alone(b) == b.id # v2 /\ b.host # a2 /\ b.ip # a2
Pairs ==
  /\ plan = "pairing"
  /\ at'[v2] = None /\ at'[v1] # a2
  /\ Alone(cfg') /\ Alone(nvs') /\ Alone(webcopy')

PlanInit ==
  /\ Init /\ plan \in {"binding", "pairing"}
  /\ plan = "pairing" => at[v2] = None /\ at[v1] # a2 /\ Alone(nvs)
PlanNext == Next /\ (Binds \/ Pairs) /\ UNCHANGED plan
Plans == PlanInit /\ [][PlanNext]_<<vars, plan>>
=============================================================================
