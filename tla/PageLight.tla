------------------------------ MODULE PageLight ------------------------------
(***************************************************************************)
(* The lamp's switch (03-status.js; handle_pctl in core.js).  A flip is    *)
(* sent through the device to the printer, which answers in its own time   *)
(* through its reports, or never.  Until it has, a settle holds the switch *)
(* against pushes that still carry the old value.                          *)
(***************************************************************************)
EXTENDS Naturals, Sequences

CONSTANTS
  LightTicks,     \* LIGHT_SETTLE_MS, in ticks
  LightActs,      \* bound: flips
  LightEvents     \* bound: changes at the printer, reports without the lamp

ASSUME LightAssumption == LightTicks \in Nat \ {0} /\ LightActs \in Nat /\ LightEvents \in Nat

VARIABLES
  lamp,           \* the lamp
  reported,       \* what the device last heard of it
  lightOrders,    \* commands on their way to the printer
  lightPushes,    \* documents on their way to the page
  lightHeard,     \* what the page's document says of it
  lightShown,     \* the switch
  settle,         \* g_light_settles: "none", or what was asked
  settleLeft,     \* ticks to its end
  lightDeaf,      \* the page waits for its first document
  lightActs, lightEvents

lightDevice == <<lamp, reported, lightOrders, lightPushes>>
lightPage == <<lightHeard, lightShown, settle, settleLeft, lightDeaf>>
lightBounds == <<lightActs, lightEvents>>
lightVars == <<lightDevice, lightPage, lightBounds>>

Positions == {"on", "off"}
Told == Positions \cup {"unknown"}
Other(p) == IF p = "on" THEN "off" ELSE "on"

LightInit ==
  /\ lamp \in Positions /\ reported \in {lamp, "unknown"}
  /\ lightOrders = <<>> /\ lightPushes = <<reported>>
  /\ lightHeard = "unknown" /\ lightShown = "off" /\ settle = "none" /\ settleLeft = 0
  /\ lightDeaf = TRUE /\ lightActs = 0 /\ lightEvents = 0

-----------------------------------------------------------------------------
(* The printer and the device.                                              *)

\* the printer takes the command or refuses it; a refusal is not reported
PrinterAnswers ==
  /\ lightOrders # <<>> /\ lightOrders' = Tail(lightOrders)
  /\ lamp' \in {lamp, Head(lightOrders)}
  /\ UNCHANGED <<reported, lightPushes, lightPage, lightBounds>>

\* a report; every report that changes something is pushed
Reports ==
  /\ reported # lamp /\ reported' = lamp /\ lightPushes' = Append(lightPushes, lamp)
  /\ UNCHANGED <<lamp, lightOrders, lightPage, lightBounds>>

\* someone at the printer; and a push of other news, with what was last heard
LightElsewhere ==
  /\ lightEvents < LightEvents /\ lightEvents' = lightEvents + 1
  /\ \/ lamp' = Other(lamp) /\ UNCHANGED lightPushes
     \/ lightPushes' = Append(lightPushes, reported) /\ UNCHANGED lamp
  /\ UNCHANGED <<reported, lightOrders, lightPage, lightActs>>

-----------------------------------------------------------------------------
(* The page.                                                                *)

\* setChecked, in handle_pctl: a lamp never named is left alone, the focus is
\* not asked for
Drawn(v) == IF v = "unknown" THEN lightShown ELSE v

LightPushed ==
  /\ lightPushes # <<>> /\ lightPushes' = Tail(lightPushes)
  /\ lightHeard' = Head(lightPushes) /\ lightShown' = Drawn(lightHeard') /\ lightDeaf' = FALSE
  /\ UNCHANGED <<lamp, reported, lightOrders, settle, settleLeft, lightBounds>>

\* rerender_all
LightRedrawn ==
  /\ ~lightDeaf /\ lightShown' = Drawn(lightHeard)
  /\ UNCHANGED <<lightDevice, lightHeard, settle, settleLeft, lightDeaf, lightBounds>>

\* light_switch_changed, light_settle_begin: flipped back while the page waits
Flip ==
  /\ lightActs < LightActs /\ lightActs' = lightActs + 1 /\ lightHeard # "unknown" /\ ~lightDeaf
  /\ lightShown' = Other(lightShown) /\ lightOrders' = Append(lightOrders, lightShown')
  /\ settle' = lightShown' /\ settleLeft' = LightTicks
  /\ UNCHANGED <<lamp, reported, lightPushes, lightHeard, lightDeaf, lightEvents>>

\* mutant: the switch is spared when the settle runs out
ReturnedSpared == lightShown

\* the switch goes back to what the printer says
Returned == Drawn(lightHeard)

Hold == settleLeft' = settleLeft - 1

\* light_settle_tick
Tick ==
  /\ settle # "none"
  /\ IF lightHeard = settle
       THEN settle' = "none" /\ settleLeft' = 0 /\ UNCHANGED lightShown
       ELSE IF settleLeft = 0
         THEN settle' = "none" /\ lightShown' = Returned /\ UNCHANGED settleLeft
         ELSE lightShown' = settle /\ Hold /\ UNCHANGED settle
  /\ UNCHANGED <<lightDevice, lightHeard, lightDeaf, lightBounds>>

LightNext ==
  PrinterAnswers \/ Reports \/ LightElsewhere \/ LightPushed \/ LightRedrawn \/ Flip \/ Tick

\* the interval runs while a settle is open; of the printer nothing is assumed
LightFairness == WF_lightVars(Tick)

LightSpec == LightInit /\ [][LightNext]_lightVars /\ LightFairness

-----------------------------------------------------------------------------
(* Properties.                                                              *)

\* Every variable holds a value of its kind.
LightTypeOK ==
  /\ lamp \in Positions /\ reported \in Told
  /\ lightOrders \in Seq(Positions) /\ lightPushes \in Seq(Told)
  /\ lightHeard \in Told /\ lightShown \in Positions
  /\ settle \in Positions \cup {"none"} /\ settleLeft \in 0..LightTicks
  /\ lightDeaf \in BOOLEAN /\ lightActs \in 0..LightActs /\ lightEvents \in 0..LightEvents

\* Outside a settle the switch is drawn as the printer last said: a refused
\* command is not left drawn as though it had been taken (03-status.js,
\* light_settle_tick).
LightAgrees == settle = "none" /\ lightHeard # "unknown" => lightShown = lightHeard

\* A settle ends and the device wins, however often the switch was flipped and
\* whatever was pushed meanwhile.
SettleEnds == settle # "none" ~> settle = "none"
=============================================================================
