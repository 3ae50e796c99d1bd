----------------------------- MODULE PageLighting -----------------------------
(***************************************************************************)
(* The Lighting page's own controls (05-lighting.js) and the colour picker *)
(* they open (05b-picker.js).  A pick is painted before the device has     *)
(* answered; the mode it is for is the one shown when it is confirmed.     *)
(* One slider stands for brightness and speed, one swatch for the three    *)
(* state colours.                                                          *)
(***************************************************************************)
EXTENDS Naturals, Sequences

CONSTANTS
  Hues,           \* colours other than black
  Levels,         \* slider positions
  BlockIds,       \* block ids; the device begins with none or one of them
  WheelThere,     \* the vendored wheel is on the page
  PickActs,       \* bound: what the reader does
  PickEvents      \* bound: changes by another page

ASSUME LightingAssumption ==
  WheelThere \in BOOLEAN /\ PickActs \in Nat /\ PickEvents \in Nat /\ Hues # {} /\ Levels # {}

VARIABLES
  lights,         \* the device's settings and blocks
  lightSends,     \* commands on their way to the device
  lightDocs,      \* documents on their way to this page
  lightsHeard,    \* g_state
  swatch,         \* the state colour's button
  rows,           \* the block buttons' colours
  handle,         \* the slider
  reading,        \* its number
  grabbed,        \* the slider: free, held in a drag, or only focused
  palette,         \* the open dialog: opened from, colour; or none
  astray,         \* the device was changed without telling this page
  pickActs, pickEvents

lightingDevice == <<lights, lightSends, lightDocs, astray>>
lightingPage == <<lightsHeard, swatch, rows, handle, reading, grabbed, palette>>
lightingBounds == <<pickActs, pickEvents>>
lightingVars == <<lightingDevice, lightingPage, lightingBounds>>

Modes == {"music", "h2d"}
Black == [hue |-> CHOOSE h \in Hues : TRUE, lit |-> FALSE]
Colours == {Black} \cup [hue : Hues, lit : {TRUE}]
White == CHOOSE c \in Colours : c.lit
LeastLevel == CHOOSE v \in Levels : TRUE
Blocks == UNION {[s -> Colours] : s \in SUBSET BlockIds}
NoPicker == [from |-> "none"]
Swatches == {"state"} \cup BlockIds

Factory(b) == [mode |-> "h2d", colour |-> [m \in Modes |-> White], level |-> [m \in Modes |-> LeastLevel], blocks |-> b]
NoBlocks == [b \in {} |-> Black]

LightingOrders ==
  [order : {"mode"}, mode : Modes] \cup [order : {"level"}, level : Levels] \cup
  [order : {"colour"}, mode : Modes, colour : Colours] \cup
  [order : {"block"}, id : BlockIds, colour : Colours] \cup [order : {"reset"}]

LightingInit ==
  /\ \E b \in {NoBlocks} \cup {[i \in {x} |-> White] : x \in BlockIds} : lights = Factory(b)
  /\ lightSends = <<>> /\ lightDocs = <<>> /\ astray = FALSE
  /\ lightsHeard = lights /\ swatch = White /\ rows = lights.blocks
  /\ handle = LeastLevel /\ reading = LeastLevel /\ grabbed = "free" /\ palette = NoPicker
  /\ pickActs = 0 /\ pickEvents = 0

-----------------------------------------------------------------------------
(* The device.                                                              *)

\* apply_settings, apply_block; a colour's mode is its target, not a mode change
LightsObey(d, s) ==
  CASE s.order = "mode" -> [d EXCEPT !.mode = s.mode]
    [] s.order = "level" -> [d EXCEPT !.level[d.mode] = s.level]
    [] s.order = "colour" -> [d EXCEPT !.colour[s.mode] = s.colour]
    [] s.order = "block" -> [d EXCEPT !.blocks = [i \in DOMAIN @ \cup {s.id} |-> IF i = s.id THEN s.colour ELSE @[i]]]
    [] s.order = "reset" -> Factory(d.blocks)

\* the factory's colours are honoured in one mode only
Heeds(d, s) == s.order = "reset" => d.mode = "h2d"

\* the whole document, to the sender only
LightsServe ==
  /\ lightSends # <<>> /\ lightSends' = Tail(lightSends)
  /\ IF Heeds(lights, Head(lightSends))
       THEN lights' = LightsObey(lights, Head(lightSends)) /\ lightDocs' = Append(lightDocs, lights') /\ astray' = FALSE
       ELSE UNCHANGED <<lights, lightDocs, astray>>
  /\ UNCHANGED <<lightingPage, lightingBounds>>

LightsElsewhere ==
  /\ pickEvents < PickEvents /\ pickEvents' = pickEvents + 1 /\ astray' = TRUE
  /\ \E s \in LightingOrders : Heeds(lights, s) /\ lights' = LightsObey(lights, s)
  /\ UNCHANGED <<lightSends, lightDocs, lightingPage, pickActs>>

-----------------------------------------------------------------------------
(* The page.                                                                *)

\* paint_blocks: built anew when the ids changed, painted every time
PaintBlocks(d) == rows' = d.blocks

\* render_lighting; paint_slider spares the handle that is held
RenderLighting(d) ==
  /\ reading' = d.level[d.mode] /\ handle' = IF grabbed = "free" THEN d.level[d.mode] ELSE handle
  /\ swatch' = d.colour[d.mode] /\ PaintBlocks(d)

LightsPushed ==
  /\ lightDocs # <<>> /\ lightDocs' = Tail(lightDocs)
  /\ lightsHeard' = Head(lightDocs) /\ RenderLighting(lightsHeard')
  /\ UNCHANGED <<lights, lightSends, astray, grabbed, palette, lightingBounds>>

\* rerender_all
LightsRedrawn ==
  /\ RenderLighting(lightsHeard)
  /\ UNCHANGED <<lightingDevice, lightsHeard, grabbed, palette, lightingBounds>>

-----------------------------------------------------------------------------
(* The reader.  The dialog is modal.                                        *)

PickActing ==
  /\ pickActs < PickActs /\ pickActs' = pickActs + 1 /\ palette = NoPicker
  /\ UNCHANGED <<lights, lightDocs, astray, lightsHeard, pickEvents>>

\* a click: a drag ends before it, and the focus goes along
Clicks == PickActing /\ grabbed # "held" /\ grabbed' = "free"

SendsLight(s) == lightSends' = Append(lightSends, s)

PicksMode ==
  /\ Clicks /\ \E m \in Modes : SendsLight([order |-> "mode", mode |-> m])
  /\ UNCHANGED <<swatch, rows, handle, reading, palette>>

\* input: the number follows the handle, nothing is sent yet
Drags ==
  /\ PickActing /\ grabbed' = "held"
  /\ \E v \in Levels : handle' = v /\ reading' = v
  /\ UNCHANGED <<lightSends, swatch, rows, palette>>

\* change
LetsGo ==
  /\ grabbed = "held" /\ grabbed' = "focused" /\ SendsLight([order |-> "level", level |-> handle])
  /\ UNCHANGED <<lights, lightDocs, astray, lightsHeard, swatch, rows, handle, reading, palette, lightingBounds>>

\* the keyboard brings the focus, or takes it on
Tabs ==
  /\ PickActing /\ grabbed # "held" /\ grabbed' = IF grabbed = "free" THEN "focused" ELSE "free"
  /\ UNCHANGED <<lightSends, swatch, rows, handle, reading, palette>>

ResetsLights ==
  /\ Clicks /\ lightsHeard.mode = "h2d" /\ SendsLight([order |-> "reset"])
  /\ UNCHANGED <<swatch, rows, handle, reading, palette>>

ColourOf(b) == IF b = "state" THEN swatch ELSE rows[b]

\* open: it starts on the button's colour
OpensPicker ==
  /\ Clicks
  /\ \E b \in {"state"} \cup DOMAIN rows : palette' = [from |-> b, colour |-> ColourOf(b), mode |-> lightsHeard.mode]
  /\ UNCHANGED <<lightSends, swatch, rows, handle, reading>>

\* the wheel keeps the value, so black is lit first
Wheeled(h) == [hue |-> h, lit |-> TRUE]

\* a preset or a typed value; the wheel
TurnsColour ==
  /\ palette # NoPicker
  /\ \E c \in Colours \cup (IF WheelThere THEN {Wheeled(h) : h \in Hues} ELSE {}) :
       c # palette.colour /\ palette' = [palette EXCEPT !.colour = c]
  /\ UNCHANGED <<lightingDevice, lightsHeard, swatch, rows, handle, reading, grabbed, lightingBounds>>

CancelsPick ==
  /\ palette # NoPicker /\ palette' = NoPicker
  /\ UNCHANGED <<lightingDevice, lightsHeard, swatch, rows, handle, reading, grabbed, lightingBounds>>

\* mutant: the mode is the one that was shown when the dialog opened
ModeAtOpen == palette.mode

\* mode_now, in the dialog's callback
ModeNow == lightsHeard.mode

\* the button's own row may have been taken away meanwhile
ConfirmsPick ==
  /\ palette # NoPicker /\ palette' = NoPicker
  /\ IF palette.from = "state"
       THEN /\ swatch' = palette.colour /\ UNCHANGED rows
            /\ SendsLight([order |-> "colour", mode |-> ModeNow, colour |-> palette.colour])
       ELSE /\ rows' = [i \in DOMAIN rows |-> IF i = palette.from THEN palette.colour ELSE rows[i]]
            /\ SendsLight([order |-> "block", id |-> palette.from, colour |-> palette.colour])
            /\ UNCHANGED swatch
  /\ UNCHANGED <<lights, lightDocs, astray, lightsHeard, handle, reading, grabbed, lightingBounds>>

LightingNext ==
  \/ LightsServe \/ LightsElsewhere \/ LightsPushed \/ LightsRedrawn
  \/ PicksMode \/ Drags \/ LetsGo \/ Tabs \/ ResetsLights
  \/ OpensPicker \/ TurnsColour \/ CancelsPick \/ ConfirmsPick

LightingSpec == LightingInit /\ [][LightingNext]_lightingVars

-----------------------------------------------------------------------------
(* Properties.                                                              *)

Documented(d) ==
  d.mode \in Modes /\ d.colour \in [Modes -> Colours] /\ d.level \in [Modes -> Levels] /\ d.blocks \in Blocks

\* Every variable holds a value of its kind.
LightingTypeOK ==
  /\ Documented(lights) /\ Documented(lightsHeard)
  /\ lightSends \in Seq(LightingOrders) /\ \A i \in DOMAIN lightDocs : Documented(lightDocs[i])
  /\ swatch \in Colours /\ rows \in Blocks /\ handle \in Levels /\ reading \in Levels
  /\ grabbed \in {"free", "held", "focused"} /\ astray \in BOOLEAN
  /\ palette # NoPicker => palette.from \in Swatches /\ palette.colour \in Colours

\* Once everything sent has been answered, the page shows what the device has:
\* the mode's own colour and level, and every block.
LightingAgrees ==
  lightSends = <<>> /\ lightDocs = <<>> /\ ~astray =>
    /\ lightsHeard = lights /\ swatch = lights.colour[lights.mode] /\ rows = lights.blocks
    /\ grabbed # "held" => reading = lights.level[lights.mode]

\* A colour that only this page shows is on its way to the device, for the mode
\* that is shown, or on its way back: nothing is painted that nobody was told
\* (05b-picker.js, the confirm button).
PaintedIsTold ==
  swatch # lightsHeard.colour[lightsHeard.mode] =>
    \/ \E i \in DOMAIN lightSends : lightSends[i] = [order |-> "colour", mode |-> lightsHeard.mode, colour |-> swatch]
    \/ \E i \in DOMAIN lightDocs : lightDocs[i].colour[lightsHeard.mode] = swatch

\* The slider stands where its number says, unless it is held.
SliderAgrees == grabbed = "free" => handle = reading
=============================================================================
