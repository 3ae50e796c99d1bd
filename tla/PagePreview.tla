----------------------------- MODULE PagePreview -----------------------------
(***************************************************************************)
(* Try it (05f-preview.js): the bar is held at a state for some seconds.   *)
(* The device counts them; while its last answer said a pin is live, the   *)
(* page asks once a second.                                                *)
(***************************************************************************)
EXTENDS Naturals, Sequences

CONSTANTS
  NoPin,         \* nothing is held, or nothing said yet
  PinStates,     \* bar states, 0 among them
  PinSeconds,    \* bound: how long a pin lasts
  PinActs,       \* bound: what the reader does
  PinFaults,     \* bound: answers lost
  PinOthers      \* bound: pins and stops from another browser

ASSUME PreviewAssumption ==
  /\ 0 \in PinStates /\ NoPin \notin PinStates /\ PinSeconds \in Nat \ {0}
  /\ PinActs \in Nat /\ PinFaults \in Nat /\ PinOthers \in Nat

VARIABLES
  pin, left,      \* what the device holds, and for how long
  asks, replies,  \* requests and answers on their way
  shownPin,       \* g_doc: what the last answer said
  ticking,        \* g_timer
  cardOn,         \* the switch of the card
  pinActs, pinFaults, pinOthers

previewBounds == <<pinActs, pinFaults, pinOthers>>
previewVars == <<pin, left, asks, replies, shownPin, ticking, cardOn, previewBounds>>

Pins == PinStates \cup {NoPin}
PinRequests == [kind : {"look", "post"}, state : Pins]
PinReplies == [kind : {"look", "post"}, state : Pins, came : BOOLEAN]

Look == [kind |-> "look", state |-> NoPin]

\* loaded with the page
PreviewInit ==
  /\ pin \in Pins /\ left = IF pin = NoPin THEN 0 ELSE PinSeconds
  /\ asks = <<Look>> /\ replies = <<>> /\ shownPin = NoPin /\ ticking = FALSE /\ cardOn = TRUE
  /\ pinActs = 0 /\ pinFaults = 0 /\ pinOthers = 0

-----------------------------------------------------------------------------
(* The device.                                                              *)

Held(p) == pin' = p /\ left' = IF p = NoPin THEN 0 ELSE PinSeconds

PinServe ==
  /\ asks # <<>> /\ asks' = Tail(asks)
  /\ IF Head(asks).kind = "post" THEN Held(Head(asks).state) ELSE UNCHANGED <<pin, left>>
  /\ replies' = Append(replies, [kind |-> Head(asks).kind, state |-> pin', came |-> TRUE])
  /\ UNCHANGED <<shownPin, ticking, cardOn, previewBounds>>

\* the answer is lost, or the request before it
PinLose ==
  /\ asks # <<>> /\ asks' = Tail(asks) /\ pinFaults < PinFaults /\ pinFaults' = pinFaults + 1
  /\ \/ UNCHANGED <<pin, left>>
     \/ Head(asks).kind = "post" /\ Held(Head(asks).state)
  /\ replies' = Append(replies, [kind |-> Head(asks).kind, state |-> NoPin, came |-> FALSE])
  /\ UNCHANGED <<shownPin, ticking, cardOn, pinActs, pinOthers>>

PinAfter == IF left' = 0 THEN NoPin ELSE pin

SecondPasses ==
  /\ pin # NoPin /\ left' = left - 1
  /\ pin' = PinAfter
  /\ UNCHANGED <<asks, replies, shownPin, ticking, cardOn, previewBounds>>

\* another browser holds the bar, or lets it go
PinElsewhere ==
  /\ pinOthers < PinOthers /\ pinOthers' = pinOthers + 1
  /\ \E p \in Pins \ {pin} : Held(p)
  /\ UNCHANGED <<asks, replies, shownPin, ticking, cardOn, pinActs, pinFaults>>

-----------------------------------------------------------------------------
(* The page.                                                                *)

\* render_preview: the clock runs while a pin is shown on a card that is there
TickWhileShown == cardOn' /\ shownPin' # NoPin

RenderPreview == ticking' = TickWhileShown

\* a post that failed draws nothing
PinLands ==
  /\ replies # <<>> /\ replies' = Tail(replies)
  /\ LET a == Head(replies)
     IN /\ shownPin' = IF a.came THEN a.state ELSE shownPin
        /\ UNCHANGED cardOn
        /\ IF a.came \/ a.kind = "look" THEN RenderPreview ELSE UNCHANGED ticking
  /\ UNCHANGED <<pin, left, asks, previewBounds>>

\* once a second; looks that are not answered are not waited for
Tick ==
  /\ ticking /\ Len(asks) + Len(replies) < 2 /\ asks' = Append(asks, Look)
  /\ UNCHANGED <<pin, left, replies, shownPin, ticking, cardOn, previewBounds>>

PinAct == pinActs < PinActs /\ pinActs' = pinActs + 1 /\ UNCHANGED <<pinFaults, pinOthers>>

\* show_it, pin_row and the stop button
PinPost ==
  /\ PinAct /\ cardOn
  /\ \E p \in Pins : asks' = Append(asks, [kind |-> "post", state |-> p])
  /\ UNCHANGED <<pin, left, replies, shownPin, ticking, cardOn>>

\* the switch of the card, or a draw without a change
PinCardDrawn ==
  /\ PinAct /\ cardOn' \in BOOLEAN /\ UNCHANGED shownPin
  /\ RenderPreview
  /\ UNCHANGED <<pin, left, asks, replies>>

-----------------------------------------------------------------------------
PreviewNext ==
  \/ PinServe \/ PinLose \/ SecondPasses \/ PinElsewhere
  \/ PinLands \/ Tick \/ PinPost \/ PinCardDrawn

\* the device answers and counts, the browser's clock ticks
PreviewFairness ==
  /\ WF_previewVars(PinServe) /\ WF_previewVars(SecondPasses)
  /\ WF_previewVars(PinLands) /\ WF_previewVars(Tick)

PreviewSpec == PreviewInit /\ [][PreviewNext]_previewVars /\ PreviewFairness

-----------------------------------------------------------------------------
(* Properties.                                                              *)

\* Every variable holds a value of its kind.
PreviewTypeOK ==
  /\ pin \in Pins /\ left \in 0..PinSeconds /\ (pin = NoPin <=> left = 0)
  /\ asks \in Seq(PinRequests) /\ replies \in Seq(PinReplies)
  /\ shownPin \in Pins /\ ticking \in BOOLEAN /\ cardOn \in BOOLEAN
  /\ pinActs \in 0..PinActs /\ pinFaults \in 0..PinFaults /\ pinOthers \in 0..PinOthers

\* A pin that is shown is seen to end, though looks fail, the card comes and
\* goes and the pin is let go elsewhere (05f-preview.js: a pin that was
\* cancelled elsewhere is noticed).
SeenOut == shownPin # NoPin ~> shownPin = NoPin \/ ~cardOn

=============================================================================
