------------------------------ MODULE PageDocs ------------------------------
(***************************************************************************)
(* The features document as the page keeps it: the effects editor          *)
(* (05c-effects.js), the switches (06b-features.js), the fixed address     *)
(* (08b-staticip.js), the file that brings settings back (06c-configio.js) *)
(* and the temperature unit (core.js, 06-settings.js).  Each asks the      *)
(* device for itself and keeps what it was told.  The device's server is   *)
(* one task: requests are taken, and answers come back, in their order; a  *)
(* request or an answer may be lost, which the page learns by its timeout. *)
(***************************************************************************)
EXTENDS Naturals, Sequences

CONSTANTS
  Unknown,      \* no document yet, or no document in an answer
  Effects,      \* effects that need their switch, beside the solid 0
  DocsActs,     \* bound: what the reader does
  DocsLosses,   \* bound: requests or answers lost
  DocsOthers    \* bound: changes made from another browser

VARIABLES
  dev,        \* the device's features document
  out,        \* requests on their way, the oldest first
  back,       \* answers on their way
  fxDoc,      \* 05c's g_doc
  featDoc,    \* 06b's g_last_doc
  sipDoc,     \* 08b's g_doc
  drawn,      \* the switches as the reader sees them
  unit,       \* g_temp_unit
  busy,       \* 06b's g_busy
  mode,       \* the light's mode, as the socket tells it
  docActs, docLosses, docOthers,
  restored,   \* ghost: a file of settings was sent
  unheard     \* ghost: what 08b's card shows moved since 08b was last served

docsHeld == <<dev, unheard>>
docsDevice == <<docsHeld, out, back>>
docsPage == <<fxDoc, featDoc, sipDoc, drawn, unit, busy, mode>>
docsBounds == <<docActs, docLosses, docOthers, restored>>
docsVars == <<docsDevice, docsPage, docsBounds>>

BarStates == {0, 1}
Modes == {0, 1}
Switches == {"effects", "static_ip"}
Rows == [BarStates -> Effects \cup {0}]
Documents == [on : SUBSET Switches, fx : Rows, unit : {"c", "f"}, fixed : BOOLEAN,
              bright : [Modes -> {0, 1}]]

ASSUME DocsAssumption ==
  /\ Unknown \notin Documents /\ 0 \notin Effects
  /\ DocsActs \in Nat /\ DocsLosses \in Nat /\ DocsOthers \in Nat

\* what a request changes; `of` is the mode the reader meant
Patches ==
  [kind : {"get", "badfile"}] \cup [kind : {"rows"}, rows : Rows]
  \cup [kind : {"unit"}, unit : {"c", "f"}]
  \cup [kind : {"switch"}, name : Switches, on : BOOLEAN]
  \cup [kind : {"fixed"}, fixed : BOOLEAN]
  \cup [kind : {"bright"}, bright : [Modes -> {0, 1}], of : Modes]
  \cup [kind : {"file"}, doc : Documents]
Modules == {"effects", "features", "static", "file"}
Requests == [by : Modules, patch : Patches]
Answers == [by : Modules, kind : {"get", "rows", "unit", "switch", "fixed", "bright", "file", "badfile"},
            doc : Documents \cup {Unknown}, got : BOOLEAN]

Get(m) == [by |-> m, patch |-> [kind |-> "get"]]
Post(m, p) == [by |-> m, patch |-> p]

Solid == [i \in BarStates |-> 0]
FactoryDocument ==
  [on |-> {}, fx |-> Solid, unit |-> "c", fixed |-> FALSE, bright |-> [m \in Modes |-> 0]]
SavedDocument == [FactoryDocument EXCEPT !.on = {"effects"}, !.unit = "f"]

\* whichever switches were left on
FirstDocuments == {[FactoryDocument EXCEPT !.on = s] : s \in SUBSET Switches}

DocsInit ==
  /\ dev \in FirstDocuments
  /\ out = <<Get("effects"), Get("features"), Get("static")>> /\ back = <<>>
  /\ fxDoc = Unknown /\ featDoc = Unknown /\ sipDoc = Unknown
  /\ drawn = {} /\ unit = "c" /\ busy = FALSE /\ mode \in Modes
  /\ docActs = 0 /\ docLosses = 0 /\ docOthers = 0
  /\ restored = FALSE /\ unheard = FALSE

-----------------------------------------------------------------------------
(* The device.                                                              *)

\* the route takes a document whole or refuses it whole
Acceptable(d, p) ==
  /\ p.kind = "rows" => (\A i \in BarStates : p.rows[i] # 0 => "effects" \in d.on)
  /\ p.kind # "badfile"

\* a switch that goes off takes the effects that need it with it
Switched(d, name, on) ==
  [d EXCEPT !.on = IF on THEN @ \cup {name} ELSE @ \ {name},
            !.fx = IF name = "effects" /\ ~on THEN Solid ELSE @]

Applied(d, p) ==
  CASE p.kind = "rows" -> [d EXCEPT !.fx = p.rows]
    [] p.kind = "unit" -> [d EXCEPT !.unit = p.unit]
    [] p.kind = "switch" -> Switched(d, p.name, p.on)
    [] p.kind = "fixed" -> [d EXCEPT !.fixed = p.fixed]
    [] p.kind = "bright" -> [d EXCEPT !.bright = p.bright]
    [] p.kind = "file" -> p.doc
    [] OTHER -> d

AnswerTo(r, doc) == [by |-> r.by, kind |-> r.patch.kind, doc |-> doc, got |-> TRUE]
NoAnswer(r) == [by |-> r.by, kind |-> r.patch.kind, doc |-> Unknown, got |-> FALSE]

\* what 08b draws of a document: whether its card is there, and what is in it
SameCard(d, e) == d.fixed = e.fixed /\ ("static_ip" \in d.on <=> "static_ip" \in e.on)

Moves == unheard' = (unheard \/ ~SameCard(dev, dev'))

\* an answer is what the device then holds
Serve ==
  /\ out # <<>> /\ out' = Tail(out)
  /\ LET r == Head(out)
     IN IF Acceptable(dev, r.patch)
          THEN dev' = Applied(dev, r.patch) /\ back' = Append(back, AnswerTo(r, dev'))
          ELSE back' = Append(back, AnswerTo(r, Unknown)) /\ UNCHANGED dev
  /\ IF Head(out).by = "static" THEN unheard' = FALSE ELSE Moves
  /\ UNCHANGED <<docsPage, docsBounds>>

\* the request never arrives, or its answer never does
Lose ==
  /\ out # <<>> /\ docLosses < DocsLosses /\ docLosses' = docLosses + 1
  /\ out' = Tail(out) /\ back' = Append(back, NoAnswer(Head(out)))
  /\ \/ UNCHANGED dev
     \/ Acceptable(dev, Head(out).patch) /\ dev' = Applied(dev, Head(out).patch)
  /\ Moves
  /\ UNCHANGED <<docsPage, docActs, docOthers, restored>>

\* another browser
Other ==
  /\ docOthers < DocsOthers /\ docOthers' = docOthers + 1
  /\ \/ \E u \in {"c", "f"} \ {dev.unit} : dev' = [dev EXCEPT !.unit = u]
     \/ \E s \in Switches : dev' = Switched(dev, s, s \notin dev.on)
  /\ Moves
  /\ UNCHANGED <<out, back, docsPage, docActs, docLosses, restored>>

-----------------------------------------------------------------------------
(* What the reader does.                                                    *)

Act == docActs < DocsActs /\ docActs' = docActs + 1 /\ UNCHANGED <<docLosses, docOthers>>

\* the lighting page changes the mode, over the socket
ModeChanges ==
  /\ Act /\ mode' \in Modes \ {mode}
  /\ UNCHANGED <<docsDevice, fxDoc, featDoc, sipDoc, drawn, unit, busy, restored>>

Ask(r) == out' = Append(out, r)

\* send_fx: all the rows, copied from the last document, with the one changed
ChooseEffect ==
  /\ Act /\ fxDoc # Unknown /\ "effects" \in fxDoc.on
  /\ \E i \in BarStates : \E e \in (Effects \cup {0}) \ {fxDoc.fx[i]} :
       Ask(Post("effects", [kind |-> "rows", rows |-> [fxDoc.fx EXCEPT ![i] = e]]))
  /\ UNCHANGED <<docsHeld, back, docsPage, restored>>

\* the closure's own g_state, a number, hides the document it means to read
ModeNow == 0

\* the block of both modes, with the cell of one changed
ChooseBrightness ==
  /\ Act /\ fxDoc # Unknown
  /\ Ask(Post("effects", [kind |-> "bright", of |-> mode,
                          bright |-> [fxDoc.bright EXCEPT ![ModeNow] = 1 - @]]))
  /\ UNCHANGED <<docsHeld, back, docsPage, restored>>

\* the unit segment: a press sends, and paints the answer
ChooseUnit ==
  /\ Act /\ \E u \in {"c", "f"} \ {unit} : Ask(Post("effects", [kind |-> "unit", unit |-> u]))
  /\ UNCHANGED <<docsHeld, back, docsPage, restored>>

Flipped(s) == IF s \in drawn THEN drawn \ {s} ELSE drawn \cup {s}

\* post_one: the browser has flipped the switch; while one change is out no
\* other is sent
Flip ==
  /\ Act /\ featDoc # Unknown
  /\ \E s \in Switches :
       /\ drawn' = Flipped(s)
       /\ IF busy THEN UNCHANGED out
          ELSE Ask(Post("features", [kind |-> "switch", name |-> s, on |-> s \in drawn']))
  /\ busy' = TRUE
  /\ UNCHANGED <<docsHeld, back, fxDoc, featDoc, sipDoc, unit, mode, restored>>

\* 08b: the card is there when its switch was on the last time it asked
SaveFixed ==
  /\ Act /\ sipDoc # Unknown /\ "static_ip" \in sipDoc.on
  /\ Ask(Post("static", [kind |-> "fixed", fixed |-> ~sipDoc.fixed]))
  /\ UNCHANGED <<docsHeld, back, docsPage, restored>>

\* restore: a file of settings, one this page downloaded or another
Restore ==
  /\ Act /\ restored' = TRUE
  /\ \/ Ask(Post("file", [kind |-> "file", doc |-> SavedDocument]))
     \/ Ask(Post("file", [kind |-> "badfile"]))
  /\ UNCHANGED <<docsHeld, back, docsPage>>

-----------------------------------------------------------------------------
(* An answer, or the timeout that stands for one.                           *)

\* temp_unit_apply: a unit that changes redraws everything, the switches from
\* the document they were drawn from
UnitFrom(doc) == IF doc = Unknown THEN unit ELSE doc.unit
Redrawn(doc) == IF UnitFrom(doc) # unit /\ featDoc # Unknown THEN featDoc.on ELSE drawn

Known(old, new) == IF new = Unknown THEN old ELSE new

\* 05c's refresh: what it has is applied again when nothing came
EffectsRead(a) ==
  /\ fxDoc' = Known(fxDoc, a.doc)
  /\ unit' = UnitFrom(fxDoc') /\ drawn' = Redrawn(fxDoc')
  /\ UNCHANGED <<featDoc, sipDoc, busy, mode>>

\* 05c's post: an answer is the new truth, a refusal is read again, and of
\* nothing nothing is made
EffectsPosted(a) ==
  IF a.got /\ a.doc = Unknown
    THEN Ask(Get("effects")) /\ UNCHANGED docsPage
    ELSE /\ UNCHANGED <<out, featDoc, sipDoc, busy, mode>>
         /\ fxDoc' = Known(fxDoc, a.doc)
         /\ unit' = UnitFrom(a.doc) /\ drawn' = Redrawn(a.doc)

FeaturesDrawn(a) ==
  /\ featDoc' = a.doc /\ drawn' = a.doc.on /\ unit' = a.doc.unit

\* 06b's refresh
FeaturesRead(a) ==
  /\ IF a.doc = Unknown THEN UNCHANGED <<featDoc, drawn, unit>> ELSE FeaturesDrawn(a)
  /\ UNCHANGED <<out, fxDoc, sipDoc, busy, mode>>

\* mutant: a change that no answer comes to leaves the card busy
BusyUnlessAnswered(a) == ~a.got

BusyAfter(a) == FALSE

\* mutant: the effects editor is not told
AskAfterSwitchAlone(a) == IF a.doc = Unknown THEN Ask(Get("features")) ELSE UNCHANGED out

AskAfterSwitch(a) ==
  IF a.doc = Unknown THEN Ask(Get("features")) ELSE Ask(Get("effects"))

\* 06b's done
FeaturesPosted(a) ==
  /\ busy' = BusyAfter(a)
  /\ IF a.doc = Unknown THEN UNCHANGED <<featDoc, drawn, unit>> ELSE FeaturesDrawn(a)
  /\ AskAfterSwitch(a)
  /\ UNCHANGED <<fxDoc, sipDoc, mode>>

\* 08b's get and post
FixedLanded(a) ==
  /\ sipDoc' = Known(sipDoc, a.doc)
  /\ IF a.kind = "fixed" /\ a.got /\ a.doc = Unknown THEN Ask(Get("static")) ELSE UNCHANGED out
  /\ UNCHANGED <<fxDoc, featDoc, drawn, unit, busy, mode>>

\* 06c: the routes' own cards are asked again
FileLanded(a) ==
  /\ IF a.doc # Unknown THEN Ask(Get("effects")) ELSE UNCHANGED out
  /\ UNCHANGED docsPage

Land ==
  /\ back # <<>> /\ back' = Tail(back)
  /\ LET a == Head(back)
     IN \/ a.by = "effects" /\ a.kind = "get" /\ EffectsRead(a) /\ UNCHANGED out
        \/ a.by = "effects" /\ a.kind # "get" /\ EffectsPosted(a)
        \/ a.by = "features" /\ a.kind = "get" /\ FeaturesRead(a)
        \/ a.by = "features" /\ a.kind # "get" /\ FeaturesPosted(a)
        \/ a.by = "static" /\ FixedLanded(a)
        \/ a.by = "file" /\ FileLanded(a)
  /\ UNCHANGED <<docsHeld, docsBounds>>

-----------------------------------------------------------------------------
DocsNext ==
  \/ Serve \/ Lose \/ Other \/ ModeChanges \/ Land
  \/ ChooseEffect \/ ChooseBrightness \/ ChooseUnit \/ Flip \/ SaveFixed \/ Restore

\* the server serves, and an answer or a timeout comes to every request
DocsFairness == WF_docsVars(Serve) /\ WF_docsVars(Land)

DocsSpec == DocsInit /\ [][DocsNext]_docsVars /\ DocsFairness

-----------------------------------------------------------------------------
(* Properties.                                                              *)

\* Every variable holds a value of its kind.
DocsTypeOK ==
  /\ dev \in Documents /\ out \in Seq(Requests) /\ back \in Seq(Answers)
  /\ fxDoc \in Documents \cup {Unknown} /\ featDoc \in Documents \cup {Unknown}
  /\ sipDoc \in Documents \cup {Unknown}
  /\ drawn \subseteq Switches /\ unit \in {"c", "f"} /\ busy \in BOOLEAN
  /\ docActs \in 0..DocsActs /\ docLosses \in 0..DocsLosses /\ docOthers \in 0..DocsOthers
  /\ mode \in Modes /\ restored \in BOOLEAN /\ unheard \in BOOLEAN

Settled == out = <<>> /\ back = <<>> /\ docLosses = 0 /\ docOthers = 0

\* what the effects editor draws of a document
SameEditor(d, e) == d.on = e.on /\ d.fx = e.fx /\ d.unit = e.unit /\ d.bright = e.bright

\* When everything has been answered, nothing was lost and nobody else wrote,
\* the editors and the switches show the device's document, whichever of them
\* made the changes and however they overlapped.  Two of the copies are told
\* less: a file of settings does not reach the switches, and the card of the
\* fixed address, which asks when the page loads and posts for itself, hears
\* neither of a file nor of its own switch (06b-features.js tells the effects
\* editor alone), so it is there or hidden as it last heard until it asks.
DocsAgree ==
  Settled => /\ SameEditor(fxDoc, dev) /\ unit = dev.unit
             /\ ~restored => drawn = dev.on
             /\ ~unheard => SameCard(sipDoc, dev)

\* After a file of settings the switches are the device's too (06c-configio.js:
\* the routes' own cards are asked again here).
RestoreShown == Settled => drawn = dev.on

\* A brightness is changed in the mode the light is in (05c-effects.js: the
\* mode is the lighting module's state, read it where it lives).
BrightnessOfItsMode ==
  [][\A m \in Modes : Serve /\ dev'.bright[m] # dev.bright[m] /\ Head(out).patch.kind = "bright"
                      => m = Head(out).patch.of]_docsVars

\* A switch that was flipped never leaves its card busy for good: an answer, a
\* refusal and a timeout all end it.
BusyEnds == busy ~> ~busy
=============================================================================
