----------------------------- MODULE PagePresets -----------------------------
(***************************************************************************)
(* The saved effects and the print stages (05d-presets.js): two documents  *)
(* the page asks for once, when their cards are first shown, and takes     *)
(* again from every answer.  A list is sent whole; a stage keeps a copy of *)
(* the preset it was given, so it may name one that is gone.  A preset     *)
(* that is applied becomes the effect of a bar state, which is the effects *)
(* editor's document (05c-effects.js): the page has it asked for again.    *)
(***************************************************************************)
EXTENDS Naturals, Sequences, FiniteSets

CONSTANTS
  Nothing,       \* no document, or a stage that is not set
  Presets,       \* names of presets
  OwnLook,       \* the bar state's effect before a preset was applied to it
  Stages,        \* print stages
  PresetMax,     \* preset_max
  PresetActs,    \* bound: what the reader does
  PresetFaults   \* bound: requests or answers lost, changes made elsewhere

VARIABLES
  saved,          \* the device's presets
  stages,         \* what each stage was given
  bar,            \* the preset that the bar state's effect was made from
  sent, answers,  \* requests on their way, answers on their way
  on,             \* the cards whose switch is on, as fx_features tells
  asked,          \* g_pre_asked, g_stg_asked
  preDoc, stgDoc, \* g_pre, g_stg
  barDoc,         \* that effect, in the editor's g_doc
  drawnFor,       \* what the stage rows were built for: list.dataset.sig
  tongue,         \* the page's language
  rowsIn,         \* the language the stage rows were built in
  presetActs, presetFaults

presetsHeld == <<saved, stages, bar>>
presetsDevice == <<presetsHeld, sent, answers>>
presetsPage == <<on, asked, preDoc, stgDoc, barDoc, drawnFor, tongue, rowsIn>>
presetsBounds == <<presetActs, presetFaults>>
presetsVars == <<presetsDevice, presetsPage, presetsBounds>>

PresetCards == {"presets", "stages"}
Looks == Presets \cup {OwnLook}
StageRows == [Stages -> Presets \cup {Nothing}]
Tongues == {"en", "pl"}
Signatures == [rows : StageRows, names : SUBSET Presets]

ASSUME PresetsAssumption ==
  /\ Nothing \notin Presets \cup {OwnLook} /\ IsFiniteSet(Presets)
  /\ (\A p \in SUBSET Presets : p # Nothing) /\ (\A r \in StageRows : r # Nothing)
  /\ (\A g \in Signatures : g # Nothing)
  /\ PresetMax \in Nat /\ PresetActs \in Nat /\ PresetFaults \in Nat

\* no more than there is room for
Lists == {p \in SUBSET Presets : Cardinality(p) <= PresetMax}

\* `why` is what the reader asked for, the name saved or deleted; "again" is
\* the read that follows a refused apply
PresetRequests ==
  [url : PresetCards \cup {"features"}, kind : {"read"}]
  \cup [url : {"presets"}, kind : {"again"}]
  \cup [url : {"presets"}, kind : {"list"}, list : Lists, why : {"save", "delete"}, name : Presets]
  \cup [url : {"presets"}, kind : {"apply"}, name : Presets]
  \cup [url : {"stages"}, kind : {"assign"}, stage : Stages, name : Presets \cup {Nothing}]
DocumentOf(url) ==
  {Nothing} \cup (CASE url = "presets" -> SUBSET Presets [] url = "stages" -> StageRows
                    [] url = "features" -> Looks)

Read(url) == [url |-> url, kind |-> "read"]

PresetsInit ==
  /\ saved \in Lists
  /\ stages = [s \in Stages |-> Nothing] /\ bar = OwnLook /\ barDoc = OwnLook
  /\ sent = <<>> /\ answers = <<>>
  /\ on = {} /\ asked = {} /\ preDoc = Nothing /\ stgDoc = Nothing /\ drawnFor = Nothing
  /\ tongue = "en" /\ rowsIn = "en"
  /\ presetActs = 0 /\ presetFaults = 0

-----------------------------------------------------------------------------
(* The device.                                                              *)

\* refused whole: a list that is too long, a name it has not saved, and what
\* brings an effect whose switch may have gone off
Takes(r) ==
  /\ r.kind = "list" => r.list \in Lists
  /\ r.kind \in {"apply", "assign"} => r.name \in saved \cup {Nothing}

BringsEffect(r) ==
  \/ r.kind = "apply"
  \/ r.kind = "list" /\ r.list # {}
  \/ r.kind = "assign" /\ r.name # Nothing

Carried(r) ==
  /\ saved' = IF r.kind = "list" THEN r.list ELSE saved
  /\ stages' = IF r.kind = "assign" THEN [stages EXCEPT ![r.stage] = r.name] ELSE stages
  /\ bar' = IF r.kind = "apply" THEN r.name ELSE bar

DocOf(url) == CASE url = "presets" -> saved' [] url = "stages" -> stages' [] url = "features" -> bar'

Reply(r, doc, came) ==
  answers' = Append(answers, [url |-> r.url, kind |-> r.kind, doc |-> doc, came |-> came])

PresetsServe ==
  /\ sent # <<>> /\ sent' = Tail(sent)
  /\ LET r == Head(sent)
     IN \/ Takes(r) /\ Carried(r) /\ Reply(r, DocOf(r.url), TRUE)
        \/ (~Takes(r) \/ BringsEffect(r)) /\ Reply(r, Nothing, TRUE) /\ UNCHANGED presetsHeld
  /\ UNCHANGED <<presetsPage, presetsBounds>>

PresetFault == presetFaults < PresetFaults /\ presetFaults' = presetFaults + 1 /\ UNCHANGED presetActs

\* the request is lost, or its answer
PresetsLose ==
  /\ PresetFault /\ sent # <<>> /\ sent' = Tail(sent)
  /\ \/ UNCHANGED presetsHeld
     \/ Takes(Head(sent)) /\ Carried(Head(sent))
  /\ Reply(Head(sent), Nothing, FALSE)
  /\ UNCHANGED presetsPage

\* another browser saves or deletes
PresetsElsewhere ==
  /\ PresetFault /\ saved' \in Lists \ {saved}
  /\ UNCHANGED <<stages, bar, sent, answers, presetsPage>>

-----------------------------------------------------------------------------
(* Drawing.                                                                 *)

PresetList == IF preDoc' = Nothing THEN {} ELSE preDoc'

Signature == [rows |-> stgDoc', names |-> PresetList]

\* build_stage_rows: built again only when what they are built for has changed
BuildStages ==
  IF stgDoc' = Nothing \/ Signature = drawnFor
    THEN UNCHANGED <<drawnFor, rowsIn>>
    ELSE drawnFor' = Signature /\ rowsIn' = tongue'

\* render_presets, render_stages: a card first shown asks for its document
FirstAsk(url) == IF url \in on' \ asked THEN <<Read(url)>> ELSE <<>>
FirstAsks == FirstAsk("presets") \o FirstAsk("stages")

Render ==
  /\ asked' = asked \cup on'
  /\ IF "stages" \in on' THEN BuildStages ELSE UNCHANGED <<drawnFor, rowsIn>>

\* 05c draws again, as it does for every features document: the switches of
\* the two cards may have moved
Shown ==
  /\ presetActs < PresetActs /\ presetActs' = presetActs + 1
  /\ on' \in SUBSET PresetCards /\ UNCHANGED <<preDoc, stgDoc, barDoc, tongue>>
  /\ Render /\ sent' = sent \o FirstAsks
  /\ UNCHANGED <<presetsHeld, answers, presetFaults>>

\* a language: the hooks draw again
Speaks ==
  /\ tongue' \in Tongues \ {tongue} /\ UNCHANGED <<on, preDoc, stgDoc, barDoc>>
  /\ presetActs < PresetActs /\ presetActs' = presetActs + 1
  /\ Render /\ sent' = sent \o FirstAsks
  /\ UNCHANGED <<presetsHeld, answers, presetFaults>>

-----------------------------------------------------------------------------
(* The reader.                                                              *)

PresetAct(r) ==
  /\ presetActs < PresetActs /\ presetActs' = presetActs + 1
  /\ sent' = Append(sent, r)
  /\ UNCHANGED <<presetsHeld, answers, presetsPage, presetFaults>>

Has == IF preDoc = Nothing THEN {} ELSE preDoc

\* save_current and delete_preset send the list the page holds, changed
Listed(n) ==
  PresetAct([url |-> "presets", kind |-> "list", list |-> Has \cup {n},
             why |-> "save", name |-> n])

Save(n) ==
  /\ "presets" \in on /\ (n \in Has \/ Cardinality(Has) < PresetMax)
  /\ Listed(n)

Delete(n) ==
  /\ "presets" \in on /\ n \in Has
  /\ PresetAct([url |-> "presets", kind |-> "list", list |-> Has \ {n},
                why |-> "delete", name |-> n])

Apply(n) ==
  /\ "presets" \in on /\ n \in Has
  /\ PresetAct([url |-> "presets", kind |-> "apply", name |-> n])

\* a row offers the names there are, the one it has, and to inherit
Offer(s) == drawnFor.names \cup {drawnFor.rows[s], Nothing}

Assign(s, n) ==
  /\ "stages" \in on /\ drawnFor # Nothing /\ n \in Offer(s)
  /\ PresetAct([url |-> "stages", kind |-> "assign", stage |-> s, name |-> n])

\* a refusal is read again; a read and what never came are not
Refused(a) == a.came /\ a.doc = Nothing /\ a.kind \notin {"read", "again"}

\* mutant: an apply is a list like any other to the page
FollowUpHere(a) == IF Refused(a) THEN <<Read(a.url)>> ELSE <<>>

\* and after an apply, however it ended, the effects editor asks
FollowUp(a) ==
  CASE a.kind \in {"apply", "again"} /\ ~Refused(a) -> <<Read("features")>>
    [] a.kind = "apply" /\ Refused(a) -> <<[url |-> "presets", kind |-> "again"]>>
    [] a.kind \notin {"apply", "again"} /\ Refused(a) -> <<Read(a.url)>>
    [] OTHER -> <<>>

Newest(old, doc) == IF doc = Nothing THEN old ELSE doc

PresetsLand ==
  /\ answers # <<>> /\ answers' = Tail(answers)
  /\ LET a == Head(answers)
     IN /\ preDoc' = IF a.url = "presets" THEN Newest(preDoc, a.doc) ELSE preDoc
        /\ stgDoc' = IF a.url = "stages" THEN Newest(stgDoc, a.doc) ELSE stgDoc
        /\ barDoc' = IF a.url = "features" THEN Newest(barDoc, a.doc) ELSE barDoc
        /\ UNCHANGED <<on, tongue>>
        /\ Render /\ sent' = sent \o FollowUp(a) \o FirstAsks
  /\ UNCHANGED <<presetsHeld, presetsBounds>>

-----------------------------------------------------------------------------
PresetsNext ==
  \/ PresetsServe \/ PresetsLose \/ PresetsElsewhere \/ PresetsLand \/ Shown \/ Speaks
  \/ \E n \in Presets : Save(n) \/ Delete(n) \/ Apply(n)
  \/ \E s \in Stages, n \in Presets \cup {Nothing} : Assign(s, n)

PresetsSpec == PresetsInit /\ [][PresetsNext]_presetsVars

-----------------------------------------------------------------------------
(* Properties.                                                              *)

\* Every variable holds a value of its kind.
PresetsTypeOK ==
  /\ saved \in Lists /\ stages \in StageRows /\ bar \in Looks /\ barDoc \in Looks
  /\ sent \in Seq(PresetRequests) /\ \A i \in DOMAIN answers : answers[i].doc \in DocumentOf(answers[i].url)
  /\ on \subseteq PresetCards /\ asked \subseteq PresetCards
  /\ preDoc \in (SUBSET Presets) \cup {Nothing} /\ stgDoc \in StageRows \cup {Nothing}
  /\ drawnFor \in Signatures \cup {Nothing}
  /\ tongue \in Tongues /\ rowsIn \in Tongues
  /\ presetActs \in 0..PresetActs /\ presetFaults \in 0..PresetFaults

Quiet == sent = <<>> /\ answers = <<>> /\ presetFaults = 0

\* When everything was answered and nothing was lost or changed elsewhere, the
\* cards that are shown hold what the device holds, each stage's row offers
\* every preset there is and the one it was given, and the effects editor has
\* the effect that an applied preset gave the bar state.
PresetsAgree ==
  Quiet => /\ barDoc = bar
           /\ "presets" \in on => preDoc = saved
           /\ "stages" \in on => /\ stgDoc = stages /\ drawnFor.rows = stages
                                 /\ preDoc # Nothing => drawnFor.names = saved

\* A preset goes only when the reader deletes that one (05d-presets.js: a
\* change is made on a copy of what the device last said).
PresetsKept ==
  [][PresetsServe => \A n \in saved \ saved' :
       Head(sent).why = "delete" /\ Head(sent).name = n]_presetsVars

\* The stage rows speak the page's language (core.js: everything JavaScript
\* wrote, said again in the language now set).
RowsSpeak == "stages" \in on /\ drawnFor # Nothing => rowsIn = tongue
=============================================================================
