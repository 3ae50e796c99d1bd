----------------------------- MODULE MCPageDocs -----------------------------
(***************************************************************************)
(* Small instances of the documents the page keeps.  They meet in nothing  *)
(* but 05c's drawing, which each module models for itself, so one of them  *)
(* is chosen at the start and the others stand still.                      *)
(***************************************************************************)
EXTENDS PageDocs, PagePresets, PagePreview

VARIABLE subject

AllPresets == {"warm", "cold", "dim"}

vars == <<docsVars, presetsVars, previewVars, subject>>

Init ==
  /\ subject \in {"docs", "presets", "preview"}
  /\ DocsInit /\ mode = 0 /\ (subject # "docs" => dev = FactoryDocument)
  /\ PresetsInit /\ (subject # "presets" => saved = {})
  /\ PreviewInit /\ (subject # "preview" => pin = NoPin)

DocsStep == subject = "docs" /\ DocsNext /\ UNCHANGED <<presetsVars, previewVars, subject>>
PresetsStep == subject = "presets" /\ PresetsNext /\ UNCHANGED <<docsVars, previewVars, subject>>
PreviewStep == subject = "preview" /\ PreviewNext /\ UNCHANGED <<docsVars, presetsVars, subject>>

Next == DocsStep \/ PresetsStep \/ PreviewStep

Spec ==
  /\ Init /\ [][Next]_vars
  /\ subject = "docs" => DocsFairness
  /\ subject = "preview" => PreviewFairness

\* Once nothing is under way, the copies the page keeps of a document, and
\* what is drawn from them, are what the device holds, although each module
\* posts a part of it and reads the rest at a moment of its own (05c, 05d, 06b,
\* 06c); the card of the fixed address (08b) as long as nothing it draws has
\* moved without its asking.
CopiesAgree ==
  /\ DocsTypeOK /\ PresetsTypeOK /\ PreviewTypeOK
  /\ DocsAgree /\ PresetsAgree

\* No card stays busy and no countdown stays shown, though answers are lost
\* and the card is hidden and shown again (06b's busy, 05f's tick).
DocsSettle == BusyEnds /\ SeenOut
=============================================================================
