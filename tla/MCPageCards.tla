----------------------------- MODULE MCPageCards -----------------------------
(***************************************************************************)
(* Small instances of the page's cards: the printer's, the uploads', the   *)
(* network's and the lamp's.  They share no state beyond the socket, which *)
(* PageLink models, so one is chosen at the start and the others stand     *)
(* still, with none of their fair actions enabled.                         *)
(***************************************************************************)
EXTENDS PageBind, PageUploads, PageNetwork, PageLight

VARIABLE subject

TwoSerials == <<"s1", "s2">>
TwoNetworks == <<"n1", "n2">>

vars == <<bindVars, uploadsVars, netVars, lightVars, subject>>

Init ==
  /\ subject \in {"bind", "uploads", "network", "light"}
  /\ BindInit /\ (subject # "bind" => printer = NoRoot)
  /\ UploadsInit /\ (subject # "uploads" => asked = {})
  /\ NetworkInit /\ (subject # "network" => device.host = "a" /\ device.lang = "en")
  /\ LightInit /\ (subject # "light" => lamp = "on" /\ reported = "on")

BindStep == subject = "bind" /\ BindNext /\ UNCHANGED <<uploadsVars, netVars, lightVars, subject>>
UploadsStep == subject = "uploads" /\ UploadsNext /\ UNCHANGED <<bindVars, netVars, lightVars, subject>>
NetworkStep == subject = "network" /\ NetworkNext /\ UNCHANGED <<bindVars, uploadsVars, lightVars, subject>>
LightStep == subject = "light" /\ LightNext /\ UNCHANGED <<bindVars, uploadsVars, netVars, subject>>

Next == BindStep \/ UploadsStep \/ NetworkStep \/ LightStep

Spec ==
  /\ Init /\ [][Next]_vars
  /\ UploadsFairness /\ NetworkFairness /\ LightFairness

\* What a card shows ahead of the device, or spares from its pushes, is put
\* right by the time nothing is under way: the printer's state and the fields
\* beside its picker, the language, the hotspot's switch, the network's form
\* and the lamp's switch (core.js, 03-status.js, 06-settings.js, 08-network.js).
CardsAgree ==
  /\ BindTypeOK /\ UploadsTypeOK /\ NetworkTypeOK /\ LightTypeOK
  /\ PaintSettles /\ FieldsOfPicker
  /\ LanguageAgrees /\ SwitchAgrees /\ FormShowsSaved
  /\ LightAgrees

\* What the page has told the reader is so: the toast is of the bind's outcome,
\* a line says that it waits only for a verdict still to come, and the page
\* goes to the name it said (core.js, 05e-images.js, 08-network.js).
CardsHonest == OutcomeTold /\ SentWaits /\ FollowsItsName

\* The page reloads for another build and for nothing else, and never misses
\* one (core.js's build check, on every open and push).
PageReloads == ReloadsForABuild /\ FlashedPageReloads

\* What a card waits for ends: an upload's line, a scan that was asked for and
\* the hold on the lamp's switch (05e-images.js, core.js, 03-status.js).
CardsSettle == UploadEnds /\ ScanShownEnds /\ SettleEnds
=============================================================================
