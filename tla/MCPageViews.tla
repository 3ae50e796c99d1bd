----------------------------- MODULE MCPageViews -----------------------------
(***************************************************************************)
(* Small instances of what the page shows and lets pick: the print, the    *)
(* vent's card, the logs, the lighting page, the AMS and the frame.  They  *)
(* share no state beyond the socket, which PageLink models, so one is      *)
(* chosen at the start and the others stand still, with none of their fair *)
(* actions enabled.                                                        *)
(***************************************************************************)
EXTENDS PagePrint, PageVent, PageLogs, PageLighting, PageRows, PageChrome

VARIABLE subject

vars == <<printVars, ventVars, logsVars, lightingVars, rowsVars, chromeVars, subject>>

NothingStored == [theme |-> Unset, rail |-> Unset, tongue |-> Unset]

Init ==
  /\ subject \in {"print", "vent", "logs", "lighting", "rows", "chrome"}
  /\ PrintBegins(IF subject = "print" THEN <<Asked>> ELSE <<>>)
  /\ VentInit /\ (subject # "vent" => vent.bound = NoVent)
  /\ LogsInit /\ (subject # "logs" => diagnostics)
  /\ (subject \notin {"vent", "logs"} => viaHotspot)
  /\ LightingInit /\ (subject # "lighting" => rows = NoBlocks)
  /\ RowsInit /\ (subject # "rows" => tongue = "en")
  /\ ChromeInit /\ (subject # "chrome" => storeOpen /\ stored = NothingStored)

PrintStep ==
  /\ subject = "print" /\ PrintNext
  /\ UNCHANGED <<ventVars, logsVars, lightingVars, rowsVars, chromeVars, subject>>
VentStep ==
  /\ subject = "vent" /\ VentNext
  /\ UNCHANGED <<printVars, logsVars, lightingVars, rowsVars, chromeVars, subject>>
LogsStep ==
  /\ subject = "logs" /\ LogsNext
  /\ UNCHANGED <<printVars, ventVars, lightingVars, rowsVars, chromeVars, subject>>
LightingStep ==
  /\ subject = "lighting" /\ LightingNext
  /\ UNCHANGED <<printVars, ventVars, logsVars, rowsVars, chromeVars, subject>>
RowsStep ==
  /\ subject = "rows" /\ RowsNext
  /\ UNCHANGED <<printVars, ventVars, logsVars, lightingVars, chromeVars, subject>>
ChromeStep ==
  /\ subject = "chrome" /\ ChromeNext
  /\ UNCHANGED <<printVars, ventVars, logsVars, lightingVars, rowsVars, subject>>

Next == PrintStep \/ VentStep \/ LogsStep \/ LightingStep \/ RowsStep \/ ChromeStep

Spec == Init /\ [][Next]_vars /\ PrintFairness /\ VentFairness /\ LogsFairness

\* What is shown is what was last heard or picked, although it is spared from
\* redrawing, painted ahead, kept by the browser or drawn by an observer: the
\* log, the colours and their picker, the spools, the humidity, the degrees, the
\* theme, the names and the pill (02, 04, 05-lighting, 05b and 10's modules).
ViewsAgree ==
  /\ PrintTypeOK /\ VentTypeOK /\ LogsTypeOK /\ LightingTypeOK /\ RowsTypeOK /\ ChromeTypeOK
  /\ ClearedIsGone
  /\ LightingAgrees /\ PaintedIsTold
  /\ SparedRowAgrees /\ PipsAgree /\ (subject = "rows" => DegreesKept)
  /\ ThemeAgrees /\ NamesSpeak /\ PillFollows

\* A poll runs exactly while somebody reads what it brings, and the print's has
\* an answer or a timer to go on from and no two of them, but for those that the
\* tab's returns add (01-print.js, 09-bridge.js, 10-logs.js).
ViewsPoll == (subject = "print" => AskedOnce) /\ PollsWhileRead /\ StatsForReaders

\* What a poll brings is shown in the end, and a wait ends: the print, the
\* vent's document, the scan's spinner and the measures (the same modules).
ViewsSettle == PrintShownFresh /\ VentShownFresh /\ SpinnerStops /\ StopsAsking
=============================================================================
