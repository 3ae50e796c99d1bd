------------------------------- MODULE PageRows -------------------------------
(***************************************************************************)
(* The AMS card (04-ams.js): a row of spools built anew only when its      *)
(* signature changed, a humidity drawn as a level or as a percentage; and  *)
(* the degrees that core.js shows and stores in two units.                 *)
(***************************************************************************)
EXTENDS Integers, Sequences, FiniteSets

CONSTANTS
  Slots,          \* tray ids
  Percents,       \* humidities the newer units send
  Tongues,        \* languages
  DegreeTop,      \* bound: the warmest reading
  TrayEvents      \* bound: changes of what the printer reports

ASSUME RowsAssumption ==
  Percents \subseteq 0..100 /\ DegreeTop \in Nat /\ TrayEvents \in Nat /\ Tongues # {}

VARIABLES
  ams,            \* what the device reports of the AMS
  amsDocs,        \* documents on their way
  amsHeard,       \* printer.status, as the page holds it
  tongue,         \* g_language
  unit,           \* g_temp_unit
  chips,          \* the row: hidden, empty, or a chip for each slot
  signed,         \* the row's signature
  trayTongue,     \* the language its words are in
  humidity,       \* pips and number of the humidity row
  trayEvents

rowsDevice == <<ams, amsDocs>>
rowsDrawn == <<chips, signed, trayTongue, humidity>>
rowsVars == <<rowsDevice, amsHeard, tongue, unit, rowsDrawn, trayEvents>>

Spools == {"empty", "pla", "unknown"}
Silent == -1                        \* a reading that was not sent
PIPS == 5
NoSlot == "none"
AmsReports == [trays : UNION {[s -> Spools] : s \in SUBSET Slots}, now : Slots \cup {NoSlot},
            units : 0..1, level : {Silent} \cup 1..PIPS, pct : {Silent} \cup Percents]
NoTrays == [s \in {} |-> "empty"]
NoAms == [trays |-> NoTrays, now |-> NoSlot, units |-> 0, level |-> Silent, pct |-> Silent]
NoRow == [shape |-> "hidden"]
NoHumidity == [pips |-> 0, number |-> "none"]

-----------------------------------------------------------------------------
(* core.js: degrees.  Math.round goes up from a half.                       *)

DegShown(u, c) == IF u = "f" THEN (18 * c + 325) \div 10 ELSE c

DegStored(u, v) == IF u = "f" THEN (10 * (v - 32) + 9) \div 18 ELSE v

-----------------------------------------------------------------------------
(* The humidity.                                                            *)

\* pips_for: a percentage is put in the level's own fifths
PipsFor(r) ==
  IF r.pct = Silent THEN r.level
  ELSE LET n == (r.pct + 19) \div 20 IN IF n < 1 THEN 1 ELSE IF n > PIPS THEN PIPS ELSE n

\* humidity_node: the number itself, or the level's fifth
HumidityNode(r) ==
  IF r.pct = Silent /\ r.level = Silent THEN NoHumidity
  ELSE [pips |-> PipsFor(r), number |-> IF r.pct # Silent THEN <<r.pct, r.pct>> ELSE <<20 * (r.level - 1), 20 * r.level>>]

-----------------------------------------------------------------------------
(* The row of spools.                                                       *)

NoCard(r) == r.units = 0 /\ r.trays = NoTrays

Signature(r) == <<r.trays, r.now, r.units>>

Row(r) ==
  IF \A s \in DOMAIN r.trays : r.trays[s] = "empty" THEN [shape |-> "empty"]
  ELSE [shape |-> "chips", spools |-> r.trays, now |-> IF r.now \in DOMAIN r.trays THEN r.now ELSE NoSlot]

\* render_ams
RenderAms(r, t) ==
  IF NoCard(r)
    THEN chips' = NoRow /\ signed' = <<>> /\ humidity' = NoHumidity /\ UNCHANGED trayTongue
    ELSE /\ humidity' = HumidityNode(r)
         /\ IF signed = Signature(r)
              THEN UNCHANGED <<chips, signed, trayTongue>>
              ELSE chips' = Row(r) /\ signed' = Signature(r) /\ trayTongue' = t

RowsInit ==
  /\ ams = NoAms /\ amsDocs = <<>> /\ amsHeard = NoAms
  /\ tongue \in Tongues /\ unit = "c"
  /\ chips = NoRow /\ signed = <<>> /\ trayTongue = tongue
  /\ humidity = NoHumidity /\ trayEvents = 0

\* the printer reported its spools, or its humidity; the device pushes the root
AmsMoves ==
  /\ trayEvents < TrayEvents /\ trayEvents' = trayEvents + 1
  /\ \E r \in AmsReports :
       /\ Signature(r) = Signature(ams) \/ (r.level = ams.level /\ r.pct = ams.pct)
       /\ ams' = r /\ amsDocs' = Append(amsDocs, r)
  /\ UNCHANGED <<amsHeard, tongue, unit, rowsDrawn>>

\* root_printer leaves out what it does not know, deep_merge keeps what is left out
MergedAms(old, r) ==
  [r EXCEPT !.trays = IF @ = NoTrays THEN old.trays ELSE @,
            !.now = IF @ = NoSlot \/ r.trays = NoTrays THEN old.now ELSE @,
            !.level = IF @ = Silent THEN old.level ELSE @,
            !.pct = IF @ = Silent THEN old.pct ELSE @]

AmsPushed ==
  /\ amsDocs # <<>> /\ amsDocs' = Tail(amsDocs)
  /\ amsHeard' = MergedAms(amsHeard, Head(amsDocs)) /\ RenderAms(amsHeard', tongue)
  /\ UNCHANGED <<ams, tongue, unit, trayEvents>>

\* set_language, rerender_all
SpeaksOf ==
  /\ \E t \in Tongues : t # tongue /\ tongue' = t
  /\ RenderAms(amsHeard, tongue')
  /\ UNCHANGED <<rowsDevice, amsHeard, unit, trayEvents>>

\* temp_unit_apply
UnitTurns ==
  /\ unit' = (IF unit = "c" THEN "f" ELSE "c") /\ RenderAms(amsHeard, tongue)
  /\ UNCHANGED <<rowsDevice, amsHeard, tongue, trayEvents>>

RowsNext == AmsMoves \/ AmsPushed \/ SpeaksOf \/ UnitTurns

RowsSpec == RowsInit /\ [][RowsNext]_rowsVars

-----------------------------------------------------------------------------
(* Properties.                                                              *)

\* Every variable holds a value of its kind.
RowsTypeOK ==
  /\ {ams, amsHeard} \subseteq AmsReports /\ amsDocs \in Seq(AmsReports)
  /\ {tongue, trayTongue} \subseteq Tongues /\ unit \in {"c", "f"}
  /\ chips.shape \in {"hidden", "empty", "chips"} /\ humidity.pips \in 0..PIPS

\* The row that was spared by its signature is the row that would be built now,
\* its words apart (04-ams.js, the signature in render_ams).
SparedRowAgrees == chips = IF NoCard(amsHeard) THEN NoRow ELSE Row(amsHeard)

\* The bar and the number never disagree, and a bar is never empty beside a
\* number (04-ams.js, pips_for).
PipsAgree ==
  humidity.number # "none" =>
    /\ humidity.pips \in 1..PIPS
    /\ 20 * (humidity.pips - 1) <= humidity.number[1] /\ humidity.number[2] <= 20 * humidity.pips

\* A threshold that is shown in one unit and stored from what is shown is the
\* threshold it was (core.js, deg_shown and deg_stored).
DegreesKept == \A c \in 0..DegreeTop : DegStored(unit, DegShown(unit, c)) = c

\* The spool the page marks is the one that is loaded.
LoadedMarked == amsDocs = <<>> /\ ams.trays # NoTrays => amsHeard.now = ams.now

\* The row's words are in the language the page speaks.
SpoolsSpeak == chips.shape # "hidden" => trayTongue = tongue
=============================================================================
