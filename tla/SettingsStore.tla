--------------------------- MODULE SettingsStore ---------------------------
(***************************************************************************)
(* The settings the web routes write: ps_api.c's features, presets, stages *)
(* and config documents, the vent's effect copied by ps_bridge.c, and the  *)
(* three blobs ps_cfg.c keeps them in.  A feature bit gates the effects    *)
(* that need it; a document is judged whole under the bits it leaves in    *)
(* force and then applied, or refused with nothing applied.  The routes    *)
(* share one task; a restart can fall between any two writes to flash.     *)
(***************************************************************************)
EXTENDS Naturals, FiniteSets, Functions

CONSTANTS
  Bits,     \* the feature bits in play
  Effects,  \* the effects in play
  States,   \* bar states that have an effect
  Slots,    \* print stages that may have a row of their own
  Names,    \* names a preset can be given
  Parity,   \* values of the fields the factory has too
  Found,    \* what a first start of this build may find in flash
  Switches, \* switches a page may turn on and off in one document
  Posted,   \* bar state tables a page may post, beside the one it read
  Listed,   \* and lists of presets
  Tabled,   \* and tables of rows
  Files,    \* settings files a person may import, beside the device's own
  None      \* no name, no blob, nothing being imported

\* ps_fx_allowed: the bit each effect waits for.  "static" and "wave" stand for
\* the seventeen (PS_FX_SELECTABLE) that need no live input
Gate == [static |-> "state_effects", wave |-> "state_effects",
         progress |-> "fx_progress", barber |-> "fx_barber",
         gradient |-> "fx_temp", palette |-> "presets"]
Selectable == {"static", "wave"}
DrawsProgress == {"progress", "barber"}

VARIABLES
  cfg,      \* g_ps.cfg
  presets,  \* g_ps.presets: the named effects, each under a name of its own
  stages,   \* g_ps.stages
  nvs,      \* the blobs in flash
  import    \* the file ps_config_apply is on, and the parts it has left

ram == <<cfg, presets, stages>>
vars == <<ram, nvs, import>>

\* a stored effect, by the keys a document names them with; unlit is the one the
\* unfilled part of the bar runs
Keys == {"effect", "unlit"}
UnlitOk(e) == e \notin DrawsProgress
Fx == {f \in [Keys -> Effects] : UnlitOk(f["unlit"])}
Cfg == [features : SUBSET Bits, fx : [States -> Fx], parity : Parity]
Presets == UNION {[N -> Fx] : N \in SUBSET Names}
Row == [set : BOOLEAN, name : Names \cup {None}, fx : Fx]
Rows == [Slots -> Row]

-----------------------------------------------------------------------------
(* Effects under the bits.                                                  *)

Allowed(features, e) == Gate[e] \in features

\* an effect as a document gives it has some of the keys, and overlays what it
\* is read onto
Entries == UNION {[K -> Effects] : K \in SUBSET Keys}
Overlaid(entry, f) ==
  [k \in Keys |-> IF k \in DOMAIN entry THEN entry[k] ELSE f[k]]

\* mutant: the unfilled part runs anything its bit allows
TakesAnyUnlit(features, entry, f) ==
  \A k \in DOMAIN entry : entry[k] = f[k] \/ Allowed(features, entry[k])
\* fx_parse: an id that is not the stored one needs its bit, and the unfilled
\* part's must not draw the progress
Takes(features, entry, f) ==
  \A k \in DOMAIN entry :
    \/ entry[k] = f[k]
    \/ Allowed(features, entry[k]) /\ (k = "unlit" => UnlitOk(entry[k]))

\* mutant: the stored id stays
KeptAnyway(features, e) == e
\* a switch going off takes its effects with it; the seventeen wait for theirs
Kept(features, e) ==
  IF e \in Selectable \/ Allowed(features, e) THEN e ELSE "static"
Fallback(features, fx) == [s \in States |-> [k \in Keys |-> Kept(features, fx[s][k])]]

\* fx_clamp
Clamp(f) == IF UnlitOk(f["unlit"]) THEN f ELSE [f EXCEPT !["unlit"] = "static"]
Solid == [k \in Keys |-> "static"]

-----------------------------------------------------------------------------
(* The blobs.  Each is read whole or not at all; the config has had five    *)
(* layouts, and one that no arm knows, or none, leaves the defaults.        *)

Layouts == {"v1", "v2", "v3", "v4", "v5", "unknown"}
Blobs == {"cfg", "presets", "stages"}
Nvs == [cfg : {None} \cup [layout : Layouts, c : Cfg],
        presets : {None} \cup Presets, stages : {None} \cup Rows]

Fresh == CHOOSE p \in Parity : TRUE
Defaults == [features |-> {}, fx |-> [s \in States |-> Solid], parity |-> Fresh]
NoRows == [t \in Slots |-> [set |-> FALSE, name |-> None, fx |-> Solid]]

\* ps_cfg_load: v1 and v2 had no effects, v3 none for the unfilled part
FxIn(b) ==
  IF b.layout \in {"v1", "v2"} THEN Defaults.fx
  ELSE [s \in States |->
          IF b.layout = "v3" THEN [Solid EXCEPT !["effect"] = b.c.fx[s]["effect"]]
          ELSE Clamp(b.c.fx[s])]
Loaded(b) ==
  IF b = None \/ b.layout = "unknown" THEN Defaults ELSE [b.c EXCEPT !.fx = FxIn(b)]

V5(c) == [layout |-> "v5", c |-> c]
PresetsIn(b) == IF b = None THEN [n \in {} |-> Solid] ELSE [n \in DOMAIN b |-> Clamp(b[n])]
RowsIn(b) == IF b = None THEN NoRows
             ELSE [t \in Slots |-> [b[t] EXCEPT !.fx = Clamp(@)]]

\* an older layout is saved back as the current one, and on a first start the
\* access point's name is made and saved
Settled(b) ==
  IF b.cfg # None /\ b.cfg.layout = "v5" THEN b ELSE [b EXCEPT !.cfg = V5(Loaded(b.cfg))]

-----------------------------------------------------------------------------
(* Documents.  None where one leaves a part out.                            *)

Lists == UNION {[N -> Entries] : N \in SUBSET Names}
Tables == [Slots -> [set : BOOLEAN, name : Names \cup {None}, fx : Entries]]
File == [features : {None} \cup SUBSET Bits, parity : {None} \cup Parity,
         fx : {None} \cup [States -> Entries], presets : {None} \cup Lists,
         stages : {None} \cup Tables]
Bare == [features |-> None, parity |-> None, fx |-> None, presets |-> None,
         stages |-> None]

\* state_effects, over the stored table
FxTaken(features, fx) == \A s \in States : Takes(features, fx[s], cfg.fx[s])
FxOf(fx) == [s \in States |-> Overlaid(fx[s], cfg.fx[s])]

\* presets_parse_list: each starts solid
ListTaken(features, list) == \A n \in DOMAIN list : Takes(features, list[n], Solid)
PresetsOf(list) == [n \in DOMAIN list |-> Clamp(Overlaid(list[n], Solid))]

\* stages_parse_table, over the stored rows
TableTaken(features, table) ==
  \A t \in Slots : Takes(features, table[t].fx, stages[t].fx)
RowsOf(table) ==
  [t \in Slots |-> [table[t] EXCEPT !.fx = Clamp(Overlaid(@, stages[t].fx))]]

\* ps_config_json: everything stored, the bar states' effects as a table
Export == [features |-> cfg.features, parity |-> cfg.parity, fx |-> cfg.fx,
           presets |-> presets, stages |-> stages]

\* mutant: the bits in force before it
BroughtNone(file) == cfg.features
\* steps 1 to 3 of ps_config_apply refuse before anything is written: each part
\* is judged under the bits the file brings
Brought(file) == IF file.features = None THEN cfg.features ELSE file.features
FileTaken(file) ==
  /\ file.presets # None => ListTaken(Brought(file), file.presets)
  /\ file.stages # None => TableTaken(Brought(file), file.stages)
  /\ file.fx # None => FxTaken(Brought(file), file.fx)

-----------------------------------------------------------------------------
(* Start and restart.                                                       *)

Idle == import.file = None
NoImport == [file |-> None, at |-> "end", next |-> Defaults,
             list |-> [n \in {} |-> Solid], rows |-> NoRows]

\* ps_state_init
Boot(b) ==
  /\ cfg' = Loaded(b.cfg)
  /\ presets' = PresetsIn(b.presets) /\ stages' = RowsIn(b.stages)
  /\ nvs' = Settled(b)
  /\ import' = NoImport

\* the power may go at any time
Restart == Boot(nvs)

\* settings.factory_reset: the erase and the restart are under ps_lock
FactoryReset ==
  /\ Idle
  /\ Boot([nvs EXCEPT !.cfg = None, !.presets = None, !.stages = None])

-----------------------------------------------------------------------------
(* The routes.                                                              *)

\* the config in RAM, and saved when it has changed
Write(c) ==
  /\ cfg' = c
  /\ nvs' = IF c = cfg THEN nvs ELSE [nvs EXCEPT !.cfg = V5(c)]

\* what ps_features_apply leaves: the switches, the table, the fallback
Switched(features, fx) ==
  [cfg EXCEPT !.features = features, !.fx = Fallback(features, fx)]

\* POST /api/features
PostFeatures(set, clear, table) ==
  LET after == (cfg.features \cup set) \ clear IN
  /\ Idle
  /\ table # None => FxTaken(after, table)
  /\ Write(Switched(after, IF table = None THEN cfg.fx ELSE FxOf(table)))
  /\ UNCHANGED <<presets, stages, import>>

\* POST /api/presets with the whole list
PostPresets(list) ==
  /\ Idle /\ "presets" \in cfg.features
  /\ ListTaken(cfg.features, list)
  /\ presets' = PresetsOf(list) /\ nvs' = [nvs EXCEPT !.presets = presets']
  /\ UNCHANGED <<cfg, stages, import>>

Offers(n) == n \in DOMAIN presets /\ Allowed(cfg.features, presets[n]["effect"])

\* mutant: the entry is not saved
ApplyPresetUnsaved(n, s) ==
  /\ Idle /\ "presets" \in cfg.features
  /\ Offers(n)
  /\ cfg' = [cfg EXCEPT !.fx[s] = presets[n]]
  /\ UNCHANGED <<presets, stages, import, nvs>>
\* POST /api/presets with one to apply: copied into a bar state's entry
ApplyPreset(n, s) ==
  /\ Idle /\ "presets" \in cfg.features
  /\ Offers(n)
  /\ Write([cfg EXCEPT !.fx[s] = presets[n]])
  /\ UNCHANGED <<presets, stages, import>>

SetRows(rows) ==
  /\ Idle /\ "stage_effects" \in cfg.features
  /\ stages' = rows /\ nvs' = [nvs EXCEPT !.stages = rows]
  /\ UNCHANGED <<cfg, presets, import>>

\* POST /api/stages: a named effect assigned, a row cleared, or the whole table
Assign(t, n) ==
  Offers(n) /\ SetRows([stages EXCEPT ![t] = [set |-> TRUE, name |-> n, fx |-> presets[n]]])
ClearRow(t) ==
  SetRows([stages EXCEPT ![t].set = FALSE, ![t].name = None])
PostStages(table) ==
  TableTaken(cfg.features, table) /\ SetRows(RowsOf(table))

\* POST /api/bridge with a copy: the vent's effect, its unfilled part's left alone
CopyEffect(s, e) ==
  /\ Idle /\ "state_effects" \in cfg.features /\ Allowed(cfg.features, e)
  /\ Write([cfg EXCEPT !.fx[s]["effect"] = e])
  /\ UNCHANGED <<presets, stages, import>>

\* a factory setting from the socket, or the printer's new address from the printer
\* task, which ps_lock alone keeps from an import
SetParity(p) ==
  /\ import.at \in {"end", "parity"}
  /\ Write([cfg EXCEPT !.parity = p])
  /\ UNCHANGED <<presets, stages, import>>

-----------------------------------------------------------------------------
(* POST /api/config.  Every part is validated into a copy first.  Step 3    *)
(* saves the switches and the effects with the old parity fields; step 4    *)
(* saves the rest, the presets and the rows, each in a write of its own.    *)

ImportEffects(file) ==
  /\ Idle /\ "config_io" \in cfg.features
  /\ FileTaken(file)
  /\ Write(Switched(Brought(file), IF file.fx = None THEN cfg.fx ELSE FxOf(file.fx)))
  /\ import' = [file |-> file, at |-> "parity",
                next |-> [cfg EXCEPT !.features = Brought(file),
                                     !.parity = IF file.parity = None THEN @ ELSE file.parity],
                list |-> IF file.presets = None THEN presets ELSE PresetsOf(file.presets),
                rows |-> IF file.stages = None THEN stages ELSE RowsOf(file.stages)]
  /\ UNCHANGED <<presets, stages>>

\* the copy made before step 3, with what step 3 has set
ImportParity ==
  /\ import.at = "parity"
  /\ cfg' = [import.next EXCEPT !.features = cfg.features, !.fx = cfg.fx]
  /\ nvs' = [nvs EXCEPT !.cfg = V5(cfg')]
  /\ import' = [import EXCEPT !.at = "presets"]
  /\ UNCHANGED <<presets, stages>>

ImportPresets ==
  /\ import.at = "presets"
  /\ presets' = import.list
  /\ nvs' = IF import.file.presets = None THEN nvs
            ELSE [nvs EXCEPT !.presets = import.list]
  /\ import' = [import EXCEPT !.at = "stages"]
  /\ UNCHANGED <<cfg, stages>>

ImportStages ==
  /\ import.at = "stages"
  /\ stages' = import.rows
  /\ nvs' = IF import.file.stages = None THEN nvs
            ELSE [nvs EXCEPT !.stages = import.rows]
  /\ import' = NoImport
  /\ UNCHANGED <<cfg, presets>>

-----------------------------------------------------------------------------
(* A first start finds blobs of this build or of an older one, whose lit    *)
(* effects the switches stored with them allow.                             *)

Renders(c) ==
  \A s \in States : LET e == c.fx[s]["effect"] IN e \in Selectable \/ Allowed(c.features, e)

ASSUME ConstantsAssumption ==
  /\ Effects \subseteq DOMAIN Gate /\ "static" \in Effects
  /\ None \notin Names /\ None \notin Parity /\ Parity # {}
  /\ Found \subseteq Nvs /\ \A b \in Found : Renders(Loaded(b.cfg))
  /\ Switches \subseteq [set : SUBSET Bits, clear : SUBSET Bits]
  /\ Posted \subseteq [States -> Entries] /\ Listed \subseteq Lists
  /\ Tabled \subseteq Tables /\ Files \subseteq File
\* nothing is stored, and nothing imported, is neither a blob nor a file
ASSUME NoneAssumption ==
  /\ None \notin File /\ None \notin [layout : Layouts, c : Cfg]
  /\ None \notin Presets /\ None \notin Rows

Init ==
  \E b \in Found :
    /\ cfg = Loaded(b.cfg) /\ presets = PresetsIn(b.presets) /\ stages = RowsIn(b.stages)
    /\ nvs = Settled(b)
    /\ import = NoImport

Next ==
  \/ Restart \/ FactoryReset
  \/ \E switch \in Switches, table \in {None, cfg.fx} \cup Posted :
       PostFeatures(switch.set, switch.clear, table)
  \/ \E list \in {presets} \cup Listed : PostPresets(list)
  \/ \E n \in Names, s \in States : ApplyPreset(n, s)
  \/ \E t \in Slots, n \in Names : Assign(t, n)
  \/ \E t \in Slots : ClearRow(t)
  \/ \E table \in {stages} \cup Tabled : PostStages(table)
  \/ \E s \in States, e \in Effects : CopyEffect(s, e)
  \/ \E p \in Parity : SetParity(p)
  \/ \E file \in {Export} \cup Files : ImportEffects(file)
  \/ ImportParity \/ ImportPresets \/ ImportStages

Spec == Init /\ [][Next]_vars

-----------------------------------------------------------------------------
(* Properties.                                                              *)

\* What RAM and flash hold has the shape the code gives it, and the part of a
\* bar the print has not reached never runs an effect that draws the progress.
TypeOK ==
  /\ cfg \in Cfg /\ presets \in Presets /\ stages \in Rows
  /\ nvs \in Nvs
  /\ import \in [file : {None} \cup File, at : {"parity", "presets", "stages", "end"},
                next : Cfg, list : Presets, rows : Rows]

\* The lit effect of every bar state is one of the seventeen or one whose switch
\* is on, whatever mix of routes, copies, imports and restarts stored it.
EffectRenderable == Renders(cfg)

\* ... and the same of the effect its unfilled part runs.
UnlitRenderable ==
  \A s \in States :
    LET e == cfg.fx[s]["unlit"] IN e \in Selectable \/ Allowed(cfg.features, e)

\* Whenever no import is under way, a start would come up with what is in RAM:
\* nothing a route answered for is lost by a power cut.
StoredIsCurrent ==
  Idle => /\ cfg = Loaded(nvs.cfg)
          /\ presets = PresetsIn(nvs.presets) /\ stages = RowsIn(nvs.stages)

\* An import that ends leaves every part its file gave as the file has it,
\* across its four writes; a lit or unlit effect the file's own switches forbid
\* has gone to solid.
As(entry, f) == \A k \in DOMAIN entry : f[k] = entry[k]
TakenWhole ==
  [][ImportStages =>
       LET file == import.file IN
       /\ file.features # None => cfg.features = file.features
       /\ file.parity # None => cfg.parity = file.parity
       /\ file.fx # None => \A s \in States, k \in Keys :
            k \in DOMAIN file.fx[s] => cfg.fx[s][k] = Kept(cfg.features, file.fx[s][k])
       /\ file.presets # None =>
            /\ DOMAIN presets = DOMAIN file.presets
            /\ \A n \in DOMAIN presets : As(file.presets[n], presets[n])
       /\ file.stages # None => \A t \in Slots :
            stages'[t].set = file.stages[t].set /\ As(file.stages[t].fx, stages'[t].fx)]_vars
=============================================================================
