------------------------ MODULE SettingsStoreProofs ------------------------
(***************************************************************************)
(* SettingsStore, for any bits, effects, bar states, rows, names and       *)
(* documents: types and renderable effects, what a restart loads, the      *)
(* table posted back, and the parts that an import brings.                 *)
(***************************************************************************)
EXTENDS SettingsStore, TLAPS

-----------------------------------------------------------------------------
(* The operators on one effect.                                             *)

Raw == [Keys -> Effects]

\* An entry read onto an effect gives an effect.
LEMMA OverlaidType ==
  ASSUME NEW entry \in Entries, NEW f \in Raw
  PROVE  Overlaid(entry, f) \in Raw
<1>1. PICK K \in SUBSET Keys : entry \in [K -> Effects]
  BY DEF Entries
<1> QED  BY <1>1 DEF Overlaid, Raw

\* Solid is an effect the unfilled part may run too.
LEMMA SolidType == Solid \in Fx
<1>1. "static" \in Effects
  BY ConstantsAssumption
<1>2. Solid \in [Keys -> Effects]
  BY <1>1 DEF Solid
<1>3. Solid["unlit"] = "static"
  BY DEF Solid, Keys
<1>4. UnlitOk(Solid["unlit"])
  BY <1>3 DEF UnlitOk, DrawsProgress
<1> QED  BY <1>2, <1>4 DEF Fx

\* fx_clamp leaves a stored effect, and the lit one as it was.
LEMMA ClampType ==
  ASSUME NEW f \in Raw
  PROVE  Clamp(f) \in Fx /\ Clamp(f)["effect"] = f["effect"]
<1>1. "static" \in Effects /\ UnlitOk("static")
  BY ConstantsAssumption DEF UnlitOk, DrawsProgress
<1>2. CASE UnlitOk(f["unlit"])
  BY <1>2 DEF Clamp, Fx, Raw
<1>3. CASE ~ UnlitOk(f["unlit"])
  <2>1. Clamp(f) = [f EXCEPT !["unlit"] = "static"]
    BY <1>3 DEF Clamp
  <2>2. Clamp(f) \in Raw /\ Clamp(f)["unlit"] = "static" /\ Clamp(f)["effect"] = f["effect"]
    BY <2>1, <1>1 DEF Raw, Keys
  <2> QED  BY <2>2, <1>1 DEF Fx, Raw
<1> QED  BY <1>2, <1>3

\* An entry that is taken leaves the unfilled part an effect it may run.
LEMMA TakenType ==
  ASSUME NEW features, NEW entry \in Entries, NEW f \in Fx, Takes(features, entry, f)
  PROVE  Overlaid(entry, f) \in Fx
<1>1. f \in Raw /\ UnlitOk(f["unlit"])
  BY DEF Fx, Raw
<1>2. Overlaid(entry, f) \in Raw
  BY <1>1, OverlaidType
<1>3. "unlit" \in DOMAIN entry => UnlitOk(entry["unlit"])
  BY <1>1 DEF Takes
<1>4. Overlaid(entry, f)["unlit"] = IF "unlit" \in DOMAIN entry THEN entry["unlit"] ELSE f["unlit"]
  BY DEF Overlaid, Keys
<1>5. UnlitOk(Overlaid(entry, f)["unlit"])
  BY <1>1, <1>3, <1>4
<1> QED  BY <1>2, <1>5 DEF Fx, Raw

\* The fallback leaves effects that render under the switches it is given.
LEMMA FallbackRenders ==
  ASSUME NEW features, NEW fx \in [States -> Fx]
  PROVE  /\ Fallback(features, fx) \in [States -> Fx]
         /\ \A s \in States : LET e == Fallback(features, fx)[s]["effect"] IN
              e \in Selectable \/ Allowed(features, e)
<1>1. "static" \in Effects /\ "static" \in Selectable /\ UnlitOk("static")
  BY ConstantsAssumption DEF UnlitOk, DrawsProgress, Selectable
<1> SUFFICES ASSUME NEW s \in States
             PROVE  /\ Fallback(features, fx)[s] \in Fx
                    /\ Fallback(features, fx)[s]["effect"] \in Selectable
                         \/ Allowed(features, Fallback(features, fx)[s]["effect"])
  BY DEF Fallback
<1> DEFINE g == [k \in Keys |-> Kept(features, fx[s][k])]
<1>2. Fallback(features, fx)[s] = g
  BY DEF Fallback
<1>3. fx[s] \in Raw /\ UnlitOk(fx[s]["unlit"])
  BY DEF Fx, Raw
<1>4. \A k \in Keys : Kept(features, fx[s][k]) \in {fx[s][k], "static"}
  BY DEF Kept
<1>5. g \in Raw
  BY <1>1, <1>3, <1>4 DEF Raw
<1>6. g["unlit"] = Kept(features, fx[s]["unlit"]) /\ g["effect"] = Kept(features, fx[s]["effect"])
  BY DEF Keys
<1>7. UnlitOk(g["unlit"])
  BY <1>1, <1>3, <1>4, <1>6 DEF Keys
<1>8. g["effect"] \in Selectable \/ Allowed(features, g["effect"])
  BY <1>1, <1>6 DEF Kept
<1> QED  BY <1>2, <1>5, <1>7, <1>8 DEF Fx, Raw

-----------------------------------------------------------------------------
(* What is read from flash, from a document, and written.                   *)

\* Whatever blob is found, what is loaded from it is a config.
LEMMA LoadedType ==
  ASSUME NEW b \in {None} \cup [layout : Layouts, c : Cfg]
  PROVE  Loaded(b) \in Cfg
<1>1. Fresh \in Parity
  BY ConstantsAssumption DEF Fresh
<1>2. Defaults \in Cfg
  BY <1>1, SolidType DEF Defaults, Cfg
<1>3. CASE b = None \/ b.layout = "unknown"
  BY <1>2, <1>3 DEF Loaded
<1>4. CASE ~(b = None \/ b.layout = "unknown")
  <2>1. b.c \in Cfg /\ b.layout \in Layouts /\ b.c.fx \in [States -> Fx]
    BY <1>4 DEF Cfg
  <2>2. \A s \in States : Clamp(b.c.fx[s]) \in Fx
    BY <2>1, ClampType DEF Fx, Raw
  <2>3. \A s \in States : [Solid EXCEPT !["effect"] = b.c.fx[s]["effect"]] \in Fx
    <3> TAKE s \in States
    <3>1. b.c.fx[s]["effect"] \in Effects
      BY <2>1 DEF Fx, Keys
    <3> QED  BY <3>1, SolidType DEF Fx, Keys
  <2>4. FxIn(b) \in [States -> Fx]
    BY <1>2, <2>1, <2>2, <2>3 DEF FxIn, Cfg
  <2> QED  BY <1>4, <2>1, <2>4 DEF Loaded, Cfg
<1> QED  BY <1>3, <1>4

\* A config of the current layout comes back with the lit effects it has.
LEMMA LoadedRenders ==
  ASSUME NEW b \in [layout : Layouts, c : Cfg], b # None, b.layout = "v5"
  PROVE  Renders(Loaded(b)) <=> Renders(b.c)
<1>1. b.c \in Cfg /\ b.c.fx \in [States -> Fx]
  BY DEF Cfg
<1>2. FxIn(b) = [s \in States |-> Clamp(b.c.fx[s])]
  BY DEF FxIn
<1>3. Loaded(b) = [b.c EXCEPT !.fx = FxIn(b)]
  BY DEF Loaded
<1>4. Loaded(b).fx = FxIn(b) /\ Loaded(b).features = b.c.features
  BY <1>1, <1>3 DEF Cfg
<1>5. \A s \in States : FxIn(b)[s]["effect"] = b.c.fx[s]["effect"]
  BY <1>1, <1>2, ClampType DEF Fx, Raw
<1> QED  BY <1>4, <1>5 DEF Renders, Allowed

\* The presets and the rows read back have their types.
LEMMA ReadType ==
  ASSUME NEW p \in {None} \cup Presets, NEW r \in {None} \cup Rows
  PROVE  PresetsIn(p) \in Presets /\ RowsIn(r) \in Rows
<1>1. PresetsIn(p) \in Presets
  <2>1. CASE p = None
    BY <2>1 DEF PresetsIn, Presets
  <2>2. CASE p # None
    <3>1. PICK N \in SUBSET Names : p \in [N -> Fx]
      BY <2>2 DEF Presets
    <3>2. \A n \in N : Clamp(p[n]) \in Fx
      BY <3>1, ClampType DEF Fx, Raw
    <3> QED  BY <2>2, <3>1, <3>2 DEF PresetsIn, Presets
  <2> QED  BY <2>1, <2>2
<1>2. NoRows \in Rows
  BY SolidType DEF NoRows, Rows, Row
<1>3. RowsIn(r) \in Rows
  <2>1. CASE r = None
    BY <1>2, <2>1 DEF RowsIn
  <2>2. CASE r # None
    <3>1. \A t \in Slots : r[t] \in Row
      BY <2>2 DEF Rows
    <3>2. \A t \in Slots : Clamp(r[t].fx) \in Fx
      BY <3>1, ClampType DEF Row, Fx, Raw
    <3>3. \A t \in Slots : [r[t] EXCEPT !.fx = Clamp(@)] \in Row
      BY <3>1, <3>2 DEF Row
    <3> QED  BY <2>2, <3>3 DEF RowsIn, Rows
  <2> QED  BY <2>1, <2>2
<1> QED  BY <1>1, <1>3

\* What a document is read into has the types of what is stored.
LEMMA DocumentType ==
  ASSUME TypeOK
  PROVE  /\ \A features, fx : fx \in [States -> Entries] /\ FxTaken(features, fx)
              => FxOf(fx) \in [States -> Fx]
         /\ \A list \in Lists : PresetsOf(list) \in Presets
         /\ \A table \in Tables : RowsOf(table) \in Rows
<1>1. ASSUME NEW features, NEW fx, fx \in [States -> Entries], FxTaken(features, fx)
      PROVE  FxOf(fx) \in [States -> Fx]
  <2>1. \A s \in States : cfg.fx[s] \in Fx /\ fx[s] \in Entries /\ Takes(features, fx[s], cfg.fx[s])
    BY <1>1 DEF TypeOK, Cfg, FxTaken
  <2>2. \A s \in States : Overlaid(fx[s], cfg.fx[s]) \in Fx
    BY <2>1, TakenType
  <2> QED  BY <2>2 DEF FxOf
<1>2. ASSUME NEW list \in Lists
      PROVE  PresetsOf(list) \in Presets
  <2>1. PICK N \in SUBSET Names : list \in [N -> Entries]
    BY DEF Lists
  <2>2. \A n \in N : Overlaid(list[n], Solid) \in Raw
    BY <2>1, OverlaidType, SolidType DEF Fx, Raw
  <2>3. \A n \in N : Clamp(Overlaid(list[n], Solid)) \in Fx
    BY <2>2, ClampType
  <2> QED  BY <2>1, <2>3 DEF PresetsOf, Presets
<1>3. ASSUME NEW table \in Tables
      PROVE  RowsOf(table) \in Rows
  <2>1. \A t \in Slots : table[t] \in [set : BOOLEAN, name : Names \cup {None}, fx : Entries]
                         /\ stages[t].fx \in Raw
    BY DEF Tables, TypeOK, Rows, Row, Fx, Raw
  <2>2. \A t \in Slots : Clamp(Overlaid(table[t].fx, stages[t].fx)) \in Fx
    BY <2>1, OverlaidType, ClampType
  <2>3. \A t \in Slots : [table[t] EXCEPT !.fx = Clamp(Overlaid(@, stages[t].fx))] \in Row
    BY <2>1, <2>2 DEF Row
  <2> QED  BY <2>3 DEF RowsOf, Rows
<1> QED  BY <1>1, <1>2, <1>3

-----------------------------------------------------------------------------
(* The invariant.  A restart brings back what flash holds, so flash must    *)
(* hold a renderable config of this build's layout too.                     *)

Safe(c) == c \in Cfg /\ Renders(c)
StoredSafe(b) == b \in [layout : {"v5"}, c : Cfg] /\ Renders(b.c)
SafeInv == TypeOK /\ Renders(cfg) /\ StoredSafe(nvs.cfg)

\* Starting on typed blobs, the config one of which loads renderable.
LEMMA SettledSafe ==
  ASSUME NEW b \in Nvs, Renders(Loaded(b.cfg))
  PROVE  /\ Safe(Loaded(b.cfg))
         /\ Settled(b) \in Nvs /\ StoredSafe(Settled(b).cfg)
<1>1. b.cfg \in {None} \cup [layout : Layouts, c : Cfg]
  BY DEF Nvs
<1>2. Safe(Loaded(b.cfg))
  BY <1>1, LoadedType DEF Safe
<1>3. V5(Loaded(b.cfg)) \in [layout : {"v5"}, c : Cfg] /\ V5(Loaded(b.cfg)).c = Loaded(b.cfg)
  BY <1>2 DEF V5, Safe
<1>4. CASE b.cfg # None /\ b.cfg.layout = "v5"
  <2>1. b.cfg \in [layout : {"v5"}, c : Cfg]
    BY <1>1, <1>4
  <2>2. Renders(b.cfg.c)
    BY <1>1, <1>4, LoadedRenders
  <2> QED  BY <1>2, <1>4, <2>1, <2>2 DEF Settled, StoredSafe
<1>5. CASE ~(b.cfg # None /\ b.cfg.layout = "v5")
  <2>1. Settled(b) = [b EXCEPT !.cfg = V5(Loaded(b.cfg))]
    BY <1>5 DEF Settled
  <2>2. Settled(b) \in Nvs /\ Settled(b).cfg = V5(Loaded(b.cfg))
    BY <1>3, <2>1 DEF Nvs, Layouts
  <2> QED  BY <1>2, <1>3, <2>2 DEF StoredSafe, Safe
<1> QED  BY <1>4, <1>5

ImportType == [file : {None} \cup File, at : {"parity", "presets", "stages", "end"},
               next : Cfg, list : Presets, rows : Rows]

\* Nothing being imported is well typed, and the defaults are safe.
LEMMA RestType == NoImport \in ImportType /\ Safe(Defaults)
<1>1. Safe(Defaults)
  <2>1. Fresh \in Parity
    BY ConstantsAssumption DEF Fresh
  <2>2. Defaults \in Cfg
    BY <2>1, SolidType DEF Defaults, Cfg
  <2>3. Renders(Defaults)
    BY DEF Renders, Defaults, Solid, Selectable, Keys
  <2> QED  BY <2>2, <2>3 DEF Safe
<1>2. NoRows \in Rows
  BY SolidType DEF NoRows, Rows, Row
<1>3. [n \in {} |-> Solid] \in Presets
  BY DEF Presets
<1> QED  BY <1>1, <1>2, <1>3 DEF NoImport, ImportType, Safe

\* Starting on such blobs is safe.
LEMMA BootSafe ==
  ASSUME NEW b \in Nvs, Renders(Loaded(b.cfg)), Boot(b)
  PROVE  SafeInv'
<1>1. b.presets \in {None} \cup Presets /\ b.stages \in {None} \cup Rows
  BY DEF Nvs
<1>2. cfg' \in Cfg /\ Renders(cfg')
  BY SettledSafe DEF Boot, Safe
<1>3. presets' \in Presets /\ stages' \in Rows
  BY <1>1, ReadType DEF Boot
<1>4. nvs' \in Nvs /\ StoredSafe(nvs'.cfg)
  BY SettledSafe DEF Boot
<1>5. import' \in ImportType
  BY RestType DEF Boot
<1>6. Renders(cfg)' /\ StoredSafe(nvs.cfg)'
  BY <1>2, <1>4 DEF Renders, Allowed, StoredSafe
<1> QED  BY <1>2, <1>3, <1>4, <1>5, <1>6 DEF SafeInv, TypeOK, ImportType

\* The switches as a document leaves them, with the fallback, are safe.
LEMMA SwitchedSafe ==
  ASSUME TypeOK, NEW features \in SUBSET Bits, NEW fx \in [States -> Fx]
  PROVE  Safe(Switched(features, fx))
<1> DEFINE c == Switched(features, fx)
<1>1. Fallback(features, fx) \in [States -> Fx]
  BY FallbackRenders
<1>2. cfg \in Cfg
  BY DEF TypeOK
<1>3. c \in Cfg /\ c.features = features /\ c.fx = Fallback(features, fx)
  BY <1>1, <1>2 DEF Switched, Cfg
<1>4. Renders(c)
  BY <1>3, FallbackRenders DEF Renders
<1> QED  BY <1>3, <1>4 DEF Safe

\* A safe config written is safe in flash too.
LEMMA WriteSafe ==
  ASSUME SafeInv, NEW c, Safe(c), Write(c)
  PROVE  /\ cfg' \in Cfg /\ Renders(cfg)'
         /\ nvs' \in Nvs /\ StoredSafe(nvs.cfg)'
<1>1. cfg' = c /\ cfg' \in Cfg /\ Renders(cfg)'
  BY DEF Write, Safe, Renders, Allowed
<1>2. nvs \in Nvs /\ StoredSafe(nvs.cfg)
  BY DEF SafeInv, TypeOK
<1>3. CASE nvs' = nvs
  BY <1>1, <1>2, <1>3 DEF StoredSafe, Renders, Allowed
<1>4. CASE nvs' = [nvs EXCEPT !.cfg = V5(c)]
  <2>1. V5(c) \in [layout : {"v5"}, c : Cfg] /\ V5(c).c = c
    BY DEF V5, Safe
  <2>2. nvs' \in Nvs /\ nvs'.cfg = V5(c)
    BY <1>2, <1>4, <2>1 DEF Nvs, Layouts
  <2> QED  BY <1>1, <2>1, <2>2 DEF StoredSafe, Safe, Renders, Allowed
<1> QED  BY <1>1, <1>3, <1>4 DEF Write

\* A preset that is offered and copied into a bar state's entry is safe there.
LEMMA OfferedSafe ==
  ASSUME SafeInv, NEW n \in Names, NEW s \in States, Offers(n)
  PROVE  Safe([cfg EXCEPT !.fx[s] = presets[n]]) /\ presets[n] \in Fx
<1> DEFINE c == [cfg EXCEPT !.fx[s] = presets[n]]
<1>1. cfg \in Cfg /\ presets[n] \in Fx /\ Allowed(cfg.features, presets[n]["effect"])
  BY DEF SafeInv, TypeOK, Offers, Presets
<1>2. c \in Cfg /\ c.features = cfg.features
  BY <1>1 DEF Cfg
<1>3. \A t \in States : c.fx[t] = IF t = s THEN presets[n] ELSE cfg.fx[t]
  BY <1>1 DEF Cfg
<1>4. Renders(c)
  BY <1>1, <1>2, <1>3 DEF SafeInv, Renders, Allowed
<1> QED  BY <1>1, <1>2, <1>4 DEF Safe

\* What the device gives out is a document it can be given back.
LEMMA EchoType ==
  ASSUME TypeOK
  PROVE  /\ cfg.fx \in [States -> Entries] /\ presets \in Lists /\ stages \in Tables
         /\ Export \in File
<1>1. Fx \subseteq Entries
  BY DEF Fx, Entries
<1>2. cfg \in Cfg /\ cfg.fx \in [States -> Entries]
  BY <1>1 DEF TypeOK, Cfg
<1>3. presets \in Lists
  BY <1>1 DEF TypeOK, Presets, Lists
<1>4. stages \in Tables
  <2>1. \A t \in Slots : stages[t] \in [set : BOOLEAN, name : Names \cup {None}, fx : Entries]
    BY <1>1 DEF TypeOK, Rows, Row
  <2> QED  BY <2>1 DEF TypeOK, Rows, Tables
<1>5. cfg.features \in SUBSET Bits /\ cfg.parity \in Parity
  BY <1>2 DEF Cfg
<1> QED  BY <1>2, <1>3, <1>4, <1>5 DEF Export, File

-----------------------------------------------------------------------------
\* SafeInv holds from the first start on.
LEMMA InitSafe == Init => SafeInv
<1> SUFFICES ASSUME Init PROVE SafeInv
  OBVIOUS
<1>1. PICK b \in Found :
        /\ cfg = Loaded(b.cfg) /\ presets = PresetsIn(b.presets) /\ stages = RowsIn(b.stages)
        /\ nvs = Settled(b)
        /\ import = NoImport
  BY DEF Init
<1>2. b \in Nvs /\ Renders(Loaded(b.cfg))
  BY <1>1, ConstantsAssumption
<1>3. b.presets \in {None} \cup Presets /\ b.stages \in {None} \cup Rows
  BY <1>2 DEF Nvs
<1>4. presets \in Presets /\ stages \in Rows
  BY <1>1, <1>3, ReadType
<1>5. cfg \in Cfg /\ Renders(cfg) /\ nvs \in Nvs /\ StoredSafe(nvs.cfg)
  BY <1>1, <1>2, SettledSafe DEF Safe
<1>6. import \in ImportType
  BY <1>1, RestType
<1> QED  BY <1>4, <1>5, <1>6 DEF SafeInv, TypeOK, ImportType

\* The routes keep it.
LEMMA RoutesSafe ==
  ASSUME SafeInv
  PROVE  /\ \A switch \in Switches, table \in {None, cfg.fx} \cup Posted :
              PostFeatures(switch.set, switch.clear, table) => SafeInv'
         /\ \A list \in {presets} \cup Listed : PostPresets(list) => SafeInv'
         /\ \A n \in Names, s \in States : ApplyPreset(n, s) => SafeInv'
         /\ \A s \in States, e \in Effects : CopyEffect(s, e) => SafeInv'
         /\ \A p \in Parity : SetParity(p) => SafeInv'
<1> USE DEF SafeInv
<1>0. TypeOK /\ cfg \in Cfg /\ nvs \in Nvs
  BY DEF TypeOK
<1>1. ASSUME NEW switch \in Switches, NEW table \in {None, cfg.fx} \cup Posted,
             PostFeatures(switch.set, switch.clear, table)
      PROVE  SafeInv'
  <2> DEFINE after == (cfg.features \cup switch.set) \ switch.clear
             fx == IF table = None THEN cfg.fx ELSE FxOf(table)
  <2>1. after \in SUBSET Bits
    BY <1>0, ConstantsAssumption DEF Cfg
  <2>2. fx \in [States -> Fx]
    <3>1. CASE table = None
      BY <1>0, <3>1 DEF Cfg
    <3>2. CASE table # None
      <4>1. table \in [States -> Entries]
        BY <3>2, <1>0, EchoType, ConstantsAssumption
      <4>2. FxTaken(after, table)
        BY <1>1, <3>2 DEF PostFeatures
      <4> QED  BY <1>0, <3>2, <4>1, <4>2, DocumentType
    <3> QED  BY <3>1, <3>2
  <2>3. Safe(Switched(after, fx))
    BY <1>0, <2>1, <2>2, SwitchedSafe
  <2>4. Write(Switched(after, fx)) /\ UNCHANGED <<presets, stages, import>>
    BY <1>1 DEF PostFeatures
  <2> QED  BY <2>3, <2>4, WriteSafe DEF TypeOK
<1>2. ASSUME NEW list \in {presets} \cup Listed, PostPresets(list)
      PROVE  SafeInv'
  <2>1. list \in Lists
    BY <1>0, EchoType, ConstantsAssumption
  <2>2. presets' \in Presets
    BY <1>0, <1>2, <2>1, DocumentType DEF PostPresets
  <2>3. nvs' \in Nvs /\ nvs'.cfg = nvs.cfg
    BY <1>0, <1>2, <2>2 DEF PostPresets, Nvs
  <2>4. UNCHANGED <<cfg, stages, import>>
    BY <1>2 DEF PostPresets
  <2> QED  BY <2>2, <2>3, <2>4 DEF TypeOK, StoredSafe, Renders, Allowed
<1>3. ASSUME NEW n \in Names, NEW s \in States, ApplyPreset(n, s)
      PROVE  SafeInv'
  <2>1. Safe([cfg EXCEPT !.fx[s] = presets[n]])
    BY <1>3, OfferedSafe DEF ApplyPreset
  <2>2. Write([cfg EXCEPT !.fx[s] = presets[n]]) /\ UNCHANGED <<presets, stages, import>>
    BY <1>3 DEF ApplyPreset
  <2> QED  BY <2>1, <2>2, WriteSafe DEF TypeOK
<1>4. ASSUME NEW s \in States, NEW e \in Effects, CopyEffect(s, e)
      PROVE  SafeInv'
  <2> DEFINE c == [cfg EXCEPT !.fx[s]["effect"] = e]
             f == [cfg.fx[s] EXCEPT !["effect"] = e]
  <2>1. cfg.fx[s] \in Fx
    BY <1>0 DEF Cfg
  <2>2. f \in Fx /\ f["effect"] = e
    BY <2>1 DEF Fx, Keys
  <2>3. c \in Cfg /\ c.features = cfg.features
        /\ \A t \in States : c.fx[t] = IF t = s THEN f ELSE cfg.fx[t]
    BY <1>0, <2>2 DEF Cfg
  <2>4. Allowed(cfg.features, e)
    BY <1>4 DEF CopyEffect
  <2>5. Safe(c)
    BY <2>2, <2>3, <2>4 DEF Safe, Renders, Allowed
  <2>6. Write(c) /\ UNCHANGED <<presets, stages, import>>
    BY <1>4 DEF CopyEffect
  <2> QED  BY <2>5, <2>6, WriteSafe DEF TypeOK
<1>5. ASSUME NEW p \in Parity, SetParity(p)
      PROVE  SafeInv'
  <2> DEFINE c == [cfg EXCEPT !.parity = p]
  <2>1. c \in Cfg /\ c.features = cfg.features /\ c.fx = cfg.fx
    BY <1>0 DEF Cfg
  <2>2. Safe(c)
    BY <2>1 DEF Safe, Renders, Allowed
  <2>3. Write(c) /\ UNCHANGED <<presets, stages, import>>
    BY <1>5 DEF SetParity
  <2> QED  BY <2>2, <2>3, WriteSafe DEF TypeOK
<1> QED  BY <1>1, <1>2, <1>3, <1>4, <1>5

\* So do the rows.
LEMMA RowsSafe ==
  ASSUME SafeInv
  PROVE  /\ \A t \in Slots, n \in Names : Assign(t, n) => SafeInv'
         /\ \A t \in Slots : ClearRow(t) => SafeInv'
         /\ \A table \in {stages} \cup Tabled : PostStages(table) => SafeInv'
<1>0. TypeOK /\ stages \in Rows /\ nvs \in Nvs
  BY DEF SafeInv, TypeOK
<1>1. ASSUME NEW rows \in Rows, SetRows(rows)
      PROVE  SafeInv'
  <2>1. nvs' \in Nvs /\ nvs'.cfg = nvs.cfg
    BY <1>0, <1>1 DEF SetRows, Nvs
  <2> QED  BY <1>1, <2>1 DEF SetRows, SafeInv, TypeOK, StoredSafe, Renders, Allowed
<1>2. ASSUME NEW t \in Slots, NEW n \in Names, Assign(t, n)
      PROVE  SafeInv'
  <2> DEFINE row == [set |-> TRUE, name |-> n, fx |-> presets[n]]
  <2>1. presets[n] \in Fx
    BY <1>0, <1>2 DEF Assign, Offers, TypeOK, Presets
  <2>2. row \in Row
    BY <2>1 DEF Row
  <2>3. [stages EXCEPT ![t] = row] \in Rows
    BY <1>0, <2>2 DEF Rows
  <2> QED  BY <1>1, <1>2, <2>3 DEF Assign
<1>3. ASSUME NEW t \in Slots, ClearRow(t)
      PROVE  SafeInv'
  <2>1. [stages[t] EXCEPT !.set = FALSE, !.name = None] \in Row
    BY <1>0 DEF Rows, Row
  <2>2. [stages EXCEPT ![t].set = FALSE, ![t].name = None] \in Rows
    BY <1>0, <2>1 DEF Rows, Row
  <2> QED  BY <1>1, <1>3, <2>2 DEF ClearRow
<1>4. ASSUME NEW table \in {stages} \cup Tabled, PostStages(table)
      PROVE  SafeInv'
  <2>1. table \in Tables
    BY <1>0, EchoType, ConstantsAssumption
  <2> QED  BY <1>0, <1>1, <1>4, <2>1, DocumentType DEF PostStages
<1> QED  BY <1>2, <1>3, <1>4

\* And every step of an import, whichever power cut follows it.
LEMMA ImportSafe ==
  ASSUME SafeInv
  PROVE  /\ \A file \in {Export} \cup Files : ImportEffects(file) => SafeInv'
         /\ ImportParity \/ ImportPresets \/ ImportStages => SafeInv'
<1>0. TypeOK /\ cfg \in Cfg /\ nvs \in Nvs /\ import \in ImportType
  BY DEF SafeInv, TypeOK, ImportType
<1>1. ASSUME NEW file \in {Export} \cup Files, ImportEffects(file)
      PROVE  SafeInv'
  <2> DEFINE fx == IF file.fx = None THEN cfg.fx ELSE FxOf(file.fx)
             next == [cfg EXCEPT !.features = Brought(file),
                                 !.parity = IF file.parity = None THEN @ ELSE file.parity]
             list == IF file.presets = None THEN presets ELSE PresetsOf(file.presets)
             rows == IF file.stages = None THEN stages ELSE RowsOf(file.stages)
  <2>1. file \in File
    BY <1>0, EchoType, ConstantsAssumption
  <2>2. Brought(file) \in SUBSET Bits
    BY <1>0, <2>1 DEF Brought, File, Cfg
  <2>3. fx \in [States -> Fx]
    <3>1. CASE file.fx = None
      BY <1>0, <3>1 DEF Cfg
    <3>2. CASE file.fx # None
      <4>1. file.fx \in [States -> Entries] /\ FxTaken(Brought(file), file.fx)
        BY <1>1, <2>1, <3>2 DEF ImportEffects, FileTaken, File
      <4> QED  BY <1>0, <3>2, <4>1, DocumentType
    <3> QED  BY <3>1, <3>2
  <2>4. Safe(Switched(Brought(file), fx))
    BY <1>0, <2>2, <2>3, SwitchedSafe
  <2>5. Write(Switched(Brought(file), fx)) /\ UNCHANGED <<presets, stages>>
    BY <1>1 DEF ImportEffects
  <2>6. next \in Cfg
    BY <1>0, <2>1, <2>2 DEF Cfg, File
  <2>7. list \in Presets
    <3>1. CASE file.presets = None
      BY <1>0, <3>1 DEF TypeOK
    <3>2. CASE file.presets # None
      BY <1>0, <2>1, <3>2, DocumentType DEF File
    <3> QED  BY <3>1, <3>2
  <2>8. rows \in Rows
    <3>1. CASE file.stages = None
      BY <1>0, <3>1 DEF TypeOK
    <3>2. CASE file.stages # None
      BY <1>0, <2>1, <3>2, DocumentType DEF File
    <3> QED  BY <3>1, <3>2
  <2>9. import' \in ImportType
    <3>1. import' = [file |-> file, at |-> "parity", next |-> next, list |-> list, rows |-> rows]
      BY <1>1 DEF ImportEffects
    <3> HIDE DEF next, list, rows
    <3> QED  BY <2>1, <2>6, <2>7, <2>8, <3>1 DEF ImportType
  <2>10. cfg' \in Cfg /\ Renders(cfg)' /\ nvs' \in Nvs /\ StoredSafe(nvs.cfg)'
    BY <2>4, <2>5, WriteSafe
  <2> QED  BY <1>0, <2>5, <2>9, <2>10 DEF SafeInv, TypeOK, ImportType
<1>2. ASSUME ImportParity
      PROVE  SafeInv'
  <2> DEFINE c == [import.next EXCEPT !.features = cfg.features, !.fx = cfg.fx]
  <2>1. c \in Cfg /\ c.features = cfg.features /\ c.fx = cfg.fx
    BY <1>0 DEF ImportType, Cfg
  <2>2. Safe(c)
    BY <2>1 DEF Safe, SafeInv, Renders, Allowed
  <2>3. cfg' = c /\ nvs' = [nvs EXCEPT !.cfg = V5(c)]
    BY <1>2 DEF ImportParity
  <2>4. V5(c) \in [layout : {"v5"}, c : Cfg] /\ V5(c).c = c
    BY <2>1 DEF V5
  <2>5. nvs' \in Nvs /\ nvs'.cfg = V5(c)
    BY <1>0, <2>3, <2>4 DEF Nvs, Layouts
  <2>6. import' \in ImportType /\ UNCHANGED <<presets, stages>>
    BY <1>0, <1>2 DEF ImportParity, ImportType
  <2>7. Renders(cfg)' /\ StoredSafe(nvs.cfg)'
    BY <2>2, <2>3, <2>4, <2>5 DEF Safe, StoredSafe, Renders, Allowed
  <2> QED  BY <1>0, <2>1, <2>3, <2>5, <2>6, <2>7 DEF SafeInv, TypeOK, ImportType
<1>3. ASSUME ImportPresets
      PROVE  SafeInv'
  <2>1. import.list \in Presets
    BY <1>0 DEF ImportType
  <2>2. nvs' \in Nvs /\ nvs'.cfg = nvs.cfg
    BY <1>0, <1>3, <2>1 DEF ImportPresets, Nvs
  <2>3. import' \in ImportType
    BY <1>0, <1>3 DEF ImportPresets, ImportType
  <2>4. cfg' = cfg /\ stages' = stages /\ presets' \in Presets
    BY <1>3, <2>1 DEF ImportPresets
  <2> QED  BY <1>0, <2>2, <2>3, <2>4
           DEF SafeInv, TypeOK, ImportType, StoredSafe, Renders, Allowed
<1>4. ASSUME ImportStages
      PROVE  SafeInv'
  <2>1. import.rows \in Rows
    BY <1>0 DEF ImportType
  <2>2. nvs' \in Nvs /\ nvs'.cfg = nvs.cfg
    BY <1>0, <1>4, <2>1 DEF ImportStages, Nvs
  <2>3. import' \in ImportType
    BY <1>4, RestType DEF ImportStages
  <2>4. cfg' = cfg /\ presets' = presets /\ stages' \in Rows
    BY <1>4, <2>1 DEF ImportStages
  <2> QED  BY <1>0, <2>2, <2>3, <2>4
           DEF SafeInv, TypeOK, ImportType, StoredSafe, Renders, Allowed
<1> QED  BY <1>1, <1>2, <1>3, <1>4

\* A restart loads what flash holds, or the defaults after a factory reset.
LEMMA StartsSafe == SafeInv /\ (Restart \/ FactoryReset) => SafeInv'
<1> SUFFICES ASSUME SafeInv, Restart \/ FactoryReset
             PROVE  SafeInv'
  OBVIOUS
<1>1. nvs \in Nvs /\ StoredSafe(nvs.cfg)
  BY DEF SafeInv, TypeOK
<1>2. CASE Restart
  <2>1. Renders(Loaded(nvs.cfg))
    <3>1. CASE nvs.cfg = None
      BY <3>1, RestType DEF Loaded, Safe
    <3>2. CASE nvs.cfg # None
      BY <1>1, <3>2, LoadedRenders DEF StoredSafe, Layouts
    <3> QED  BY <3>1, <3>2
  <2> QED  BY <1>1, <1>2, <2>1, BootSafe DEF Restart
<1>3. CASE FactoryReset
  <2> DEFINE b == [nvs EXCEPT !.cfg = None, !.presets = None, !.stages = None]
  <2>1. b \in Nvs /\ b.cfg = None
    BY <1>1 DEF Nvs
  <2>2. Renders(Loaded(b.cfg))
    BY <2>1, RestType DEF Loaded, Safe
  <2>3. Boot(b)
    BY <1>3 DEF FactoryReset
  <2> QED  BY <2>1, <2>2, <2>3, BootSafe
<1> QED  BY <1>2, <1>3

\* Every step keeps the invariant.
LEMMA NextSafe == SafeInv /\ [Next]_vars => SafeInv'
<1> SUFFICES ASSUME SafeInv, [Next]_vars
             PROVE  SafeInv'
  OBVIOUS
<1>1. CASE UNCHANGED vars
  BY <1>1 DEF vars, ram, SafeInv, TypeOK, StoredSafe, Renders, Allowed
<1>2. CASE Next
  BY <1>2, StartsSafe, RoutesSafe, RowsSafe, ImportSafe DEF Next
<1> QED  BY <1>1, <1>2

\* Type correctness: every effect in RAM and in flash is one the build draws,
\* and the unfilled part's never draws the progress.
THEOREM Typing == Spec => []TypeOK
<1>1. SafeInv => TypeOK
  BY DEF SafeInv
<1> QED  BY <1>1, InitSafe, NextSafe, PTL DEF Spec

\* The lit effect stored for a bar state is always one the switches in force can
\* render (ps_api.c's fallback), for any switches, documents and restarts.
THEOREM Renderable == Spec => []EffectRenderable
<1>1. SafeInv => EffectRenderable
  BY DEF SafeInv, EffectRenderable
<1> QED  BY <1>1, InitSafe, NextSafe, PTL DEF Spec

-----------------------------------------------------------------------------
(* A start comes up with what is in RAM: what is saved reads back as itself. *)

\* fx_clamp leaves alone an effect that is stored.
LEMMA ClampKeeps ==
  ASSUME NEW f \in Fx
  PROVE  Clamp(f) = f
BY DEF Fx, Clamp

\* A config saved in the current layout, a list and a table load as they are.
LEMMA ReadsBack ==
  /\ \A c \in Cfg : Loaded(V5(c)) = c
  /\ \A p \in Presets : PresetsIn(p) = p
  /\ \A r \in Rows : RowsIn(r) = r
<1>1. ASSUME NEW c \in Cfg
      PROVE  Loaded(V5(c)) = c
  <2>1. V5(c) \in [layout : Layouts, c : Cfg] /\ V5(c).layout = "v5" /\ V5(c).c = c
    BY DEF V5, Layouts
  <2>2. V5(c) # None
    BY <2>1, NoneAssumption
  <2>3. c.fx \in [States -> Fx]
    BY DEF Cfg
  <2>4. FxIn(V5(c)) = [s \in States |-> Clamp(c.fx[s])]
    BY <2>1 DEF FxIn
  <2>5. FxIn(V5(c)) = c.fx
    BY <2>3, <2>4, ClampKeeps
  <2>6. Loaded(V5(c)) = [c EXCEPT !.fx = c.fx]
    BY <2>1, <2>2, <2>5 DEF Loaded
  <2> QED  BY <2>6 DEF Cfg
<1>2. ASSUME NEW p \in Presets
      PROVE  PresetsIn(p) = p
  <2>1. PICK N \in SUBSET Names : p \in [N -> Fx]
    BY DEF Presets
  <2>2. p # None
    BY NoneAssumption
  <2> QED  BY <2>1, <2>2, ClampKeeps DEF PresetsIn
<1>3. ASSUME NEW r \in Rows
      PROVE  RowsIn(r) = r
  <2>1. r # None
    BY NoneAssumption
  <2>2. \A t \in Slots : r[t] \in Row /\ Clamp(r[t].fx) = r[t].fx
    BY ClampKeeps DEF Rows, Row
  <2>3. \A t \in Slots : [r[t] EXCEPT !.fx = Clamp(@)] = r[t]
    BY <2>2 DEF Row
  <2> QED  BY <2>1, <2>3 DEF RowsIn, Rows
<1> QED  BY <1>1, <1>2, <1>3

\* What a start settles in flash loads as what it found there.
LEMMA SettledLoads ==
  ASSUME NEW b \in Nvs
  PROVE  /\ Loaded(Settled(b).cfg) = Loaded(b.cfg)
         /\ Settled(b).presets = b.presets /\ Settled(b).stages = b.stages
<1>1. CASE b.cfg # None /\ b.cfg.layout = "v5"
  BY <1>1 DEF Settled
<1>2. CASE ~(b.cfg # None /\ b.cfg.layout = "v5")
  <2>1. Settled(b) = [b EXCEPT !.cfg = V5(Loaded(b.cfg))]
    BY <1>2 DEF Settled
  <2>2. Loaded(b.cfg) \in Cfg
    BY LoadedType DEF Nvs
  <2>3. Settled(b).cfg = V5(Loaded(b.cfg))
        /\ Settled(b).presets = b.presets /\ Settled(b).stages = b.stages
    BY <2>1 DEF Nvs
  <2> QED  BY <2>2, <2>3, ReadsBack
<1> QED  BY <1>1, <1>2

\* What flash holds is what RAM does, also while an import is under way; an
\* import is under way until its last write; and a part its file leaves out is
\* carried through it as it was.
StoredInv ==
  cfg = Loaded(nvs.cfg) /\ presets = PresetsIn(nvs.presets) /\ stages = RowsIn(nvs.stages)
UnderWay == import.file = None <=> import.at = "end"
CarriedInv ==
  /\ import.at \in {"parity", "presets"} /\ import.file.presets = None
       => import.list = presets
  /\ import.at # "end" /\ import.file.stages = None => import.rows = stages
CurrentInv == SafeInv /\ StoredInv /\ UnderWay /\ CarriedInv

\* What Write leaves in flash is what it leaves in RAM.
LEMMA WriteStores ==
  ASSUME StoredInv, TypeOK, TypeOK', NEW c, Write(c)
  PROVE  cfg' = Loaded(nvs'.cfg) /\ nvs'.presets = nvs.presets /\ nvs'.stages = nvs.stages
<1>1. cfg' = c /\ cfg' \in Cfg /\ nvs \in Nvs
  BY DEF Write, TypeOK
<1>2. CASE c = cfg
  BY <1>1, <1>2 DEF Write, StoredInv
<1>3. CASE c # cfg
  <2>1. nvs' = [nvs EXCEPT !.cfg = V5(c)]
    BY <1>3 DEF Write
  <2>2. nvs'.cfg = V5(c) /\ nvs'.presets = nvs.presets /\ nvs'.stages = nvs.stages
    BY <1>1, <2>1 DEF Nvs
  <2> QED  BY <1>1, <2>2, ReadsBack
<1> QED  BY <1>2, <1>3

\* Nothing under way carries nothing, and is what a start and a last write leave.
LEMMA IdleCarries ==
  /\ import = NoImport => UnderWay /\ CarriedInv
  /\ (import = NoImport)' => UnderWay' /\ CarriedInv'
<1>1. ASSUME import = NoImport PROVE UnderWay /\ CarriedInv
  BY <1>1 DEF NoImport, UnderWay, CarriedInv
<1>2. ASSUME (import = NoImport)' PROVE UnderWay' /\ CarriedInv'
  BY <1>2 DEF NoImport, UnderWay, CarriedInv
<1> QED  BY <1>1, <1>2

\* A start loads the blobs it found, and leaves blobs that load the same.
LEMMA BootCurrent ==
  ASSUME NEW b \in Nvs, Boot(b)
  PROVE  StoredInv' /\ UnderWay' /\ CarriedInv'
BY SettledLoads, IdleCarries DEF Boot, StoredInv

\* No write of a route is left out of flash, and none falls within an import
\* but the parity fields'.
LEMMA RoutesCurrent ==
  ASSUME CurrentInv, SafeInv'
  PROVE  /\ \A set, clear, table :
              PostFeatures(set, clear, table) => StoredInv' /\ UnderWay' /\ CarriedInv'
         /\ \A list : PostPresets(list) => StoredInv' /\ UnderWay' /\ CarriedInv'
         /\ \A n, s : ApplyPreset(n, s) => StoredInv' /\ UnderWay' /\ CarriedInv'
         /\ \A s, e : CopyEffect(s, e) => StoredInv' /\ UnderWay' /\ CarriedInv'
         /\ \A p : SetParity(p) => StoredInv' /\ UnderWay' /\ CarriedInv'
         /\ \A rows : SetRows(rows) => StoredInv' /\ UnderWay' /\ CarriedInv'
<1>0. TypeOK /\ TypeOK' /\ StoredInv /\ UnderWay /\ CarriedInv
  BY DEF CurrentInv, SafeInv
<1>1. ASSUME NEW c, Write(c), UNCHANGED <<presets, stages, import>>
      PROVE  StoredInv' /\ UnderWay' /\ CarriedInv'
  <2>1. cfg' = Loaded(nvs'.cfg) /\ nvs'.presets = nvs.presets /\ nvs'.stages = nvs.stages
    BY <1>0, <1>1, WriteStores
  <2> QED  BY <1>0, <1>1, <2>1 DEF StoredInv, UnderWay, CarriedInv
<1>2. ASSUME NEW list, PostPresets(list)
      PROVE  StoredInv' /\ UnderWay' /\ CarriedInv'
  <2>1. import.at = "end" /\ UNCHANGED <<cfg, stages, import>>
    BY <1>0, <1>2 DEF PostPresets, Idle, UnderWay
  <2>2. nvs'.presets = presets' /\ nvs'.cfg = nvs.cfg /\ nvs'.stages = nvs.stages
    BY <1>0, <1>2 DEF PostPresets, TypeOK, Nvs
  <2>3. PresetsIn(presets') = presets'
    BY <1>0, ReadsBack DEF TypeOK
  <2> QED  BY <1>0, <2>1, <2>2, <2>3 DEF StoredInv, UnderWay, CarriedInv
<1>3. ASSUME NEW rows, SetRows(rows)
      PROVE  StoredInv' /\ UnderWay' /\ CarriedInv'
  <2>1. import.at = "end" /\ UNCHANGED <<cfg, presets, import>>
    BY <1>0, <1>3 DEF SetRows, Idle, UnderWay
  <2>2. nvs'.stages = stages' /\ nvs'.cfg = nvs.cfg /\ nvs'.presets = nvs.presets
    BY <1>0, <1>3 DEF SetRows, TypeOK, Nvs
  <2>3. RowsIn(stages') = stages'
    BY <1>0, ReadsBack DEF TypeOK
  <2> QED  BY <1>0, <2>1, <2>2, <2>3 DEF StoredInv, UnderWay, CarriedInv
<1> QED  BY <1>1, <1>2, <1>3 DEF PostFeatures, ApplyPreset, CopyEffect, SetParity

\* Each write of an import leaves in flash what it leaves in RAM, so a power cut
\* after any of them loses nothing that was written.
LEMMA ImportCurrent ==
  ASSUME CurrentInv, SafeInv'
  PROVE  /\ \A file \in {Export} \cup Files :
              ImportEffects(file) => StoredInv' /\ UnderWay' /\ CarriedInv'
         /\ ImportParity \/ ImportPresets \/ ImportStages
              => StoredInv' /\ UnderWay' /\ CarriedInv'
<1>0. TypeOK /\ TypeOK' /\ StoredInv /\ UnderWay /\ CarriedInv /\ nvs \in Nvs
      /\ import \in ImportType
  BY DEF CurrentInv, SafeInv, TypeOK, ImportType
<1>1. ASSUME NEW file \in {Export} \cup Files, ImportEffects(file)
      PROVE  StoredInv' /\ UnderWay' /\ CarriedInv'
  <2>1. file # None
    BY <1>0, EchoType, ConstantsAssumption, NoneAssumption
  <2>2. \E c : Write(c)
    BY <1>1 DEF ImportEffects
  <2>3. cfg' = Loaded(nvs'.cfg) /\ nvs'.presets = nvs.presets /\ nvs'.stages = nvs.stages
    BY <1>0, <2>2, WriteStores
  <2>4. presets' = presets /\ stages' = stages /\ import'.file = file /\ import'.at = "parity"
        /\ (file.presets = None => import'.list = presets)
        /\ (file.stages = None => import'.rows = stages)
    BY <1>1 DEF ImportEffects
  <2> QED  BY <1>0, <2>1, <2>3, <2>4 DEF StoredInv, UnderWay, CarriedInv
<1>2. ASSUME ImportParity
      PROVE  StoredInv' /\ UnderWay' /\ CarriedInv'
  <2>1. nvs'.cfg = V5(cfg') /\ nvs'.presets = nvs.presets /\ nvs'.stages = nvs.stages
    BY <1>0, <1>2 DEF ImportParity, Nvs
  <2>2. Loaded(V5(cfg')) = cfg'
    BY <1>0, ReadsBack DEF TypeOK
  <2>3. import.at = "parity" /\ import' = [import EXCEPT !.at = "presets"]
        /\ UNCHANGED <<presets, stages>>
    BY <1>2 DEF ImportParity
  <2>4. UnderWay' /\ CarriedInv'
    BY <1>0, <2>3 DEF ImportType, UnderWay, CarriedInv
  <2> QED  BY <1>0, <2>1, <2>2, <2>3, <2>4 DEF StoredInv
<1>3. ASSUME ImportPresets
      PROVE  StoredInv' /\ UnderWay' /\ CarriedInv'
  <2>1. import.at = "presets" /\ import' = [import EXCEPT !.at = "stages"]
        /\ UNCHANGED <<cfg, stages>> /\ presets' = import.list
    BY <1>3 DEF ImportPresets
  <2>2. UnderWay' /\ CarriedInv'
    BY <1>0, <2>1 DEF ImportType, UnderWay, CarriedInv
  <2>3. CASE import.file.presets = None
    BY <1>0, <1>3, <2>1, <2>2, <2>3 DEF ImportPresets, StoredInv, CarriedInv
  <2>4. CASE import.file.presets # None
    <3>1. nvs'.presets = presets' /\ nvs'.cfg = nvs.cfg /\ nvs'.stages = nvs.stages
      BY <1>0, <1>3, <2>1, <2>4 DEF ImportPresets, Nvs
    <3>2. PresetsIn(presets') = presets'
      BY <1>0, ReadsBack DEF TypeOK
    <3> QED  BY <1>0, <2>1, <2>2, <3>1, <3>2 DEF StoredInv
  <2> QED  BY <2>3, <2>4
<1>4. ASSUME ImportStages
      PROVE  StoredInv' /\ UnderWay' /\ CarriedInv'
  <2>1. import.at = "stages" /\ import' = NoImport
        /\ UNCHANGED <<cfg, presets>> /\ stages' = import.rows
    BY <1>4 DEF ImportStages
  <2>2. UnderWay' /\ CarriedInv'
    BY <2>1, IdleCarries
  <2>3. CASE import.file.stages = None
    BY <1>0, <1>4, <2>1, <2>2, <2>3 DEF ImportStages, StoredInv, CarriedInv
  <2>4. CASE import.file.stages # None
    <3>1. nvs'.stages = stages' /\ nvs'.cfg = nvs.cfg /\ nvs'.presets = nvs.presets
      BY <1>0, <1>4, <2>1, <2>4 DEF ImportStages, Nvs
    <3>2. RowsIn(stages') = stages'
      BY <1>0, ReadsBack DEF TypeOK
    <3> QED  BY <1>0, <2>1, <2>2, <3>1, <3>2 DEF StoredInv
  <2> QED  BY <2>3, <2>4
<1> QED  BY <1>1, <1>2, <1>3, <1>4

\* The invariant holds from the first start on.
LEMMA CurrentKept == Spec => []CurrentInv
<1>1. Init => CurrentInv
  <2> SUFFICES ASSUME Init PROVE CurrentInv
    OBVIOUS
  <2>1. PICK b \in Found :
          /\ cfg = Loaded(b.cfg) /\ presets = PresetsIn(b.presets) /\ stages = RowsIn(b.stages)
          /\ nvs = Settled(b)
          /\ import = NoImport
    BY DEF Init
  <2>2. b \in Nvs
    BY ConstantsAssumption
  <2> QED  BY <2>1, <2>2, InitSafe, SettledLoads, IdleCarries DEF CurrentInv, StoredInv
<1>2. CurrentInv /\ [Next]_vars => CurrentInv'
  <2> SUFFICES ASSUME CurrentInv, [Next]_vars PROVE CurrentInv'
    OBVIOUS
  <2>1. SafeInv'
    BY NextSafe DEF CurrentInv
  <2>2. nvs \in Nvs /\ [nvs EXCEPT !.cfg = None, !.presets = None, !.stages = None] \in Nvs
    BY DEF CurrentInv, SafeInv, TypeOK, Nvs
  <2> SUFFICES StoredInv' /\ UnderWay' /\ CarriedInv'
    BY <2>1 DEF CurrentInv
  <2>3. CASE UNCHANGED vars
    BY <2>3 DEF vars, ram, CurrentInv, StoredInv, UnderWay, CarriedInv
  <2>4. CASE Restart \/ FactoryReset
    BY <2>2, <2>4, BootCurrent DEF Restart, FactoryReset
  <2>5. CASE \/ \E switch \in Switches, table \in {None, cfg.fx} \cup Posted :
                   PostFeatures(switch.set, switch.clear, table)
             \/ \E list \in {presets} \cup Listed : PostPresets(list)
             \/ \E n \in Names, s \in States : ApplyPreset(n, s)
             \/ \E s \in States, e \in Effects : CopyEffect(s, e)
             \/ \E p \in Parity : SetParity(p)
    BY <2>1, <2>5, RoutesCurrent
  <2>6. CASE \/ \E t \in Slots, n \in Names : Assign(t, n)
             \/ \E t \in Slots : ClearRow(t)
             \/ \E table \in {stages} \cup Tabled : PostStages(table)
    BY <2>1, <2>6, RoutesCurrent DEF Assign, ClearRow, PostStages
  <2>7. CASE \/ \E file \in {Export} \cup Files : ImportEffects(file)
             \/ ImportParity \/ ImportPresets \/ ImportStages
    BY <2>1, <2>7, ImportCurrent
  <2> QED  BY <2>3, <2>4, <2>5, <2>6, <2>7 DEF Next
<1> QED  BY <1>1, <1>2, PTL DEF Spec

\* Nothing a route answered for is lost by a power cut: a start always comes up
\* with what is in RAM, whatever was posted, copied, imported or cut short.
THEOREM Durable == Spec => []StoredIsCurrent
<1>1. CurrentInv => StoredIsCurrent
  BY DEF CurrentInv, StoredInv, StoredIsCurrent
<1> QED  BY <1>1, CurrentKept, PTL

-----------------------------------------------------------------------------
(* An import that ends has left every part as its file has it.               *)

\* What is overlaid has the keys the entry gives.
LEMMA OverlaidHas ==
  ASSUME NEW entry \in Entries, NEW f
  PROVE  DOMAIN entry \subseteq Keys /\ As(entry, Overlaid(entry, f))
<1>1. PICK K \in SUBSET Keys : entry \in [K -> Effects]
  BY DEF Entries
<1> QED  BY <1>1 DEF As, Overlaid

\* A list that is taken is stored as it was given, under the names it gave.
LEMMA ListStored ==
  ASSUME NEW features, NEW list \in Lists, ListTaken(features, list)
  PROVE  /\ DOMAIN PresetsOf(list) = DOMAIN list
         /\ \A n \in DOMAIN list : As(list[n], PresetsOf(list)[n])
<1>1. PICK N \in SUBSET Names : list \in [N -> Entries]
  BY DEF Lists
<1>2. \A n \in DOMAIN list : Overlaid(list[n], Solid) \in Fx
  BY <1>1, SolidType, TakenType DEF ListTaken
<1>3. \A n \in DOMAIN list : PresetsOf(list)[n] = Overlaid(list[n], Solid)
  BY <1>2, ClampKeeps DEF PresetsOf
<1> QED  BY <1>1, <1>3, OverlaidHas DEF PresetsOf

\* A table that is taken is stored as it was given, over the rows there were.
LEMMA TableStored ==
  ASSUME TypeOK, NEW features, NEW table \in Tables, TableTaken(features, table)
  PROVE  \A t \in Slots : RowsOf(table)[t].set = table[t].set
                          /\ As(table[t].fx, RowsOf(table)[t].fx)
<1> SUFFICES ASSUME NEW t \in Slots
             PROVE  RowsOf(table)[t].set = table[t].set
                    /\ As(table[t].fx, RowsOf(table)[t].fx)
  OBVIOUS
<1>1. table[t] \in [set : BOOLEAN, name : Names \cup {None}, fx : Entries] /\ stages[t].fx \in Fx
  BY DEF Tables, TypeOK, Rows, Row
<1>2. table[t].fx \in Entries /\ Takes(features, table[t].fx, stages[t].fx)
  BY <1>1 DEF TableTaken
<1>3. Overlaid(table[t].fx, stages[t].fx) \in Fx
  BY <1>1, <1>2, TakenType
<1>4. RowsOf(table)[t] = [table[t] EXCEPT !.fx = Overlaid(@, stages[t].fx)]
  BY <1>3, ClampKeeps DEF RowsOf
<1>5. RowsOf(table)[t].set = table[t].set
      /\ RowsOf(table)[t].fx = Overlaid(table[t].fx, stages[t].fx)
  BY <1>1, <1>4
<1> QED  BY <1>2, <1>5, OverlaidHas

\* The switches and the effects as a document gives them, less what they forbid.
LEMMA SwitchedHas ==
  ASSUME TypeOK, NEW features, NEW fx \in [States -> Entries]
  PROVE  /\ Switched(features, FxOf(fx)).features = features
         /\ \A s \in States, k \in Keys : k \in DOMAIN fx[s]
              => Switched(features, FxOf(fx)).fx[s][k] = Kept(features, fx[s][k])
<1>1. cfg \in Cfg
  BY DEF TypeOK
<1>2. Switched(features, FxOf(fx)).features = features
      /\ Switched(features, FxOf(fx)).fx = Fallback(features, FxOf(fx))
  BY <1>1 DEF Switched, Cfg
<1>3. ASSUME NEW s \in States, NEW k \in Keys, k \in DOMAIN fx[s]
      PROVE  Fallback(features, FxOf(fx))[s][k] = Kept(features, fx[s][k])
  <2>1. FxOf(fx)[s][k] = fx[s][k]
    BY <1>3, OverlaidHas DEF FxOf, As
  <2> QED  BY <2>1 DEF Fallback
<1> QED  BY <1>2, <1>3

\* While an import is under way, what it has written is as its file has it, and
\* so is what it has left to write.
SwitchesDone(file) == file.features # None => cfg.features = file.features
EffectsDone(file) ==
  file.fx # None => \A s \in States, k \in Keys :
    k \in DOMAIN file.fx[s] => cfg.fx[s][k] = Kept(cfg.features, file.fx[s][k])
ParityDone(file) ==
  file.parity # None => /\ import.next.parity = file.parity
                        /\ import.at # "parity" => cfg.parity = file.parity
ListDone(file) ==
  /\ file.presets # None => /\ DOMAIN import.list = DOMAIN file.presets
                            /\ \A n \in DOMAIN file.presets : As(file.presets[n], import.list[n])
  /\ import.at = "stages" => presets = import.list
RowsDone(file) ==
  file.stages # None => \A t \in Slots :
    import.rows[t].set = file.stages[t].set /\ As(file.stages[t].fx, import.rows[t].fx)
DoneInv ==
  import.at # "end" =>
    /\ SwitchesDone(import.file) /\ EffectsDone(import.file) /\ ParityDone(import.file)
    /\ ListDone(import.file) /\ RowsDone(import.file)
TakenInv == CurrentInv /\ DoneInv

\* The first write: the file was judged whole, so what it gives is what is kept.
LEMMA EffectsTaken ==
  ASSUME TypeOK, NEW file \in {Export} \cup Files, ImportEffects(file)
  PROVE  DoneInv'
<1>1. file \in File
  BY EchoType, ConstantsAssumption
<1>2. cfg \in Cfg /\ FileTaken(file)
  BY DEF TypeOK, ImportEffects
<1>3. /\ import'.file = file /\ import'.at = "parity"
      /\ import'.list = IF file.presets = None THEN presets ELSE PresetsOf(file.presets)
      /\ import'.rows = IF file.stages = None THEN stages ELSE RowsOf(file.stages)
      /\ file.parity # None => import'.next.parity = file.parity
  <2> DEFINE next == [cfg EXCEPT !.features = Brought(file),
                                 !.parity = IF file.parity = None THEN @ ELSE file.parity]
  <2>1. file.parity # None => next.parity = file.parity
    BY <1>2 DEF Cfg
  <2>2. import' = [file |-> file, at |-> "parity", next |-> next,
                   list |-> IF file.presets = None THEN presets ELSE PresetsOf(file.presets),
                   rows |-> IF file.stages = None THEN stages ELSE RowsOf(file.stages)]
    BY DEF ImportEffects
  <2> HIDE DEF next
  <2> QED  BY <2>1, <2>2
<1>4. SwitchesDone(file)' /\ EffectsDone(file)'
  <2>1. cfg' = Switched(Brought(file), IF file.fx = None THEN cfg.fx ELSE FxOf(file.fx))
    BY DEF ImportEffects, Write
  <2>2. cfg'.features = Brought(file)
    BY <1>2, <2>1 DEF Switched, Cfg
  <2>3. SwitchesDone(file)'
    BY <2>2 DEF SwitchesDone, Brought
  <2>4. EffectsDone(file)'
    <3>1. CASE file.fx = None
      BY <3>1 DEF EffectsDone
    <3>2. CASE file.fx # None
      <4>1. file.fx \in [States -> Entries]
        BY <1>1, <3>2 DEF File
      <4>2. cfg' = Switched(Brought(file), FxOf(file.fx))
        BY <2>1, <3>2
      <4>3. \A s \in States, k \in Keys : k \in DOMAIN file.fx[s]
              => cfg'.fx[s][k] = Kept(Brought(file), file.fx[s][k])
        BY <4>1, <4>2, SwitchedHas
      <4> QED  BY <2>2, <4>3 DEF EffectsDone, Kept, Allowed
    <3> QED  BY <3>1, <3>2
  <2> QED  BY <2>3, <2>4
<1>5. ParityDone(file)'
  BY <1>3 DEF ParityDone
<1>6. ListDone(file)'
  <2>1. CASE file.presets = None
    BY <1>3, <2>1 DEF ListDone
  <2>2. CASE file.presets # None
    <3>1. file.presets \in Lists /\ ListTaken(Brought(file), file.presets)
      BY <1>1, <1>2, <2>2 DEF File, FileTaken
    <3>2. import'.list = PresetsOf(file.presets)
      BY <1>3, <2>2
    <3> QED  BY <1>3, <3>1, <3>2, ListStored DEF ListDone
  <2> QED  BY <2>1, <2>2
<1>7. RowsDone(file)'
  <2>1. CASE file.stages = None
    BY <2>1 DEF RowsDone
  <2>2. CASE file.stages # None
    <3>1. file.stages \in Tables /\ TableTaken(Brought(file), file.stages)
      BY <1>1, <1>2, <2>2 DEF File, FileTaken
    <3>2. import'.rows = RowsOf(file.stages)
      BY <1>3, <2>2
    <3> QED  BY <3>1, <3>2, TableStored DEF RowsDone
  <2> QED  BY <2>1, <2>2
<1> QED  BY <1>3, <1>4, <1>5, <1>6, <1>7
         DEF DoneInv, SwitchesDone, EffectsDone, ParityDone, ListDone, RowsDone

\* A factory setting, or the printer's address, waits for the parity fields.
LEMMA ParityTaken ==
  ASSUME TakenInv, NEW p, SetParity(p)
  PROVE  DoneInv'
<1>1. cfg \in Cfg /\ DoneInv
  BY DEF TakenInv, CurrentInv, SafeInv, TypeOK
<1>2. import' = import /\ presets' = presets /\ cfg' = [cfg EXCEPT !.parity = p]
      /\ import.at \in {"end", "parity"}
  BY DEF SetParity, Write
<1>3. cfg'.features = cfg.features /\ cfg'.fx = cfg.fx
  BY <1>1, <1>2 DEF Cfg
<1> QED  BY <1>1, <1>2, <1>3
         DEF DoneInv, SwitchesDone, EffectsDone, ParityDone, ListDone, RowsDone, Kept, Allowed

\* The second write and the third keep what the first did and add their own.
LEMMA WritesTaken ==
  ASSUME TakenInv, ImportParity \/ ImportPresets
  PROVE  DoneInv'
<1>1. cfg \in Cfg /\ import \in ImportType /\ DoneInv
  BY DEF TakenInv, CurrentInv, SafeInv, TypeOK, ImportType
<1>2. CASE ImportParity
  <2>1. import.at = "parity" /\ import' = [import EXCEPT !.at = "presets"]
        /\ cfg' = [import.next EXCEPT !.features = cfg.features, !.fx = cfg.fx]
    BY <1>2 DEF ImportParity
  <2>2. import'.at = "presets" /\ import'.file = import.file /\ import'.next = import.next
        /\ import'.list = import.list /\ import'.rows = import.rows
    BY <1>1, <2>1 DEF ImportType
  <2>3. import.next \in Cfg
    BY <1>1 DEF ImportType
  <2>4. cfg'.features = cfg.features /\ cfg'.fx = cfg.fx /\ cfg'.parity = import.next.parity
    BY <2>1, <2>3 DEF Cfg
  <2> QED  BY <1>1, <2>1, <2>2, <2>4
           DEF DoneInv, SwitchesDone, EffectsDone, ParityDone, ListDone, RowsDone, Kept, Allowed
<1>3. CASE ImportPresets
  <2>1. import.at = "presets" /\ import' = [import EXCEPT !.at = "stages"]
        /\ cfg' = cfg /\ presets' = import.list
    BY <1>3 DEF ImportPresets
  <2>2. import'.at = "stages" /\ import'.file = import.file /\ import'.next = import.next
        /\ import'.list = import.list /\ import'.rows = import.rows
    BY <1>1, <2>1 DEF ImportType
  <2> QED  BY <1>1, <2>1, <2>2
           DEF DoneInv, SwitchesDone, EffectsDone, ParityDone, ListDone, RowsDone, Kept, Allowed
<1> QED  BY <1>2, <1>3

\* The invariant holds from the first start on.
LEMMA TakenKept == Spec => []TakenInv
<1>1. Init => DoneInv
  BY DEF Init, NoImport, DoneInv
<1>2. TakenInv /\ [Next]_vars => DoneInv'
  <2> SUFFICES ASSUME TakenInv, [Next]_vars PROVE DoneInv'
    OBVIOUS
  <2>0. TypeOK /\ UnderWay
    BY DEF TakenInv, CurrentInv, SafeInv
  <2>1. CASE UNCHANGED vars
    BY <2>1 DEF vars, ram, TakenInv, DoneInv, SwitchesDone, EffectsDone, ParityDone,
                ListDone, RowsDone, Kept, Allowed
  <2>2. CASE Restart \/ FactoryReset \/ ImportStages
    BY <2>2 DEF Restart, FactoryReset, Boot, ImportStages, NoImport, DoneInv
  <2>3. CASE Idle /\ import' = import
    BY <2>0, <2>3 DEF Idle, UnderWay, DoneInv
  <2>4. CASE \E p \in Parity : SetParity(p)
    BY <2>4, ParityTaken
  <2>5. CASE \E file \in {Export} \cup Files : ImportEffects(file)
    BY <2>0, <2>5, EffectsTaken
  <2>6. CASE ImportParity \/ ImportPresets
    BY <2>6, WritesTaken
  <2>7. CASE \/ \E switch \in Switches, table \in {None, cfg.fx} \cup Posted :
                   PostFeatures(switch.set, switch.clear, table)
             \/ \E list \in {presets} \cup Listed : PostPresets(list)
             \/ \E n \in Names, s \in States : ApplyPreset(n, s)
             \/ \E t \in Slots, n \in Names : Assign(t, n)
             \/ \E t \in Slots : ClearRow(t)
             \/ \E table \in {stages} \cup Tabled : PostStages(table)
             \/ \E s \in States, e \in Effects : CopyEffect(s, e)
    BY <2>3, <2>7 DEF PostFeatures, PostPresets, ApplyPreset, Assign, ClearRow, PostStages,
                      SetRows, CopyEffect
  <2> QED  BY <2>1, <2>2, <2>4, <2>5, <2>6, <2>7 DEF Next
<1> QED  BY <1>1, <1>2, CurrentKept, PTL DEF Spec, TakenInv

\* An import that ends leaves every part its file gave as the file has it, across
\* its four writes, whatever else was set between them (ps_config_apply).
THEOREM WholeImport == Spec => TakenWhole
<1>1. ASSUME TakenInv, ImportStages
      PROVE  LET file == import.file IN
       /\ file.features # None => cfg.features = file.features
       /\ file.parity # None => cfg.parity = file.parity
       /\ file.fx # None => \A s \in States, k \in Keys :
            k \in DOMAIN file.fx[s] => cfg.fx[s][k] = Kept(cfg.features, file.fx[s][k])
       /\ file.presets # None =>
            /\ DOMAIN presets = DOMAIN file.presets
            /\ \A n \in DOMAIN presets : As(file.presets[n], presets[n])
       /\ file.stages # None => \A t \in Slots :
            stages'[t].set = file.stages[t].set /\ As(file.stages[t].fx, stages'[t].fx)
  <2>1. import.at = "stages" /\ stages' = import.rows
    BY <1>1 DEF ImportStages
  <2> QED  BY <1>1, <2>1 DEF TakenInv, DoneInv, SwitchesDone, EffectsDone, ParityDone,
                             ListDone, RowsDone
<1> QED  BY <1>1, TakenKept, PTL DEF TakenWhole
=============================================================================
