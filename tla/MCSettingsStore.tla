-------------------------- MODULE MCSettingsStore --------------------------
(* One bar state, one stage and one name, and the documents that matter.    *)
EXTENDS SettingsStore

Entry(e) == [k \in {"effect"} |-> e]
Two(e, u) == [k \in Keys |-> IF k = "effect" THEN e ELSE u]
ForAll(S, x) == [s \in S |-> x]

Blob(layout, features, f) ==
  [layout |-> layout,
   c |-> [features |-> features, fx |-> ForAll(States, f), parity |-> Fresh]]
Flash(b) == [cfg |-> b, presets |-> None, stages |-> None]
\* no blob, one from the last layout before this, and one from two before
MCFound ==
  {Flash(None), Flash(Blob("unknown", {}, Solid)),
   Flash(Blob("v4", {"fx_temp"}, Two("gradient", "gradient"))),
   Flash(Blob("v3", {"fx_barber", "state_effects"}, Two("barber", "static")))}

\* a document turns at most one switch on and at most one off
AtMostOne == {{}} \cup {{b} : b \in Bits}
MCSwitches ==
  {switch \in [set : AtMostOne, clear : AtMostOne] : switch.set \cap switch.clear = {}}

MCPosted == {ForAll(States, e) : e \in {Entry("barber"), Two("gradient", "static"),
                                        Two("static", "gradient"), Two("static", "barber")}}
MCListed == {ForAll(Names, e) : e \in {Entry("barber"), Two("static", "gradient"),
                                       Two("gradient", "static")}}
MCTabled == {ForAll(Slots, [set |-> TRUE, name |-> None, fx |-> e]) :
               e \in {Entry("gradient"), Two("static", "static")}}

\* a file with the parts given, one that turns switches on and uses them, one
\* that turns them off, and one whose preset needs what it turns off
MCFiles ==
  {[Bare EXCEPT !.features = {"fx_temp", "config_io", "presets"},
                !.fx = ForAll(States, Two("gradient", "static")),
                !.presets = ForAll(Names, Entry("gradient"))],
   [Bare EXCEPT !.features = {"config_io"}, !.parity = 1,
                !.stages = ForAll(Slots, [set |-> FALSE, name |-> None, fx |-> Two("static", "static")])],
   [Bare EXCEPT !.features = {"config_io", "fx_barber"},
                !.presets = ForAll(Names, Entry("gradient"))],
   [Bare EXCEPT !.parity = 0, !.fx = ForAll(States, Entry("barber"))]}
=============================================================================
