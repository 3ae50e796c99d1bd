\* the documents' editors, the presets and the preview, one at a time
SPECIFICATION Spec
CONSTANTS
  Unknown = Unknown
  Effects = {7}
  DocsActs = 2
  DocsLosses = 1
  DocsOthers = 1
  Nothing = Nothing
  Presets <- AllPresets
  OwnLook = OwnLook
  Stages = {"printing"}
  PresetMax = 2
  PresetActs = 3
  PresetFaults = 1
  NoPin = NoPin
  PinStates = {0, 1}
  PinSeconds = 2
  PinActs = 2
  PinFaults = 1
  PinOthers = 1
INVARIANTS CopiesAgree
PROPERTIES DocsSettle
CHECK_DEADLOCK FALSE
