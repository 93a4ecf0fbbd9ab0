\* A light with an xy colour and a colour temperature, two values of each.
SPECIFICATION Spec
CONSTANTS
  Modes = {"xy", "ct"}
  Colours = {red, blue}
  MaxBri = 2
  Width = 4
  Unset = Unset
INVARIANTS
  LightTypeOK
  CacheFollows
  TrueMeansDone
  AlertRestores
