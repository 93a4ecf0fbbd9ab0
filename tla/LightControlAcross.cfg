\* The same light: an alert in the colour mode the light is not in.
SPECIFICATION Spec
CONSTANTS
  Modes = {"xy", "ct"}
  Colours = {red, blue}
  MaxBri = 2
  Width = 4
  Unset = Unset
INVARIANTS
  AlertRestoresAcrossModes
