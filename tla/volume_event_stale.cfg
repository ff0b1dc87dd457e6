\* The current OHVolume, which sends Volume at once after a volume action,
\* with one control point and one volume change by another client.
CONSTANTS
  c1 = c1
  c2 = c2
  Subscribers = {c1}
  Immediate = TRUE
  Inputs = {42}
  Levels = {100}
  External = FALSE
  HelperOut <- MCHelperSame
  MpdFails = FALSE
  SetVolumeCalls = TRUE
  MaxCalls = 2
  MaxOthers = 1
SPECIFICATION Spec
PROPERTY ViewsConverge
