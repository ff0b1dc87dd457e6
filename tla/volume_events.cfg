\* The older OHVolume: one control point subscribing and lapsing while the
\* volume moves through out-of-range values, failing commands, another
\* client and a disappearing mixer.
CONSTANTS
  c1 = c1
  c2 = c2
  Subscribers = {c1}
  Immediate = FALSE
  Inputs <- MCInputs
  Levels = {0, 100}
  External = FALSE
  HelperOut <- MCHelperSame
  MpdFails = TRUE
  SetVolumeCalls = TRUE
  MaxCalls = 3
  MaxOthers = 1
SPECIFICATION Spec
INVARIANT TypeOK
INVARIANT PublishedVolumeInRange
PROPERTY ViewsConverge
