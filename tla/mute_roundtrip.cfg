\* Mute, a volume change, mute again, unmute: what is restored.
CONSTANTS
  Inputs = {42}
  Levels = {100}
  External = FALSE
  HelperOut <- MCHelperSame
  MpdFails = FALSE
  SetVolumeCalls = TRUE
  MaxCalls = 4
SPECIFICATION Spec
PROPERTY MuteRoundTrip
