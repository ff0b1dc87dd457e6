\* MPD stops while restoreState() runs; internal volume control.
CONSTANTS
  s1 = s1
  s2 = s2
  InitQueue <- MCQueue
  FlagList <- MCFlags
  Secs = {0, 30}
  SeekArgs = {0}
  ExtVolume = FALSE
  Mixer = TRUE
  LocalSongs = {}
  MaxCalls = 2
  MaxDrops = 1
  MaxEnv = 0
  StartUp = {TRUE}
SPECIFICATION Spec
INVARIANT RestoreNoNullConn
