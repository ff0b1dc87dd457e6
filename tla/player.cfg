\* Save and restore among transport calls, another client, a lost
\* connection and an MPD restart; internal volume control on an MPD with a
\* mixer; the songs are URLs, as control points insert them.
CONSTANTS
  s1 = s1
  s2 = s2
  InitQueue <- MCQueue
  FlagList <- MCFlags
  Secs = {0, 30}
  SeekArgs = {0, 30}
  ExtVolume = FALSE
  Mixer = TRUE
  LocalSongs = {}
  MaxCalls = 3
  MaxDrops = 1
  MaxEnv = 1
  StartUp = {TRUE}
SPECIFICATION Spec
INVARIANT TypeOK
INVARIANT RestoreReproduces
PROPERTY AmpFollowsMpd
\* restoreState() crashes the process when MPD stops under it (the
\* restore_crash run): the process then really stops.
CHECK_DEADLOCK FALSE
