CONSTANTS
  u1 = u1
  m1 = m1
  mBad = mBad
  Uris <- MCUris
  Metas <- MCMetas
  BadMeta = mBad
  Modes = {"mpd", "alsa"}
  MaxSpawns = 3
  MaxCalls = 4
  MpdFails = TRUE
  HaveConf = TRUE
  ConfFails = TRUE
  MaxRestarts = 1
SPECIFICATION Spec
INVARIANT NoOrphanRelay
PROPERTIES StopReconciled ImplementsAbstract
