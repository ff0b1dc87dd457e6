CONSTANTS
  u1 = u1
  m1 = m1
  mBad = mBad
  Uris <- MCUris
  Metas <- MCMetas
  BadMeta = mBad
  Modes = {"alsa"}
  MaxSpawns = 3
  MaxCalls = 4
  MpdFails = FALSE
  HaveConf = TRUE
  ConfFails = FALSE
  MaxRestarts = 0
SPECIFICATION Spec

PROPERTIES RelayGoneEventuallyStopped
