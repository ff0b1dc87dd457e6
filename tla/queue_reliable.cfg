\* MPD never breaks a connection and no other client edits the queue; it may
\* refuse the tags of an inserted song: the fast path of insertAfterId.
CONSTANTS
  InitQueue <- MCInitQueue
  MaxIds = 4
  MaxCalls = 4
  MaxDrops = 0
  Lossy = FALSE
  External = FALSE
  StaleArgs = FALSE
  HaveAddTagId = TRUE
SPECIFICATION Spec
PROPERTY FastPathSound
