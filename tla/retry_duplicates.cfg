\* A connection breaks after MPD executed a command and before its answer
\* was read: RETRY_CMD sends the command again.
CONSTANTS
  InitQueue <- MCInitQueue
  MaxIds = 4
  MaxCalls = 3
  MaxDrops = 1
  Lossy = TRUE
  External = FALSE
  StaleArgs = FALSE
  HaveAddTagId = FALSE
SPECIFICATION Spec
PROPERTY OneSongPerInsert
