\* Another MPD client edits the queue while insert() runs; the network is
\* reliable and callers pass current arguments.
CONSTANTS
  InitQueue <- MCInitQueue
  MaxIds = 4
  MaxCalls = 2
  MaxDrops = 0
  Lossy = FALSE
  External = TRUE
  StaleArgs = FALSE
  HaveAddTagId = FALSE
SPECIFICATION Spec
PROPERTY FastPathSound
