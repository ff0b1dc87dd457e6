\* Connections break (once), MPD goes away and comes back, another client
\* edits the queue and callers pass stale arguments.
CONSTANTS
  InitQueue <- MCInitQueue
  MaxIds = 3
  MaxCalls = 2
  MaxDrops = 1
  Lossy = TRUE
  External = TRUE
  StaleArgs = TRUE
  HaveAddTagId = TRUE
SPECIFICATION Spec
INVARIANT TypeOK
PROPERTY StatusCatchesUp
