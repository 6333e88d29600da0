\* The sidebar and a page, a queue that overflows, streams that break.
CONSTANTS
  Listener = {"sidebar", "page"}
  Table = {"server_role", "node_task", "audit_log"}
  Watch <- Watches
  Depth = 2
  MaxRetry = 2
  MaxBreaks = 2
SPECIFICATION LiveFairSpec
INVARIANTS
  StreamIsKept
PROPERTIES
  ImplementsPromise
  OwedIsRead
  StreamComesBack
CHECK_DEADLOCK FALSE
