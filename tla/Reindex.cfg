SPECIFICATION ReindexSpec
CONSTANTS
  q1 = q1  q2 = q2  f1 = f1
  server = server  other = other  xsync = xsync
  NoOne = NoOne
  Searches = {q1, q2}
  Finalizers = {f1}
  Processes = {server, xsync}
  ProcessOf <- OneServer
  Writes = {1, 2}
INVARIANTS ReindexTypeOK UpdatesExclude StaleIsOwed RoundTrip
PROPERTY SearchesAnswer
CHECK_DEADLOCK FALSE
