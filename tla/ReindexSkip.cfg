SPECIFICATION ReindexSpec
CONSTANTS
  q1 = q1  q2 = q2  f1 = f1
  server = server  other = other  xsync = xsync
  NoOne = NoOne
  Searches = {q1, q2}
  Finalizers = {f1}
  Processes = {server, other, xsync}
  ProcessOf <- TwoServers
  Writes = {1, 2}
INVARIANT SkipForgetsNothing
CHECK_DEADLOCK FALSE
