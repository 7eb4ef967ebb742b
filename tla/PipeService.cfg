SPECIFICATION ServiceSpec
CONSTANTS
  client = client
  server = server
  k1 = k1
  Procs = {client, server}
  NoProc = NoProc
  Home <- HomeThreeClients
  NThreads = 4
  Inflight = 2
  MaxHandles = 3
  Caps = {k1}
  MsgHandles = 1
  Mortal = {client, server}
INVARIANT CapsInOnePlace
PROPERTY ServiceRuns
CHECK_DEADLOCK FALSE
