SPECIFICATION Spec
CONSTANTS
  client = client
  server = server
  k1 = k1
  Procs = {client, server}
  NoProc = NoProc
  Home <- HomeThreeClients
  NThreads = 4
  Inflight = 2
  MaxHandles = 2
  Caps = {k1}
  MsgHandles = 1
  Mortal = {client, server}
INVARIANTS TypeOK RefsExact NoDangling CallerTie NoLostWakeup StagedQueue NothingLeftBehind
PROPERTY KeepsContract
CHECK_DEADLOCK FALSE
