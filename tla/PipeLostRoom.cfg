SPECIFICATION Spec
CONSTANTS
  client = client
  server = server
  k1 = k1
  Procs = {client, server}
  NoProc = NoProc
  Home <- HomeTwoClients
  NThreads = 3
  Inflight = 1
  MaxHandles = 3
  Caps = {}
  MsgHandles = 0
  Mortal = {client, server}
INVARIANT RoomWaitersFull
CHECK_DEADLOCK FALSE
