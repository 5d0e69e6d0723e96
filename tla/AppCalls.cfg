\* A request of the command line in the lane, and a hook's request to stop something.
SPECIFICATION FairSpec
CONSTANTS
  chat = chat
  stop = stop
  c1 = c1
  Ids = {chat, stop}
  Natives = {stop}
  Urgent = {stop}
  Clients = {c1}
  MaxPending = 1
  MaxUrgent = 1
  MaxReceipts = 2
  MaxDeliveries = 1
  MaxRecent = 1
  MaxNonces = 1
  MaxGrants = 1
  MaxPages = 1
  None = None
PROPERTIES
  Settled
CHECK_DEADLOCK FALSE
