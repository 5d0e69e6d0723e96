\* One request of the command line and every way its receipts can go: two acceptances,
\* a change of the plugin, a reload, a second notification.
SPECIFICATION Spec
CONSTANTS
  chat = chat
  stop = stop
  c1 = c1
  Ids = {chat}
  Natives = {}
  Urgent = {}
  Clients = {c1}
  MaxPending = 1
  MaxUrgent = 1
  MaxReceipts = 1
  MaxDeliveries = 2
  MaxRecent = 1
  MaxNonces = 2
  MaxGrants = 2
  MaxPages = 2
  None = None
INVARIANTS
  OutcomeTrue
PROPERTIES
  ClaimsUnderGrant ReceiptsFinal ImplementsLedger
CHECK_DEADLOCK FALSE
