\* Two relocations one after another, in any of three directories; one crash or failed
\* copy, two changes by others (or the loss of the ledger).
CONSTANTS
  Legacy = Legacy
  Default = Default
  Elsewhere = {x}
  Nowhere = Nowhere
  Attachments = 0
  MaxTransfers = 2
  MaxCrashes = 1
  MaxEdits = 2
SPECIFICATION Spec
INVARIANTS
  PendingAgrees NeverRevived
