\* One relocation of two files, interrupted or failing twice, with one change by others.
CONSTANTS
  Legacy = Legacy
  Default = Default
  Elsewhere = {x}
  Nowhere = Nowhere
  Attachments = 1
  MaxTransfers = 1
  MaxCrashes = 2
  MaxEdits = 1
SPECIFICATION FairSpec
INVARIANTS
  FailureHasCause StartsUnlessStuck
PROPERTIES
  ImplementsHome Settles
