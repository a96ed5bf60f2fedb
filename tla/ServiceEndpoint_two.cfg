SPECIFICATION Spec
CONSTANTS
  t1 = t1
  t2 = t2
  Threads = {t1, t2}
  kEndpointRequestLedgerCapacity = 1
  kEndpointRequestIdMaximum = 2
  Rows = {1}
  kObjectTransferGenerationMax = 1
  kChannelCoreOperationCapacity = 2
  kServiceEndpointGenerationMaximum = 2
  Receipts = {1}
  kServiceEndpointIngressReceiptGenerationMaximum = 2
  Mixes = {{"send", "receive", "reply"}, {"export", "import", "revoke"}}
SYMMETRY Symmetry
INVARIANTS
  TypeOK
  CoreNeverCorrupt
  NoAbandonedDrain
  NothingInUseDetached
  RequestEndsOnce
  ObjectReferencesExact
CHECK_DEADLOCK FALSE
