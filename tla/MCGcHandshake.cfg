\* Both builds, KLOX_SYNC_GC=0 and 1.  Four requests over three addresses: every
\* address that may be reused is, soon and late.
SPECIFICATION Spec
CONSTANTS
  Addr = {a1, a2, a3}
  NULL = NULL
  MaxRequests = 4
INVARIANTS
  TypeOK
  FreshResponseIsCurrent
  PendingRequestIsNoticeable
PROPERTIES
  RecordBelongsToGcThread
  CycleSpec
  RequestIsAnswered
  AwaitReturns
  ShutdownCompletes
