SPECIFICATION LifecycleSpec
CONSTANTS
  p1 = p1
  p2 = p2
  t1 = t1
  t2 = t2
  Procs <- MCProcs
  Parent = p1
  Threads <- MCThreads
  Main = t1
  HashSize = 32
  TraceHash = {15}
  Rates = {2, 3}
  MaxBeelines = 2
  MaxSpans = 2
INVARIANTS
  LifecycleTypeOK
  InitWorks
  DeliveredOnce
  TracesWhole
PROPERTIES
  OwedIsDelivered
CHECK_DEADLOCK FALSE
