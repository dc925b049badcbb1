SPECIFICATION Spec
CONSTANTS
  s1 = s1
  s2 = s2
  Senders = {s1, s2}
  Buffers = {b1, b2, b3, b4}
  Registries <- MCRegistries
  Scripts <- MCScripts
  QueueSize = 2
  TXBatchItems = 2
  defaultFramePoolCapacity = 32
  maxPooledFrameCapacity = 80
INVARIANTS
  DeliveredAsSent
  BuffersExclusive
  Canonical
CHECK_DEADLOCK FALSE
