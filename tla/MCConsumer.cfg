CONSTANTS
    m1 = m1
    m2 = m2
    m3 = m3
    Messages <- MCMessages
    Unregistered <- MCUnregistered
    Consumers = {c1, c2}
    MaxBatch = 2
    MaxRetries = 1
SPECIFICATION FairQueueSpec
INVARIANTS QueueTypeOK
PROPERTIES LostForAReason KeepsPromise
CHECK_DEADLOCK FALSE
