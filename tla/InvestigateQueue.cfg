SPECIFICATION FairSpec
CONSTANTS
    w1 = w1
    w2 = w2
    m1 = m1
    Msgs = {m1}
    Workers = {w1, w2}
    MaxRetries = 1
    MaxPublish = 1
    MaxCopies = 1
    Faults = {"db", "valkey", "publish", "channel", "crash", "stop", "wire"}
    None = None
INVARIANT
    LossIsADrop
PROPERTY
    Settles
CHECK_DEADLOCK FALSE
