SPECIFICATION FairSpec

CONSTANTS
    Deliveries = {d1}
    Bodies = {b1, b2}
    Senders = {s1}
    Workers = {w1, w2}
    Watchers = {w1}
    MaxActiveEntries = 1
    MaxActiveBytes = 2
    MaxReceipts = 1
    ReplayWindow = 2
    ReceiptRetention = 2
    MaxBatchAttempts = 1
    MaxBackoff = 1
    HttpTimeout = 1
    MaxTime = 2
    MaxKills = 0
    MaxFaults = 0
    MaxDamage = 0
    MaxTrouble = 0
    BodySize <- UnitSize
    None = None

PROPERTY TerminalReceiptWins
PROPERTY Settles
INVARIANT AckIsReal
PROPERTY ReceiptsOutlastAttempts
