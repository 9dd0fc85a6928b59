SPECIFICATION Spec

CONSTANTS
    Deliveries = {d1}
    Bodies = {b1}
    Senders = {s1}
    Workers = {w1}
    Watchers = {w1}
    MaxActiveEntries = 1
    MaxActiveBytes = 2
    MaxReceipts = 1
    ReplayWindow = 1
    ReceiptRetention = 1
    MaxBatchAttempts = 1
    MaxBackoff = 1
    HttpTimeout = 1
    MaxTime = 1
    MaxKills = 1
    MaxFaults = 0
    MaxDamage = 0
    MaxTrouble = 1
    BodySize <- UnitSize
    None = None

PROPERTY TerminalReceiptWins
