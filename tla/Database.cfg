SPECIFICATION Spec
CONSTANTS
    None = None
    Task = {1, 2, 3, 4, 5, 6}
    Conn = {"portfolio", "journal", "cache"}
    ConnOf <- MCConnOf
    Amount = {1, 2}
    InitialCash = 1
    Trade = {"x"}
    HeartbeatWindow = 2
    HeartbeatTicks = {2, 3}
    Symbol = {"s"}
    List = {"l"}
    TTL = 2
    MaxCalls = 4
    MaxTime = 3
INVARIANTS DatabaseTypeOK LockIsHeld JournalIds HeartbeatHeard NewestServed
PROPERTIES AccountIsKept CallsReturn
CHECK_DEADLOCK FALSE
