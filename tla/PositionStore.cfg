SPECIFICATION StoreFairSpec
CONSTANTS
    sell1 = sell1
    sell2 = sell2
    other = other
    portfolio = portfolio
    logger = logger
    None = None
    Lot = {new}
    Symbol = {CAKE, INJ, ETH}
    Task <- MCTask
    Conn <- MCConn
    ConnOf <- MCConnOf
INVARIANT StoreTypeOK
INVARIANT OneWriter
INVARIANT OwnRowOnly
PROPERTY LedgerKept
PROPERTY CallsReturn
