SPECIFICATION Spec

CONSTANTS
    RxBufs = 2
    TxBufs = 1
    QueueSize = 2
    Pbufs = 3
    m1 = m1
    m2 = m2
    Api = Api
    None = None
    Timeout = Timeout
    Inpkt <- MCInpkt
    Msg <- MCMsg
    Timers <- MCTimers
    Interval <- MCInterval
    Permanent <- MCPermanent

INVARIANTS
    PoolsAccounted
    RingsAwake
    TimerNotEarly

PROPERTIES
    Fifo
    ThreadServes
