SPECIFICATION FairSpec
CONSTANTS
    r1 = r1
    r2 = r2
    watch = watch
    list = list
    Receivers = {r1, r2}
    Deserters = {r2}
    Waiters = {r1}
    Notifiers = {watch, list}
    Listing = list
    Cap = 2
    MaxEvents = 4
INVARIANTS
    TypeOK
    NoSendToClosed
    InOrderWithoutLoss
PROPERTIES
    CloseReturns
    NotifyReturns
    ReadyCloses
\* With all events notified, or a receiver gone or waiting, the system may stop.
CHECK_DEADLOCK FALSE
