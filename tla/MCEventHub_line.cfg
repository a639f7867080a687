\* Three publications to one client, which may stop reading, with a channel of one.
SPECIFICATION Spec
CONSTANTS
    all = all  only1 = only1
    moved1 = moved1  moved1Again = moved1Again  moved2 = moved2  bulk = bulk
    u1 = u1  u2 = u2  NoSupplier = NoSupplier  NoEvent = NoEvent
    Conns = {all}
    Events = {moved1, moved1Again, bulk}
    Filter <- FilterOf
    Supplier <- SupplierOf
    Capacity = 1
INVARIANT NoSilentLoss
PROPERTIES PublishEnds StopDrains
