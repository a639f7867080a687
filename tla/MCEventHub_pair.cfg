\* Two publications to two clients that keep reading, one with a filter that excludes the first.
SPECIFICATION ReadingSpec
CONSTANTS
    all = all  only1 = only1
    moved1 = moved1  moved1Again = moved1Again  moved2 = moved2  bulk = bulk
    u1 = u1  u2 = u2  NoSupplier = NoSupplier  NoEvent = NoEvent
    Conns = {all, only1}
    Events = {moved2, bulk}
    Filter <- FilterOf
    Supplier <- SupplierOf
    Capacity = 2
INVARIANTS SeenOnceAndWanted SequentialOrder
PROPERTY Delivered
