\* Two full pages of two, six clicks.
SPECIFICATION Spec
CONSTANTS
    None = None  catalog = catalog
    Views = {catalog}  FirstView = catalog
    Selections = {catalog}  Selects <- SelectsDef
    InitRows <- InitRowsDef  Volatile = {}  NewSizes = {}
    PageSize = 2  MaxRows = 4  MaxClicks = 6  MaxWrites = 0
INVARIANT NeverPastTheEnd
CHECK_DEADLOCK FALSE
