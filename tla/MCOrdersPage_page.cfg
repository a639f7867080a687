\* The orders page: four acts of the user, one write of others or refresh.
SPECIFICATION Spec
CONSTANTS
    None = None  NoSearch = NoSearch  NoRest = NoRest
    needle = needle  narrow = narrow
    Texts <- TextsDef  EmptyText = ""  Trimmed <- TrimmedDef
    Rests = {NoRest, narrow}
    Fields = {"id", "total"}  FirstField = "id"
    Views <- OrdersFilters  FirstView <- defaultFilters
    Selections <- SelectionsDef  Selects <- SelectsDef
    InitRows <- InitRowsDef  Volatile <- VolatileDef
    PageSize = 2  MaxRows = 5  NewSizes = {1, 5}  MaxClicks = 3  MaxWrites = 1
INVARIANTS EmptyMeansNone RangeTellsRows ShownAsAsked ChoicesKept
PROPERTIES PageSettles TypedIsSearched
CHECK_DEADLOCK FALSE
