SPECIFICATION PageSpec
CONSTANTS
    x = x
    y = y
    com = com
    example = example
    www = www
    Star = Star
    Entries <- MCEntries
    NoForm = NoForm
    Ids = {x, y}
    NoId = NoId
    MaxFetches = 2
    MaxChanges = 1
SYMMETRY Symmetry
INVARIANTS
    PageTypeOK
    RefusedForDaysOnly
    SavedOverItself
PROPERTIES
    EditIsKept
