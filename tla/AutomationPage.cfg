SPECIFICATION PageSpec
CONSTANTS
    t1 = t1
    t2 = t2
    Ids <- MCIds
    Configs = {deploy}
    DeployConfigs = {deploy}
    NoTask = NoTask
    NoRow = NoRow
    PageSize = 1
    MaxReloads = 1
    MaxChanges = 2
INVARIANTS
    PageTypeOK
    PageShowsRows
PROPERTIES
    ButtonsComeBack
