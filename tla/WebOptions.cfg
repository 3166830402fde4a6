SPECIFICATION Spec
CONSTANTS
    None = None
    New = New
    Gone = Gone
    Ids = {1, 2, 3}
    Texts = {"a", "b"}
    Notes = {"n"}
    Roles = {"admin", "operator"}
    Statuses = {"pending", "paid"}
    Months = {1, 2}
    Readings = {5}
    Slots = {1, 2}
    MaxSaves = 0
    MaxTrouble = 0
    PageSize = 1
    Me = 1
    InitDb <- MCInitDb
    StartPages = {"clients"}
    Links <- MCLinks
    Others <- MCOthers
INVARIANT OptionsAreNew
\* A page stays as it is while the user does nothing.
CHECK_DEADLOCK FALSE
