SPECIFICATION Spec
CONSTANTS
    Id = {1, 2, 3, 4}
    Column = {name, createdAt}
    Value = {2, 3}
    Sort = {byName, byCreatedAt}
    Definitions <- Sorts
    Content <- Rows
    Limit = 2
    None = None
    name = name
    createdAt = createdAt
    byName = byName
    byCreatedAt = byCreatedAt
INVARIANTS
    TypeOK
    PagesAscend
    NothingSkipped
