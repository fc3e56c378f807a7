SPECIFICATION FairListSpec
CONSTANTS
    Req = {r1, r2}
    PageSize = 1
    Mine = Mine
    Other = {theirs}
    None = None
INVARIANTS BulkIsAllOrNothing
PROPERTIES BulkEnds
