SPECIFICATION EditorFairSpec
CONSTANTS
    b1 = b1
    t1 = t1  t2 = t2
    None = None
    Client = {b1}
    Browser = {b1}
    Text = {t1, t2}
    IsRequirement = FALSE
    MaxVersion = 3
    MaxAsks = 2
INVARIANTS EditorTypeOK SavedWasStored
PROPERTIES NothingTypedIsDropped TypedTextSettles
