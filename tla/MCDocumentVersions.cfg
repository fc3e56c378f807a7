SPECIFICATION Spec
CONSTANTS
    c1 = c1  c2 = c2  c3 = c3
    t1 = t1  t2 = t2
    None = None
    Client = {c1, c2, c3}
    Text = {t1, t2}
    IsRequirement = TRUE
    MaxVersion = 3
SYMMETRY Symmetry
INVARIANTS SnapshotsFaithful HistoryComplete
PROPERTIES ImplementsHistory CheckedSavesCompare HistoryImmutable
