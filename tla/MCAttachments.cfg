SPECIFICATION Spec
CONSTANTS
    f1 = f1  f2 = f2  u1 = u1  p1 = p1  p2 = p2
    d1 = d1  d2 = d2  None = None
    Page = {d1, d2}
    File = {f1, f2}
    Upload = {u1}
    Post = {p1, p2}
    MaxFiles = 2
SYMMETRY Symmetry
INVARIANTS TypeOK PublishedWhole AnsweredFilesServed OrphansOnlyByCrash FormFilesUsable
