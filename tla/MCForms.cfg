SPECIFICATION Spec
CONSTANTS
    Record = {r1, r2}
    Text = {a, b}
    Blank = Blank
    MaxSends = 2
    MaxTyped = 1
    MaxTurns = 1
    MaxChanges = 1
SYMMETRY Alike
CHECK_DEADLOCK FALSE
INVARIANTS  OneEntryOneRecord
