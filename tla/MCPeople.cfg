SPECIFICATION Spec
CONSTANTS
    ann = ann  bob = bob  a1 = a1  s1 = s1  s2 = s2  t1 = t1  t2 = t2
    None = None  Refused = Refused
    User = {ann, bob}
    Agent = {a1}
    Space = {s1, s2}
    AccountAdmin = {}
    Tx = {t1, t2}
SYMMETRY Symmetry
INVARIANTS TypeOK LeadIsMember MembersWereAdmitted
PROPERTY AloneKeepsAdmin
