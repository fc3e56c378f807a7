SPECIFICATION Spec
CONSTANTS
    Tab = {t1, t2}
    Token = {r1, r2, r3, r4, r5, r6}
    None = None
CONSTRAINT Undisturbed
INVARIANTS UndisturbedSessionIsWhole ListensOrReconnects
PROPERTIES SessionEndsByLogout
