SPECIFICATION FairSpec
CONSTANTS
    r1 = r1  r2 = r2  r3 = r3
    s1 = s1  s2 = s2
    open = open  done = done
    AnyStatus = AnyStatus
    None = None
    Req <- MCReq
    CreatedAt <- MCCreatedAt
    Session = {s1, s2}
    Status <- MCStatus
    WorkflowTransition <- MCTransitions
    Closed = {done}
    RequiresResolution = {}
    Step = 5
    MinGap = 2
    InitPosition <- MCInitPosition
    MaxDrops = 2
INVARIANTS TypeOK ClosedAtAgrees
PROPERTIES DropLandsWhereSeen MovesEnd
CHECK_DEADLOCK FALSE
