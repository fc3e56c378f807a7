SPECIFICATION FairSpec
CONSTANTS
    r1 = r1  r2 = r2
    a1 = a1  a2 = a2
    c1 = c1  c2 = c2
    ready = ready  progress = progress  closed = closed
    AnyStatus = AnyStatus
    Worker = Worker
    None = None
    Req = {r1}
    Agent = {a1, a2}
    ClaimId = {c1, c2}
    Status <- MCStatus
    WorkflowTransition <- MCTransitions
    Closed = {closed}
    RequiresResolution = {}
    Claimable = {ready}
    InProgress = progress
    AgentEnabled = {r1}
    Lease = {1}
    MaxNow = 2
PROPERTIES LapsedClaimsEnd ImplementsFairLease
