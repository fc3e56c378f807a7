SPECIFICATION FairSpec
CONSTANTS
    None = None
    Key <- OneQuery
    Page <- OnePage
    Mutation <- Effects
    OwnMutation <- OwnEffects
    Outdates <- Outdating
    Announced <- Announcing
    Refetched <- Refetching
    SetBy <- Setting
    Heard <- Hearing
    Promised <- Promising
    MaxChanges = 2
INVARIANTS OutdatedIsCovered
PROPERTIES OutdatedIsRefreshed
