CONSTANTS
 MaxRequests = 3
 MaxMoves = 1
SPECIFICATION ExplainFairSpec
CHECK_DEADLOCK FALSE
INVARIANT FollowupIsOnTopic
