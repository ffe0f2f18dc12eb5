\* Two full pages of two items, three calls, an addition, a deletion, a failure.
SPECIFICATION ListSpec
CONSTANTS
    PageSize = 2
    MaxInitial = 3
    MaxPosts = 1
    MaxCalls = 3
    MaxRemovals = 1
    MaxFailures = 1
INVARIANTS
    EndMeansAll
    NoGhosts
PROPERTIES ScrollingResumes
\* The bounds stop it.
CHECK_DEADLOCK FALSE
