SPECIFICATION FairSpec
CONSTANTS
    dm = dm
    group = group
    NoLimit = NoLimit
    Channels = {dm, group}
    Limits <- MCLimits
    DefaultLimit = 2
    MaxLimit = 2
    MaxMessages = 4
    MaxClock = 2
CHECK_DEADLOCK FALSE
INVARIANT
    PagesGoBack
    OnlyCutsSkip
PROPERTY
    ScrollEnds
