SPECIFICATION Spec
CONSTANTS
    Fields <- MCFields
    Word = 3
    MaxTicks = 2
    Huge = 1000
    Lowest <- MCLowest
    NONE = NONE
    CpuFiles <- MCCpuFiles
    MemFiles <- MCMemFiles
    Keys <- MCKeys
    Nets = {"eth0", "lo"}
    Wrap = 3
    Range64 = 256
    MB = 8
    LinkTexts <- MCLinkTexts
    UNSEEN = UNSEEN
    CHANGED = CHANGED
INVARIANTS
    TypeOK
    UsageIsBusyShare
    InfoOfFirstProcessor
    MemInfoOfTwoThirds
    BarsWithoutGap
    NetShowsTraffic
