SPECIFICATION FairSpec
CONSTANTS
    NONE = NONE
    Plain = {x}
    Blank = {sp, nl}
    Quote = {q}
    Delims = {sp, nl}
    InitBuffer = 4
    MaxLen = 5
    MaxOver = 2
INVARIANTS
    TypeOK
    StripTrims
    SplitGivesWords
    OverreadOnlyShort
PROPERTY
    SplitEnds
