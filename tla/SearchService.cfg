SPECIFICATION FairSpec
CONSTANTS
    Id = {"d1", "d2", "d3"}
    Content = {"west", "east"}
    DefaultLimit = 2
    MaxCandidates = 2
    WindowFactor = 2
    MaxPlaceholders = 1
    Limits = {0, 1, 3}
    Starts = {0, 1, 4}
    NoCopy = NoCopy
    Tables <- UpToThree
    MaxEdits = 1
INVARIANTS TypeOK JudgedSoFar AnswersWereJudged ReasonIsTrue PageIsThePolicysView WindowsTileTheTable
PROPERTIES WalkEnds
