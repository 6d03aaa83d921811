SPECIFICATION Spec
CONSTANTS
    Id = {"d1", "d2", "d3"}
    Content = {"west"}
    DefaultLimit = 2
    MaxCandidates = 3
    WindowFactor = 2
    MaxPlaceholders = 1
    Limits = {1}
    Starts = {0}
    NoCopy = NoCopy
    Tables <- UpToThree
    MaxEdits = 0
INVARIANTS WalkShowsWhatIsVisible
