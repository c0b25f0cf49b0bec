SPECIFICATION FairSpec
CONSTANTS
    png = png
    jpg = jpg
    mp3 = mp3
    small = small
    large = large
    File <- Files
    Supported <- Images
    Content <- Sizes
    Oversize <- TooLarge
    Absent = Absent
    Partial = Partial
    PageSize = 2
    BatchLimit = 2
    MaxUsn = 4
INVARIANTS
    TypeOK
    NothingMissed
PROPERTIES
    CatchesUp
