SPECIFICATION Spec
CONSTANTS
    png = png
    jpg = jpg
    mp3 = mp3
    small = small
    large = large
    File <- Images
    Supported <- Images
    Content <- Sizes
    Oversize <- TooLarge
    Absent = Absent
    Partial = Partial
    PageSize = 1
    BatchLimit = 2
    MaxUsn = 3
PROPERTIES
    RemovesOnlyDeleted
