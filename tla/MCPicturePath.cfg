SPECIFICATION PictureSpec
CONSTANTS
    Bytes = {0, 1, 128, 255}
    MaxBytes = 5
    IntWidth = 16
    Widths = {1, 3, 64}
    Heights = {2, 5, 64}
INVARIANTS
    PictureComesOut
CHECK_DEADLOCK FALSE
