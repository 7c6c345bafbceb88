SPECIFICATION HelpersSpec
CONSTANTS
    Texts <- ShortTexts
    MaxDigits = 2
    Vectors <- ShortLists
    length = 4
    Values = {0, 1, 2, 3}
    RangeLength = 2
    Ranges <- ShortRanges
    MaxLen = 4
INVARIANTS
    TwoDaysAreADuration
CHECK_DEADLOCK FALSE
