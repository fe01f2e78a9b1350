SPECIFICATION Spec
CONSTANTS
    Texts <- MCTexts
    Base = 3
INVARIANTS
    ParsedIsVersion
    DecimalSpellingsDiffer
    CompareIsByWeight
CHECK_DEADLOCK FALSE
