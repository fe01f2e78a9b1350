SPECIFICATION Spec
CONSTANTS
    Texts <- MCTexts
    Base = 3
INVARIANT
    OnlyDecimalsParse
CHECK_DEADLOCK FALSE
