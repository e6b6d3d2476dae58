SPECIFICATION TextSpec
CONSTANTS
    WordList <- MCWordList
    WORD_COUNT = 2
    Drawn <- MCDrawn
    Origins <- MCOrigins
    Handles = {"H1"}
    MaxLen = 41
    PHRASE_LIFETIME = 0
    MAX_ATTEMPTS = 2
    MaxSlips = 2
INVARIANTS TypedPhrasesAreRead PairUrisAreRead
