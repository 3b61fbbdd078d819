SPECIFICATION ReadSpec
CONSTANTS
    Texts <- MCTexts
    Discriminator = "type"
    SubTypes = {"A", "B"}
    NoAnswer = "no answer"
    NotFound = "not found"
    Invalid = "invalid"
INVARIANTS
    OwnDiscriminatorDecides
CHECK_DEADLOCK FALSE
