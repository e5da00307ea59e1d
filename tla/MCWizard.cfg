SPECIFICATION Spec
CONSTANTS
    Schema <- MCSchema
    Part <- MCPart
    Separator <- MCSeparator
    itoa <- MCitoa
    Initial <- MCInitial
    Expression <- MCExpression
    Mask <- MCMask
    Advice <- MCAdvice
    None = None
    MaxDeeds = 4
    MaxMounts = 2
INVARIANTS
    TypeOK
    SuggestionIsExact
    OnlyOpenedIsServed
    DiffIsTrue
    AssembleIsValid
PROPERTY UnmaskedOnlyByName
CHECK_DEADLOCK FALSE
