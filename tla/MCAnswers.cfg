\* A digit and another character, two arguments, two columns; texts of six
\* characters, and of ten digits, one more than a mask shows of any kind.
\* The limits of a query are small, so that the four rows exceed them.
CONSTANTS
    Digit = {digit}
    Letter = {letter}
    At = At
    Space = Space
    Star = Star
    Name = {n1, n2}
    Column = {a, b}
    Datum = {0, 1}
    Table <- Rows
    Limit <- Limits
    defaultLimit = 2
    maxLimit = 3
    NoArg = NoArg
    MaxText = 6
    MaxFilters = 2
SPECIFICATION CallSpec
INVARIANT MaskHides
INVARIANT AnswerIsExact
\* A call ends.
CHECK_DEADLOCK FALSE
