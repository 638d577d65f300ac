CONSTANTS
    SHELL_MAX_LINE_LENGTH = 6
    SHELL_MAX_ARGUMENTS = 1
    Printable = {"a", " ", "[", "A"}
    Space = " "
    Bracket = "["
    LetterA = "A"
    ExitName <- MCExit
    HelpName <- MCHelp
    SystimeName <- MCSystime
    ApolloName <- MCApollo
    NUL = NUL
SPECIFICATION Spec
INVARIANTS
    TypeOK
    ScreenShowsLine
    AsTyped
PROPERTIES
    GarbledOnlyIf
