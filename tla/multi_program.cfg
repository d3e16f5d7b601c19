CONSTANTS
    NoId = NoId
    Settings <- MCSettings
SPECIFICATION StartupSpec
INVARIANT SeveralProgramsParsed
CHECK_DEADLOCK FALSE
