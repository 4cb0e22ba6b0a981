CONSTANTS
    Words = {"true", "missing"}
    Operators = {"&&"}
    FileNames = {"good"}
    Twice = TRUE
    MaxTokens = 4
    MaxFd = 6
SPECIFICATION ShSpec
INVARIANTS
    DescriptorsRestored
CHECK_DEADLOCK FALSE
