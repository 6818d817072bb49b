SPECIFICATION UtilSpec
CONSTANTS
    MaxLength = 0
    Inputs <- Messages
    TokenCounts = {30}
INVARIANTS MapOfMembers
CHECK_DEADLOCK FALSE
