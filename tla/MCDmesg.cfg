CONSTANTS
    alive = alive
    csp = csp
    cli = cli
    DMESG_BUFFER_SIZE = 9
    DMESG_MSG_MAX_LENGTH = 5
    Text = 2
    Lengths = {1, 2, 4}
    MaxWrites = 6
    SizeModulus = 64
    Margin = 1
    Writers = {alive, csp}
    Reader = cli
    Priority <- MCPriority
    Exclusive = TRUE
SPECIFICATION Spec
INVARIANT ListsTheLog
PROPERTY ImplementsMessageLog
CHECK_DEADLOCK FALSE
