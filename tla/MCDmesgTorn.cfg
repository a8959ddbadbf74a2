CONSTANTS
    alive = alive
    csp = csp
    cli = cli
    DMESG_BUFFER_SIZE = 9
    DMESG_MSG_MAX_LENGTH = 5
    Text = 2
    Lengths = {1, 2, 4}
    MaxWrites = 3
    SizeModulus = 64
    Margin = 10
    Writers = {alive, csp}
    Reader = cli
    Priority <- MCPriority
    Exclusive = FALSE
SPECIFICATION Spec
INVARIANT ListsWholeMessages
CHECK_DEADLOCK FALSE
