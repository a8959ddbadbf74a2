CONSTANTS
    Csp = Csp
    cli = cli
    Consoles = {cli}
    Addrs = {87, 95}
    Strangers = {300}
    Values = {0, 1}
    Default = 0
    MaxItems = 2
    EVT_QUEUE_LEN = 2
    None = None
SPECIFICATION Spec
INVARIANTS ControlTypeOK SetAppliesPrefix HandlersFollowTable
