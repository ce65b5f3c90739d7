\* A double confirm, a confirm racing a cancel, a call queued behind a hung
\* one and a restart in the middle of each all happen within these bounds.
SPECIFICATION FairSpec
CONSTANTS
    clear_logs = clear_logs
    open_app = open_app
    underdeclared = underdeclared
    destructive = destructive
    NoRisk = NoRisk
    NoTool = NoTool
    a1 = a1
    a2 = a2
    r1 = r1
    r2 = r2
    Actions = {a1, a2}
    Requests = {r1, r2}
    Tools <- MCTools
    Registered <- MCTools
    Match <- MCMatch
    Aim <- MCAim
    Permission <- MCPermission
    DeclaredRisk <- MCDeclaredRisk
    PoolSize = 1
    MaxRestarts = 1
INVARIANTS
    RunsAsApproved
    RecordsAreHonest
PROPERTIES
    GateSpec
    ConfirmedSettles
\* The system stops when every command and request has been served.
CHECK_DEADLOCK FALSE
