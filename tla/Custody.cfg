\* Two nodes, one of them removed and added again, under every writer.
SPECIFICATION CustodyFairSpec
CONSTANTS
    Nodes = {1, 2}
    Deploys = {web, db}
    Leaving = {1}
    Threshold = 2
    Window = 1
    Probation = 1
    Ceiling = 2
    Ttl = 1
INVARIANTS
    TaintGuards
PROPERTIES
    OnlyCleanNodesReturn
    ClosedReopens
