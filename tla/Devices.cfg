SPECIFICATION Spec
CONSTANTS
    Clients = {c1, c2}
    Devices = {1, 2}
    Nodes <- MCNodes
    Pluggable <- MCPluggable
    NoNetSupport = {2}
    Vendor <- MCVendor
    Tbs = "TBS"
    Pids <- MCPids
    Plans <- MCPlans
    Buffer <- MCBuffer
    MaxInterfaces = 2
    None = None
SYMMETRY MCSymmetry
INVARIANTS NothingLeft ReportTells PairMatches ModulatorServed
