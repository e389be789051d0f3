SPECIFICATION Spec
CONSTANTS
    PlsBits = 5
    PlsTap = 2
    Unset = Unset
    DbUnit = 100
    Full = 65535
    Counters = 65536
    Missing = Missing
    FeMaxEvent = 2
    ApiVersions = {1290, 1291}
    Requests <- MCRequests
    Reports <- MCReports
    Decibels <- MCDecibels
    Default = Default
    MaxSets = 1
    None = None
INVARIANTS StatsConsistent
