SPECIFICATION FairSpec
CONSTANTS
    a = a  b = b
    Replicas = {a, b}
    Versions <- McVersions
    Releases <- McReleases
    MaxBoots = 4
    MaxFaults = 2
    None = None
INVARIANTS SchemaTrue RightAlarm
PROPERTIES DirtyStops Ends
CHECK_DEADLOCK FALSE
