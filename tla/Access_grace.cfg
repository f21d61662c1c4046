SPECIFICATION Spec
CONSTANTS
    p1 = p1  p2 = p2  gone = gone  t1 = t1  k1 = k1  k2 = k2  lab = lab
    a = a  b = b  here = here  elsewhere = elsewhere
    None = None  Off = Off
    Projects <- McProjects
    Known <- McKnown
    Lives <- McLives
    Tokens = {t1}
    Kids = {k1, k2}
    LabKid = lab
    Replicas = {a, b}
    Origins = {here, elsewhere}
    Allowed = {here}
    MaxTTL = 2
    MaxTime = 3
    CreateBy = 1
    MaxIssued = 1
SYMMETRY Symmetry
INVARIANT GraceEnds
CHECK_DEADLOCK FALSE
