SPECIFICATION ReadSpec
CONSTANTS
    p1 = p1  p2 = p2  n1 = n1  n2 = n2  w1 = w1  w2 = w2
    None = None
    Projects = {p1}
    Collections <- OneCollection
    Writers = {w1, w2}
    Fractions <- McFractions
    DefaultLimit = 1
    MaxLimit = 1
    MaxTime = 0
    MaxRows = 4
    WriteTimeout = 1
    AnalyzerTimeout = 3
INVARIANT BatchesWhole
