SPECIFICATION ReadSpec
CONSTANTS
    p1 = p1  p2 = p2  n1 = n1  n2 = n2  w1 = w1  w2 = w2
    None = None
    Projects = {p1, p2}
    Collections <- McCollections
    Writers = {w1, w2}
    Fractions <- McFractions
    DefaultLimit = 2
    MaxLimit = 2
    MaxTime = 1
    MaxRows = 3
    WriteTimeout = 1
    AnalyzerTimeout = 1
SYMMETRY Symmetry
INVARIANT InOrderOfTime
