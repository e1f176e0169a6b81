SPECIFICATION Spec
CONSTANTS
    p1 = p1
    p2 = p2
    p3 = p3
    Proc = {p2, p3}
    Build <- MCBuild
    Row = {1, 2}
INVARIANTS MeaningIsMarker OneMeaning FailuresAreTrue
PROPERTIES MarkerOnlyRises
