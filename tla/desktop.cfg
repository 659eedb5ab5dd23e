CONSTANTS
    Pool = {p1, p2}
    Keys = {k1, k2}
    Folders = {f1}
    MaxMarkers = 2
    Locked = Locked
    None = None
SYMMETRY Symmetric
SPECIFICATION Spec
INVARIANT TypeOK MarkerSaysStop
PROPERTY ClientsHoldLiveKey StoppedStaysStopped
