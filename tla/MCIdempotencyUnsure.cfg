SPECIFICATION Spec
SYMMETRY MCSymmetry
CONSTANTS
    Requests = {r1, r2}
    Nobody = Nobody
    Window = 2
    Wait = 1
INVARIANTS
    NoWriteWithinWindow
