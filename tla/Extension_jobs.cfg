SPECIFICATION Spec
CONSTANTS
    window = window
    otherWindow = otherWindow
    first = first
    second = second
    None = None
    Panels = {window}
    Requests = {first, second}
    MaxFaults = 0
CHECK_DEADLOCK FALSE
SYMMETRY Symmetry
INVARIANT TransientStateRemoved
