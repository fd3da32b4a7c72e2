SPECIFICATION Spec
CONSTANTS
    App = app
    Helpers = {s, t}
    Calls <- Ops
    MaxRequests = 5
SYMMETRY HelperSymmetry
INVARIANTS FenceHolds BeginInOrder
CHECK_DEADLOCK FALSE
