SPECIFICATION LiveSpec
CONSTANTS
    App = app
    Helpers = {s, t}
    Calls <- WritesAndFences
    MaxRequests = 5
CHECK_DEADLOCK FALSE
PROPERTIES FencedServed
