SPECIFICATION LiveSpec
CONSTANTS
    max_pending_msg = 4
    max_unsignaled_msg = 2
    MaxRequests = 7
INVARIANTS SlotsAccounted SlotsNotReused
PROPERTIES ImplementsChannel AllSent
CHECK_DEADLOCK FALSE
