SPECIFICATION Spec
CONSTANTS
    MaxReq = 4
    Capacity = 2
    MaxOnWire = 2
    MaxRuns = 5
CHECK_DEADLOCK FALSE
INVARIANTS RemembersTheLast OnceInOrder
