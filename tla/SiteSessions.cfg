SPECIFICATION Spec
CONSTANTS
    Names = {1, 2, 3}
    Owners = {o1, o2}
    None = None
    Max = 1
    c1 = c1  c2 = c2  c3 = c3  c4 = c4
    o1 = o1  o2 = o2
    Calls <- MCCalls
    Scenarios <- MCScenarios
    Sites <- MCSites
PROPERTIES
    CallsAnswered
    ScopeStaysClosed
CHECK_DEADLOCK FALSE
