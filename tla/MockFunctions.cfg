SPECIFICATION Spec
CONSTANTS
    Root = Root
    mocks = mocks
    table = table
    log = log
    send = send
    ping = ping
    x = x
    y = y
    Anything = Anything
    None = None
    q = q
    Objects = {mocks, table}
    Functions = {log, send, ping}
    Slots = {s1, s2}
    s1 = s1
    s2 = s2
    Orders = {q}
    Args = {x, y}
    Largest = 2
    Context <- MCContext
    Expected <- MCExpected
SYMMETRY Alike
INVARIANTS PointersHold PassedMeansMet ResetClears
PROPERTIES InOrder
