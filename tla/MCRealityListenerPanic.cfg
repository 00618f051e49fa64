SPECIFICATION Spec
CONSTANTS
    c1 = c1
    c2 = c2
    c3 = c3
    a1 = a1
    a2 = a2
    NoError = NoError
    Conns <- MCConns
    Callers <- MCCallers
INVARIANT NoPanic
