CONSTANTS
    a = a
    b = b
    c = c
    p = p
    q = q
    None = None
    Caller = {a, b, c}
    Process = {p, q}
    Home <- MCHome
    Resolver = {a, c}
    Connecter = {a, b}
    Patient = {c}
    Faults = {"token", "rewrite", "claim"}
SPECIFICATION Spec
INVARIANTS OwnersExplained  ExitExplained
PROPERTY ResolveSettles
CHECK_DEADLOCK FALSE
