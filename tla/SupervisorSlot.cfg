\* One start at a time, two stops at once, three children one after another.
CONSTANTS
    Starters = {s1}
    Stoppers = {p1, p2}
    Children = {c1, c2, c3}
    None = None
SPECIFICATION FairSpec
INVARIANT OneChild
PROPERTIES RejectWhileRunning ImplementsBackend
