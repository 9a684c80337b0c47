\* Two starts at once: the second is not rejected.
CONSTANTS
    Starters = {s1, s2}
    Stoppers = {p1}
    Children = {c1, c2}
    None = None
SPECIFICATION Spec
PROPERTY RejectWhileRunning
