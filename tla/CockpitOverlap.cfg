\* Two polls in flight, one process, one port.
CONSTANTS
    Children = {c1}
    Ports = {p1}
    Calls = {k1}
    Polls = {h1, h2}
    Timers = {t1, t2}
    None = None
SPECIFICATION Spec
INVARIANT LoadingIsFollowedUp
