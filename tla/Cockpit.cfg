\* One click at a time (the user waits for its answer) and two polls in
\* flight, whose answers may overtake each other.
CONSTANTS
    Children = {c1}
    Ports = {p1, p2}
    Calls = {k1}
    Polls = {h1, h2}
    Timers = {t1, t2}
    None = None
SPECIFICATION FairSpec
INVARIANTS TypeOK NoStrayTimer
PROPERTIES LoadedIsShown LaunchIsAnswered
