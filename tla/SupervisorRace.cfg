\* Two starts and two stops at once, three children: all interleavings.
CONSTANTS
    Starters = {s1, s2}
    Stoppers = {p1, p2}
    Children = {c1, c2, c3}
    None = None
SPECIFICATION FairSpec
INVARIANTS TypeOK NoLeak StoredSenderIsCurrent RunningIsWatched QuietIsTruthful
PROPERTIES StopEndsChild DisplacedChildDies DeathIsReported
