\* The RPC server is started up to three times in a run of the app, and the
\* /stats listener is replaced once.
CONSTANTS
    Threads = {t1, t2, t3}
    Listeners = {l1, l2}
    None = None
SPECIFICATION FairSpec
INVARIANTS TypeOK OneThread RunningIsHonest
PROPERTIES EndIsReported ServedOrTold
