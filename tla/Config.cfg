\* Starts, quits, node and settings changes from one tab; saves that fail
\* and a program that dies in one.
CONSTANTS
    Tabs = {t1}
    Ports = {8675, 9000}
    DefaultPort = 8675
    NodeName = pop
    Blank = blank
    h1 = h1
    h2 = h2
    Hosts = {h1, h2}
    ProfileNodes <- PostedLists
    WrittenNodes <- WrittenLists
    MaxNodes = 2
    None = None
    Unreadable = Unreadable
SPECIFICATION Spec
INVARIANTS DiskAgrees NodesAreManageable
PROPERTIES RestartRestores NodesOnlyByRequest
