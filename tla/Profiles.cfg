\* One request after another, failing writes and crashes.
CONSTANTS
    Names = {fast, fastBang, marks}
    Fast = fast
    FastBang = fastBang
    Marks = marks
    FastId = i1
    NoId = none
    Slug <- SlugOf
    Ids = {none, i1, i2}
    Models = {m1}
    Clients = {c1}
    InitialFile <- Absent
    Faults = {"read", "write", "crash"}
SPECIFICATION Spec
INVARIANT UniqueIds
PROPERTY ImplementsMap
