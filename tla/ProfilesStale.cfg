\* Two requests at once, no faults.
CONSTANTS
    Names = {fast, fastBang, marks}
    Ids = {none, i1, i2}
    Fast = fast
    FastBang = fastBang
    Marks = marks
    FastId = i1
    NoId = none
    Slug <- SlugOf
    Models = {m1}
    Clients = {c1, c2}
    InitialFile <- Absent
    Faults = {}
SPECIFICATION Spec
PROPERTY SavesAreFresh
