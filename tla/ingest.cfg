SPECIFICATION Spec

CONSTANTS
    readme = readme
    brief = brief
    empty = empty
    short = short
    full = full
    revised = revised
    long = long
    Files <- TwoFiles
    Text = {empty, short, full, revised, long}
    Length <- LengthOf
    Size = 5
    Overlap = 2
    Absent = absent
    MaxEdits = 2

INVARIANTS
    TypeOK
    UpToDate
    NothingElse
    PhrasesWhole
