CONSTANTS
    short = short
    long = long
    other = other
    Name <- MCName
    Value <- MCValue
    Long <- MCLong
    Saved <- MCSaved
    Found <- MCFound
    NoItem = NoItem
    NoValue = NoValue
    NoName = NoName
    Window = {w1, w2}
    Own = Own
    NoWindow = NoWindow
    PasteRetries = 3
    MaxItems = 2
    MaxTasks = 1
    MaxInputs = 3
    MaxElsewhere = 2

SPECIFICATION Spec
INVARIANTS ListsTheHistory SendsWhatWasAsked TypesConfirmed
SYMMETRY MCSymmetry
CHECK_DEADLOCK FALSE
