\* Two events of different reporting periods on one announcement date.
SPECIFICATION Spec
CONSTANTS
    NDates = 2
    Kinds = {"event"}
    Periods = {1, 2}
    ExpectedStarts = {1}
PROPERTY
    EventsKept
