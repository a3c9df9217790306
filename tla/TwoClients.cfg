CONSTANTS
    Threads = {t1, t2}
    Keys = {a}
    Edits = {e1, e2, e3}
    EncKeys = {x1, x2}
    Calls <- SharedCalls
    LockedCalls <- DesktopLockedCalls
    Targets = {"unused"}
    Failures = FALSE
    Absent = Absent
    Torn = Torn
SYMMETRY Symmetry
SPECIFICATION Spec
INVARIANTS
    TypeOK
    UnsavedIsPending
PROPERTIES
    NoSilentOverwrite
