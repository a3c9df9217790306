CONSTANTS
    Threads = {t1}
    Keys = {a, b}
    Edits = {e1, e2}
    EncKeys = {x1, x2, x3}
    Calls <- DesktopCalls
    LockedCalls <- DesktopLockedCalls
    Targets = {"unused"}
    Failures = FALSE
    Absent = Absent
    Torn = Torn
SYMMETRY Symmetry
SPECIFICATION Spec
INVARIANTS
    LockedIsCiphertext
    ContentHeld
    KeyAvailable
PROPERTIES
    BehavesAsEditor
