CONSTANTS
    Threads = {t1}
    Keys = {a, b}
    Edits = {e1}
    EncKeys = {x1, x2}
    Calls <- RawCalls
    LockedCalls <- RawCalls
    Targets = {"unused", "itself", "open"}
    Failures = TRUE
    Absent = Absent
    Torn = Torn
SYMMETRY Symmetry
SPECIFICATION Spec
PROPERTIES
    FilesStayReadable
    ClearedWhenWritten
CHECK_DEADLOCK FALSE
