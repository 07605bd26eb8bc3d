\* Three processes with two descriptors each, two changes of the host during the walk.
SPECIFICATION Spec
CONSTANTS
    log = log
    data = data
    layer = layer
    None = None
    Pids = {1, 2, 3}
    Fds = {1, 2}
    Files = {log, data, layer}
    File <- FileTable
    Memory = {"shm"}
    Overlay = {"overlay"}
    Seen <- Tables
    Starts <- EveryStart
    CapChoices <- EveryCap
    MaxChurn = 2
INVARIANTS TypeOK CompleteHasEveryHeld ReclaimableIsReal
CHECK_DEADLOCK FALSE
