INIT LfInit
NEXT LfNext
CONSTANTS
    MaxControls = 2
INVARIANT
    ScmToldStopped
CHECK_DEADLOCK FALSE
