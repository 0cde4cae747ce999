SPECIFICATION AppSpec
CONSTANTS
    Workers = {w1, w2, w3}
    MaxOffered = 6
    Quota = 2
    NumTasks = 3
    Programs <- AllPrograms
CHECK_DEADLOCK FALSE
INVARIANTS
    SlotsAreOwn
    FinishIsQuiet
    ServesNoMore
    StopRunsEveryTask
PROPERTY ProgramEnds
