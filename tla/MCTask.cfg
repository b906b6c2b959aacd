SPECIFICATION FairSpec
CONSTANTS
    Tasks = {t1, t2, t3, t4}
    Main = main
    Null = null
INVARIANTS
    RunsLiveTask
    CallSeesDone
    NoStranded
PROPERTIES
    TasksEnd
