SPECIFICATION Spec
CONSTANTS
    Keys = {1, 2}
    Trees <- MCTrees
    NewTree <- MCEmptyTree
    TreeInsert <- MCInsert
    TreeRemove <- MCRemove
    TreeSearch <- MCSearch
    TreeFirst <- MCFirst
    TreeNext <- MCNextNode
    Tasks = {t1, t2, t3}
    Nobody = nobody
    Epoch = 1000
    Horizon = 3
    Platforms = {"unix", "win"}
SYMMETRY Symmetry
INVARIANTS
    TimerInv
    ListsInOrder
    SleepersWaitedFor
PROPERTIES
    SleepNotEarly
CHECK_DEADLOCK FALSE
