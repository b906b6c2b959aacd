SPECIFICATION Spec
CONSTANTS
    Keys = {1, 2}
    Trees <- MCTrees
    NewTree <- MCEmptyTree
    TreeInsert <- MCInsert
    TreeRemove <- MCRemove
    TreeSearch <- MCSearch
    TreeFirst <- MCFirst
    TreeNext <- MCNextNode
    Tasks = {t1, t2}
    Nobody = nobody
    Epoch = 1000
    Horizon = 4
    Platforms = {"unix"}
SYMMETRY Symmetry
PROPERTIES
    DueSleepersWoken
CHECK_DEADLOCK FALSE
