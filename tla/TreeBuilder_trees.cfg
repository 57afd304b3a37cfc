SPECIFICATION Spec
CONSTANTS
    LongPaths = {}
    LongComponents = {"long"}
    MaxComponents = {"max"}
    TreeCalls <- MCTreeCalls
    MaxCalls = 4
PROPERTIES ImplementsFlatTree
CHECK_DEADLOCK FALSE
