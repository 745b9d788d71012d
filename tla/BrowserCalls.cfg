SPECIFICATION FairSpec
CONSTANTS
    Tools = {"navigate", "tab_list", "click"}
    MaxCalls = 3
    MaxExits = 2
    MaxNotes = 1
PROPERTIES ImplementsCallService EveryCallAnswered
CHECK_DEADLOCK FALSE
