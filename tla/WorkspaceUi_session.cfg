SPECIFICATION FairSpec
CONSTANTS
    Chats <- MCChats
    None = "none"
    InitialChats <- MCInitialChats
    Start = "a"
    Held <- MCHeld
    Scripts <- MCScripts
    MaxLost = 1
    MaxTasks = 3
INVARIANTS
    DebugIsOfAnswer
    PanelIsOfThread
PROPERTY
    AnswerIsShown
CHECK_DEADLOCK FALSE
