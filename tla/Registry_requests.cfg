SPECIFICATION Spec
CONSTANTS
    Documents <- MCDocuments
    Born <- MCBorn
    Group <- MCGroup
    Key <- MCKey
    Projects <- MCProjects
    Chats <- MCChats
    LockAfter = 2
    Mixes <- MCMixes
INVARIANTS
    ChainsFollowKeys
    FailedIsUndone
    AttemptsAreCounted
CHECK_DEADLOCK FALSE
