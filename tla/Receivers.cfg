\* Three messages, two failures, one restart, over each of the three channels.
CONSTANTS
    Orgs = {A, B}
    NoOrg = NoOrg
    MaxMessages = 3
    MaxTrouble = 2
    MaxRestarts = 1
    MaxTaken = 5
    ReplyLimit = 1
    PageSize = 2
    MaxExpunges = 1
SPECIFICATION Spec
INVARIANTS
    AnalysedForItsChat
    LinkLeavesNothingBehind
    RepetitionHasACause
    MovedWasAnalysed
PROPERTIES
    ImplementsMailbox
    NoMessageWaitsForEver
\* A receiver that stopped does nothing until the process is restarted.
CHECK_DEADLOCK FALSE
