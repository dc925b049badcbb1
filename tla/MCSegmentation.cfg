SPECIFICATION Spec
CONSTANTS
    NotSent = NotSent
    Failed = Failed
    GSM7Single = 4
    GSM7Multi8 = 3
    GSM7Multi16 = 2
    UCS2Single = 4
    UCS2Multi8 = 3
    UCS2Multi16 = 2
    BinSingle = 3
    BinMulti8 = 2
    BinMulti16 = 2
    MaxParts = 3
    Messages = {"m1", "m2"}
    Texts <- MCTexts
    Refs <- MCRefs
    MaxInbox = 3
CHECK_DEADLOCK FALSE
INVARIANTS PartsWhole JoinedWasSent CompleteSetJoins
