\* One connection, with PATCH and DELETE of the file by other workers.
SPECIFICATION FairSpec
CONSTANTS
    Base = 3
    WordMax = 7
    Texts <- MCTexts
    TextSize = 1
    MaxSize = 3
INVARIANTS
    AnswerFramed
    UploadsNeverCut
    RangeExact
PROPERTIES
    RequestEnds
