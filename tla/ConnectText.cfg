\* Connect data of any kind, and the place allocated for its JSON.
SPECIFICATION Spec
CONSTANTS
    Chars <- MCChars
    Descriptors <- MCDescriptors
    OtherTexts <- MCOtherTexts
    Messages = {3}
    TNS_HEAD_LEN = 3
    Capacity = 6
INVARIANT TextInBounds
