\* Descriptors of three levels with up to two members each, and connect data
\* that is none; messages of up to eight bytes, with runs longer and shorter
\* than a header of three bytes, and than the four characters the buffer has
\* room for.
SPECIFICATION Spec
CONSTANTS
    Chars <- MCChars
    Descriptors <- MCDescriptors
    OtherTexts <- MCOtherTexts
    Messages = {3, 4, 5, 6, 7, 8}
    TNS_HEAD_LEN = 3
    Capacity = 6
INVARIANTS
    TypeOK
    JsonIsDescriptor
    TextFits
    LongestRun
    MessageIsPrinted
