SPECIFICATION Spec
CONSTANTS
    text = text
    Texts = {text}
    MaxKeys = 3
    None = None
INVARIANTS
    TypeOK
    Readable
    OneKey
    NothingPlain
    TextStands
CHECK_DEADLOCK FALSE
