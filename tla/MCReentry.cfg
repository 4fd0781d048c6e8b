SPECIFICATION Spec
CONSTANTS
    text = text
    Texts = {text}
    MaxKeys = 3
    None = None
INVARIANT UnreadableCanBeEntered
CHECK_DEADLOCK FALSE
