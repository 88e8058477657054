\* Citations of the chunks of one document.
CONSTANT Nothing = Nothing
SPECIFICATION DocumentSpec
INVARIANT CitationsOpenExactly
CHECK_DEADLOCK FALSE
