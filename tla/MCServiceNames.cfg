SPECIFICATION Spec
CONSTANTS
    InputNames <- NumberedToo
    MaxServices = 3
CHECK_DEADLOCK FALSE
INVARIANTS
    NamesUnique
