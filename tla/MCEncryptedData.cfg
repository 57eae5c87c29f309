CONSTANTS
    TagLength = 2
    Concurrency = 1
    SizeBytes = {1, 2}
    Lengths = {0, 1, 3, 5}
    Int32Range = 4
SPECIFICATION Spec
INVARIANTS CiphertextRight PipelineBounded
PROPERTIES StreamSafety StreamSettles
CHECK_DEADLOCK FALSE
