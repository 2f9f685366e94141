SPECIFICATION Spec
CONSTANT MaxLine = 5
INVARIANTS TypeOK TokensAsReference NullNameOnlyOnBlank EveryJobStarts
CHECK_DEADLOCK FALSE
