SPECIFICATION FairSpec
CONSTANT MaxNumber = 150
INVARIANTS TypeOK ProductKept PrimesOnly
PROPERTY Terminates
CHECK_DEADLOCK FALSE
