SPECIFICATION FairSpec
CONSTANT ConSize = 2
INVARIANTS TypeOK Handles NoSpuriousFailure Contents Barrier
PROPERTY Ends
CHECK_DEADLOCK FALSE
