SPECIFICATION Spec
CONSTANT MAX_RUNS = 1
INVARIANT GuardIsEnough
