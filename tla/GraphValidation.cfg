SPECIFICATION Spec
CONSTANT Inputs <- MCInputs
INVARIANTS ChecksExact OrderProved
PROPERTIES WalkEnds
CHECK_DEADLOCK FALSE
