SPECIFICATION Spec
CONSTANT Shapes <- MCLines
INVARIANT InStep
CHECK_DEADLOCK FALSE
