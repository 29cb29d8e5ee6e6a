SPECIFICATION Spec
INVARIANT TagsNest
CONSTANT Rendered <- OneEscape
CHECK_DEADLOCK FALSE
