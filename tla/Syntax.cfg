SPECIFICATION Spec
CONSTANT Shapes <- MCShapes
INVARIANTS TokensTile BindsTightly ReportedFirst InStepOutsideLines SourcesNest
CHECK_DEADLOCK FALSE
