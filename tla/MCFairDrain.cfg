SPECIFICATION OrderSpec
CONSTANT Panes = {p1, p2, p3}
INVARIANT OrderTypeOK
PROPERTIES NoOvertaking RestartKeepsPlace
