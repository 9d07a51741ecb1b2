CONSTANTS
  Addr = {a1, a2, a3, a4}
  NULL = NULL
  Geoms = {r1, r2}
  FULL = FULL
  RegistrySize = 2
  MaxWindows = 3
  MaxButtons = 3
  Dark = 1
  MaxId = 3
SPECIFICATION Spec
INVARIANTS TypeOK NoDangling ButtonForEachWindow RegisteredForAWhile OneRectangle DraggedOnlyWhileHeld CancelShowsAll OneFocused
SYMMETRY DesktopSymmetry
CHECK_DEADLOCK FALSE
