CONSTANTS
  Applications = {a, b}
  MaxIcons = 3
  MaxPriority = 2
  Inputs = {"stick", "drag", "request", "add", "remove", "move"}
SPECIFICATION Spec
INVARIANT RunningShown FavoritesShown StoreOrder SmartPasses
PROPERTY CancelRestores
SYMMETRY Symmetry
