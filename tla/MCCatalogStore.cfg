SPECIFICATION Spec
CONSTANTS
  Markets = {crypto, stock}
  Searches = {r1, r2}
  Slots = {1}
  RefreshAfter = 1
  MaxNow = 1
  Background = Background
  Unreadable = Unreadable
  None = None
SYMMETRY Symmetry
CONSTRAINT FewTasks
INVARIANTS CatalogIsCurrent
PROPERTIES ListsNeverGoBack
