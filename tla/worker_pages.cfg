\* One worker, three tasks of two origins in any order, windows that serve two pages, crashes, pages
\* that overrun, a window that is left behind, and a stop at any time.
SPECIFICATION Spec
CONSTANTS
  o1 = o1
  o2 = o2
  Origins = {o1, o2}
  MAX_REUSE = 2
  MaxTasks = 3
  MaxWindows = 4
  MaxLeaks = 1
  MaxCrashes = 2
SYMMETRY Symmetry
INVARIANTS
  UsesBounded
  FailureHasCause
  NavigationAllowed
  
CHECK_DEADLOCK FALSE
