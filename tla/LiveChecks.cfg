SPECIFICATION Spec
CONSTANTS
  MaxPods = 2
  Scrape = 1
  Refresh = 1
  Wait = 4
  Timeout = 1
  MaxHang = 3
  MaxChanges = 2
  MaxMishaps = 1
INVARIANTS
  PassIsTrue
  StableIsNotBlamed
  DeadlineIsKept
CHECK_DEADLOCK FALSE
