SPECIFICATION Spec
CONSTANTS
  Repos = {r1}
  Admin = {r1}
  Tabs = {t1}
  PerPage = 1
  ListMax = 1
  HooksMax = 1
  Names = {n1, n2}
  Refused = {e1}
  Blank = b0
  MaxHooks = 2
  MaxElsewhere = 0
  Faults = FALSE
INVARIANTS SavedNameShown
CHECK_DEADLOCK FALSE
