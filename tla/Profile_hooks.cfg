SPECIFICATION Spec
CONSTANTS
  Repos = {r1, r2}
  Admin = {r2}
  Tabs = {t1, t2}
  PerPage = 1
  ListMax = 1
  HooksMax = 2
  Names = {n1, n2}
  Refused = {e1}
  Blank = b0
  MaxHooks = 3
  MaxElsewhere = 1
  Faults = TRUE
INVARIANTS TypeOK RowsTellTheTruth
PROPERTIES ForeignHooksStay ButtonsComeBack
CHECK_DEADLOCK FALSE
