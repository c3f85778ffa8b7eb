SPECIFICATION Spec
CONSTANTS
  NULL = NULL
  c1 = c1 c2 = c2 c3 = c3 c4 = c4 p1 = p1 p2 = p2 p3 = p3 p4 = p4 u1 = u1 u2 = u2 g1 = g1 g2 = g2 l1 = l1 l2 = l2
  Games = {g1}
  Admins = {}
  MaxTime = 0
  StartsAt <- MCStart
  EndsAt <- MCEnd
  Commits = {c1, c2, c3}
  Projects = {p1, p2}
  Users = {u1, u2}
  Languages = {l1, l2}
  Workers = {w1, w2}
  ProjectOf <- MCTwoProjects
  AuthorOf <- MCOrphan
  EmailOwner <- MCLateOwner
  LanguagesOf <- MCLanguages
  TimeOf <- MCSameDay
  CommitPoints = 1
  ProjectPoints = 10
  ScanTotals = {}
  Scanned = {}
  Flippable = {}
  Claimants = {u2}
  Unlinkers = {}
  Faults = TRUE
INVARIANTS TypeOK BoardNeverOvercounts LanguageNeverOvercounts PlayerNeverOvercounts
PROPERTIES AttributionIsFinal LedgerSpec
CHECK_DEADLOCK FALSE
