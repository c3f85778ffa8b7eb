SPECIFICATION Spec
CONSTANTS
  NULL = NULL
  c1 = c1 c2 = c2 c3 = c3 c4 = c4 p1 = p1 p2 = p2 p3 = p3 p4 = p4 u1 = u1 u2 = u2 g1 = g1 g2 = g2 l1 = l1 l2 = l2
  Games = {g1, g2}
  Admins = {a1}
  MaxTime = 2
  StartsAt <- MCStart
  EndsAt <- MCEnd
  Commits = {c1, c2, c3, c4}
  Projects = {p1, p2, p3, p4}
  Users = {u1, u2}
  Languages = {}
  Workers = {w1}
  ProjectOf <- MCFourProjects
  AuthorOf <- MCOneAuthor
  EmailOwner <- MCNoOwner
  LanguagesOf <- MCNoLanguages
  TimeOf <- MCTwoDays
  CommitPoints = 1
  ProjectPoints = 10
  ScanTotals = {5}
  Scanned = {p1}
  Flippable = {p2}
  Claimants = {}
  Unlinkers = {}
  Faults = FALSE
INVARIANTS PlacedInCoveringGame ExactWhenSettled
CHECK_DEADLOCK FALSE
