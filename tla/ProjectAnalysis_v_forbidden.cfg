SPECIFICATION Spec
CONSTANTS
  NULL = NULL
  r1 = r1
  r2 = r2
  Says <- MCSays
  SizeOf <- MCSizes
  Revisions = {r1, r2}
  FilesOf <- MCFiles
  Scanners = {s1, s2}
  Users = {ann, bob}
  Editors = {ann}
  Services = {"github", "gitlab"}
  Configured = TRUE
  Games = {g1}
  Postings <- MCPostings
  Faults = TRUE

PROPERTIES ForbiddenMarksPrivate
CHECK_DEADLOCK FALSE
