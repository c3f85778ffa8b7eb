SPECIFICATION Spec
CONSTANTS
  NULL = NULL
  r1 = r1 r2 = r2 c1 = c1 c2 = c2 c3 = c3 ann = ann bob = bob org = org e1 = e1 e2 = e2
  Requests = {d1, d2}
  Repos = {r1, r2}
  Commits = {c1, c2}
  Accounts = {ann, bob, org}
  Emails = {e1, e2}
  Pushes <- MCRenamed
  OwnerOf <- MCOwner
  OrgRepos = {r2}
  EmailOf <- MCEmail
  ValidCommits = {c1, c2}
  TooLong = {}
  MailsOf <- MCMails
  SignUps = {}
  Scanning = TRUE
  ScansFail = TRUE
  Faults = TRUE
INVARIANTS TypeOK HandedOnce
PROPERTIES IntakeSpec
