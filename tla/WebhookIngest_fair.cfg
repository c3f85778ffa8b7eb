SPECIFICATION FairSpec
CONSTANTS
  NULL = NULL
  r1 = r1 r2 = r2 c1 = c1 c2 = c2 c3 = c3 ann = ann bob = bob org = org e1 = e1 e2 = e2
  Requests = {d1, d2}
  Repos = {r1, r2}
  Commits = {c2, c3}
  Accounts = {ann, bob, org}
  Emails = {e1, e2}
  Pushes <- MCShared
  OwnerOf <- MCOwner
  OrgRepos = {r2}
  EmailOf <- MCEmail
  ValidCommits = {c2, c3}
  TooLong = {}
  MailsOf <- MCMails
  SignUps = {bob}
  Scanning = TRUE
  ScansFail = FALSE
  Faults = FALSE
INVARIANTS AttributionExplained
PROPERTIES DirectorySpec StoredIsScored
