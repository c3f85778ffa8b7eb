SPECIFICATION Spec
CONSTANTS
  NULL = NULL
  ann = ann bob = bob e1 = e1 e2 = e2 i1 = i1 i2 = i2
  Requests = {r1, r2}
  Browsers = {b1}
  States = {s1, s2}
  Identities = {i1, i2}
  NameOf <- MCName
  MailsOf <- MCMails
  Accounts = {ann, bob}
  Emails = {e1, e2}
  TooLong = {}
  Owners = {ann}
  CommitMails <- MCCommitMails
  Faults = TRUE
SYMMETRY MCSymmetry
INVARIANTS TypeOK SessionExplained NeverLockedOut
PROPERTIES DirectorySpec
