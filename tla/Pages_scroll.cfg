SPECIFICATION Spec
CONSTANTS
  NULL = NULL
  NoId = NoId
  NoRow = NoRow
  Ids = {1, 2, 3, 4, 5}
  PageSize = 2
  Searches <- MCSearches
  Users = {u1, u2, u3, u4}
  Limit = 2
  MaxScore = 3
  Contestants = {q1, q2, q3, go, rust}
  Languages = {go, rust}
  MaxPoints = 2
  c1 = c1
  c2 = c2
  c3 = c3
  g1 = g1
  g2 = g2
  p1 = p1
  p2 = p2
  Commits = {c1, c2, c3}
  Games = {g1, g2}
  Projects = {p1, p2}
  ProjectOf <- MCProjectOf
  CommitPoints = 1
  ProjectPoints = 10
  DayOf <- MCDayOf
  Days = {1, 2, 3}
  RecentLimit = 2
  Calls = {chat1, chat2, review}
  Chats = {chat1, chat2}
  Models = {m1, m2}
  Chrome = Chrome
  NoOne = NoOne
SYMMETRY MCSymmetry
INVARIANTS
  TypeOK
  NothingPassedOver
  NobodyPassedOver
  ReadsHangTogether
  AnswersItsOwn
  SendComesBack
PROPERTY
  PlacesMoveForAReason
