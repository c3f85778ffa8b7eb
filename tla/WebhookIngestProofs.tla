------------------------- MODULE WebhookIngestProofs -------------------------
(***************************************************************************)
(* Proofs about WebhookIngest, for every value of its constants.           *)
(***************************************************************************)
EXTENDS WebhookIngest, TLAPS

-----------------------------------------------------------------------------
(* The inductive invariant                                                 *)

(* What a request holds, by the statement it is at.                        *)
RequestOK(q) ==
  /\ q.pc # "idle" => q.push \in Pushes
  /\ q.pc \in {"owner", "email", "create", "identifier", "store"} => q.commit \in Commits

RequestsOK == \A d \in Requests : RequestOK(request[d])

(* Every commit that waits is stored, waits in one place only and has not  *)
(* been handed over; a commit without a row has not been either.           *)
WaitsUnhanded(c) == c \in Stored /\ handed[c] = 0

WaitsOnce ==
  /\ \A d \in Requests : \A c \in request[d].created : WaitsUnhanded(c)
  /\ \A t \in tasks : \A c \in t.todo : WaitsUnhanded(c)
  /\ \A d, e \in Requests : d # e => request[d].created \cap request[e].created = {}
  /\ \A t, s \in tasks : t # s => t.todo \cap s.todo = {}
  /\ \A d \in Requests, t \in tasks : request[d].created \cap t.todo = {}
  /\ \A c \in Commits : c \notin Stored => handed[c] = 0
  /\ HandedOnce

IntakeInv == TypeOK /\ RequestsOK /\ WaitsOnce

(* The steps that neither store, move nor hand over: some waiting commits  *)
(* may be forgotten.                                                       *)
Quiet ==
  /\ Stored' = Stored
  /\ handed' = handed
  /\ \A d \in Requests : request'[d].created \subseteq request[d].created
  /\ tasks' \subseteq tasks

-----------------------------------------------------------------------------
(* What the constants say of a push and what NULL is not.                  *)
LEMMA PushFacts ==
  /\ \A p \in Pushes : /\ p.repo \in Repos /\ p.slug \in STRING
                       /\ p.private \in BOOLEAN /\ p.commits \in SUBSET Commits
                       /\ OwnerOf[p.repo] \in Accounts
  /\ \A c \in Commits : EmailOf[c] \in Emails
  /\ NULL \notin Accounts /\ NULL \notin Commits
BY IngestAssumption DEF Push

(* A request that is not there holds nothing and has created nothing.      *)
LEMMA IdleRequestTyped ==
  /\ IdleRequest \in Request
  /\ RequestOK(IdleRequest)
  /\ IdleRequest.created = {}
BY DEF IdleRequest, Request, RequestOK

(* What a request is about while it is handled.                            *)
LEMMA RequestFacts ==
  ASSUME TypeOK, RequestsOK, NEW d \in Requests
  PROVE  /\ request[d] \in Request
         /\ RequestOK(request[d])
         /\ request[d].pc # "idle" => Repo(d) \in Repos /\ Owner(d) \in Accounts
         /\ request[d].pc \in {"owner", "email", "create", "identifier", "store"} =>
              request[d].commit \in Commits /\ Email(d) \in Emails
<1>1. request[d] \in Request /\ RequestOK(request[d])
  BY DEF TypeOK, RequestsOK
<1>. QED BY <1>1, PushFacts DEF RequestOK, Repo, Owner, Email

-----------------------------------------------------------------------------
(* Types                                                                   *)

(* A step of one request keeps the others as they are.                     *)
LEMMA RequestStep ==
  ASSUME TypeOK, RequestsOK, NEW d \in Requests, NEW q \in Request, RequestOK(q),
         request' = [request EXCEPT ![d] = q]
  PROVE  /\ request' \in [Requests -> Request]
         /\ RequestsOK'
BY DEF TypeOK, RequestsOK

(* Responding, going on and finding out are such steps.                    *)
LEMMA RespondStep ==
  ASSUME TypeOK, RequestsOK, NEW d \in Requests, Respond(d)
  PROVE  request' \in [Requests -> Request] /\ RequestsOK'
BY IdleRequestTyped, RequestStep DEF Respond

LEMMA GotoStep ==
  ASSUME TypeOK, RequestsOK, NEW d \in Requests,
         NEW pc \in {"commit", "owner", "email", "create", "identifier", "store"},
         Goto(d, pc), request[d].pc # "idle",
         pc = "commit" \/ request[d].commit \in Commits
  PROVE  request' \in [Requests -> Request] /\ RequestsOK'
<1>. DEFINE q == [request[d] EXCEPT !.pc = pc]
<1>1. q \in Request
  BY RequestFacts DEF Request
<1>2. RequestOK(q)
  BY RequestFacts DEF RequestOK, Request
<1>3. request' = [request EXCEPT ![d] = q]
  BY DEF Goto
<1>. QED BY <1>1, <1>2, <1>3, RequestStep

LEMMA ResolveStep ==
  ASSUME TypeOK, RequestsOK, NEW d \in Requests, NEW u \in Accounts \cup {NULL},
         Resolve(d, u), request[d].pc # "idle", request[d].commit \in Commits
  PROVE  request' \in [Requests -> Request] /\ RequestsOK'
<1>. DEFINE q == [request[d] EXCEPT !.user = u, !.pc = "store"]
<1>1. q \in Request
  BY RequestFacts DEF Request
<1>2. RequestOK(q)
  BY RequestFacts DEF RequestOK, Request
<1>3. request' = [request EXCEPT ![d] = q]
  BY DEF Resolve
<1>. QED BY <1>1, <1>2, <1>3, RequestStep

(* Every step keeps the types and what a request holds.                    *)
LEMMA TypesStep ==
  ASSUME IntakeInv, [Next]_vars
  PROVE  TypeOK' /\ RequestsOK'
<1>0. TypeOK /\ RequestsOK
  BY DEF IntakeInv
<1>1. ASSUME NEW d \in Requests, NEW p \in Pushes, Receive(d, p)
      PROVE  TypeOK' /\ RequestsOK'
  <2>. DEFINE q == [request[d] EXCEPT !.pc = "project", !.push = p, !.todo = p.commits]
  <2>1. q \in Request
    BY <1>0, RequestFacts, PushFacts DEF Request
  <2>2. RequestOK(q)
    BY <1>0, RequestFacts DEF RequestOK, Request
  <2>3. request' = [request EXCEPT ![d] = q]
    BY <1>1 DEF Receive
  <2>4. request' \in [Requests -> Request] /\ RequestsOK'
    BY <1>0, <2>1, <2>2, <2>3, RequestStep
  <2>. QED BY <1>0, <1>1, <2>4 DEF Receive, TypeOK, tables, users
<1>2. ASSUME NEW d \in Requests, UpsertProject(d)
      PROVE  TypeOK' /\ RequestsOK'
  <2>1. request[d].pc = "project" /\ request[d].push \in Pushes
    BY <1>0, <1>2, RequestFacts DEF UpsertProject, At, RequestOK
  <2>2. Goto(d, "commit") \/ Respond(d)
    BY <1>2 DEF UpsertProject
  <2>3. request' \in [Requests -> Request] /\ RequestsOK'
    BY <1>0, <2>1, <2>2, GotoStep, RespondStep
  <2>4. projects' \in [Repos -> Project \cup {NULL}]
    BY <1>0, <1>2, <2>1, PushFacts DEF UpsertProject, TypeOK, Project
  <2>. QED BY <1>0, <1>2, <2>3, <2>4 DEF UpsertProject, TypeOK, users
<1>3. ASSUME NEW d \in Requests, NEW c \in Commits, NextCommit(d, c)
      PROVE  TypeOK' /\ RequestsOK'
  <2>1. PICK pc \in {"owner", "commit"} :
          request' = [request EXCEPT ![d].todo = @ \ {c}, ![d].commit = c, ![d].pc = pc]
    BY <1>3 DEF NextCommit
  <2>. DEFINE q == [request[d] EXCEPT !.todo = @ \ {c}, !.commit = c, !.pc = pc]
  <2>2. q \in Request
    BY <1>0, RequestFacts DEF Request
  <2>3. RequestOK(q)
    BY <1>0, <1>3, RequestFacts DEF RequestOK, Request, NextCommit, At
  <2>4. request' = [request EXCEPT ![d] = q]
    BY <2>1
  <2>5. request' \in [Requests -> Request] /\ RequestsOK'
    BY <1>0, <2>2, <2>3, <2>4, RequestStep
  <2>. QED BY <1>0, <1>3, <2>5 DEF NextCommit, TypeOK, tables, users
<1>4. ASSUME NEW d \in Requests, FindOwner(d)
      PROVE  TypeOK' /\ RequestsOK'
  <2>1. request[d].pc = "owner" /\ request[d].commit \in Commits /\ Owner(d) \in Accounts
    BY <1>0, <1>4, RequestFacts DEF FindOwner, At
  <2>2. request' \in [Requests -> Request] /\ RequestsOK'
    BY <1>0, <1>4, <2>1, GotoStep, ResolveStep DEF FindOwner
  <2>. QED BY <1>0, <1>4, <2>2 DEF FindOwner, TypeOK, tables, users
<1>5. ASSUME NEW d \in Requests, FindEmail(d)
      PROVE  TypeOK' /\ RequestsOK'
  <2>1. /\ request[d].pc = "email" /\ request[d].commit \in Commits
        /\ identifiers[Email(d)] \in Accounts \cup {NULL}
    BY <1>0, <1>5, RequestFacts DEF FindEmail, At, TypeOK
  <2>2. \/ \E u \in Accounts \cup {NULL} : Resolve(d, u)
        \/ Goto(d, "create")
    BY <1>5, <2>1 DEF FindEmail
  <2>3. request' \in [Requests -> Request] /\ RequestsOK'
    BY <1>0, <2>1, <2>2, GotoStep, ResolveStep
  <2>. QED BY <1>0, <1>5, <2>3 DEF FindEmail, TypeOK, tables, users
<1>6. ASSUME NEW d \in Requests, CreateUser(d)
      PROVE  TypeOK' /\ RequestsOK'
  <2>1. request[d].pc = "create" /\ request[d].commit \in Commits /\ Owner(d) \in Accounts
    BY <1>0, <1>6, RequestFacts DEF CreateUser, At
  <2>. DEFINE q == [request[d] EXCEPT !.user = Owner(d), !.pc = "identifier"]
  <2>2. q \in Request
    BY <1>0, <2>1, RequestFacts DEF Request
  <2>3. RequestOK(q)
    BY <1>0, <2>1, RequestFacts DEF RequestOK, Request
  <2>4. request' = [request EXCEPT ![d] = q] \/ Goto(d, "commit")
    BY <1>6 DEF CreateUser, Skip
  <2>5. request' \in [Requests -> Request] /\ RequestsOK'
    BY <1>0, <2>1, <2>2, <2>3, <2>4, RequestStep, GotoStep
  <2>6. accounts' \subseteq Accounts
    BY <1>0, <1>6, <2>1 DEF CreateUser, TypeOK
  <2>. QED BY <1>0, <1>6, <2>5, <2>6 DEF CreateUser, TypeOK
<1>7. ASSUME NEW d \in Requests, AddIdentifier(d)
      PROVE  TypeOK' /\ RequestsOK'
  <2>1. /\ request[d].pc = "identifier" /\ request[d].commit \in Commits
        /\ request[d].user \in Accounts \cup {NULL}
    BY <1>0, <1>7, RequestFacts DEF AddIdentifier, At, Request
  <2>2. request' \in [Requests -> Request] /\ RequestsOK'
    BY <1>0, <1>7, <2>1, GotoStep DEF AddIdentifier
  <2>3. identifiers' \in [Emails -> Accounts \cup {NULL}]
    BY <1>0, <1>7, <2>1 DEF AddIdentifier, TypeOK
  <2>. QED BY <1>0, <1>7, <2>2, <2>3 DEF AddIdentifier, TypeOK
<1>8. ASSUME NEW d \in Requests, StoreCommit(d)
      PROVE  TypeOK' /\ RequestsOK'
  <2>1. /\ request[d].pc = "store" /\ request[d].commit \in Commits
        /\ request[d].user \in Accounts \cup {NULL} /\ Repo(d) \in Repos
    BY <1>0, <1>8, RequestFacts DEF StoreCommit, At, Request
  <2>. DEFINE q == [request[d] EXCEPT !.pc = "commit", !.created = @ \cup {request[d].commit}]
  <2>2. q \in Request
    BY <1>0, <2>1, RequestFacts DEF Request
  <2>3. RequestOK(q)
    BY <1>0, <2>1, RequestFacts DEF RequestOK, Request
  <2>4. request' = [request EXCEPT ![d] = q] \/ Goto(d, "commit")
    BY <1>8 DEF StoreCommit, Skip
  <2>5. request' \in [Requests -> Request] /\ RequestsOK'
    BY <1>0, <2>1, <2>2, <2>3, <2>4, RequestStep, GotoStep
  <2>. DEFINE row == [repo |-> Repo(d), user |-> request[d].user, placed |-> FALSE]
  <2>6. row \in Row
    BY <2>1 DEF Row
  <2>7. rows' = [rows EXCEPT ![request[d].commit] = row] \/ rows' = rows
    BY <1>8 DEF StoreCommit
  <2>8. rows' \in [Commits -> Row \cup {NULL}]
    BY <1>0, <2>6, <2>7 DEF TypeOK
  <2>. QED BY <1>0, <1>8, <2>5, <2>8 DEF StoreCommit, TypeOK, users
<1>9. ASSUME NEW d \in Requests, Schedule(d)
      PROVE  TypeOK' /\ RequestsOK'
  <2>1. request' \in [Requests -> Request] /\ RequestsOK'
    BY <1>0, <1>9, RespondStep DEF Schedule
  <2>2. request[d].created \in SUBSET Commits /\ Repo(d) \in Repos
    BY <1>0, <1>9, RequestFacts DEF Schedule, At, Request
  <2>. DEFINE task(pc) == [pc |-> pc, repo |-> Repo(d), todo |-> request[d].created,
                           analysed |-> FALSE]
  <2>3. tasks' = tasks \/ tasks' = tasks \cup {task("scan")} \/ tasks' = tasks \cup {task("score")}
    BY <1>9 DEF Schedule
  <2>4. task("scan") \in Task /\ task("score") \in Task
    BY <2>2 DEF Task
  <2>5. tasks' \subseteq Task
    BY <1>0, <2>3, <2>4 DEF TypeOK
  <2>. QED BY <1>0, <1>9, <2>1, <2>5 DEF Schedule, TypeOK, tables, users
<1>10. ASSUME NEW t \in tasks, ScanSucceeds(t)
       PROVE  TypeOK' /\ RequestsOK'
  <2>1. t \in Task
    BY <1>0 DEF TypeOK
  <2>2. \A positive \in BOOLEAN : [t EXCEPT !.pc = "score", !.analysed = positive] \in Task
    BY <2>1 DEF Task
  <2>3. tasks' \subseteq Task
    BY <1>0, <1>10, <2>2 DEF ScanSucceeds, TypeOK
  <2>4. boards' \in [Repos -> {"none", "plain", "analysed"}]
    BY <1>0, <1>10 DEF ScanSucceeds, TypeOK, Analysed
  <2>. QED BY <1>0, <1>10, <2>3, <2>4 DEF ScanSucceeds, TypeOK, users, RequestsOK
<1>11. ASSUME NEW t \in tasks, ScanFails(t) \/ TimesOut(t)
       PROVE  TypeOK' /\ RequestsOK'
  BY <1>0, <1>11 DEF ScanFails, TimesOut, TypeOK, tables, users, RequestsOK
<1>12. ASSUME NEW t \in tasks, NEW c \in Commits, AddCommit(t, c)
       PROVE  TypeOK' /\ RequestsOK'
  <2>1. t \in Task /\ rows[c] \in Row
    BY <1>0, <1>12 DEF TypeOK, AddCommit, IntakeInv, WaitsOnce, WaitsUnhanded, Stored
  <2>2. [t EXCEPT !.todo = @ \ {c}] \in Task
    BY <2>1 DEF Task
  <2>3. tasks' \subseteq Task
    BY <1>0, <1>12, <2>2 DEF AddCommit, TypeOK
  <2>4. [rows[c] EXCEPT !.placed = TRUE] \in Row
    BY <2>1 DEF Row
  <2>5. rows' \in [Commits -> Row \cup {NULL}]
    BY <1>0, <1>12, <2>4 DEF AddCommit, TypeOK
  <2>6. boards' \in [Repos -> {"none", "plain", "analysed"}]
    BY <1>0, <1>12 DEF AddCommit, TypeOK, Credited
  <2>7. handed' \in [Commits -> Nat]
    BY <1>0, <1>12 DEF AddCommit, TypeOK
  <2>. QED BY <1>0, <1>12, <2>3, <2>5, <2>6, <2>7 DEF AddCommit, TypeOK, users, RequestsOK
<1>13. ASSUME NEW u \in SignUps, NEW verified \in SUBSET MailsOf[u],
              Login(u, verified) \/ LoginConflicts(u, verified)
       PROVE  TypeOK' /\ RequestsOK'
  <2>1. u \in Accounts /\ verified \in SUBSET Emails
    BY IngestAssumption
  <2>2. HoldersOf(verified) \subseteq Accounts
    BY <1>0, <2>1 DEF HoldersOf, TypeOK
  <2>3. LoginUser(u, verified) \in Accounts
    BY <1>0, <2>1, <2>2 DEF LoginUser, TypeOK
  <2>4. CASE Login(u, verified)
    <3>1. accounts' \subseteq Accounts /\ logins' \in [SignUps -> Accounts \cup {NULL}]
      BY <1>0, <2>3, <2>4 DEF Login, TypeOK
    <3>2. identifiers' \in [Emails -> Accounts \cup {NULL}]
      BY <1>0, <2>3, <2>4 DEF Login, TypeOK
    <3>3. claims' \subseteq Claim
      BY <1>0, <2>1, <2>3, <2>4 DEF Login, TypeOK, Claim
    <3>. QED BY <1>0, <2>4, <3>1, <3>2, <3>3 DEF Login, TypeOK, RequestsOK
  <2>5. CASE LoginConflicts(u, verified)
    <3>1. identifiers' \in [Emails -> Accounts \cup {NULL}]
      BY <1>0, <2>5 DEF LoginConflicts, TypeOK
    <3>. QED BY <1>0, <2>5, <3>1 DEF LoginConflicts, TypeOK, RequestsOK
  <2>. QED BY <1>13, <2>4, <2>5
<1>14. ASSUME NEW k \in claims, ClaimOrphanCommits(k)
       PROVE  TypeOK' /\ RequestsOK'
  <2>1. k.user \in Accounts
    BY <1>0 DEF TypeOK, Claim
  <2>2. \A c \in Commits : rows[c] # NULL => [rows[c] EXCEPT !.user = k.user] \in Row
    BY <1>0, <2>1 DEF TypeOK, Row
  <2>3. rows' \in [Commits -> Row \cup {NULL}]
    BY <1>0, <1>14, <2>2 DEF ClaimOrphanCommits, TypeOK
  <2>. QED BY <1>0, <1>14, <2>3 DEF ClaimOrphanCommits, TypeOK, users, RequestsOK
<1>15. ASSUME Crash
       PROVE  TypeOK' /\ RequestsOK'
  BY <1>0, <1>15, IdleRequestTyped DEF Crash, TypeOK, tables, users, RequestsOK
<1>16. ASSUME UNCHANGED vars
       PROVE  TypeOK' /\ RequestsOK'
  BY <1>0, <1>16 DEF vars, tables, users, TypeOK, RequestsOK
<1>. QED BY <1>1, <1>2, <1>3, <1>4, <1>5, <1>6, <1>7, <1>8, <1>9, <1>10, <1>11, <1>12,
            <1>13, <1>14, <1>15, <1>16 DEF Next, Handle, Work

(* At first nothing is stored, nothing waits and no request is there.      *)
LEMMA InitIntake == Init => IntakeInv
<1>. SUFFICES ASSUME Init PROVE IntakeInv
  OBVIOUS
<1>1. TypeOK
  BY IdleRequestTyped DEF Init, TypeOK
<1>2. RequestsOK
  BY IdleRequestTyped DEF Init, RequestsOK
<1>3. WaitsOnce
  BY IdleRequestTyped DEF Init, WaitsOnce, HandedOnce
<1>. QED BY <1>1, <1>2, <1>3 DEF IntakeInv

-----------------------------------------------------------------------------
(* Waiting                                                                 *)

(* Forgetting keeps the rest waiting once.                                 *)
LEMMA QuietWaits ==
  ASSUME IntakeInv, Quiet
  PROVE  WaitsOnce'
BY DEF IntakeInv, Quiet, WaitsOnce, WaitsUnhanded, HandedOnce

(* A change of one request that is not to what it created is quiet.        *)
LEMMA QuietRequest ==
  ASSUME TypeOK, NEW d \in Requests, NEW q,
         request' = [request EXCEPT ![d] = q], q.created \subseteq request[d].created,
         Stored' = Stored, handed' = handed, tasks' \subseteq tasks
  PROVE  Quiet
BY DEF TypeOK, Quiet

LEMMA QuietGoto ==
  ASSUME TypeOK, NEW d \in Requests, NEW pc, Goto(d, pc) \/ Respond(d),
         Stored' = Stored, handed' = handed, tasks' \subseteq tasks
  PROVE  Quiet
<1>1. CASE Goto(d, pc)
  <2>1. request[d] \in Request
    BY DEF TypeOK
  <2>2. request' = [request EXCEPT ![d] = [request[d] EXCEPT !.pc = pc]]
    BY <1>1 DEF Goto
  <2>3. [request[d] EXCEPT !.pc = pc].created = request[d].created
    BY <2>1 DEF Request
  <2>. QED BY <2>2, <2>3, QuietRequest
<1>2. CASE Respond(d)
  BY <1>2, IdleRequestTyped, QuietRequest DEF Respond
<1>. QED BY <1>1, <1>2

(* The set of rows is what it was unless a row appears.                    *)
LEMMA SameRows ==
  ASSUME rows' = rows
  PROVE  Stored' = Stored
BY DEF Stored

(* Everything but storing, scheduling, a scan that ends well and AddCommit *)
(* is quiet.                                                               *)
LEMMA QuietSteps ==
  ASSUME IntakeInv,
         \/ \E d \in Requests :
              \/ \E p \in Pushes : Receive(d, p)
              \/ \E c \in Commits : NextCommit(d, c)
              \/ UpsertProject(d) \/ FindOwner(d) \/ FindEmail(d)
              \/ CreateUser(d) \/ AddIdentifier(d)
         \/ \E t \in tasks : ScanFails(t) \/ TimesOut(t)
         \/ \E u \in SignUps : \E verified \in SUBSET MailsOf[u] :
              Login(u, verified) \/ LoginConflicts(u, verified)
         \/ \E k \in claims : ClaimOrphanCommits(k)
         \/ Crash
         \/ UNCHANGED vars
  PROVE  Quiet
<1>0. TypeOK /\ \A d \in Requests : request[d] \in Request
  BY DEF IntakeInv, TypeOK
<1>1. ASSUME NEW d \in Requests, NEW p \in Pushes, Receive(d, p) PROVE Quiet
  <2>. DEFINE q == [request[d] EXCEPT !.pc = "project", !.push = p, !.todo = p.commits]
  <2>1. request' = [request EXCEPT ![d] = q] /\ q.created = request[d].created
    BY <1>0, <1>1 DEF Receive, Request
  <2>. QED BY <1>0, <1>1, <2>1, QuietRequest, SameRows DEF Receive, tables
<1>2. ASSUME NEW d \in Requests, NEW c \in Commits, NextCommit(d, c) PROVE Quiet
  <2>1. PICK pc \in {"owner", "commit"} :
          request' = [request EXCEPT ![d].todo = @ \ {c}, ![d].commit = c, ![d].pc = pc]
    BY <1>2 DEF NextCommit
  <2>. DEFINE q == [request[d] EXCEPT !.todo = @ \ {c}, !.commit = c, !.pc = pc]
  <2>2. request' = [request EXCEPT ![d] = q] /\ q.created = request[d].created
    BY <1>0, <2>1 DEF Request
  <2>. QED BY <1>0, <1>2, <2>2, QuietRequest, SameRows DEF NextCommit, tables
<1>3. ASSUME NEW d \in Requests, NEW u, Resolve(d, u), UNCHANGED <<rows, tasks, handed>>
      PROVE  Quiet
  <2>. DEFINE q == [request[d] EXCEPT !.user = u, !.pc = "store"]
  <2>1. request' = [request EXCEPT ![d] = q] /\ q.created = request[d].created
    BY <1>0, <1>3 DEF Resolve, Request
  <2>. QED BY <1>0, <1>3, <2>1, QuietRequest, SameRows
<1>4. ASSUME NEW d \in Requests, UpsertProject(d) PROVE Quiet
  BY <1>0, <1>4, QuietGoto, SameRows DEF UpsertProject
<1>5. ASSUME NEW d \in Requests, FindOwner(d) PROVE Quiet
  BY <1>0, <1>3, <1>5, QuietGoto, SameRows DEF FindOwner, tables
<1>6. ASSUME NEW d \in Requests, FindEmail(d) PROVE Quiet
  BY <1>0, <1>3, <1>6, QuietGoto, SameRows DEF FindEmail, tables
<1>7. ASSUME NEW d \in Requests, CreateUser(d) PROVE Quiet
  <2>. DEFINE q == [request[d] EXCEPT !.user = Owner(d), !.pc = "identifier"]
  <2>1. request' = [request EXCEPT ![d] = q] \/ Goto(d, "commit")
    BY <1>7 DEF CreateUser, Skip
  <2>2. q.created = request[d].created
    BY <1>0 DEF Request
  <2>. QED BY <1>0, <1>7, <2>1, <2>2, QuietRequest, QuietGoto, SameRows DEF CreateUser
<1>8. ASSUME NEW d \in Requests, AddIdentifier(d) PROVE Quiet
  BY <1>0, <1>8, QuietGoto, SameRows DEF AddIdentifier
<1>9. ASSUME NEW t \in tasks, ScanFails(t) \/ TimesOut(t) PROVE Quiet
  BY <1>9, SameRows DEF ScanFails, TimesOut, tables, Quiet
<1>10. ASSUME NEW u \in SignUps, NEW verified \in SUBSET MailsOf[u],
              Login(u, verified) \/ LoginConflicts(u, verified)
       PROVE  Quiet
  BY <1>10, SameRows DEF Login, LoginConflicts, Quiet
<1>11. ASSUME NEW k \in claims, ClaimOrphanCommits(k) PROVE Quiet
  <2>1. \A c \in Commits : rows[c] # NULL => [rows[c] EXCEPT !.user = k.user] \in Row
    BY <1>0 DEF TypeOK, Row, Claim
  <2>2. \A c \in Commits : rows'[c] # NULL <=> rows[c] # NULL
    BY <1>0, <1>11, <2>1, NullAssumption DEF ClaimOrphanCommits
  <2>. QED BY <1>11, <2>2 DEF ClaimOrphanCommits, Stored, Quiet
<1>12. ASSUME Crash PROVE Quiet
  BY <1>12, IdleRequestTyped, SameRows DEF Crash, tables, Quiet
<1>13. ASSUME UNCHANGED vars PROVE Quiet
  BY <1>13, SameRows DEF vars, tables, Quiet
<1>. QED BY <1>1, <1>2, <1>4, <1>5, <1>6, <1>7, <1>8, <1>9, <1>10, <1>11, <1>12, <1>13

(* The insert appends its commit to the created ones, or is quiet but for  *)
(* the row it leaves.                                                      *)
LEMMA StoreShape ==
  ASSUME IntakeInv, NEW d \in Requests, StoreCommit(d)
  PROVE  \/ Quiet
         \/ \E c \in Commits \ Stored :
              /\ Stored' = Stored \cup {c}
              /\ handed' = handed /\ tasks' = tasks
              /\ \A e \in Requests \ {d} : request'[e] = request[e]
              /\ request'[d].created \in {request[d].created, request[d].created \cup {c}}
<1>0. TypeOK /\ request[d] \in Request
  BY DEF IntakeInv, TypeOK
<1>1. request[d].commit \in Commits /\ request[d].user \in Accounts \cup {NULL} /\ Repo(d) \in Repos
  BY RequestFacts DEF IntakeInv, StoreCommit, At, Request
<1>. DEFINE c == request[d].commit
            row == [repo |-> Repo(d), user |-> request[d].user, placed |-> FALSE]
            q == [request[d] EXCEPT !.pc = "commit", !.created = @ \cup {c}]
<1>2. CASE Skip(d) /\ UNCHANGED rows
  BY <1>0, <1>2, QuietGoto, SameRows DEF StoreCommit, Skip
<1>3. CASE rows[c] = NULL /\ rows' = [rows EXCEPT ![c] = row]
  <2>0. row \in Row
    BY <1>1 DEF Row
  <2>1. row # NULL
    BY <2>0, NullAssumption
  <2>2. c \in Commits \ Stored /\ Stored' = Stored \cup {c}
    BY <1>0, <1>1, <1>3, <2>1 DEF Stored, TypeOK
  <2>3. CASE request' = [request EXCEPT ![d] = q]
    BY <1>0, <2>2, <2>3 DEF StoreCommit, TypeOK, Request
  <2>4. CASE Skip(d)
    <3>1. request' = [request EXCEPT ![d] = [request[d] EXCEPT !.pc = "commit"]]
      BY <2>4 DEF Skip, Goto
    <3>. QED BY <1>0, <2>2, <3>1 DEF StoreCommit, TypeOK, Request
  <2>. QED BY <2>3, <2>4 DEF StoreCommit
<1>. QED BY <1>2, <1>3 DEF StoreCommit

(* Scheduling moves what a request created into a new goroutine.           *)
LEMMA ScheduleShape ==
  ASSUME IntakeInv, NEW d \in Requests, Schedule(d)
  PROVE  /\ Stored' = Stored /\ handed' = handed
         /\ \A e \in Requests \ {d} : request'[e] = request[e]
         /\ request'[d].created = {}
         /\ \/ request[d].created = {} /\ tasks' = tasks
            \/ \E t \in Task : t.todo = request[d].created /\ tasks' = tasks \cup {t}
<1>0. TypeOK /\ request[d] \in Request /\ Repo(d) \in Repos
  BY RequestFacts DEF IntakeInv, TypeOK, Schedule, At
<1>1. Stored' = Stored /\ handed' = handed
  BY SameRows DEF Schedule, tables
<1>2. (\A e \in Requests \ {d} : request'[e] = request[e]) /\ request'[d].created = {}
  BY <1>0, IdleRequestTyped DEF Schedule, Respond, TypeOK
<1>. DEFINE task(pc) == [pc |-> pc, repo |-> Repo(d), todo |-> request[d].created,
                         analysed |-> FALSE]
<1>3. \/ request[d].created = {} /\ tasks' = tasks
      \/ tasks' = tasks \cup {task("scan")} \/ tasks' = tasks \cup {task("score")}
  BY DEF Schedule
<1>4. \A pc \in {"scan", "score"} : task(pc) \in Task /\ task(pc).todo = request[d].created
  BY <1>0 DEF Task, Request
<1>. QED BY <1>1, <1>2, <1>3, <1>4

(* A scan that ends well leaves its goroutine with the same commits.       *)
LEMMA ScanShape ==
  ASSUME IntakeInv, NEW t \in tasks, ScanSucceeds(t)
  PROVE  /\ Stored' = Stored /\ handed' = handed /\ request' = request
         /\ \E s \in Task : s.todo = t.todo /\ tasks' = (tasks \ {t}) \cup {s}
<1>1. t \in Task
  BY DEF IntakeInv, TypeOK
<1>2. \A b \in BOOLEAN : [t EXCEPT !.pc = "score", !.analysed = b] \in Task
                       /\ [t EXCEPT !.pc = "score", !.analysed = b].todo = t.todo
  BY <1>1 DEF Task
<1>. QED BY <1>2, SameRows DEF ScanSucceeds

(* AddCommit takes one commit off its goroutine's list.                    *)
LEMMA AddCommitShape ==
  ASSUME IntakeInv, NEW t \in tasks, NEW c \in Commits, AddCommit(t, c)
  PROVE  /\ c \in t.todo
         /\ Stored' = Stored /\ request' = request
         /\ handed' = [handed EXCEPT ![c] = @ + 1]
         /\ \/ t.todo = {c} /\ tasks' = tasks \ {t}
            \/ \E s \in Task : s.todo = t.todo \ {c} /\ tasks' = (tasks \ {t}) \cup {s}
<1>1. t \in Task /\ rows[c] \in Row
  BY DEF IntakeInv, TypeOK, AddCommit, WaitsOnce, WaitsUnhanded, Stored
<1>2. [rows[c] EXCEPT !.placed = TRUE] \in Row
  BY <1>1 DEF Row
<1>3. Stored' = Stored
  BY <1>1, <1>2, NullAssumption DEF IntakeInv, TypeOK, AddCommit, Stored
<1>4. [t EXCEPT !.todo = @ \ {c}] \in Task /\ [t EXCEPT !.todo = @ \ {c}].todo = t.todo \ {c}
  BY <1>1 DEF Task
<1>. QED BY <1>3, <1>4 DEF AddCommit

-----------------------------------------------------------------------------
(* Each step keeps what waits in order and is a step of the intake.        *)

LEMMA WaitsStep ==
  ASSUME IntakeInv, [Next]_vars
  PROVE  WaitsOnce'
<1>0. TypeOK /\ WaitsOnce
  BY DEF IntakeInv
<1>1. CASE Quiet
  BY <1>1, QuietWaits
<1>2. ASSUME NEW d \in Requests, StoreCommit(d), ~Quiet PROVE WaitsOnce'
  <2>1. PICK c \in Commits \ Stored :
          /\ Stored' = Stored \cup {c}
          /\ handed' = handed /\ tasks' = tasks
          /\ \A e \in Requests \ {d} : request'[e] = request[e]
          /\ request'[d].created \in {request[d].created, request[d].created \cup {c}}
    BY <1>2, StoreShape
  <2>2. handed[c] = 0
    BY <1>0 DEF WaitsOnce
  <2>3. /\ \A e \in Requests : c \notin request[e].created
        /\ \A t \in tasks : c \notin t.todo
    BY <1>0 DEF WaitsOnce, WaitsUnhanded
  <2>. QED BY <1>0, <2>1, <2>2, <2>3 DEF WaitsOnce, WaitsUnhanded, HandedOnce
<1>3. ASSUME NEW d \in Requests, Schedule(d) PROVE WaitsOnce'
  <2>1. CASE tasks' = tasks
    BY <1>0, <1>3, <2>1, ScheduleShape DEF WaitsOnce, WaitsUnhanded, HandedOnce
  <2>2. ASSUME NEW t \in Task, t.todo = request[d].created, tasks' = tasks \cup {t}
        PROVE  WaitsOnce'
    BY <1>0, <1>3, <2>2, ScheduleShape DEF WaitsOnce, WaitsUnhanded, HandedOnce
  <2>. QED BY <1>3, <2>1, <2>2, ScheduleShape
<1>4. ASSUME NEW t \in tasks, ScanSucceeds(t) PROVE WaitsOnce'
  <2>1. PICK s \in Task : s.todo = t.todo /\ tasks' = (tasks \ {t}) \cup {s}
    BY <1>4, ScanShape
  <2>. QED BY <1>0, <1>4, <2>1, ScanShape DEF WaitsOnce, WaitsUnhanded, HandedOnce
<1>5. ASSUME NEW t \in tasks, NEW c \in Commits, AddCommit(t, c) PROVE WaitsOnce'
  <2>1. /\ c \in t.todo /\ Stored' = Stored /\ request' = request
        /\ handed' = [handed EXCEPT ![c] = @ + 1]
    BY <1>5, AddCommitShape
  <2>2. handed[c] = 0 /\ c \in Stored
    BY <1>0, <2>1 DEF WaitsOnce, WaitsUnhanded
  <2>3. handed'[c] = 1 /\ \A e \in Commits \ {c} : handed'[e] = handed[e]
    BY <1>0, <2>1, <2>2 DEF TypeOK
  <2>4. (\A e \in Commits : e \notin Stored' => handed'[e] = 0) /\ HandedOnce'
    BY <1>0, <2>1, <2>2, <2>3 DEF WaitsOnce, HandedOnce
  <2>5. \A s \in tasks' : c \notin s.todo
    <3>1. CASE tasks' = tasks \ {t}
      BY <1>0, <2>1, <3>1 DEF WaitsOnce
    <3>2. ASSUME NEW s \in Task, s.todo = t.todo \ {c}, tasks' = (tasks \ {t}) \cup {s}
          PROVE  \A r \in tasks' : c \notin r.todo
      BY <1>0, <2>1, <3>2 DEF WaitsOnce
    <3>. QED BY <1>5, <3>1, <3>2, AddCommitShape
  <2>6. \A d \in Requests : c \notin request[d].created
    BY <1>0, <2>1 DEF WaitsOnce
  <2>7. \A s \in tasks' : s \in tasks \ {t} \/ s.todo = t.todo \ {c}
    <3>1. CASE tasks' = tasks \ {t}
      BY <3>1
    <3>2. ASSUME NEW s \in Task, s.todo = t.todo \ {c}, tasks' = (tasks \ {t}) \cup {s}
          PROVE  \A r \in tasks' : r \in tasks \ {t} \/ r.todo = t.todo \ {c}
      BY <3>2
    <3>. QED BY <1>5, <3>1, <3>2, AddCommitShape
  <2>8. /\ \A d \in Requests : \A e \in request'[d].created : WaitsUnhanded(e)'
        /\ \A s \in tasks' : \A e \in s.todo : WaitsUnhanded(e)'
    BY <1>0, <2>1, <2>3, <2>5, <2>6, <2>7 DEF WaitsOnce, WaitsUnhanded, Stored
  <2>9. \A r, s \in tasks' : r # s => r.todo \cap s.todo = {}
    <3>1. CASE tasks' = tasks \ {t}
      BY <1>0, <3>1 DEF WaitsOnce
    <3>2. ASSUME NEW n \in Task, n.todo = t.todo \ {c}, tasks' = (tasks \ {t}) \cup {n}
          PROVE  \A r, s \in tasks' : r # s => r.todo \cap s.todo = {}
      BY <1>0, <3>2 DEF WaitsOnce
    <3>. QED BY <1>5, <3>1, <3>2, AddCommitShape
  <2>10. \A d \in Requests, s \in tasks' : request'[d].created \cap s.todo = {}
    BY <1>0, <2>1, <2>7 DEF WaitsOnce
  <2>. QED BY <1>0, <2>1, <2>4, <2>8, <2>9, <2>10 DEF WaitsOnce
<1>. QED BY <1>1, <1>2, <1>3, <1>4, <1>5, QuietSteps DEF Next, Handle, Work, IntakeInv

(* The intake invariant holds in every reachable state.                    *)
LEMMA AlwaysIntake == Spec => []IntakeInv
<1>1. IntakeInv /\ [Next]_vars => IntakeInv'
  BY TypesStep, WaitsStep DEF IntakeInv
<1>. QED BY <1>1, InitIntake, PTL DEF Spec

(* TypeOK: accounts, rows, requests and goroutines keep their types.       *)
THEOREM IngestTyped == Spec => []TypeOK
<1>1. IntakeInv => TypeOK
  BY DEF IntakeInv
<1>. QED BY <1>1, AlwaysIntake, PTL

(* HandedOnce: whatever overlaps, fails or is delivered again, no commit   *)
(* is handed to AddCommit twice.                                           *)
THEOREM NeverHandedTwice == Spec => []HandedOnce
<1>1. IntakeInv => HandedOnce
  BY DEF IntakeInv, WaitsOnce
<1>. QED BY <1>1, AlwaysIntake, PTL

-----------------------------------------------------------------------------
(* The intake                                                              *)

(* Forgetting is Lose.                                                     *)
LEMMA QuietLoses ==
  ASSUME Quiet
  PROVE  Intake!Lose
<1>1. Waiting' \subseteq Waiting
  BY DEF Quiet, Waiting
<1>. QED BY <1>1 DEF Quiet, Intake!Lose

(* Every step of the webhook is a step of the intake or changes nothing    *)
(* that the intake sees.                                                   *)
LEMMA IntakeStep ==
  ASSUME IntakeInv, [Next]_vars
  PROVE  [Intake!Next]_(Intake!vars)
<1>0. TypeOK /\ WaitsOnce
  BY DEF IntakeInv
<1>1. CASE Quiet
  BY <1>1, QuietLoses DEF Intake!Next
<1>2. ASSUME NEW d \in Requests, StoreCommit(d), ~Quiet PROVE Intake!Next
  <2>1. PICK c \in Commits \ Stored :
          /\ Stored' = Stored \cup {c}
          /\ handed' = handed /\ tasks' = tasks
          /\ \A e \in Requests \ {d} : request'[e] = request[e]
          /\ request'[d].created \in {request[d].created, request[d].created \cup {c}}
    BY <1>2, StoreShape
  <2>2. CASE request'[d].created = request[d].created
    <3>1. Waiting' = Waiting
      BY <2>1, <2>2 DEF Waiting
    <3>2. Intake!Store(c)
      BY <2>1, <3>1 DEF Intake!Store
    <3>. QED BY <3>2 DEF Intake!Next
  <2>3. CASE request'[d].created = request[d].created \cup {c}
    <3>1. Waiting' = Waiting \cup {c}
      BY <2>1, <2>3 DEF Waiting
    <3>2. Intake!Store(c)
      BY <2>1, <3>1 DEF Intake!Store
    <3>. QED BY <3>2 DEF Intake!Next
  <2>. QED BY <2>1, <2>2, <2>3
<1>3. ASSUME NEW d \in Requests, Schedule(d) PROVE UNCHANGED Intake!vars
  <2>1. CASE request[d].created = {} /\ tasks' = tasks
    <3>1. Waiting' = Waiting
      BY <1>3, <2>1, ScheduleShape DEF Waiting
    <3>. QED BY <1>3, <3>1, ScheduleShape DEF Intake!vars
  <2>2. ASSUME NEW t \in Task, t.todo = request[d].created, tasks' = tasks \cup {t}
        PROVE  UNCHANGED Intake!vars
    <3>1. Waiting' = Waiting
      BY <1>3, <2>2, ScheduleShape DEF Waiting
    <3>. QED BY <1>3, <3>1, ScheduleShape DEF Intake!vars
  <2>. QED BY <1>3, <2>1, <2>2, ScheduleShape
<1>4. ASSUME NEW t \in tasks, ScanSucceeds(t) PROVE UNCHANGED Intake!vars
  <2>1. PICK s \in Task : s.todo = t.todo /\ tasks' = (tasks \ {t}) \cup {s}
    BY <1>4, ScanShape
  <2>2. Waiting' = Waiting
    BY <1>4, <2>1, ScanShape DEF Waiting
  <2>. QED BY <1>4, <2>2, ScanShape DEF Intake!vars
<1>5. ASSUME NEW t \in tasks, NEW c \in Commits, AddCommit(t, c) PROVE Intake!Next
  <2>1. /\ c \in t.todo /\ Stored' = Stored /\ request' = request
        /\ handed' = [handed EXCEPT ![c] = @ + 1]
    BY <1>5, AddCommitShape
  <2>2. c \in Waiting /\ handed[c] = 0
    BY <1>0, <2>1 DEF Waiting, WaitsOnce, WaitsUnhanded
  <2>3. {e \in Commits : handed[e] > 0}' = {e \in Commits : handed[e] > 0} \cup {c}
    BY <1>0, <2>1, <2>2 DEF TypeOK
  <2>4. ASSUME NEW e
        PROVE  (\E s \in tasks' : e \in s.todo) <=> (\E s \in tasks : e \in s.todo) /\ e # c
    <3>1. CASE t.todo = {c} /\ tasks' = tasks \ {t}
      BY <1>0, <2>1, <3>1 DEF WaitsOnce
    <3>2. ASSUME NEW n \in Task, n.todo = t.todo \ {c}, tasks' = (tasks \ {t}) \cup {n}
          PROVE  (\E s \in tasks' : e \in s.todo) <=> (\E s \in tasks : e \in s.todo) /\ e # c
      BY <1>0, <2>1, <3>2 DEF WaitsOnce
    <3>. QED BY <1>5, <3>1, <3>2, AddCommitShape
  <2>5. \A d \in Requests : c \notin request[d].created
    BY <1>0, <2>1 DEF WaitsOnce
  <2>6. Waiting' = Waiting \ {c}
    BY <2>1, <2>4, <2>5 DEF Waiting
  <2>7. Intake!HandOver(c)
    BY <2>1, <2>2, <2>3, <2>6 DEF Intake!HandOver
  <2>. QED BY <2>7 DEF Intake!Next
<1>. QED BY <1>1, <1>2, <1>3, <1>4, <1>5, QuietSteps DEF Next, Handle, Work

(* IntakeSpec: the queries and goroutines implement the intake that        *)
(* GameScoring starts from, for every instance.                            *)
THEOREM ImplementsIntake == Spec => IntakeSpec
<1>1. Init => Intake!Init
  BY IdleRequestTyped DEF Init, Intake!Init, Stored, Waiting
<1>2. IntakeInv /\ [Next]_vars => [Intake!Next]_(Intake!vars)
  BY IntakeStep
<1>. QED BY <1>1, <1>2, AlwaysIntake, PTL DEF Spec, IntakeSpec, Intake!Spec

-----------------------------------------------------------------------------
(* Attribution                                                             *)

(* Why u may be credited with commit c of repository r.                    *)
Explains(u, r, c) ==
  IF u = NULL THEN r \in OrgRepos
  ELSE u \in accounts /\ u \in {OwnerOf[r], identifiers[EmailOf[c]]}

RowsExplained == \A c \in Stored : Explains(rows[c].user, rows[c].repo, c)

(* A request carries a user it can explain from the lookup to the insert.  *)
Carried(q) ==
  /\ q.pc = "store" => Explains(q.user, q.push.repo, q.commit)
  /\ q.pc = "identifier" => q.user = OwnerOf[q.push.repo] /\ q.user \in accounts

RequestsCarried == \A d \in Requests : Carried(request[d])

(* A claim's addresses are its user's, and addresses and logins lead to    *)
(* accounts there are.                                                     *)
ClaimsOwned ==
  \A k \in claims : k.user \in accounts /\ \A e \in k.emails : identifiers[e] = k.user

HoldersExist ==
  /\ \A e \in Emails : identifiers[e] # NULL => identifiers[e] \in accounts
  /\ \A u \in SignUps : logins[u] # NULL => logins[u] \in accounts

AttributionInv == RowsExplained /\ RequestsCarried /\ ClaimsOwned /\ HoldersExist

(* Accounts stay and an address stays with whoever has it.                 *)
UsersGrow ==
  /\ accounts \subseteq accounts'
  /\ \A e \in Emails : identifiers[e] # NULL => identifiers'[e] = identifiers[e]

LEMMA RowsKept ==
  ASSUME UsersGrow, RowsExplained,
         \A c \in Stored' : /\ c \in Stored /\ rows'[c].user = rows[c].user
                           /\ rows'[c].repo = rows[c].repo
  PROVE  RowsExplained'
BY PushFacts DEF UsersGrow, RowsExplained, Explains, Stored

LEMMA RequestsKept ==
  ASSUME IntakeInv, UsersGrow, RequestsCarried,
         \A d \in Requests : \/ request'[d] = request[d]
                             \/ request'[d].pc \notin {"store", "identifier"}
  PROVE  RequestsCarried'
<1>. SUFFICES ASSUME NEW d \in Requests PROVE Carried(request[d])'
  BY DEF RequestsCarried
<1>1. request[d].pc \in {"store", "identifier"} => request[d].commit \in Commits
  BY DEF IntakeInv, RequestsOK, RequestOK
<1>. QED BY <1>1, PushFacts DEF RequestsCarried, UsersGrow, Carried, Explains

LEMMA ClaimsKept ==
  ASSUME IntakeInv, UsersGrow, ClaimsOwned, claims' \subseteq claims
  PROVE  ClaimsOwned'
<1>1. \A k \in claims : k \in Claim
  BY DEF IntakeInv, TypeOK
<1>2. \A k \in claims : k.emails \subseteq Emails /\ k.user \in Accounts
  BY <1>1 DEF Claim
<1>. QED BY <1>2, PushFacts DEF UsersGrow, ClaimsOwned

LEMMA UnchangedUsersGrow ==
  ASSUME accounts' = accounts, identifiers' = identifiers
  PROVE  UsersGrow
BY DEF UsersGrow

(* Every step keeps attribution explained.                                 *)
LEMMA AttributionStep ==
  ASSUME IntakeInv, IntakeInv', AttributionInv, [Next]_vars
  PROVE  AttributionInv'
<1>0. /\ TypeOK /\ TypeOK' /\ RowsExplained /\ RequestsCarried /\ ClaimsOwned /\ HoldersExist
      /\ \A d \in Requests : request[d] \in Request /\ Carried(request[d])
  BY DEF IntakeInv, AttributionInv, TypeOK, RequestsCarried
<1>1. ASSUME UNCHANGED users, UNCHANGED rows, claims' \subseteq claims, RequestsCarried'
      PROVE  AttributionInv'
  <2>1. UsersGrow /\ HoldersExist'
    BY <1>0, <1>1, UnchangedUsersGrow DEF users, HoldersExist
  <2>2. RowsExplained'
    BY <1>0, <1>1, <2>1, RowsKept, SameRows
  <2>. QED BY <1>0, <1>1, <2>1, <2>2, ClaimsKept DEF AttributionInv
<1>2. ASSUME UNCHANGED <<users, rows, claims>>,
             \A d \in Requests : \/ request'[d] = request[d]
                                 \/ request'[d].pc \notin {"store", "identifier"}
      PROVE  AttributionInv'
  <2>1. UsersGrow
    BY <1>2, UnchangedUsersGrow DEF users
  <2>. QED BY <1>0, <1>1, <1>2, <2>1, RequestsKept
<1>3. ASSUME NEW d \in Requests, NEW pc \in {"commit", "email", "create"}, Goto(d, pc) \/ Respond(d)
      PROVE  \A e \in Requests : \/ request'[e] = request[e]
                                 \/ request'[e].pc \notin {"store", "identifier"}
  BY <1>0, <1>3 DEF Goto, Respond, IdleRequest, TypeOK, Request
<1>4. ASSUME NEW d \in Requests, NEW p \in Pushes, Receive(d, p) PROVE AttributionInv'
  <2>1. \A e \in Requests : \/ request'[e] = request[e]
                            \/ request'[e].pc \notin {"store", "identifier"}
    BY <1>0, <1>4 DEF Receive, TypeOK, Request
  <2>. QED BY <1>2, <1>4, <2>1 DEF Receive, tables
<1>5. ASSUME NEW d \in Requests, UpsertProject(d) PROVE AttributionInv'
  BY <1>2, <1>3, <1>5 DEF UpsertProject
<1>6. ASSUME NEW d \in Requests, NEW c \in Commits, NextCommit(d, c) PROVE AttributionInv'
  <2>1. \A e \in Requests : \/ request'[e] = request[e]
                            \/ request'[e].pc \notin {"store", "identifier"}
    BY <1>0, <1>6 DEF NextCommit, TypeOK, Request
  <2>. QED BY <1>2, <1>6, <2>1 DEF NextCommit, tables
<1>7. ASSUME NEW d \in Requests, Schedule(d) PROVE AttributionInv'
  BY <1>2, <1>3, <1>7 DEF Schedule, tables
<1>8. ASSUME NEW d \in Requests, NEW u, Resolve(d, u), UNCHANGED <<users, rows, claims>>,
             IF u = NULL THEN Repo(d) \in OrgRepos
             ELSE u \in accounts /\ u \in {Owner(d), identifiers[Email(d)]}
      PROVE  AttributionInv'
  <2>. DEFINE q == [request[d] EXCEPT !.user = u, !.pc = "store"]
  <2>1. request' = [request EXCEPT ![d] = q]
    BY <1>0, <1>8 DEF Resolve
  <2>2. q.pc = "store" /\ q.user = u /\ q.push = request[d].push /\ q.commit = request[d].commit
    BY <1>0 DEF Request
  <2>3. request'[d] = q /\ \A e \in Requests \ {d} : request'[e] = request[e]
    BY <1>0, <2>1 DEF TypeOK
  <2>4. ASSUME NEW e \in Requests PROVE Carried(request[e])'
    <3>1. CASE e = d
      BY <1>8, <2>2, <2>3, <3>1 DEF Carried, Explains, Repo, Owner, Email, users
    <3>2. CASE e # d
      BY <1>0, <1>8, <2>3, <3>2 DEF Carried, Explains, users
    <3>. QED BY <3>1, <3>2
  <2>. QED BY <1>1, <1>8, <2>4 DEF RequestsCarried
<1>9. ASSUME NEW d \in Requests, FindOwner(d) PROVE AttributionInv'
  <2>1. Owner(d) # NULL
    BY <1>9, RequestFacts, PushFacts DEF FindOwner, At, IntakeInv
  <2>. QED BY <1>2, <1>3, <1>8, <1>9, <2>1 DEF FindOwner, tables
<1>10. ASSUME NEW d \in Requests, FindEmail(d) PROVE AttributionInv'
  <2>1. Email(d) \in Emails
    BY <1>10, RequestFacts DEF FindEmail, At, IntakeInv
  <2>2. identifiers[Email(d)] # NULL => identifiers[Email(d)] \in accounts
    BY <1>0, <2>1 DEF HoldersExist
  <2>. QED BY <1>2, <1>3, <1>8, <1>10, <2>2 DEF FindEmail, tables
<1>11. ASSUME NEW d \in Requests, CreateUser(d) PROVE AttributionInv'
  <2>1. UsersGrow /\ HoldersExist'
    BY <1>0, <1>11 DEF CreateUser, UsersGrow, HoldersExist
  <2>. DEFINE q == [request[d] EXCEPT !.user = Owner(d), !.pc = "identifier"]
  <2>2. CASE Skip(d)
    <3>1. RequestsCarried'
      BY <1>0, <1>3, <2>1, <2>2, RequestsKept DEF Skip
    <3>. QED BY <1>0, <1>11, <2>1, <3>1, RowsKept, SameRows, ClaimsKept DEF CreateUser, AttributionInv
  <2>3. CASE accounts' = accounts \cup {Owner(d)} /\ request' = [request EXCEPT ![d] = q]
    <3>1. q.pc = "identifier" /\ q.user = Owner(d) /\ q.push = request[d].push
      BY <1>0 DEF Request
    <3>2. request'[d] = q /\ \A e \in Requests \ {d} : request'[e] = request[e]
      BY <1>0, <2>3 DEF TypeOK
    <3>3. ASSUME NEW e \in Requests PROVE Carried(request[e])'
      <4>1. CASE e = d
        <5>1. /\ request'[e].pc = "identifier" /\ request'[e].user = Owner(d)
              /\ request'[e].push = request[d].push
          BY <3>1, <3>2, <4>1
        <5>2. Owner(d) \in accounts' /\ Owner(d) = OwnerOf[request[d].push.repo]
          BY <2>3 DEF Owner, Repo
        <5>. QED BY <5>1, <5>2 DEF Carried
      <4>2. CASE e # d
        BY <1>0, <1>11, <2>3, <3>2, <4>2 DEF Carried, Explains, CreateUser
      <4>. QED BY <4>1, <4>2
    <3>4. RequestsCarried'
      BY <3>3 DEF RequestsCarried
    <3>. QED BY <1>0, <1>11, <2>1, <3>4, RowsKept, SameRows, ClaimsKept DEF CreateUser, AttributionInv
  <2>. QED BY <1>11, <2>2, <2>3 DEF CreateUser
<1>12. ASSUME NEW d \in Requests, AddIdentifier(d) PROVE AttributionInv'
  <2>1. /\ Email(d) \in Emails /\ request[d].pc = "identifier"
        /\ request[d].user = Owner(d) /\ Owner(d) \in accounts /\ Owner(d) # NULL
    BY <1>0, <1>12, RequestFacts, PushFacts DEF AddIdentifier, At, IntakeInv, Carried, Owner, Repo
  <2>2. UsersGrow /\ HoldersExist'
    BY <1>0, <1>12, <2>1 DEF AddIdentifier, UsersGrow, HoldersExist, TypeOK
  <2>. DEFINE q == [request[d] EXCEPT !.pc = "store"]
  <2>3. q.pc = "store" /\ q.user = Owner(d) /\ q.push = request[d].push
    BY <1>0, <2>1 DEF Request
  <2>4. request'[d] = q /\ \A e \in Requests \ {d} : request'[e] = request[e]
    BY <1>0, <1>12 DEF AddIdentifier, Goto, TypeOK
  <2>5. ASSUME NEW e \in Requests PROVE Carried(request[e])'
    <3>1. CASE e = d
      <4>1. /\ request'[e].pc = "store" /\ request'[e].user = Owner(d)
            /\ request'[e].push = request[d].push
        BY <2>3, <2>4, <3>1
      <4>2. /\ Owner(d) \in accounts' /\ Owner(d) # NULL
            /\ Owner(d) = OwnerOf[request[d].push.repo]
        BY <1>12, <2>1 DEF AddIdentifier, Owner, Repo
      <4>. QED BY <4>1, <4>2 DEF Carried, Explains
    <3>2. CASE e # d
      <4>1. request[e].pc = "store" => EmailOf[request[e].commit] \in Emails
        BY RequestFacts DEF IntakeInv, Email
      <4>. QED BY <1>0, <2>2, <2>4, <3>2, <4>1, PushFacts DEF Carried, Explains, UsersGrow
    <3>. QED BY <3>1, <3>2
  <2>6. RequestsCarried'
    BY <2>5 DEF RequestsCarried
  <2>. QED BY <1>0, <1>12, <2>2, <2>6, RowsKept, SameRows, ClaimsKept DEF AddIdentifier, AttributionInv
<1>13. ASSUME NEW d \in Requests, StoreCommit(d) PROVE AttributionInv'
  <2>. DEFINE c == request[d].commit
              row == [repo |-> Repo(d), user |-> request[d].user, placed |-> FALSE]
  <2>1. /\ request[d].pc = "store" /\ c \in Commits
        /\ Explains(request[d].user, request[d].push.repo, c)
    BY <1>0, <1>13, RequestFacts DEF StoreCommit, At, IntakeInv, Carried
  <2>2. UsersGrow /\ HoldersExist'
    BY <1>0, <1>13, UnchangedUsersGrow DEF StoreCommit, users, HoldersExist
  <2>3. \A e \in Requests : \/ request'[e] = request[e]
                            \/ request'[e].pc \notin {"store", "identifier"}
    BY <1>0, <1>13 DEF StoreCommit, Skip, Goto, TypeOK, Request
  <2>4. RequestsCarried' /\ ClaimsOwned'
    BY <1>0, <1>13, <2>2, <2>3, RequestsKept, ClaimsKept DEF StoreCommit
  <2>5. CASE UNCHANGED rows
    BY <1>0, <2>2, <2>4, <2>5, RowsKept, SameRows DEF AttributionInv
  <2>6. CASE rows' = [rows EXCEPT ![c] = row]
    <3>1. ASSUME NEW k \in Commits, k \in Stored' PROVE Explains(rows[k].user, rows[k].repo, k)'
      <4>1. CASE k = c
        <5>1. rows'[k] = row
          BY <1>0, <2>1, <2>6, <4>1 DEF TypeOK
        <5>2. rows'[k].user = request[d].user /\ rows'[k].repo = request[d].push.repo
          BY <5>1 DEF Repo
        <5>. QED BY <1>13, <2>1, <4>1, <5>2 DEF Explains, StoreCommit, users
      <4>2. CASE k # c
        <5>1. rows'[k] = rows[k] /\ k \in Stored
          BY <1>0, <2>6, <3>1, <4>2 DEF TypeOK, Stored
        <5>. QED BY <1>0, <1>13, <5>1 DEF RowsExplained, Explains, StoreCommit, users
      <4>. QED BY <4>1, <4>2
    <3>2. RowsExplained'
      BY <3>1 DEF RowsExplained, Stored
    <3>. QED BY <2>2, <2>4, <3>2 DEF AttributionInv
  <2>. QED BY <1>13, <2>5, <2>6 DEF StoreCommit
<1>14. ASSUME NEW t \in tasks, ScanSucceeds(t) \/ ScanFails(t) \/ TimesOut(t)
       PROVE  AttributionInv'
  BY <1>2, <1>14 DEF ScanSucceeds, ScanFails, TimesOut, tables
<1>15. ASSUME NEW t \in tasks, NEW c \in Commits, AddCommit(t, c) PROVE AttributionInv'
  <2>1. UsersGrow /\ HoldersExist'
    BY <1>0, <1>15, UnchangedUsersGrow DEF AddCommit, users, HoldersExist
  <2>2. Stored' = Stored
    BY <1>15, AddCommitShape
  <2>3. \A k \in Stored : rows'[k].user = rows[k].user /\ rows'[k].repo = rows[k].repo
    BY <1>0, <1>15, NullAssumption DEF AddCommit, TypeOK, Stored, Row
  <2>4. RequestsCarried' /\ ClaimsOwned'
    BY <1>0, <1>15, <2>1, RequestsKept, ClaimsKept DEF AddCommit
  <2>. QED BY <1>0, <2>1, <2>2, <2>3, <2>4, RowsKept DEF AttributionInv
<1>16. ASSUME NEW u \in SignUps, NEW verified \in SUBSET MailsOf[u],
              Login(u, verified) \/ LoginConflicts(u, verified)
       PROVE  AttributionInv'
  <2>0. verified \subseteq Emails
    BY IngestAssumption
  <2>1. UsersGrow /\ HoldersExist'
    BY <1>0, <1>16 DEF Login, LoginConflicts, UsersGrow, HoldersExist, TypeOK
  <2>2. RowsExplained' /\ RequestsCarried'
    BY <1>0, <1>16, <2>1, RowsKept, SameRows, RequestsKept DEF Login, LoginConflicts
  <2>3. CASE claims' = claims
    BY <1>0, <2>1, <2>2, <2>3, ClaimsKept DEF AttributionInv
  <2>4. ASSUME NEW user, user = LoginUser(u, verified), Login(u, verified),
               claims' = claims \cup {[user |-> user, emails |-> verified]}
        PROVE  ClaimsOwned'
    <3>1. user \in accounts' /\ \A e \in verified : identifiers'[e] = user
      BY <2>0, <2>4 DEF Login, HoldersOf
    <3>2. \A k \in claims : k \in Claim
      BY <1>0 DEF TypeOK
    <3>3. \A k \in claims : k.user \in accounts' /\ \A e \in k.emails : identifiers'[e] = k.user
      BY <1>0, <2>1, <3>2, PushFacts DEF ClaimsOwned, UsersGrow, Claim
    <3>. QED BY <2>4, <3>1, <3>3 DEF ClaimsOwned
  <2>5. claims' = claims
        \/ /\ Login(u, verified)
           /\ claims' = claims \cup {[user |-> LoginUser(u, verified), emails |-> verified]}
    BY <1>16 DEF Login, LoginConflicts
  <2>. QED BY <2>1, <2>2, <2>3, <2>4, <2>5 DEF AttributionInv
<1>17. ASSUME NEW k \in claims, ClaimOrphanCommits(k) PROVE AttributionInv'
  <2>0. k \in Claim /\ k.user \in accounts /\ \A e \in k.emails : identifiers[e] = k.user
    BY <1>0 DEF TypeOK, ClaimsOwned
  <2>1. UsersGrow /\ HoldersExist'
    BY <1>0, <1>17, UnchangedUsersGrow DEF ClaimOrphanCommits, users, HoldersExist
  <2>2. RequestsCarried' /\ ClaimsOwned'
    BY <1>0, <1>17, <2>1, RequestsKept, ClaimsKept DEF ClaimOrphanCommits
  <2>3. ASSUME NEW c \in Commits, c \in Stored'
        PROVE  Explains(rows[c].user, rows[c].repo, c)'
    <3>1. CASE rows'[c] = rows[c]
      BY <1>0, <1>17, <2>3, <3>1 DEF ClaimOrphanCommits, RowsExplained, Explains, Stored, users
    <3>2. CASE rows[c] # NULL /\ EmailOf[c] \in k.emails /\ rows'[c] = [rows[c] EXCEPT !.user = k.user]
      <4>1. rows[c] \in Row
        BY <1>0, <3>2 DEF TypeOK
      <4>2. rows'[c].user = k.user
        BY <3>2, <4>1 DEF Row
      <4>3. k.user \in accounts' /\ k.user = identifiers'[EmailOf[c]] /\ k.user # NULL
        BY <1>17, <2>0, <3>2, PushFacts DEF ClaimOrphanCommits, users, Claim
      <4>. QED BY <4>2, <4>3 DEF Explains
    <3>. QED BY <1>17, <3>1, <3>2 DEF ClaimOrphanCommits
  <2>4. RowsExplained'
    BY <2>3 DEF RowsExplained, Stored
  <2>. QED BY <2>1, <2>2, <2>4 DEF AttributionInv
<1>18. ASSUME Crash PROVE AttributionInv'
  <2>1. \A e \in Requests : request'[e].pc \notin {"store", "identifier"}
    BY <1>18 DEF Crash, IdleRequest
  <2>2. RequestsCarried'
    BY <2>1 DEF RequestsCarried, Carried
  <2>. QED BY <1>1, <1>18, <2>2 DEF Crash, tables
<1>19. ASSUME UNCHANGED vars PROVE AttributionInv'
  BY <1>2, <1>19 DEF vars, tables
<1>. QED BY <1>4, <1>5, <1>6, <1>7, <1>9, <1>10, <1>11, <1>12, <1>13, <1>14, <1>15, <1>16,
            <1>17, <1>18, <1>19 DEF Next, Handle, Work

LEMMA AlwaysAttributed == Spec => []AttributionInv
<1>1. Init => AttributionInv
  BY DEF Init, AttributionInv, RowsExplained, RequestsCarried, Carried, ClaimsOwned,
         HoldersExist, Stored, IdleRequest
<1>2. IntakeInv /\ IntakeInv' /\ AttributionInv /\ [Next]_vars => AttributionInv'
  BY AttributionStep
<1>. QED BY <1>1, <1>2, AlwaysIntake, PTL DEF Spec

(* AttributionExplained: every commit is credited to the repository        *)
(* owner's account or to whoever has its author's address, and to nobody   *)
(* only in an organization, whatever logins and claims run meanwhile.      *)
THEOREM AttributionAlwaysExplained == Spec => []AttributionExplained
<1>1. AttributionInv => AttributionExplained
  BY DEF AttributionInv, RowsExplained, Explains, AttributionExplained
<1>. QED BY <1>1, AlwaysAttributed, PTL

-----------------------------------------------------------------------------
(* The directory                                                           *)

LEMMA NothingTaken ==
  ASSUME TypeOK, [Next]_vars
  PROVE  /\ UsersGrow
         /\ \A u \in SignUps : logins[u] # NULL => logins'[u] = logins[u]
<1>1. ASSUME UNCHANGED users
      PROVE  /\ UsersGrow
             /\ \A u \in SignUps : logins[u] # NULL => logins'[u] = logins[u]
  BY <1>1 DEF users, UsersGrow
<1>2. ASSUME NEW d \in Requests, CreateUser(d) \/ AddIdentifier(d)
      PROVE  /\ UsersGrow
             /\ \A u \in SignUps : logins[u] # NULL => logins'[u] = logins[u]
  BY <1>2 DEF CreateUser, AddIdentifier, UsersGrow, TypeOK
<1>3. ASSUME NEW u \in SignUps, NEW verified \in SUBSET MailsOf[u],
             Login(u, verified) \/ LoginConflicts(u, verified)
      PROVE  /\ UsersGrow
             /\ \A v \in SignUps : logins[v] # NULL => logins'[v] = logins[v]
  <2>1. UsersGrow
    BY <1>3 DEF Login, LoginConflicts, UsersGrow
  <2>2. \A v \in SignUps : logins[v] # NULL => logins'[v] = logins[v]
    BY <1>3 DEF Login, LoginConflicts, LoginUser, TypeOK
  <2>. QED BY <2>1, <2>2
<1>4. \/ UNCHANGED users
      \/ \E d \in Requests : CreateUser(d) \/ AddIdentifier(d)
      \/ \E u \in SignUps : \E verified \in SUBSET MailsOf[u] :
           Login(u, verified) \/ LoginConflicts(u, verified)
  <2>1. ASSUME NEW d \in Requests, Handle(d)
        PROVE  UNCHANGED users \/ CreateUser(d) \/ AddIdentifier(d)
    BY <2>1 DEF Handle, UpsertProject, NextCommit, FindOwner, FindEmail, StoreCommit, Schedule,
                tables
  <2>2. ASSUME NEW t \in tasks, Work(t) \/ TimesOut(t)
        PROVE  UNCHANGED users
    BY <2>2 DEF Work, ScanSucceeds, ScanFails, AddCommit, TimesOut, tables
  <2>3. ASSUME \/ UNCHANGED vars \/ Crash
               \/ \E d \in Requests : \E p \in Pushes : Receive(d, p)
               \/ \E k \in claims : ClaimOrphanCommits(k)
        PROVE  UNCHANGED users
    BY <2>3 DEF vars, Crash, Receive, ClaimOrphanCommits, tables
  <2>. QED BY <2>1, <2>2, <2>3 DEF Next
<1>. QED BY <1>1, <1>2, <1>3, <1>4

(* With a login as one step the tables and claims implement the directory, *)
(* as they do under OAuthLogin with a login taken apart: no webhook takes  *)
(* an account or an address away (github.go:450-477).                      *)
THEOREM ImplementsDirectory == Spec => DirectorySpec
<1>1. Init => Directory!Init
  BY DEF Init, Directory!Init
<1>2. /\ IntakeInv /\ IntakeInv' /\ AttributionInv /\ AttributionInv' /\ [Next]_vars
      => [Directory!Next]_(Directory!directoryVars)
  <2>1. SUFFICES ASSUME IntakeInv, IntakeInv', AttributionInv', [Next]_vars
                 PROVE  Directory!Next
    OBVIOUS
  <2>2. TypeOK /\ TypeOK' /\ HoldersExist' /\ ClaimsOwned'
    BY <2>1 DEF IntakeInv, AttributionInv
  <2>3. /\ UsersGrow
        /\ \A u \in SignUps : logins[u] # NULL => logins'[u] = logins[u]
    BY <2>1, <2>2, NothingTaken
  <2>4. /\ accounts \subseteq accounts' /\ accounts' \subseteq Accounts
        /\ identifiers' \in Directory!Held(Emails) /\ logins' \in Directory!Held(SignUps)
    BY <2>2, <2>3 DEF TypeOK, HoldersExist, UsersGrow, Directory!Held
  <2>5. Directory!Kept(identifiers, Emails) /\ Directory!Kept(logins, SignUps)
    BY <2>3 DEF UsersGrow, Directory!Kept
  <2>6. \A k \in claims' \ claims :
          k \in Directory!Claim /\ \A e \in k.emails : identifiers'[e] = k.user
    BY <2>2 DEF TypeOK, ClaimsOwned, Claim, Directory!Claim
  <2>. QED BY <2>4, <2>5, <2>6 DEF Directory!Next
<1>. QED BY <1>1, <1>2, AlwaysIntake, AlwaysAttributed, PTL
         DEF Spec, DirectorySpec, Directory!Spec

=============================================================================
