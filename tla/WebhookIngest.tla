---------------------------- MODULE WebhookIngest ----------------------------
(***************************************************************************)
(* The push webhook (internal/webhooks/github.go): requests that store the *)
(* commits of a push and resolve who made them, and the goroutines that    *)
(* scan the project and then hand the created commits to scoring.          *)
(*                                                                         *)
(* net/http runs every delivery in a goroutine of its own, so requests     *)
(* interleave between their queries; the same push may be delivered again  *)
(* at any time.  A push the handler skips (another event, a branch that is *)
(* not the default one, a force push) changes nothing and is left out, and *)
(* nothing in the program deactivates a project.                           *)
(* The order of the commits of one push is left open.  AddCommit is a      *)
(* single step here: GameScoring takes it apart.                           *)
(***************************************************************************)
EXTENDS Naturals, FiniteSets

CONSTANTS
  Requests,     \* webhook requests that may be in progress at once
  Repos,        \* repo_id on GitHub
  Commits,      \* commit hashes
  Accounts,     \* usernames, the gh- prefix left out
  Emails,
  Pushes,       \* the payloads GitHub may deliver
  OwnerOf,      \* repository.owner.name
  OrgRepos,     \* repositories whose payload names an organization
  EmailOf,      \* commit.author.email
  ValidCommits, \* those IsValidCommit accepts
  TooLong,      \* owners whose prefixed name exceeds users.username
  MailsOf,      \* the addresses a provider verifies for an account
  SignUps,      \* accounts whose owners may log in
  Scanning,     \* whether the scanner has a token
  ScansFail,    \* whether a scan may fail
  Faults,       \* whether queries fail, contexts end and the process restarts
  NULL

Push == [repo : Repos, slug : STRING, private : BOOLEAN, commits : SUBSET Commits]

ASSUME IngestAssumption ==
  /\ Pushes \subseteq Push
  /\ OwnerOf \in [Repos -> Accounts]
  /\ EmailOf \in [Commits -> Emails]
  /\ MailsOf \in [Accounts -> SUBSET Emails]
  /\ OrgRepos \subseteq Repos
  /\ ValidCommits \subseteq Commits
  /\ TooLong \subseteq Accounts /\ SignUps \subseteq Accounts
  /\ Scanning \in BOOLEAN /\ ScansFail \in BOOLEAN /\ Faults \in BOOLEAN
  /\ NULL \notin Accounts \cup Commits \cup Repos \cup Push

VARIABLES
  projects,    \* the projects table by repo_id, NULL where there is no row
  accounts,    \* the users table: the usernames in it
  identifiers, \* user_identifiers of type email: the user_id, or NULL
  logins,      \* user_identifiers of type github: the user_id, or NULL
  rows,        \* the commits table by hash, or NULL
  boards,      \* the active game's board of a project, analysed or not
  request,     \* request[d]: a webhook request
  tasks,       \* the goroutines scheduleL1Scan started
  claims,      \* the goroutines that claim orphan commits
  handed       \* how often AddCommit was called for a commit

users == <<accounts, identifiers, logins>>
tables == <<users, projects, rows, boards>>
vars == <<tables, request, tasks, claims, handed>>

-----------------------------------------------------------------------------

Project == [slug : STRING, private : BOOLEAN]
(* placed: game_id is set.                                                 *)
Row == [repo : Repos, user : Accounts \cup {NULL}, placed : BOOLEAN]

ASSUME NullAssumption == NULL \notin Project /\ NULL \notin Row

Request == [pc : {"idle", "project", "commit", "owner", "email", "create", "identifier", "store"},
            push : Pushes \cup {NULL}, todo : SUBSET Commits,
            commit : Commits \cup {NULL}, user : Accounts \cup {NULL},
            created : SUBSET Commits]
IdleRequest == [pc |-> "idle", push |-> NULL, todo |-> {}, commit |-> NULL,
                user |-> NULL, created |-> {}]

(* analysed: the scan ended with a positive total.                         *)
Task == [pc : {"scan", "score"}, repo : Repos, todo : SUBSET Commits, analysed : BOOLEAN]
Claim == [user : Accounts, emails : SUBSET Emails]

TypeOK ==
  /\ projects \in [Repos -> Project \cup {NULL}]
  /\ accounts \subseteq Accounts
  /\ identifiers \in [Emails -> Accounts \cup {NULL}]
  /\ logins \in [SignUps -> Accounts \cup {NULL}]
  /\ rows \in [Commits -> Row \cup {NULL}]
  /\ boards \in [Repos -> {"none", "plain", "analysed"}]
  /\ request \in [Requests -> Request]
  /\ tasks \subseteq Task
  /\ claims \subseteq Claim
  /\ handed \in [Commits -> Nat]

Init ==
  /\ projects = [r \in Repos |-> NULL]
  /\ accounts = {}
  /\ identifiers = [e \in Emails |-> NULL]
  /\ logins = [u \in SignUps |-> NULL]
  /\ rows = [c \in Commits |-> NULL]
  /\ boards = [r \in Repos |-> "none"]
  /\ request = [d \in Requests |-> IdleRequest]
  /\ tasks = {}
  /\ claims = {}
  /\ handed = [c \in Commits |-> 0]

-----------------------------------------------------------------------------
(* HandleGitHubWebhook                                                     *)

At(d, pc) == request[d].pc = pc
Goto(d, pc) == request' = [request EXCEPT ![d].pc = pc]
Respond(d) == request' = [request EXCEPT ![d] = IdleRequest]

Repo(d) == request[d].push.repo
Owner(d) == OwnerOf[Repo(d)]
Email(d) == EmailOf[request[d].commit]

(* A delivery of a push, the first one or a later one.                     *)
Receive(d, p) ==
  /\ At(d, "idle")
  /\ request' = [request EXCEPT ![d].pc = "project", ![d].push = p, ![d].todo = p.commits]
  /\ UNCHANGED <<tables, tasks, claims, handed>>

(* slug and url are unique: a project keeps a name another repository now  *)
(* has until it pushes again itself.                                       *)
SlugTaken(push) ==
  \E r \in Repos \ {push.repo} : projects[r] # NULL /\ projects[r].slug = push.slug

(* Under Faults a query may fail before or after the database ran it.      *)
UpsertProject(d) ==
  /\ At(d, "project")
  /\ LET push == request[d].push
     IN  \/ /\ ~SlugTaken(push)
            /\ projects' = [projects EXCEPT ![push.repo] =
                              [slug |-> push.slug, private |-> push.private]]
            /\ Goto(d, "commit") \/ (Faults /\ Respond(d))
         \/ (SlugTaken(push) \/ Faults) /\ Respond(d) /\ UNCHANGED projects
  /\ UNCHANGED <<users, rows, boards, tasks, claims, handed>>

(* processCommits: an invalid commit and one GetCommitByHash finds are     *)
(* skipped; a read that fails takes the commit for a new one.              *)
NextCommit(d, c) ==
  /\ At(d, "commit")
  /\ c \in request[d].todo
  /\ \E failed \in {FALSE, Faults} :
       request' = [request EXCEPT ![d].todo = @ \ {c}, ![d].commit = c,
         ![d].pc = IF c \in ValidCommits /\ (rows[c] = NULL \/ failed)
                   THEN "owner" ELSE "commit"]
  /\ UNCHANGED <<tables, tasks, claims, handed>>

(* Mutant: a failing commit ends in a state the loop does not know.        *)
SkipAway(d) == Goto(d, "skipped")

Skip(d) == Goto(d, "commit")
Resolve(d, u) == request' = [request EXCEPT ![d].user = u, ![d].pc = "store"]

(* getOrCreateUserForCommit, stage 1: the repository owner's account.      *)
FindOwner(d) ==
  /\ At(d, "owner")
  /\ \/ Owner(d) \in accounts /\ Resolve(d, Owner(d))
     \/ (Owner(d) \notin accounts \/ Faults) /\ Goto(d, "email")
  /\ UNCHANGED <<tables, tasks, claims, handed>>

(* Stage 2: whoever the author's address belongs to, verified or not; an   *)
(* organization's commit is left without a user.                           *)
FindEmail(d) ==
  /\ At(d, "email")
  /\ \/ identifiers[Email(d)] # NULL /\ Resolve(d, identifiers[Email(d)])
     \/ /\ identifiers[Email(d)] = NULL \/ Faults
        /\ IF Repo(d) \in OrgRepos THEN Resolve(d, NULL) ELSE Goto(d, "create")
  /\ UNCHANGED <<tables, tasks, claims, handed>>

(* Stage 3: an INSERT that fails, on a taken or overlong username say,     *)
(* skips the commit.                                                       *)
CreateUser(d) ==
  /\ At(d, "create")
  /\ LET refused == Owner(d) \in accounts \cup TooLong
     IN  \/ /\ ~refused
            /\ accounts' = accounts \cup {Owner(d)}
            /\ \/ request' = [request EXCEPT ![d].user = Owner(d), ![d].pc = "identifier"]
               \/ Faults /\ Skip(d)
         \/ (refused \/ Faults) /\ Skip(d) /\ UNCHANGED accounts
  /\ UNCHANGED <<projects, identifiers, logins, rows, boards, tasks, claims, handed>>

(* Mutant: ON CONFLICT DO UPDATE hands the address over.                   *)
TakeIdentifier(d) ==
  /\ At(d, "identifier")
  /\ identifiers' = [identifiers EXCEPT ![Email(d)] = request[d].user]
  /\ Goto(d, "store")
  /\ UNCHANGED <<projects, accounts, logins, rows, boards, tasks, claims, handed>>

(* UpsertUserIdentifierUnverified: ON CONFLICT DO NOTHING, errors ignored. *)
AddIdentifier(d) ==
  /\ At(d, "identifier")
  /\ \/ identifiers' = [identifiers EXCEPT ![Email(d)] = IF @ = NULL THEN request[d].user ELSE @]
     \/ Faults /\ UNCHANGED identifiers
  /\ Goto(d, "store")
  /\ UNCHANGED <<projects, accounts, logins, rows, boards, tasks, claims, handed>>

(* Mutants: hashes need not be unique; the commit is appended before the   *)
(* error is looked at.                                                     *)
StoreAgain(d) ==
  /\ At(d, "store")
  /\ LET c == request[d].commit
     IN  /\ rows' = [rows EXCEPT ![c] =
                       [repo |-> Repo(d), user |-> request[d].user, placed |-> FALSE]]
         /\ request' = [request EXCEPT ![d].pc = "commit", ![d].created = @ \cup {c}]
  /\ UNCHANGED <<users, projects, boards, tasks, claims, handed>>

StoreUnchecked(d) ==
  /\ At(d, "store")
  /\ LET c == request[d].commit
     IN  /\ rows' = [rows EXCEPT ![c] = IF @ # NULL THEN @ ELSE
                       [repo |-> Repo(d), user |-> request[d].user, placed |-> FALSE]]
         /\ request' = [request EXCEPT ![d].pc = "commit", ![d].created = @ \cup {c}]
  /\ UNCHANGED <<users, projects, boards, tasks, claims, handed>>

(* CreateCommit: a hash another request stored meanwhile skips the commit. *)
StoreCommit(d) ==
  /\ At(d, "store")
  /\ LET c == request[d].commit
     IN  \/ /\ rows[c] = NULL
            /\ rows' = [rows EXCEPT ![c] =
                          [repo |-> Repo(d), user |-> request[d].user, placed |-> FALSE]]
            /\ \/ request' = [request EXCEPT ![d].pc = "commit", ![d].created = @ \cup {c}]
               \/ Faults /\ Skip(d)
         \/ (rows[c] # NULL \/ Faults) /\ Skip(d) /\ UNCHANGED rows
  /\ UNCHANGED <<users, projects, boards, tasks, claims, handed>>

(* Mutant: a private project returns before its commits are scored.        *)
SchedulePublic(d) ==
  /\ At(d, "commit")
  /\ request[d].todo = {}
  /\ LET created == request[d].created
         task == [pc |-> IF Scanning THEN "scan" ELSE "score", repo |-> Repo(d),
                  todo |-> created, analysed |-> FALSE]
     IN  tasks' = IF created = {} \/ request[d].push.private THEN tasks
                  ELSE tasks \cup {task}
  /\ Respond(d)
  /\ UNCHANGED <<tables, claims, handed>>

(* scheduleL1Scan: created commits go to a goroutine that scans first, or  *)
(* straight to scoring when there is nothing to scan with or for.          *)
Schedule(d) ==
  /\ At(d, "commit")
  /\ request[d].todo = {}
  /\ LET created == request[d].created
         scans == Scanning /\ ~request[d].push.private
         task == [pc |-> IF scans THEN "scan" ELSE "score", repo |-> Repo(d),
                  todo |-> created, analysed |-> FALSE]
     IN  tasks' = IF created = {} THEN tasks ELSE tasks \cup {task}
  /\ Respond(d)
  /\ UNCHANGED <<tables, claims, handed>>

Handle(d) ==
  \/ UpsertProject(d) \/ \E c \in Commits : NextCommit(d, c)
  \/ FindOwner(d) \/ FindEmail(d) \/ CreateUser(d) \/ AddIdentifier(d)
  \/ StoreCommit(d) \/ Schedule(d)

-----------------------------------------------------------------------------
(* The goroutine of a push                                                 *)

Analysed(board) == IF board = "none" THEN "none" ELSE "analysed"
Credited(board) == IF board = "none" THEN "plain" ELSE board

(* RunScan: a positive total is written to the boards there are.           *)
ScanSucceeds(t) ==
  /\ t.pc = "scan"
  /\ \E positive \in BOOLEAN :
       /\ boards' = IF positive THEN [boards EXCEPT ![t.repo] = Analysed(@)] ELSE boards
       /\ tasks' = (tasks \ {t}) \cup {[t EXCEPT !.pc = "score", !.analysed = positive]}
  /\ UNCHANGED <<users, projects, rows, request, claims, handed>>

(* A scan that fails or panics ends the goroutine.                         *)
ScanFails(t) ==
  /\ ScansFail
  /\ t.pc = "scan"
  /\ tasks' = tasks \ {t}
  /\ UNCHANGED <<tables, request, claims, handed>>

(* scoreCreatedCommits: one AddCommit after the other, which places the    *)
(* commit in the active game and counts it unless the project is private.  *)
AddCommit(t, c) ==
  /\ t.pc = "score"
  /\ c \in t.todo
  /\ handed' = [handed EXCEPT ![c] = @ + 1]
  /\ IF projects[t.repo].private THEN UNCHANGED <<rows, boards>>
     ELSE /\ rows' = [rows EXCEPT ![c].placed = TRUE]
          /\ boards' = [boards EXCEPT ![t.repo] = Credited(@)]
  /\ tasks' = (tasks \ {t}) \cup
              (IF t.todo = {c} THEN {} ELSE {[t EXCEPT !.todo = @ \ {c}]})
  /\ UNCHANGED <<users, projects, request, claims>>

(* The goroutine's minute is over: what is left fails at its first query.  *)
TimesOut(t) ==
  /\ Faults
  /\ t.pc = "score"
  /\ tasks' = tasks \ {t}
  /\ UNCHANGED <<tables, request, claims, handed>>

Work(t) == ScanSucceeds(t) \/ ScanFails(t) \/ \E c \in Commits : AddCommit(t, c)

-----------------------------------------------------------------------------
(* Logins meanwhile, and the process                                       *)

HoldersOf(emails) == {identifiers[e] : e \in emails} \ {NULL}

(* The account a login of u ends in: the one u logged in to before, or the *)
(* one that has an address of u, or the one named u, created if need be.   *)
LoginUser(u, verified) ==
  IF logins[u] # NULL THEN logins[u]
  ELSE IF HoldersOf(verified) # {} THEN CHOOSE v \in HoldersOf(verified) : TRUE
  ELSE u

(* OAuthLoginOrRegister in one step, and the goroutine Callback starts     *)
(* after a new account or a returning one with a new address.              *)
Login(u, verified) ==
  LET user == LoginUser(u, verified)
      fresh == {e \in verified : identifiers[e] = NULL}
      created == user \notin accounts \/ (logins[u] # NULL /\ fresh # {})
  IN  /\ HoldersOf(verified) \subseteq {user}
      /\ user \in accounts \/ user \notin TooLong
      /\ accounts' = accounts \cup {user}
      /\ logins' = [logins EXCEPT ![u] = user]
      /\ identifiers' = [e \in Emails |-> IF e \in fresh THEN user ELSE identifiers[e]]
      /\ claims' = IF created THEN claims \cup {[user |-> user, emails |-> verified]}
                   ELSE claims
      /\ UNCHANGED <<projects, rows, boards, request, tasks, handed>>

(* A returning user whose new address is another's: the login fails at it, *)
(* after adding some of the others.                                        *)
LoginConflicts(u, verified) ==
  /\ logins[u] # NULL
  /\ ~(HoldersOf(verified) \subseteq {logins[u]})
  /\ \E added \in SUBSET {e \in verified : identifiers[e] = NULL} :
       identifiers' = [e \in Emails |-> IF e \in added THEN logins[u] ELSE identifiers[e]]
  /\ UNCHANGED <<projects, accounts, logins, rows, boards, request, tasks, claims, handed>>

(* claimOrphanCommits: the active game's commits without a user.           *)
ClaimOrphanCommits(k) ==
  /\ claims' = claims \ {k}
  /\ rows' = [c \in Commits |->
       IF rows[c] # NULL /\ rows[c].user = NULL /\ rows[c].placed /\ EmailOf[c] \in k.emails
       THEN [rows[c] EXCEPT !.user = k.user] ELSE rows[c]]
  /\ UNCHANGED <<users, projects, boards, request, tasks, handed>>

Crash ==
  /\ Faults
  /\ request' = [d \in Requests |-> IdleRequest]
  /\ tasks' = {} /\ claims' = {}
  /\ UNCHANGED <<tables, handed>>

Next ==
  \/ \E d \in Requests : (\E p \in Pushes : Receive(d, p)) \/ Handle(d)
  \/ \E t \in tasks : Work(t) \/ TimesOut(t)
  \/ \E u \in SignUps : \E verified \in SUBSET MailsOf[u] :
       Login(u, verified) \/ LoginConflicts(u, verified)
  \/ \E k \in claims : ClaimOrphanCommits(k)
  \/ Crash

Spec == Init /\ [][Next]_vars

(* The Go scheduler runs every goroutine; GitHub need not push again.      *)
FairSpec ==
  /\ Spec
  /\ \A d \in Requests : WF_vars(Handle(d))
  /\ WF_vars(\E t \in tasks : Work(t))

-----------------------------------------------------------------------------
(* Properties                                                              *)

Stored == {c \in Commits : rows[c] # NULL}
Waiting == {c \in Commits : \/ \E d \in Requests : c \in request[d].created
                            \/ \E t \in tasks : c \in t.todo}

(* However often a push is delivered, whatever requests overlap and        *)
(* wherever the process stops, no commit is handed to AddCommit twice: it  *)
(* has no check of its own against that (github.go:340-385, game.go:146).  *)
HandedOnce == \A c \in Commits : handed[c] <= 1

(* A commit is credited to the repository owner's account or to whoever    *)
(* has the author's address, and to nobody only in an organization, even   *)
(* when accounts and addresses change between the lookups and the insert   *)
(* (github.go:419-477).                                                    *)
AttributionExplained ==
  \A c \in Stored :
    LET row == rows[c]
    IN  IF row.user = NULL THEN row.repo \in OrgRepos
        ELSE /\ row.user \in accounts
             /\ row.user \in {OwnerOf[row.repo], identifiers[EmailOf[c]]}

(* The tables and goroutines implement the intake CommitIntake promises.   *)
Intake == INSTANCE CommitIntake WITH
  stored <- Stored, waiting <- Waiting, handed <- {c \in Commits : handed[c] > 0}

IntakeSpec == Intake!Spec

(* The users tables and claims are what AccountDirectory promises, as they *)
(* are under OAuthLogin, which takes Login apart (github.go:450-477).      *)
Directory == INSTANCE AccountDirectory WITH Identities <- SignUps

DirectorySpec == Directory!Spec

(* github.go:243-245 (scheduleL1Scan): AddCommit is called "for each       *)
(* created commit".  It is while no scan fails and the process lives,      *)
(* redeliveries and overlapping requests notwithstanding.                  *)
StoredIsScored == \A c \in Commits : rows[c] # NULL ~> handed[c] = 1

=============================================================================
