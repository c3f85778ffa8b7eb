----------------------------- MODULE OAuthLogin -----------------------------
(***************************************************************************)
(* A login through an OAuth provider: the session handlers of              *)
(* internal/auth/auth.go and UserService.OAuthLoginOrRegister              *)
(* (internal/services/users.go), one query at a time and without a         *)
(* transaction, beside the accounts and addresses push webhooks insert.    *)
(*                                                                         *)
(* An account is named by its username, which is unique and which nothing  *)
(* changes.  Names, avatars and tokens are left out, and with them what    *)
(* only they depend on.  UpsertIdentifier looks before it upserts; its     *)
(* upsert is what decides, so the two are one step.                        *)
(***************************************************************************)
EXTENDS FiniteSets

CONSTANTS
  Requests,   \* HTTP requests of browsers that may be in progress at once
  Browsers,
  States,     \* the oauth_state strings Login may draw
  Identities, \* accounts at a provider
  NameOf,     \* the prefixed username a provider's account comes with
  MailsOf,    \* the addresses the provider verified for it
  Accounts,   \* usernames
  Emails,
  TooLong,    \* names longer than users.username
  Owners,     \* accounts push webhooks create for repository owners
  CommitMails,\* the author addresses in an owner's pushes
  Faults,     \* whether queries fail and the process restarts
  NULL

ASSUME LoginAssumption ==
  /\ NameOf \in [Identities -> Accounts]
  /\ MailsOf \in [Identities -> SUBSET Emails]
  /\ Owners \subseteq Accounts \ TooLong
  /\ CommitMails \in [Owners -> SUBSET Emails]
  /\ Faults \in BOOLEAN
  /\ NULL \notin Accounts \cup Identities \cup States

VARIABLES
  accounts,    \* the users table: the usernames in it
  identifiers, \* user_identifiers of type email: the user_id, or NULL
  logins,      \* those of a provider's type: the user_id, or NULL
  session,     \* the sessions table by browser
  drawn,       \* the states Login has drawn
  request,     \* request[r]: a request in progress
  claims,      \* the goroutines that claim orphan commits
  pushes       \* accounts whose webhook has yet to add an address

users == <<accounts, identifiers, logins>>
vars == <<users, session, drawn, request, claims, pushes>>

-----------------------------------------------------------------------------

(* state stands for oauth_state, oauth_provider and pkce_verifier, which   *)
(* are put together; an identity_key says that someone is logged in.       *)
Session == [state : States \cup {NULL}, identity : Identities \cup {NULL},
            user : Accounts \cup {NULL}]
NoSession == [state |-> NULL, identity |-> NULL, user |-> NULL]

(* copy is the session as loaded when the request came in; user NULL is    *)
(* also the zero db.User; created and todo as in the code, path the branch *)
(* taken.                                                                  *)
Request == [pc : {"idle", "key", "emails", "username", "create", "link",
                  "refresh", "addEmails", "reply"},
            browser : Browsers \cup {NULL}, copy : Session,
            identity : Identities \cup {NULL}, emails : SUBSET Emails,
            todo : SUBSET Emails, user : Accounts \cup {NULL},
            path : {"returning", "email", "username", "new"}, added : BOOLEAN]
IdleRequest == [pc |-> "idle", browser |-> NULL, copy |-> NoSession,
                identity |-> NULL, emails |-> {}, todo |-> {}, user |-> NULL,
                path |-> "new", added |-> FALSE]

Claim == [user : Accounts, emails : SUBSET Emails]

TypeOK ==
  /\ accounts \subseteq Accounts
  /\ identifiers \in [Emails -> Accounts \cup {NULL}]
  /\ logins \in [Identities -> Accounts \cup {NULL}]
  /\ session \in [Browsers -> Session]
  /\ drawn \subseteq States
  /\ request \in [Requests -> Request]
  /\ claims \subseteq Claim
  /\ pushes \subseteq Owners

Init ==
  /\ accounts = {}
  /\ identifiers = [e \in Emails |-> NULL]
  /\ logins = [i \in Identities |-> NULL]
  /\ session = [b \in Browsers |-> NoSession]
  /\ drawn = {}
  /\ request = [r \in Requests |-> IdleRequest]
  /\ claims = {}
  /\ pushes = {}

-----------------------------------------------------------------------------
(* Sessions: LoadAndSave loads the whole session when a request comes in   *)
(* and writes the whole of it back with the reply if it was changed.       *)

At(r, pc) == request[r].pc = pc
Update(r, q) == request' = [request EXCEPT ![r] = q]
Goto(r, pc) == Update(r, [request[r] EXCEPT !.pc = pc])
Answer(r, b, copy) ==
  Update(r, [IdleRequest EXCEPT !.pc = "reply", !.browser = b, !.copy = copy])
Fail(r) == Answer(r, request[r].browser, request[r].copy)

(* Login: a fresh state goes into the session and to the provider.         *)
Login(r, b, s) ==
  /\ At(r, "idle")
  /\ s \notin drawn
  /\ drawn' = drawn \cup {s}
  /\ Answer(r, b, [session[b] EXCEPT !.state = s])
  /\ UNCHANGED <<users, session, claims, pushes>>

(* RequireAuth notes where an anonymous visitor wanted to go, and          *)
(* UpdateSettings the new name of one who is logged in: values nothing     *)
(* here reads, in a session that is written back as it was loaded.         *)
Visit(r, b) ==
  /\ At(r, "idle")
  /\ Answer(r, b, session[b])
  /\ UNCHANGED <<users, session, drawn, claims, pushes>>

(* Callback: the provider sends the browser back with a state.  The        *)
(* expected state is popped, whether it is the one or not; an error of the *)
(* provider ends the request.  A session without one is left alone.        *)
Callback(r, b, s, i, emails) ==
  /\ At(r, "idle")
  /\ session[b].state # NULL
  /\ LET copy == [session[b] EXCEPT !.state = NULL]
     IN  \/ Answer(r, b, copy)
         \/ /\ session[b].state = s
            /\ Update(r, [IdleRequest EXCEPT !.pc = "key", !.browser = b, !.copy = copy,
                            !.identity = i, !.emails = emails])
  /\ UNCHANGED <<users, session, drawn, claims, pushes>>

Reply(r) ==
  /\ At(r, "reply")
  /\ session' = [session EXCEPT ![request[r].browser] = request[r].copy]
  /\ Update(r, IdleRequest)
  /\ UNCHANGED <<users, drawn, claims, pushes>>

(* Mutant: the row is gone and the next request finds no session at all.   *)
LogoutForGood(b) ==
  /\ session' = [session EXCEPT ![b] = NULL]
  /\ UNCHANGED <<users, drawn, request, claims, pushes>>

Logout(b) ==
  /\ session' = [session EXCEPT ![b] = NoSession]
  /\ UNCHANGED <<users, drawn, request, claims, pushes>>

-----------------------------------------------------------------------------
(* OAuthLoginOrRegister                                                    *)

(* 1. FindByKey; any error of it is taken for a key nobody has.            *)
FindKey(r) ==
  /\ At(r, "key")
  /\ LET q == request[r]
         user == logins[q.identity]
     IN  \/ /\ user # NULL
            /\ Update(r, [q EXCEPT !.pc = "refresh", !.user = user, !.path = "returning"])
         \/ /\ user = NULL \/ Faults
            /\ Update(r, [q EXCEPT !.pc = "emails", !.todo = q.emails])
  /\ UNCHANGED <<users, session, drawn, claims, pushes>>

(* 2. One turn of findUserByEmails' loop: two holders end the login.       *)
FindEmail(r, e) ==
  /\ At(r, "emails")
  /\ e \in request[r].todo
  /\ LET q == request[r]
         holder == identifiers[e]
         another == q.user # NULL /\ holder \notin {NULL, q.user}
     IN  \/ /\ ~another
            /\ Update(r, [q EXCEPT !.todo = @ \ {e}, !.user = IF holder = NULL THEN @ ELSE holder])
         \/ (another \/ Faults) /\ Fail(r)
  /\ UNCHANGED <<users, session, drawn, claims, pushes>>

(* Its end: link the account found, or look for one by name.               *)
FoundByEmails(r) ==
  /\ At(r, "emails")
  /\ request[r].todo = {}
  /\ IF request[r].user # NULL
     THEN Update(r, [request[r] EXCEPT !.pc = "link", !.path = "email"])
     ELSE Goto(r, "username")
  /\ UNCHANGED <<users, session, drawn, claims, pushes>>

(* 2b. GetUserByUsername; any error of it is taken for a name not there.   *)
FindUsername(r) ==
  /\ At(r, "username")
  /\ LET name == NameOf[request[r].identity]
     IN  \/ /\ name \in accounts
            /\ Update(r, [request[r] EXCEPT !.pc = "link", !.user = name, !.path = "username"])
         \/ (name \notin accounts \/ Faults) /\ Goto(r, "create")
  /\ UNCHANGED <<users, session, drawn, claims, pushes>>

(* Mutant: a name that is taken is made unique.                            *)
CreateRenamed(r) ==
  /\ At(r, "create")
  /\ \E name \in Accounts \ accounts :
       /\ NameOf[request[r].identity] \in accounts \cup {name}
       /\ accounts' = accounts \cup {name}
       /\ Update(r, [request[r] EXCEPT !.pc = "link", !.user = name, !.path = "new"])
  /\ UNCHANGED <<identifiers, logins, session, drawn, claims, pushes>>

(* 3. The insert fails on a name taken meanwhile, or on an overlong one.   *)
CreateUser(r) ==
  /\ At(r, "create")
  /\ LET name == NameOf[request[r].identity]
         refused == name \in accounts \cup TooLong
     IN  \/ /\ ~refused
            /\ accounts' = accounts \cup {name}
            /\ \/ Update(r, [request[r] EXCEPT !.pc = "link", !.user = name, !.path = "new"])
               \/ Faults /\ Fail(r)
         \/ (refused \/ Faults) /\ Fail(r) /\ UNCHANGED accounts
  /\ UNCHANGED <<identifiers, logins, session, drawn, claims, pushes>>

(* Mutant: the conflict clause hands the value over to the new user.       *)
StolenBy(holder, user) == user

(* UpsertUserIdentifier: ON CONFLICT DO UPDATE WHERE the user is the same; *)
(* for anyone else's value, and for the zero user, there is no row and the *)
(* login ends.                                                             *)
HolderAfter(holder, user) == IF holder = NULL THEN user ELSE holder

(* The provider's key: for a returning user it is there already, the new   *)
(* one of a user found by name is followed by the update.                  *)
Link(r) ==
  /\ At(r, "link")
  /\ LET q == request[r]
         holder == HolderAfter(logins[q.identity], q.user)
     IN  \/ /\ q.user # NULL /\ holder = q.user
            /\ logins' = [logins EXCEPT ![q.identity] = holder]
            /\ \/ Update(r, [q EXCEPT !.todo = q.emails,
                    !.pc = IF q.path = "username" THEN "refresh" ELSE "addEmails"])
               \/ Faults /\ Fail(r)
         \/ (holder # q.user \/ q.user = NULL \/ Faults) /\ Fail(r) /\ UNCHANGED logins
  /\ UNCHANGED <<accounts, identifiers, session, drawn, claims, pushes>>

(* UpdateUser, and GetUserByID, whose error is dropped: the login goes on  *)
(* with a zero user.                                                       *)
Refresh(r) ==
  /\ At(r, "refresh")
  /\ LET q == request[r]
         pc == IF q.path = "username" THEN "addEmails" ELSE "link"
     IN  \/ Goto(r, pc)
         \/ Faults /\ Fail(r)
         \/ Faults /\ Update(r, [q EXCEPT !.pc = pc, !.user = NULL])
  /\ UNCHANGED <<users, session, drawn, claims, pushes>>

(* One turn of upsertEmails' loop: an address of someone else ends the     *)
(* login, those added before it stay.                                      *)
AddEmail(r, e) ==
  /\ At(r, "addEmails")
  /\ e \in request[r].todo
  /\ LET q == request[r]
         holder == HolderAfter(identifiers[e], q.user)
     IN  \/ /\ q.user # NULL /\ holder = q.user
            /\ identifiers' = [identifiers EXCEPT ![e] = holder]
            /\ \/ Update(r, [q EXCEPT !.todo = @ \ {e}, !.added = (@ \/ identifiers[e] = NULL)])
               \/ Faults /\ Fail(r)
         \/ (holder # q.user \/ q.user = NULL \/ Faults) /\ Fail(r) /\ UNCHANGED identifiers
  /\ UNCHANGED <<accounts, logins, session, drawn, claims, pushes>>

(* Whether OAuthLoginOrRegister reports something created.                 *)
Created(q) == q.path = "new" \/ (q.path = "returning" /\ q.added)

(* Mutant: identity_key is not put.                                        *)
FinishWithoutKey(r) ==
  /\ At(r, "addEmails")
  /\ request[r].todo = {}
  /\ LET q == request[r]
     IN  /\ claims' = IF Created(q) /\ q.emails # {}
                      THEN claims \cup {[user |-> q.user, emails |-> q.emails]} ELSE claims
         /\ Answer(r, q.browser, [q.copy EXCEPT !.user = q.user])
  /\ UNCHANGED <<users, session, drawn, pushes>>

(* Callback goes on: claim in the background, and log the browser in.      *)
Finish(r) ==
  /\ At(r, "addEmails")
  /\ request[r].todo = {}
  /\ LET q == request[r]
     IN  /\ claims' = IF Created(q) /\ q.emails # {}
                      THEN claims \cup {[user |-> q.user, emails |-> q.emails]} ELSE claims
         /\ Answer(r, q.browser, [q.copy EXCEPT !.identity = q.identity, !.user = q.user])
  /\ UNCHANGED <<users, session, drawn, pushes>>

Serve(r) ==
  \/ FindKey(r) \/ FoundByEmails(r) \/ FindUsername(r) \/ CreateUser(r) \/ Link(r)
  \/ Refresh(r) \/ Finish(r) \/ Reply(r)
  \/ \E e \in Emails : FindEmail(r, e) \/ AddEmail(r, e)

(* ClaimOrphanCommits: WebhookIngest and GameScoring say what it does.     *)
ClaimOrphanCommits(k) ==
  /\ claims' = claims \ {k}
  /\ UNCHANGED <<users, session, drawn, request, pushes>>

-----------------------------------------------------------------------------
(* Push webhooks and the process                                           *)

(* Stage 3 of getOrCreateUserForCommit, and the address it adds: ON        *)
(* CONFLICT DO NOTHING.                                                    *)
WebhookCreate(a) ==
  /\ a \notin accounts
  /\ accounts' = accounts \cup {a}
  /\ pushes' = pushes \cup {a}
  /\ UNCHANGED <<identifiers, logins, session, drawn, request, claims>>

WebhookIdentify(a, e) ==
  /\ a \in pushes
  /\ pushes' = pushes \ {a}
  /\ identifiers' = [identifiers EXCEPT ![e] = IF @ = NULL THEN a ELSE @]
  /\ UNCHANGED <<accounts, logins, session, drawn, request, claims>>

(* Sessions outlive the process, requests and goroutines do not.           *)
Crash ==
  /\ Faults
  /\ request' = [r \in Requests |-> IdleRequest]
  /\ claims' = {} /\ pushes' = {}
  /\ UNCHANGED <<users, session, drawn>>

Next ==
  \/ \E r \in Requests, b \in Browsers :
       \/ Visit(r, b)
       \/ \E s \in States : Login(r, b, s)
       \/ \E s \in drawn, i \in Identities : \E emails \in SUBSET MailsOf[i] :
            Callback(r, b, s, i, emails)
  \/ \E r \in Requests : Serve(r)
  \/ \E b \in Browsers : Logout(b)
  \/ \E k \in claims : ClaimOrphanCommits(k)
  \/ \E a \in Owners : WebhookCreate(a) \/ \E e \in CommitMails[a] : WebhookIdentify(a, e)
  \/ Crash

Spec == Init /\ [][Next]_vars

-----------------------------------------------------------------------------
(* Properties                                                              *)

(* However logins and webhooks interleave and wherever they are cut short, *)
(* they implement the directory: no account or identifier changes hands,   *)
(* and a claim only names addresses its account holds (users.go:138-247).  *)
Directory == INSTANCE AccountDirectory

DirectorySpec == Directory!Spec

(* Whoever a browser is logged in as holds the key it logged in with, even *)
(* when requests of the browser overwrite each other's sessions; only a    *)
(* failing refresh logs the zero user in (users.go:212, auth.go:163-169).  *)
SessionExplained ==
  \A b \in Browsers :
    LET s == session[b]
    IN  IF s.identity = NULL THEN s.user = NULL
        ELSE s.user = logins[s.identity] \/ (Faults /\ s.user = NULL)

(* What OAuthLoginOrRegister would do with i if nothing else ran.          *)
HoldersOf(emails) == {identifiers[e] : e \in emails} \ {NULL}

LoginPossible(i) ==
  LET holders == HoldersOf(MailsOf[i])
  IN  IF logins[i] # NULL THEN holders \subseteq {logins[i]}
      ELSE IF holders # {} THEN Cardinality(holders) = 1
      ELSE NameOf[i] \in accounts \/ NameOf[i] \notin TooLong

(* Nobody else verifies an address of i or pushes commits made under it.   *)
Unshared(i) ==
  /\ \A j \in Identities \ {i} : MailsOf[i] \cap MailsOf[j] = {}
  /\ \A a \in Owners \ {NameOf[i]} : MailsOf[i] \cap CommitMails[a] = {}

(* Whatever a login or webhook leaves behind when it is cut short between  *)
(* two inserts, the next login of the same person works, as long as nobody *)
(* else uses the person's addresses (users.go:145-246).                    *)
NeverLockedOut ==
  \A i \in Identities : Unshared(i) /\ NameOf[i] \notin TooLong => LoginPossible(i)

=============================================================================
