-------------------------- MODULE OAuthLoginProofs --------------------------
(***************************************************************************)
(* Proofs about OAuthLogin, for every value of its constants.              *)
(***************************************************************************)
EXTENDS OAuthLogin, FiniteSetTheorems, TLAPS

-----------------------------------------------------------------------------
(* The inductive invariant                                                 *)

(* Whoever holds something has an account, and so has a pending address.   *)
HoldersExist ==
  /\ accounts \subseteq Accounts
  /\ identifiers \in [Emails -> accounts \cup {NULL}]
  /\ logins \in [Identities -> accounts \cup {NULL}]
  /\ pushes \subseteq accounts \cap Owners

(* A session is nobody's, its key's holder's or, after a failure, the zero *)
(* user's.                                                                 *)
SessionHeld(s) ==
  \/ s.identity = NULL /\ s.user = NULL
  \/ s.identity # NULL /\ s.user # NULL /\ logins[s.identity] = s.user
  \/ s.identity # NULL /\ s.user = NULL /\ Faults

(* A login that adds addresses holds its provider's key and the addresses  *)
(* it is through with, or goes on with the zero user.                      *)
AddingHeld(q) ==
  \/ /\ q.user # NULL /\ logins[q.identity] = q.user
     /\ \A e \in q.emails \ q.todo : identifiers[e] = q.user
  \/ q.user = NULL /\ q.path = "username" /\ Faults

RequestHeld(q) ==
  /\ SessionHeld(q.copy)
  /\ q.pc # "idle" => q.browser \in Browsers
  /\ q.pc \notin {"idle", "reply"} => q.identity \in Identities
  /\ q.user # NULL => q.user \in accounts
  /\ q.pc = "refresh" /\ q.path = "username" =>
       q.user # NULL /\ logins[q.identity] = q.user /\ q.todo = q.emails
  /\ q.pc = "addEmails" => AddingHeld(q)

SessionsHeld == \A b \in Browsers : SessionHeld(session[b])
RequestsHeld == \A r \in Requests : RequestHeld(request[r])

LoginInv == TypeOK /\ HoldersExist /\ SessionsHeld /\ RequestsHeld

(* Nothing is taken away.                                                  *)
UsersGrow ==
  /\ accounts \subseteq accounts'
  /\ \A e \in Emails : identifiers[e] # NULL => identifiers'[e] = identifiers[e]
  /\ \A i \in Identities : logins[i] # NULL => logins'[i] = logins[i]

-----------------------------------------------------------------------------
(* Requests and sessions while the users grow                              *)

LEMMA NullFacts == NULL \notin Accounts /\ NULL \notin Identities /\ NULL \notin States
BY LoginAssumption

LEMMA IdleHeld == IdleRequest \in Request /\ RequestHeld(IdleRequest) /\ SessionHeld(NoSession)
BY DEF IdleRequest, NoSession, Request, Session, RequestHeld, SessionHeld

LEMMA SessionStays ==
  ASSUME UsersGrow, NEW s \in Session, SessionHeld(s)
  PROVE  SessionHeld(s)'
BY NullFacts DEF UsersGrow, SessionHeld, Session

LEMMA RequestStays ==
  ASSUME UsersGrow, NEW q \in Request, RequestHeld(q)
  PROVE  RequestHeld(q)'
<1>1. q.copy \in Session /\ q.emails \subseteq Emails
  BY DEF Request
<1>2. SessionHeld(q.copy)'
  BY <1>1, SessionStays DEF RequestHeld
<1>3. q.pc = "addEmails" => AddingHeld(q)'
  BY <1>1 DEF RequestHeld, AddingHeld, UsersGrow
<1>. QED BY <1>2, <1>3 DEF RequestHeld, UsersGrow

(* An answer carries a copy of the session and nothing else.               *)
LEMMA AnswerHeld ==
  ASSUME NEW b \in Browsers, NEW copy \in Session, SessionHeld(copy),
         NEW r \in Requests, Answer(r, b, copy)
  PROVE  \E q \in Request : Update(r, q) /\ RequestHeld(q)
<1>1. PICK q : q = [IdleRequest EXCEPT !.pc = "reply", !.browser = b, !.copy = copy]
  OBVIOUS
<1>2. q \in Request
  BY <1>1, IdleHeld DEF Request
<1>3. q.pc = "reply" /\ q.browser = b /\ q.copy = copy /\ q.user = NULL
  BY <1>1 DEF IdleRequest
<1>4. RequestHeld(q)
  BY <1>3 DEF RequestHeld
<1>. QED BY <1>1, <1>2, <1>4 DEF Answer

LEMMA FailHeld ==
  ASSUME TypeOK, NEW r \in Requests, RequestHeld(request[r]), ~At(r, "idle"), Fail(r)
  PROVE  \E q \in Request : Update(r, q) /\ RequestHeld(q)
<1>1. request[r].copy \in Session
  BY DEF TypeOK, Request
<1>. QED BY <1>1, AnswerHeld DEF Fail, RequestHeld, At

-----------------------------------------------------------------------------
(* The steps of a request that leave the users alone                       *)

LEMMA Current ==
  ASSUME LoginInv, NEW r \in Requests
  PROVE  request[r] \in Request /\ RequestHeld(request[r])
BY DEF LoginInv, TypeOK, RequestsHeld

LEMMA StartHeld ==
  ASSUME LoginInv, NEW r \in Requests, NEW b \in Browsers,
         \/ Visit(r, b)
         \/ \E s \in States : Login(r, b, s)
         \/ \E s \in drawn, i \in Identities : \E emails \in SUBSET MailsOf[i] :
              Callback(r, b, s, i, emails)
  PROVE  \E q \in Request : Update(r, q) /\ RequestHeld(q)
<1>1. session[b] \in Session /\ SessionHeld(session[b])
  BY DEF LoginInv, TypeOK, SessionsHeld
<1>2. CASE Visit(r, b)
  BY <1>1, <1>2, AnswerHeld DEF Visit
<1>3. ASSUME NEW s \in States \cup {NULL}
      PROVE  /\ [session[b] EXCEPT !.state = s] \in Session
             /\ SessionHeld([session[b] EXCEPT !.state = s])
  BY <1>1 DEF Session, SessionHeld
<1>4. ASSUME NEW s \in States, Login(r, b, s)
      PROVE  \E q \in Request : Update(r, q) /\ RequestHeld(q)
  BY <1>3, <1>4, AnswerHeld DEF Login
<1>5. ASSUME NEW s \in drawn, NEW i \in Identities, NEW emails \in SUBSET MailsOf[i],
             Callback(r, b, s, i, emails)
      PROVE  \E q \in Request : Update(r, q) /\ RequestHeld(q)
  <2>1. PICK copy : copy = [session[b] EXCEPT !.state = NULL]
    OBVIOUS
  <2>2. copy \in Session /\ SessionHeld(copy)
    BY <2>1, <1>3
  <2>3. CASE Answer(r, b, copy)
    BY <2>2, <2>3, AnswerHeld
  <2>4. PICK q : q = [IdleRequest EXCEPT !.pc = "key", !.browser = b, !.copy = copy,
                        !.identity = i, !.emails = emails]
    OBVIOUS
  <2>5. q \in Request
    <3>1. emails \subseteq Emails
      BY LoginAssumption
    <3>. QED BY <2>2, <2>4, <3>1, IdleHeld DEF Request
  <2>6. q.pc = "key" /\ q.browser = b /\ q.copy = copy /\ q.identity = i /\ q.user = NULL
    BY <2>4 DEF IdleRequest
  <2>7. RequestHeld(q)
    BY <2>2, <2>6 DEF RequestHeld
  <2>8. Answer(r, b, copy) \/ Update(r, q)
    BY <1>5, <2>1, <2>4 DEF Callback
  <2>. QED BY <2>3, <2>5, <2>7, <2>8
<1>. QED BY <1>2, <1>4, <1>5

LEMMA ReplyHeld ==
  ASSUME NEW r \in Requests, Reply(r)
  PROVE  \E q \in Request : Update(r, q) /\ RequestHeld(q)
BY IdleHeld DEF Reply

LEMMA FindKeyHeld ==
  ASSUME LoginInv, NEW r \in Requests, FindKey(r)
  PROVE  \E q \in Request : Update(r, q) /\ RequestHeld(q)
<1>1. PICK p : p = request[r]
  OBVIOUS
<1>2. p \in Request /\ RequestHeld(p) /\ p.pc = "key"
  BY <1>1, Current DEF FindKey, At
<1>3. p.identity \in Identities /\ logins[p.identity] \in accounts \cup {NULL}
  BY <1>2 DEF RequestHeld, LoginInv, HoldersExist
<1>4. CASE /\ logins[p.identity] # NULL
           /\ Update(r, [p EXCEPT !.pc = "refresh", !.user = logins[p.identity],
                           !.path = "returning"])
  <2>1. PICK q : q = [p EXCEPT !.pc = "refresh", !.user = logins[p.identity],
                        !.path = "returning"]
    OBVIOUS
  <2>2. q \in Request
    BY <1>2, <1>3, <1>4, <2>1 DEF Request, LoginInv, HoldersExist
  <2>3. /\ q.pc = "refresh" /\ q.browser = p.browser /\ q.copy = p.copy
        /\ q.identity = p.identity /\ q.user = logins[p.identity] /\ q.path = "returning"
    BY <1>2, <2>1 DEF Request
  <2>4. RequestHeld(q)
    BY <1>2, <1>3, <2>3 DEF RequestHeld
  <2>. QED BY <1>4, <2>1, <2>2, <2>4
<1>5. CASE Update(r, [p EXCEPT !.pc = "emails", !.todo = p.emails])
  <2>1. PICK q : q = [p EXCEPT !.pc = "emails", !.todo = p.emails]
    OBVIOUS
  <2>2. q \in Request
    BY <1>2, <2>1 DEF Request
  <2>3. /\ q.pc = "emails" /\ q.browser = p.browser /\ q.copy = p.copy
        /\ q.identity = p.identity /\ q.user = p.user
    BY <1>2, <2>1 DEF Request
  <2>4. RequestHeld(q)
    BY <1>2, <2>3 DEF RequestHeld
  <2>. QED BY <1>5, <2>1, <2>2, <2>4
<1>. QED BY <1>1, <1>4, <1>5 DEF FindKey

(* A request that moves on to anywhere but its addresses.                  *)
LEMMA MovedHeld ==
  ASSUME NEW p, RequestHeld(p), p.pc \notin {"idle", "reply"},
         NEW q, q.pc \notin {"idle", "addEmails"}, q.pc = "refresh" => q.path # "username",
         q.browser = p.browser, q.copy = p.copy, q.identity = p.identity,
         q.user = p.user \/ q.user \in accounts \/ q.user = NULL
  PROVE  RequestHeld(q)
BY DEF RequestHeld

LEMMA FindEmailHeld ==
  ASSUME LoginInv, NEW r \in Requests, NEW e \in Emails, FindEmail(r, e)
  PROVE  \E q \in Request : Update(r, q) /\ RequestHeld(q)
<1>1. PICK p : p = request[r]
  OBVIOUS
<1>2. p \in Request /\ RequestHeld(p) /\ p.pc = "emails"
  BY <1>1, Current DEF FindEmail, At
<1>3. identifiers[e] \in accounts \cup {NULL} /\ accounts \subseteq Accounts
  BY DEF LoginInv, HoldersExist
<1>4. CASE Fail(r)
  BY <1>1, <1>2, <1>4, FailHeld DEF LoginInv, At
<1>5. PICK q : q = [p EXCEPT !.todo = @ \ {e},
                      !.user = IF identifiers[e] = NULL THEN @ ELSE identifiers[e]]
  OBVIOUS
<1>6. q \in Request
  BY <1>2, <1>3, <1>5 DEF Request
<1>7. /\ q.pc = "emails" /\ q.browser = p.browser /\ q.copy = p.copy
      /\ q.identity = p.identity
      /\ q.user = p.user \/ q.user = identifiers[e]
  BY <1>2, <1>5 DEF Request
<1>8. RequestHeld(q)
  BY <1>2, <1>3, <1>7, MovedHeld
<1>9. Update(r, q) \/ Fail(r)
  BY <1>1, <1>5 DEF FindEmail
<1>. QED BY <1>4, <1>6, <1>8, <1>9

LEMMA FoundByEmailsHeld ==
  ASSUME LoginInv, NEW r \in Requests, FoundByEmails(r)
  PROVE  \E q \in Request : Update(r, q) /\ RequestHeld(q)
<1>1. PICK p : p = request[r]
  OBVIOUS
<1>2. p \in Request /\ RequestHeld(p) /\ p.pc = "emails"
  BY <1>1, Current DEF FoundByEmails, At
<1>3. PICK q : \/ q = [p EXCEPT !.pc = "link", !.path = "email"] /\ Update(r, q)
               \/ q = [p EXCEPT !.pc = "username"] /\ Update(r, q)
  BY <1>1 DEF FoundByEmails, Goto
<1>4. q \in Request
  <2>1. [p EXCEPT !.pc = "link", !.path = "email"] \in Request
    BY <1>2 DEF Request
  <2>2. [p EXCEPT !.pc = "username"] \in Request
    BY <1>2 DEF Request
  <2>. QED BY <1>3, <2>1, <2>2
<1>5. /\ q.pc \in {"link", "username"} /\ q.browser = p.browser /\ q.copy = p.copy
      /\ q.identity = p.identity /\ q.user = p.user
  BY <1>2, <1>3 DEF Request
<1>6. RequestHeld(q)
  BY <1>2, <1>5, MovedHeld
<1>. QED BY <1>3, <1>4, <1>6

LEMMA FindUsernameHeld ==
  ASSUME LoginInv, NEW r \in Requests, FindUsername(r)
  PROVE  \E q \in Request : Update(r, q) /\ RequestHeld(q)
<1>1. PICK p : p = request[r]
  OBVIOUS
<1>2. p \in Request /\ RequestHeld(p) /\ p.pc = "username"
  BY <1>1, Current DEF FindUsername, At
<1>3. PICK name : name = NameOf[p.identity]
  OBVIOUS
<1>4. PICK q : \/ /\ name \in accounts
                  /\ q = [p EXCEPT !.pc = "link", !.user = name, !.path = "username"]
                  /\ Update(r, q)
               \/ q = [p EXCEPT !.pc = "create"] /\ Update(r, q)
  BY <1>1, <1>3 DEF FindUsername, Goto
<1>5. accounts \subseteq Accounts
  BY DEF LoginInv, HoldersExist
<1>6. q \in Request
  <2>1. name \in accounts => [p EXCEPT !.pc = "link", !.user = name, !.path = "username"] \in Request
    BY <1>2, <1>5 DEF Request
  <2>2. [p EXCEPT !.pc = "create"] \in Request
    BY <1>2 DEF Request
  <2>. QED BY <1>4, <2>1, <2>2
<1>7. /\ q.pc \in {"link", "create"} /\ q.browser = p.browser /\ q.copy = p.copy
      /\ q.identity = p.identity
      /\ q.user = p.user \/ q.user \in accounts
  BY <1>2, <1>4 DEF Request
<1>8. RequestHeld(q)
  BY <1>2, <1>7, MovedHeld
<1>. QED BY <1>4, <1>6, <1>8

(* After a refresh the key of a user found by name is there; of the zero   *)
(* user nothing is known.                                                  *)
LEMMA RefreshHeld ==
  ASSUME LoginInv, NEW r \in Requests, Refresh(r)
  PROVE  \E q \in Request : Update(r, q) /\ RequestHeld(q)
<1>1. PICK p : p = request[r]
  OBVIOUS
<1>2. p \in Request /\ RequestHeld(p) /\ p.pc = "refresh"
  BY <1>1, Current DEF Refresh, At
<1>3. CASE Fail(r)
  BY <1>1, <1>2, <1>3, FailHeld DEF LoginInv, At
<1>4. PICK pc : pc = IF p.path = "username" THEN "addEmails" ELSE "link"
  OBVIOUS
<1>5. CASE Update(r, [p EXCEPT !.pc = pc])
  <2>1. PICK q : q = [p EXCEPT !.pc = pc]
    OBVIOUS
  <2>2. q \in Request
    BY <1>2, <1>4, <2>1 DEF Request
  <2>3. /\ q.pc = pc /\ q.browser = p.browser /\ q.copy = p.copy /\ q.user = p.user
        /\ q.identity = p.identity /\ q.todo = p.todo /\ q.emails = p.emails
    BY <1>2, <2>1 DEF Request
  <2>4. RequestHeld(q)
    <3>1. CASE p.path = "username"
      <4>1. AddingHeld(q)
        BY <1>2, <2>3, <3>1 DEF RequestHeld, AddingHeld
      <4>. QED BY <1>2, <1>4, <2>3, <3>1, <4>1 DEF RequestHeld
    <3>2. CASE p.path # "username"
      BY <1>2, <1>4, <2>3, <3>2, MovedHeld
    <3>. QED BY <3>1, <3>2
  <2>. QED BY <1>5, <2>1, <2>2, <2>4
<1>6. CASE Faults /\ Update(r, [p EXCEPT !.pc = pc, !.user = NULL])
  <2>1. PICK q : q = [p EXCEPT !.pc = pc, !.user = NULL]
    OBVIOUS
  <2>2. q \in Request
    BY <1>2, <1>4, <2>1 DEF Request
  <2>3. /\ q.pc = pc /\ q.browser = p.browser /\ q.copy = p.copy /\ q.user = NULL
        /\ q.identity = p.identity /\ q.path = p.path
    BY <1>2, <2>1 DEF Request
  <2>4. RequestHeld(q)
    <3>1. CASE p.path = "username"
      BY <1>2, <1>4, <1>6, <2>3, <3>1 DEF RequestHeld, AddingHeld
    <3>2. CASE p.path # "username"
      BY <1>2, <1>4, <2>3, <3>2, MovedHeld
    <3>. QED BY <3>1, <3>2
  <2>. QED BY <1>6, <2>1, <2>2, <2>4
<1>. QED BY <1>1, <1>3, <1>4, <1>5, <1>6 DEF Refresh, Goto

(* The session a login ends with is explained.                             *)
LEMMA FinishHeld ==
  ASSUME LoginInv, NEW r \in Requests, Finish(r)
  PROVE  \E q \in Request : Update(r, q) /\ RequestHeld(q)
<1>1. PICK p : p = request[r]
  OBVIOUS
<1>2. p \in Request /\ RequestHeld(p) /\ p.pc = "addEmails"
  BY <1>1, Current DEF Finish, At
<1>3. PICK copy : copy = [p.copy EXCEPT !.identity = p.identity, !.user = p.user]
  OBVIOUS
<1>4. p.copy \in Session /\ p.identity \in Identities /\ p.user \in Accounts \cup {NULL}
  BY <1>2 DEF RequestHeld, Request
<1>5. copy \in Session /\ copy.identity = p.identity /\ copy.user = p.user
  BY <1>3, <1>4 DEF Session
<1>6. SessionHeld(copy)
  BY <1>2, <1>4, <1>5, NullFacts DEF SessionHeld, RequestHeld, AddingHeld
<1>7. Answer(r, p.browser, copy) /\ p.browser \in Browsers
  BY <1>1, <1>2, <1>3 DEF Finish, RequestHeld
<1>. QED BY <1>5, <1>6, <1>7, AnswerHeld

-----------------------------------------------------------------------------
(* The steps that write to the users' tables                               *)

LEMMA CreateUserGrows ==
  ASSUME LoginInv, NEW r \in Requests, CreateUser(r)
  PROVE  UsersGrow /\ HoldersExist'
<1>1. request[r].identity \in Identities
  BY Current DEF CreateUser, At, RequestHeld
<1>2. NameOf[request[r].identity] \in Accounts
  BY <1>1, LoginAssumption
<1>3. accounts' \in {accounts, accounts \cup {NameOf[request[r].identity]}}
  BY DEF CreateUser
<1>4. UNCHANGED <<identifiers, logins, pushes>>
  BY DEF CreateUser
<1>. QED BY <1>2, <1>3, <1>4 DEF UsersGrow, LoginInv, HoldersExist

LEMMA LinkGrows ==
  ASSUME LoginInv, NEW r \in Requests, Link(r)
  PROVE  UsersGrow /\ HoldersExist'
<1>1. PICK p : p = request[r]
  OBVIOUS
<1>2. RequestHeld(p) /\ p.pc = "link"
  BY <1>1, Current DEF Link, At
<1>3. p.user # NULL => p.user \in accounts
  BY <1>2 DEF RequestHeld
<1>4. \/ UNCHANGED logins
      \/ /\ p.user # NULL /\ logins[p.identity] \in {NULL, p.user}
         /\ logins' = [logins EXCEPT ![p.identity] = p.user]
  BY <1>1 DEF Link, HolderAfter
<1>5. UNCHANGED <<accounts, identifiers, pushes>>
  BY DEF Link
<1>6. UsersGrow
  BY <1>4, <1>5 DEF UsersGrow, LoginInv, HoldersExist
<1>. QED BY <1>3, <1>4, <1>5, <1>6 DEF LoginInv, HoldersExist

LEMMA AddEmailGrows ==
  ASSUME LoginInv, NEW r \in Requests, NEW e \in Emails, AddEmail(r, e)
  PROVE  UsersGrow /\ HoldersExist'
<1>1. PICK p : p = request[r]
  OBVIOUS
<1>2. RequestHeld(p) /\ p.pc = "addEmails"
  BY <1>1, Current DEF AddEmail, At
<1>3. p.user # NULL => p.user \in accounts
  BY <1>2 DEF RequestHeld
<1>4. \/ UNCHANGED identifiers
      \/ /\ p.user # NULL /\ identifiers[e] \in {NULL, p.user}
         /\ identifiers' = [identifiers EXCEPT ![e] = p.user]
  BY <1>1 DEF AddEmail, HolderAfter
<1>5. UNCHANGED <<accounts, logins, pushes>>
  BY DEF AddEmail
<1>6. UsersGrow
  BY <1>4, <1>5 DEF UsersGrow, LoginInv, HoldersExist
<1>. QED BY <1>3, <1>4, <1>5, <1>6 DEF LoginInv, HoldersExist

LEMMA WebhookGrows ==
  ASSUME LoginInv, NEW a \in Owners,
         WebhookCreate(a) \/ \E e \in CommitMails[a] : WebhookIdentify(a, e)
  PROVE  UsersGrow /\ HoldersExist'
<1>1. CASE WebhookCreate(a)
  BY <1>1, LoginAssumption DEF WebhookCreate, UsersGrow, LoginInv, HoldersExist
<1>2. ASSUME NEW e \in CommitMails[a], WebhookIdentify(a, e)
      PROVE  UsersGrow /\ HoldersExist'
  <2>1. a \in accounts
    BY <1>2 DEF WebhookIdentify, LoginInv, HoldersExist
  <2>2. \/ UNCHANGED identifiers
        \/ identifiers[e] = NULL /\ identifiers' = [identifiers EXCEPT ![e] = a]
    BY <1>2 DEF WebhookIdentify, LoginInv, HoldersExist
  <2>3. UNCHANGED <<accounts, logins>> /\ pushes' \subseteq pushes
    BY <1>2 DEF WebhookIdentify
  <2>4. UsersGrow
    BY <2>2, <2>3 DEF UsersGrow, LoginInv, HoldersExist
  <2>. QED BY <2>1, <2>2, <2>3, <2>4 DEF LoginInv, HoldersExist
<1>. QED BY <1>1, <1>2

(* An account that was just created, or found otherwise, goes on to its    *)
(* key, a failed insert to the reply.                                      *)
LEMMA CreateUserHeld ==
  ASSUME LoginInv, NEW r \in Requests, CreateUser(r)
  PROVE  \E q \in Request : Update(r, q) /\ RequestHeld(q)'
<1>1. PICK p : p = request[r]
  OBVIOUS
<1>2. p \in Request /\ RequestHeld(p) /\ p.pc = "create"
  BY <1>1, Current DEF CreateUser, At
<1>3. UsersGrow
  BY CreateUserGrows
<1>4. CASE Fail(r)
  BY <1>1, <1>2, <1>3, <1>4, FailHeld, RequestStays DEF LoginInv, At
<1>5. PICK name : name = NameOf[p.identity]
  OBVIOUS
<1>6. name \in Accounts
  BY <1>2, <1>5, LoginAssumption DEF RequestHeld
<1>7. CASE /\ name \in accounts'
           /\ Update(r, [p EXCEPT !.pc = "link", !.user = name, !.path = "new"])
  <2>1. PICK q : q = [p EXCEPT !.pc = "link", !.user = name, !.path = "new"]
    OBVIOUS
  <2>2. q \in Request
    BY <1>2, <1>6, <2>1 DEF Request
  <2>3. /\ q.pc = "link" /\ q.browser = p.browser /\ q.copy = p.copy
        /\ q.identity = p.identity /\ q.user = name
    BY <1>2, <2>1 DEF Request
  <2>4. p.copy \in Session
    BY <1>2 DEF Request
  <2>5. SessionHeld(p.copy)'
    BY <1>2, <1>3, <2>4, SessionStays DEF RequestHeld
  <2>6. RequestHeld(q)'
    BY <1>2, <1>7, <2>3, <2>5 DEF RequestHeld
  <2>. QED BY <1>7, <2>1, <2>2, <2>6
<1>8. \/ Fail(r)
      \/ /\ name \in accounts'
         /\ Update(r, [p EXCEPT !.pc = "link", !.user = name, !.path = "new"])
  BY <1>1, <1>5 DEF CreateUser
<1>. QED BY <1>4, <1>7, <1>8

(* The key is the account's from here on.                                  *)
LEMMA LinkHeld ==
  ASSUME LoginInv, NEW r \in Requests, Link(r)
  PROVE  \E q \in Request : Update(r, q) /\ RequestHeld(q)'
<1>1. PICK p : p = request[r]
  OBVIOUS
<1>2. p \in Request /\ RequestHeld(p) /\ p.pc = "link"
  BY <1>1, Current DEF Link, At
<1>3. UsersGrow
  BY LinkGrows
<1>4. CASE Fail(r)
  BY <1>1, <1>2, <1>3, <1>4, FailHeld, RequestStays DEF LoginInv, At
<1>5. PICK q : q = [p EXCEPT !.todo = p.emails,
                      !.pc = IF p.path = "username" THEN "refresh" ELSE "addEmails"]
  OBVIOUS
<1>6. CASE p.user # NULL /\ logins'[p.identity] = p.user /\ Update(r, q)
  <2>1. q \in Request
    BY <1>2, <1>5 DEF Request
  <2>2. /\ q.pc = IF p.path = "username" THEN "refresh" ELSE "addEmails"
        /\ q.browser = p.browser /\ q.copy = p.copy /\ q.user = p.user
        /\ q.identity = p.identity /\ q.todo = q.emails
    BY <1>2, <1>5 DEF Request
  <2>3. p.copy \in Session
    BY <1>2 DEF Request
  <2>4. SessionHeld(p.copy)' /\ q.user \in accounts'
    BY <1>2, <1>3, <1>6, <2>2, <2>3, SessionStays DEF RequestHeld, UsersGrow
  <2>5. AddingHeld(q)'
    BY <1>6, <2>2 DEF AddingHeld
  <2>6. RequestHeld(q)'
    BY <1>2, <1>6, <2>2, <2>4, <2>5 DEF RequestHeld
  <2>. QED BY <1>6, <2>1, <2>6
<1>7. \/ Fail(r)
      \/ p.user # NULL /\ logins'[p.identity] = p.user /\ Update(r, q)
  <2>1. p.identity \in Identities /\ logins \in [Identities -> accounts \cup {NULL}]
    BY <1>2 DEF RequestHeld, LoginInv, HoldersExist
  <2>. QED BY <1>1, <1>5, <2>1 DEF Link
<1>. QED BY <1>4, <1>6, <1>7

(* And so is each address as the login gets through with it.               *)
LEMMA AddEmailHeld ==
  ASSUME LoginInv, NEW r \in Requests, NEW e \in Emails, AddEmail(r, e)
  PROVE  \E q \in Request : Update(r, q) /\ RequestHeld(q)'
<1>1. PICK p : p = request[r]
  OBVIOUS
<1>2. p \in Request /\ RequestHeld(p) /\ p.pc = "addEmails"
  BY <1>1, Current DEF AddEmail, At
<1>3. UsersGrow
  BY AddEmailGrows
<1>4. CASE Fail(r)
  BY <1>1, <1>2, <1>3, <1>4, FailHeld, RequestStays DEF LoginInv, At
<1>5. PICK q : q = [p EXCEPT !.todo = @ \ {e}, !.added = (@ \/ identifiers[e] = NULL)]
  OBVIOUS
<1>6. CASE p.user # NULL /\ identifiers'[e] = p.user /\ Update(r, q)
  <2>1. q \in Request
    BY <1>2, <1>5 DEF Request
  <2>2. /\ q.pc = "addEmails" /\ q.browser = p.browser /\ q.copy = p.copy
        /\ q.user = p.user /\ q.identity = p.identity /\ q.emails = p.emails
        /\ q.todo = p.todo \ {e} /\ q.path = p.path
    BY <1>2, <1>5 DEF Request
  <2>3. RequestHeld(p)'
    BY <1>2, <1>3, RequestStays
  <2>4. AddingHeld(q)'
    BY <1>2, <1>6, <2>2, <2>3 DEF AddingHeld, RequestHeld
  <2>5. RequestHeld(q)'
    BY <1>2, <2>2, <2>3, <2>4 DEF RequestHeld
  <2>. QED BY <1>6, <2>1, <2>5
<1>7. \/ Fail(r)
      \/ p.user # NULL /\ identifiers'[e] = p.user /\ Update(r, q)
  <2>1. identifiers \in [Emails -> accounts \cup {NULL}]
    BY DEF LoginInv, HoldersExist
  <2>. QED BY <1>1, <1>5, <2>1 DEF AddEmail
<1>. QED BY <1>4, <1>6, <1>7

-----------------------------------------------------------------------------
(* Every step                                                              *)

(* A claim that starts is given the addresses of its account.              *)
NewClaims ==
  \A k \in claims' \ claims : k \in Claim /\ \A e \in k.emails : identifiers'[e] = k.user

StepKeeps == UsersGrow /\ NewClaims /\ LoginInv'

LEMMA UsersUntouched ==
  ASSUME LoginInv, UNCHANGED users, pushes' \subseteq pushes
  PROVE  UsersGrow /\ HoldersExist'
BY DEF users, UsersGrow, LoginInv, HoldersExist

LEMMA SessionsStay ==
  ASSUME LoginInv, UsersGrow, UNCHANGED session
  PROVE  session' \in [Browsers -> Session] /\ SessionsHeld'
<1>1. ASSUME NEW b \in Browsers
      PROVE  SessionHeld(session[b])'
  <2>1. PICK s : s = session[b]
    OBVIOUS
  <2>2. s \in Session /\ SessionHeld(s)
    BY <2>1 DEF LoginInv, TypeOK, SessionsHeld
  <2>3. SessionHeld(s)'
    BY <2>2, SessionStays
  <2>. QED BY <2>1, <2>3 DEF SessionHeld
<1>. QED BY <1>1 DEF SessionsHeld, LoginInv, TypeOK

LEMMA RequestsStay ==
  ASSUME LoginInv, UsersGrow, UNCHANGED request
  PROVE  request' \in [Requests -> Request] /\ RequestsHeld'
<1>1. ASSUME NEW r \in Requests
      PROVE  RequestHeld(request[r])'
  <2>1. PICK q : q = request[r]
    OBVIOUS
  <2>2. q \in Request /\ RequestHeld(q)
    BY <2>1, Current
  <2>3. RequestHeld(q)'
    BY <2>2, RequestStays
  <2>. QED BY <2>1, <2>3 DEF RequestHeld, SessionHeld, AddingHeld
<1>. QED BY <1>1 DEF RequestsHeld, LoginInv, TypeOK

LEMMA OneRequest ==
  ASSUME LoginInv, UsersGrow, NEW r \in Requests, NEW q \in Request,
         Update(r, q), RequestHeld(q)'
  PROVE  request' \in [Requests -> Request] /\ RequestsHeld'
<1>1. request' = [request EXCEPT ![r] = q] /\ request \in [Requests -> Request]
  BY DEF Update, LoginInv, TypeOK
<1>2. ASSUME NEW x \in Requests
      PROVE  RequestHeld(request[x])'
  <2>1. PICK p : p = IF x = r THEN q ELSE request[x]
    OBVIOUS
  <2>2. request'[x] = p
    BY <1>1, <2>1
  <2>3. RequestHeld(p)'
    <3>1. CASE x = r
      BY <2>1, <3>1
    <3>2. CASE x # r
      BY <2>1, <3>2, Current, RequestStays
    <3>. QED BY <3>1, <3>2
  <2>. QED BY <2>2, <2>3 DEF RequestHeld, SessionHeld, AddingHeld
<1>. QED BY <1>1, <1>2 DEF RequestsHeld

(* What a step of a request has to show when it leaves the sessions alone. *)
LEMMA RequestStep ==
  ASSUME LoginInv, UsersGrow, HoldersExist', UNCHANGED session, drawn' \subseteq States, NewClaims,
         NEW r \in Requests, \E q \in Request : Update(r, q) /\ RequestHeld(q)'
  PROVE  StepKeeps
<1>1. request' \in [Requests -> Request] /\ RequestsHeld'
  BY OneRequest
<1>2. session' \in [Browsers -> Session] /\ SessionsHeld'
  BY SessionsStay
<1>3. claims' \subseteq Claim
  BY DEF NewClaims, LoginInv, TypeOK
<1>4. LoginInv'
  BY <1>1, <1>2, <1>3 DEF LoginInv, TypeOK, HoldersExist
<1>. QED BY <1>4 DEF StepKeeps

(* The same where the users are not written to either.                     *)
LEMMA QuietStep ==
  ASSUME LoginInv, UNCHANGED <<users, session, pushes>>, drawn' \subseteq States, NewClaims,
         NEW r \in Requests, \E q \in Request : Update(r, q) /\ RequestHeld(q)
  PROVE  StepKeeps
<1>1. UsersGrow /\ HoldersExist'
  BY UsersUntouched
<1>2. \E q \in Request : Update(r, q) /\ RequestHeld(q)'
  BY <1>1, RequestStays
<1>. QED BY <1>1, <1>2, RequestStep

LEMMA StartStep ==
  ASSUME LoginInv, NEW r \in Requests, NEW b \in Browsers,
         \/ Visit(r, b)
         \/ \E s \in States : Login(r, b, s)
         \/ \E s \in drawn, i \in Identities : \E emails \in SUBSET MailsOf[i] :
              Callback(r, b, s, i, emails)
  PROVE  StepKeeps
<1>1. drawn' \subseteq States /\ UNCHANGED <<users, session, pushes>> /\ UNCHANGED claims
  BY DEF Visit, Login, Callback, LoginInv, TypeOK
<1>2. NewClaims
  BY <1>1 DEF NewClaims
<1>. QED BY <1>1, <1>2, StartHeld, QuietStep

(* Only a login that created something claims: it is not a zero user's.    *)
LEMMA FinishStep ==
  ASSUME LoginInv, NEW r \in Requests, Finish(r)
  PROVE  StepKeeps
<1>1. PICK p : p = request[r]
  OBVIOUS
<1>2. p \in Request /\ RequestHeld(p) /\ p.pc = "addEmails" /\ p.todo = {}
  BY <1>1, Current DEF Finish, At
<1>3. UNCHANGED <<users, session, drawn, pushes>>
  BY DEF Finish
<1>4. ASSUME NEW k \in claims' \ claims
      PROVE  k \in Claim /\ \A e \in k.emails : identifiers'[e] = k.user
  <2>1. k = [user |-> p.user, emails |-> p.emails] /\ Created(p)
    BY <1>1, <1>4 DEF Finish
  <2>2. p.user # NULL /\ \A e \in p.emails : identifiers[e] = p.user
    BY <1>2, <2>1 DEF Created, RequestHeld, AddingHeld
  <2>3. p.user \in Accounts /\ p.emails \subseteq Emails
    BY <1>2, <2>2 DEF Request
  <2>. QED BY <1>3, <2>1, <2>2, <2>3 DEF Claim, users
<1>5. NewClaims
  BY <1>4 DEF NewClaims
<1>6. drawn' \subseteq States
  BY <1>3 DEF LoginInv, TypeOK
<1>. QED BY <1>3, <1>5, <1>6, FinishHeld, QuietStep

(* Reply writes the request's copy of the session over whatever another    *)
(* request of the browser wrote meanwhile: either is explained.            *)
LEMMA ReplyStep ==
  ASSUME LoginInv, NEW r \in Requests, Reply(r)
  PROVE  StepKeeps
<1>1. PICK p : p = request[r]
  OBVIOUS
<1>2. p \in Request /\ RequestHeld(p) /\ p.pc = "reply"
  BY <1>1, Current DEF Reply, At
<1>3. p.browser \in Browsers /\ p.copy \in Session /\ SessionHeld(p.copy)
  BY <1>2 DEF RequestHeld, Request
<1>4. /\ UNCHANGED <<users, drawn, claims, pushes>>
      /\ session' = [session EXCEPT ![p.browser] = p.copy]
  BY <1>1 DEF Reply
<1>5. UsersGrow /\ HoldersExist'
  BY <1>4, UsersUntouched
<1>6. session' \in [Browsers -> Session]
  BY <1>3, <1>4 DEF LoginInv, TypeOK
<1>7. SessionsHeld'
  <2>1. ASSUME NEW b \in Browsers
        PROVE  SessionHeld(session[b])'
    <3>1. PICK s : s = IF b = p.browser THEN p.copy ELSE session[b]
      OBVIOUS
    <3>2. session'[b] = s
      BY <1>4, <3>1 DEF LoginInv, TypeOK
    <3>3. s \in Session /\ SessionHeld(s)
      BY <1>3, <3>1 DEF LoginInv, TypeOK, SessionsHeld
    <3>4. SessionHeld(s)'
      BY <1>5, <3>3, SessionStays
    <3>. QED BY <3>2, <3>4 DEF SessionHeld
  <2>. QED BY <2>1 DEF SessionsHeld
<1>8. request' \in [Requests -> Request] /\ RequestsHeld'
  <2>1. PICK q \in Request : Update(r, q) /\ RequestHeld(q)
    BY ReplyHeld
  <2>2. RequestHeld(q)'
    BY <1>5, <2>1, RequestStays
  <2>. QED BY <1>5, <2>1, <2>2, OneRequest
<1>9. LoginInv'
  BY <1>4, <1>5, <1>6, <1>7, <1>8 DEF LoginInv, TypeOK, HoldersExist
<1>. QED BY <1>4, <1>5, <1>9 DEF StepKeeps, NewClaims

LEMMA ServeStep ==
  ASSUME LoginInv, NEW r \in Requests, Serve(r)
  PROVE  StepKeeps
<1>1. CASE FindKey(r)
  <2>1. UNCHANGED <<users, session, drawn, claims, pushes>>
    BY <1>1 DEF FindKey
  <2>2. NewClaims /\ drawn' \subseteq States
    BY <2>1 DEF NewClaims, LoginInv, TypeOK
  <2>. QED BY <1>1, <2>1, <2>2, FindKeyHeld, QuietStep
<1>2. CASE FoundByEmails(r)
  <2>1. UNCHANGED <<users, session, drawn, claims, pushes>>
    BY <1>2 DEF FoundByEmails
  <2>2. NewClaims /\ drawn' \subseteq States
    BY <2>1 DEF NewClaims, LoginInv, TypeOK
  <2>. QED BY <1>2, <2>1, <2>2, FoundByEmailsHeld, QuietStep
<1>3. CASE FindUsername(r)
  <2>1. UNCHANGED <<users, session, drawn, claims, pushes>>
    BY <1>3 DEF FindUsername
  <2>2. NewClaims /\ drawn' \subseteq States
    BY <2>1 DEF NewClaims, LoginInv, TypeOK
  <2>. QED BY <1>3, <2>1, <2>2, FindUsernameHeld, QuietStep
<1>4. CASE Refresh(r)
  <2>1. UNCHANGED <<users, session, drawn, claims, pushes>>
    BY <1>4 DEF Refresh
  <2>2. NewClaims /\ drawn' \subseteq States
    BY <2>1 DEF NewClaims, LoginInv, TypeOK
  <2>. QED BY <1>4, <2>1, <2>2, RefreshHeld, QuietStep
<1>5. CASE CreateUser(r)
  <2>1. UNCHANGED <<session, drawn, claims>>
    BY <1>5 DEF CreateUser
  <2>2. NewClaims /\ drawn' \subseteq States
    BY <2>1 DEF NewClaims, LoginInv, TypeOK
  <2>. QED BY <1>5, <2>1, <2>2, CreateUserGrows, CreateUserHeld, RequestStep
<1>6. CASE Link(r)
  <2>1. UNCHANGED <<session, drawn, claims>>
    BY <1>6 DEF Link
  <2>2. NewClaims /\ drawn' \subseteq States
    BY <2>1 DEF NewClaims, LoginInv, TypeOK
  <2>. QED BY <1>6, <2>1, <2>2, LinkGrows, LinkHeld, RequestStep
<1>7. ASSUME NEW e \in Emails, FindEmail(r, e)
      PROVE  StepKeeps
  <2>1. UNCHANGED <<users, session, drawn, claims, pushes>>
    BY <1>7 DEF FindEmail
  <2>2. NewClaims /\ drawn' \subseteq States
    BY <2>1 DEF NewClaims, LoginInv, TypeOK
  <2>. QED BY <1>7, <2>1, <2>2, FindEmailHeld, QuietStep
<1>8. ASSUME NEW e \in Emails, AddEmail(r, e)
      PROVE  StepKeeps
  <2>1. UNCHANGED <<session, drawn, claims>>
    BY <1>8 DEF AddEmail
  <2>2. NewClaims /\ drawn' \subseteq States
    BY <2>1 DEF NewClaims, LoginInv, TypeOK
  <2>. QED BY <1>8, <2>1, <2>2, AddEmailGrows, AddEmailHeld, RequestStep
<1>. QED BY <1>1, <1>2, <1>3, <1>4, <1>5, <1>6, <1>7, <1>8, FinishStep, ReplyStep DEF Serve

LEMMA LogoutStep ==
  ASSUME LoginInv, NEW b \in Browsers, Logout(b)
  PROVE  StepKeeps
<1>1. /\ UNCHANGED <<users, drawn, request, claims, pushes>>
      /\ session' = [session EXCEPT ![b] = NoSession]
  BY DEF Logout
<1>2. UsersGrow /\ HoldersExist'
  BY <1>1, UsersUntouched
<1>3. request' \in [Requests -> Request] /\ RequestsHeld'
  BY <1>1, <1>2, RequestsStay
<1>4. NoSession \in Session
  BY DEF NoSession, Session
<1>5. session' \in [Browsers -> Session]
  BY <1>1, <1>4 DEF LoginInv, TypeOK
<1>6. SessionsHeld'
  <2>1. ASSUME NEW x \in Browsers
        PROVE  SessionHeld(session[x])'
    <3>1. PICK s : s = IF x = b THEN NoSession ELSE session[x]
      OBVIOUS
    <3>2. session'[x] = s
      BY <1>1, <3>1 DEF LoginInv, TypeOK
    <3>3. s \in Session /\ SessionHeld(s)
      BY <1>4, <3>1, IdleHeld DEF LoginInv, TypeOK, SessionsHeld
    <3>4. SessionHeld(s)'
      BY <1>2, <3>3, SessionStays
    <3>. QED BY <3>2, <3>4 DEF SessionHeld
  <2>. QED BY <2>1 DEF SessionsHeld
<1>7. LoginInv'
  BY <1>1, <1>2, <1>3, <1>5, <1>6 DEF LoginInv, TypeOK, HoldersExist
<1>. QED BY <1>1, <1>2, <1>7 DEF StepKeeps, NewClaims

(* What goes on beside the requests: claims, webhooks and restarts.        *)
LEMMA OtherStep ==
  ASSUME LoginInv, UsersGrow, HoldersExist', UNCHANGED <<session, drawn>>,
         claims' \subseteq claims,
         UNCHANGED request \/ request' = [r \in Requests |-> IdleRequest]
  PROVE  StepKeeps
<1>1. session' \in [Browsers -> Session] /\ SessionsHeld'
  BY SessionsStay
<1>2. request' \in [Requests -> Request] /\ RequestsHeld'
  <2>1. CASE UNCHANGED request
    BY <2>1, RequestsStay
  <2>2. CASE request' = [r \in Requests |-> IdleRequest]
    <3>1. RequestHeld(IdleRequest)'
      BY IdleHeld, RequestStays
    <3>2. ASSUME NEW r \in Requests
          PROVE  RequestHeld(request[r])'
      <4>1. request'[r] = IdleRequest
        BY <2>2
      <4>. QED BY <3>1, <4>1 DEF RequestHeld, SessionHeld, AddingHeld
    <3>. QED BY <2>2, <3>2, IdleHeld DEF RequestsHeld
  <2>. QED BY <2>1, <2>2
<1>3. LoginInv'
  BY <1>1, <1>2 DEF LoginInv, TypeOK, HoldersExist
<1>. QED BY <1>3 DEF StepKeeps, NewClaims

LEMMA EveryStep ==
  ASSUME LoginInv, [Next]_vars
  PROVE  StepKeeps
<1>1. ASSUME NEW r \in Requests, NEW b \in Browsers,
             \/ Visit(r, b)
             \/ \E s \in States : Login(r, b, s)
             \/ \E s \in drawn, i \in Identities : \E emails \in SUBSET MailsOf[i] :
                  Callback(r, b, s, i, emails)
      PROVE  StepKeeps
  BY <1>1, StartStep
<1>2. ASSUME NEW r \in Requests, Serve(r)
      PROVE  StepKeeps
  BY <1>2, ServeStep
<1>3. ASSUME NEW b \in Browsers, Logout(b)
      PROVE  StepKeeps
  BY <1>3, LogoutStep
<1>4. ASSUME NEW k \in claims, ClaimOrphanCommits(k)
      PROVE  StepKeeps
  <2>1. UNCHANGED <<users, session, drawn, request, pushes>> /\ claims' \subseteq claims
    BY <1>4 DEF ClaimOrphanCommits
  <2>2. UsersGrow /\ HoldersExist'
    BY <2>1, UsersUntouched
  <2>. QED BY <2>1, <2>2, OtherStep
<1>5. ASSUME NEW a \in Owners,
             WebhookCreate(a) \/ \E e \in CommitMails[a] : WebhookIdentify(a, e)
      PROVE  StepKeeps
  <2>1. UNCHANGED <<session, drawn, request, claims>>
    BY <1>5 DEF WebhookCreate, WebhookIdentify
  <2>. QED BY <1>5, <2>1, WebhookGrows, OtherStep
<1>6. CASE Crash
  <2>1. /\ UNCHANGED <<users, session, drawn>> /\ pushes' \subseteq pushes
        /\ claims' \subseteq claims /\ request' = [r \in Requests |-> IdleRequest]
    BY <1>6 DEF Crash
  <2>2. UsersGrow /\ HoldersExist'
    BY <2>1, UsersUntouched
  <2>. QED BY <2>1, <2>2, OtherStep
<1>7. CASE UNCHANGED vars
  <2>1. UNCHANGED <<users, session, drawn, request, claims, pushes>>
    BY <1>7 DEF vars
  <2>2. UsersGrow /\ HoldersExist'
    BY <2>1, UsersUntouched
  <2>. QED BY <2>1, <2>2, OtherStep
<1>. QED BY <1>1, <1>2, <1>3, <1>4, <1>5, <1>6, <1>7 DEF Next

LEMMA InitHeld == Init => LoginInv
<1>1. SUFFICES ASSUME Init
               PROVE  LoginInv
  OBVIOUS
<1>2. TypeOK
  BY <1>1, IdleHeld DEF Init, TypeOK, NoSession, Session
<1>3. HoldersExist
  BY <1>1 DEF Init, HoldersExist
<1>4. SessionsHeld
  BY <1>1, IdleHeld DEF Init, SessionsHeld
<1>5. RequestsHeld
  BY <1>1, IdleHeld DEF Init, RequestsHeld
<1>. QED BY <1>2, <1>3, <1>4, <1>5 DEF LoginInv

LEMMA AlwaysHeld == Spec => []LoginInv
<1>1. LoginInv /\ [Next]_vars => LoginInv'
  BY EveryStep DEF StepKeeps
<1>. QED BY <1>1, InitHeld, PTL DEF Spec

-----------------------------------------------------------------------------
(* Whom an identity's key and addresses belong to                          *)

(* Nobody but the account of i's name holds what only i can verify.        *)
OwnHolders ==
  \A i \in Identities : Unshared(i) =>
    /\ logins[i] \in {NULL, NameOf[i]}
    /\ \A e \in MailsOf[i] : identifiers[e] \in {NULL, NameOf[i]}

(* A login works on addresses of its identity alone, and finds no account  *)
(* but the one of that name.                                               *)
OwnRequest(q) ==
  q.pc \notin {"idle", "reply"} =>
    /\ q.identity \in Identities /\ q.emails \subseteq MailsOf[q.identity] /\ q.todo \subseteq q.emails
    /\ Unshared(q.identity) => q.user \in {NULL, NameOf[q.identity]}

OwnInv == OwnHolders /\ \A r \in Requests : OwnRequest(request[r])

LEMMA OwnBegins == Init => OwnInv
BY LoginAssumption DEF Init, OwnInv, OwnHolders, OwnRequest, IdleRequest

LEMMA OwnMoves ==
  ASSUME TypeOK, OwnInv, OwnHolders', NEW r \in Requests, NEW q, Update(r, q), OwnRequest(q)
  PROVE  OwnInv'
<1>1. \A x \in Requests : request'[x] = IF x = r THEN q ELSE request[x]
  BY DEF TypeOK, Update
<1>2. \A x \in Requests : OwnRequest(request'[x])
  BY <1>1, Zenon DEF OwnInv
<1>. QED BY <1>2 DEF OwnInv, OwnRequest, Unshared

LEMMA OwnAnswers ==
  ASSUME TypeOK, OwnInv, OwnHolders', NEW r \in Requests, NEW b, NEW copy, Answer(r, b, copy)
  PROVE  OwnInv'
<1>1. PICK q : q = [IdleRequest EXCEPT !.pc = "reply", !.browser = b, !.copy = copy]
  OBVIOUS
<1>2. q.pc = "reply" /\ Update(r, q)
  BY <1>1 DEF IdleRequest, Answer
<1>. QED BY <1>2, OwnMoves DEF OwnRequest

LEMMA OwnFails ==
  ASSUME TypeOK, OwnInv, OwnHolders', NEW r \in Requests, Fail(r)
  PROVE  OwnInv'
BY OwnAnswers DEF Fail

(* A request that goes on with the addresses it had.                       *)
LEMMA OwnGoesOn ==
  ASSUME TypeOK, OwnInv, OwnHolders', NEW r \in Requests, NEW p, p = request[r],
         p.pc \notin {"idle", "reply"},
         NEW q, Update(r, q), q.identity = p.identity, q.emails = p.emails, q.todo \subseteq p.emails,
         \/ q.user \in {p.user, NULL}
         \/ Unshared(p.identity) => q.user \in {NULL, NameOf[p.identity]}
  PROVE  OwnInv'
<1>1. OwnRequest(p)
  BY DEF OwnInv
<1>2. OwnRequest(q)
  BY <1>1 DEF OwnRequest
<1>. QED BY <1>2, OwnMoves

LEMMA OwnUsersStay == ASSUME OwnInv, UNCHANGED <<identifiers, logins>> PROVE OwnHolders'
BY DEF OwnInv, OwnHolders, Unshared

LEMMA OwnStarts ==
  ASSUME TypeOK, OwnInv, NEW r \in Requests, NEW b \in Browsers,
         \/ Visit(r, b)
         \/ \E s \in States : Login(r, b, s)
         \/ \E s \in drawn, i \in Identities : \E emails \in SUBSET MailsOf[i] :
              Callback(r, b, s, i, emails)
  PROVE  OwnInv'
<1>1. OwnHolders'
  BY OwnUsersStay DEF Visit, Login, Callback, users
<1>2. CASE Visit(r, b)
  BY <1>1, <1>2, OwnAnswers DEF Visit
<1>3. ASSUME NEW s \in States, Login(r, b, s)
      PROVE  OwnInv'
  BY <1>1, <1>3, OwnAnswers DEF Login
<1>4. ASSUME NEW s \in drawn, NEW i \in Identities, NEW emails \in SUBSET MailsOf[i],
             Callback(r, b, s, i, emails)
      PROVE  OwnInv'
  <2>1. PICK copy : copy = [session[b] EXCEPT !.state = NULL]
    OBVIOUS
  <2>2. PICK q : q = [IdleRequest EXCEPT !.pc = "key", !.browser = b, !.copy = copy,
                        !.identity = i, !.emails = emails]
    OBVIOUS
  <2>3. q.identity = i /\ q.emails = emails /\ q.user = NULL /\ q.todo = {}
    BY <2>2 DEF IdleRequest
  <2>4. OwnRequest(q)
    BY <2>3 DEF OwnRequest
  <2>5. Answer(r, b, copy) \/ Update(r, q)
    BY <1>4, <2>1, <2>2 DEF Callback
  <2>. QED BY <1>1, <2>4, <2>5, OwnAnswers, OwnMoves
<1>. QED BY <1>2, <1>3, <1>4

LEMMA OwnServes ==
  ASSUME LoginInv, OwnInv, NEW r \in Requests, Serve(r)
  PROVE  OwnInv'
<1>. DEFINE p == request[r]
<1>1. /\ TypeOK /\ p \in Request /\ OwnRequest(p) /\ OwnHolders
      /\ p.pc \notin {"idle", "reply"} => p.identity \in Identities
  BY Current DEF OwnInv, LoginInv, RequestHeld
<1>2. CASE FindKey(r)
  <2>1. OwnHolders'
    BY <1>2, OwnUsersStay DEF FindKey, users
  <2>2. PICK q : /\ Update(r, q)
                 /\ \/ q = [p EXCEPT !.pc = "refresh", !.user = logins[p.identity], !.path = "returning"]
                    \/ q = [p EXCEPT !.pc = "emails", !.todo = p.emails]
    BY <1>2 DEF FindKey
  <2>3. /\ q.identity = p.identity /\ q.emails = p.emails
        /\ q.todo \in {p.todo, p.emails} /\ q.user \in {p.user, logins[p.identity]}
    BY <1>1, <2>2 DEF Request
  <2>4. p.pc = "key"
    BY <1>2 DEF FindKey, At
  <2>. QED BY <1>1, <2>1, <2>2, <2>3, <2>4, OwnGoesOn DEF OwnRequest, OwnHolders
<1>3. ASSUME NEW e \in Emails, FindEmail(r, e)
      PROVE  OwnInv'
  <2>1. OwnHolders'
    BY <1>3, OwnUsersStay DEF FindEmail, users
  <2>2. PICK q : q = [p EXCEPT !.todo = @ \ {e}, !.user = IF identifiers[e] = NULL THEN @ ELSE identifiers[e]]
    OBVIOUS
  <2>3. /\ q.identity = p.identity /\ q.emails = p.emails
        /\ q.todo \subseteq p.todo /\ q.user \in {p.user, identifiers[e]}
    BY <1>1, <2>2 DEF Request
  <2>4. p.pc = "emails" /\ e \in p.todo /\ (Fail(r) \/ Update(r, q))
    BY <1>3, <2>2 DEF FindEmail, At
  <2>5. CASE Update(r, q)
    BY <1>1, <2>1, <2>3, <2>4, <2>5, OwnGoesOn DEF OwnRequest, OwnHolders
  <2>. QED BY <1>1, <2>1, <2>4, <2>5, OwnFails
<1>4. CASE FoundByEmails(r)
  <2>1. OwnHolders'
    BY <1>4, OwnUsersStay DEF FoundByEmails, users
  <2>2. PICK q : /\ Update(r, q)
                 /\ q = [p EXCEPT !.pc = "link", !.path = "email"] \/ q = [p EXCEPT !.pc = "username"]
    BY <1>4 DEF FoundByEmails, Goto
  <2>3. q.identity = p.identity /\ q.emails = p.emails /\ q.todo = p.todo /\ q.user = p.user
    BY <1>1, <2>2 DEF Request
  <2>4. p.pc = "emails"
    BY <1>4 DEF FoundByEmails, At
  <2>. QED BY <1>1, <2>1, <2>2, <2>3, <2>4, OwnGoesOn DEF OwnRequest
<1>5. CASE FindUsername(r)
  <2>1. OwnHolders'
    BY <1>5, OwnUsersStay DEF FindUsername, users
  <2>2. PICK q : /\ Update(r, q)
                 /\ \/ q = [p EXCEPT !.pc = "link", !.user = NameOf[p.identity], !.path = "username"]
                    \/ q = [p EXCEPT !.pc = "create"]
    BY <1>5 DEF FindUsername, Goto
  <2>3. /\ q.identity = p.identity /\ q.emails = p.emails /\ q.todo = p.todo
        /\ q.user \in {p.user, NameOf[p.identity]}
    BY <1>1, <2>2 DEF Request
  <2>4. p.pc = "username"
    BY <1>5 DEF FindUsername, At
  <2>. QED BY <1>1, <2>1, <2>2, <2>3, <2>4, OwnGoesOn DEF OwnRequest
<1>6. CASE CreateUser(r)
  <2>1. OwnHolders'
    BY <1>6, OwnUsersStay DEF CreateUser
  <2>2. PICK q : q = [p EXCEPT !.pc = "link", !.user = NameOf[p.identity], !.path = "new"]
    OBVIOUS
  <2>3. q.identity = p.identity /\ q.emails = p.emails /\ q.todo = p.todo /\ q.user = NameOf[p.identity]
    BY <1>1, <2>2 DEF Request
  <2>4. p.pc = "create" /\ (Fail(r) \/ Update(r, q))
    BY <1>6, <2>2 DEF CreateUser, At
  <2>5. CASE Update(r, q)
    BY <1>1, <2>1, <2>3, <2>4, <2>5, OwnGoesOn DEF OwnRequest
  <2>. QED BY <1>1, <2>1, <2>4, <2>5, OwnFails
<1>7. CASE Link(r)
  <2>. DEFINE pc == IF p.path = "username" THEN "refresh" ELSE "addEmails"
  <2>1. PICK q : q = [p EXCEPT !.todo = p.emails, !.pc = pc]
    OBVIOUS
  <2>2. q.identity = p.identity /\ q.emails = p.emails /\ q.todo = p.emails /\ q.user = p.user
    BY <1>1, <2>1 DEF Request
  <2>3. p.pc = "link" /\ identifiers' = identifiers /\ (Fail(r) \/ Update(r, q))
    BY <1>7, <2>1 DEF Link, At
  <2>4. logins' = logins \/ logins' = [logins EXCEPT ![p.identity] = p.user]
    BY <1>7 DEF Link
  <2>5. OwnHolders'
    <3>1. ASSUME NEW i \in Identities, Unshared(i)
          PROVE  logins'[i] \in {NULL, NameOf[i]}
      BY <1>1, <2>3, <2>4, <3>1 DEF OwnHolders, OwnRequest, TypeOK
    <3>. QED BY <1>1, <2>3, <3>1 DEF OwnHolders, Unshared
  <2>6. CASE Update(r, q)
    BY <1>1, <2>2, <2>3, <2>5, <2>6, OwnGoesOn DEF OwnRequest
  <2>. QED BY <1>1, <2>3, <2>5, <2>6, OwnFails
<1>8. CASE Refresh(r)
  <2>1. OwnHolders'
    BY <1>8, OwnUsersStay DEF Refresh, users
  <2>2. PICK pc : pc = IF p.path = "username" THEN "addEmails" ELSE "link"
    OBVIOUS
  <2>3. p.pc = "refresh" /\ (\/ Fail(r) \/ Update(r, [p EXCEPT !.pc = pc])
                             \/ Update(r, [p EXCEPT !.pc = pc, !.user = NULL]))
    BY <1>8, <2>2 DEF Refresh, Goto, At
  <2>4. ASSUME NEW q, Update(r, q), q = [p EXCEPT !.pc = pc] \/ q = [p EXCEPT !.pc = pc, !.user = NULL]
        PROVE  OwnInv'
    <3>1. q.identity = p.identity /\ q.emails = p.emails /\ q.todo = p.todo /\ q.user \in {p.user, NULL}
      BY <1>1, <2>4 DEF Request
    <3>. QED BY <1>1, <2>1, <2>3, <2>4, <3>1, OwnGoesOn DEF OwnRequest
  <2>. QED BY <1>1, <2>1, <2>3, <2>4, OwnFails
<1>9. ASSUME NEW e \in Emails, AddEmail(r, e)
      PROVE  OwnInv'
  <2>1. PICK q : q = [p EXCEPT !.todo = @ \ {e}, !.added = (@ \/ identifiers[e] = NULL)]
    OBVIOUS
  <2>2. q.identity = p.identity /\ q.emails = p.emails /\ q.todo \subseteq p.todo /\ q.user = p.user
    BY <1>1, <2>1 DEF Request
  <2>3. p.pc = "addEmails" /\ e \in p.todo /\ logins' = logins /\ (Fail(r) \/ Update(r, q))
    BY <1>9, <2>1 DEF AddEmail, At
  <2>4. identifiers' = identifiers \/ identifiers' = [identifiers EXCEPT ![e] = p.user]
    BY <1>9 DEF AddEmail
  <2>5. OwnHolders'
    <3>1. e \in MailsOf[p.identity] /\ p.identity \in Identities
      BY <1>1, <2>3 DEF OwnRequest
    <3>2. ASSUME NEW i \in Identities, Unshared(i), NEW m \in MailsOf[i]
          PROVE  identifiers'[m] \in {NULL, NameOf[i]}
      <4>1. m = e => i = p.identity
        BY <3>1, <3>2 DEF Unshared
      <4>. QED BY <1>1, <2>3, <2>4, <3>2, <4>1, LoginAssumption DEF OwnHolders, OwnRequest, TypeOK
    <3>. QED BY <1>1, <2>3, <3>2 DEF OwnHolders, Unshared
  <2>6. CASE Update(r, q)
    BY <1>1, <2>2, <2>3, <2>5, <2>6, OwnGoesOn DEF OwnRequest
  <2>. QED BY <1>1, <2>3, <2>5, <2>6, OwnFails
<1>10. CASE Finish(r)
  <2>1. OwnHolders'
    BY <1>10, OwnUsersStay DEF Finish, users
  <2>. QED BY <1>1, <1>10, <2>1, OwnAnswers DEF Finish
<1>11. CASE Reply(r)
  <2>1. OwnHolders'
    BY <1>11, OwnUsersStay DEF Reply, users
  <2>2. OwnRequest(IdleRequest)
    BY DEF OwnRequest, IdleRequest
  <2>. QED BY <1>1, <1>11, <2>1, <2>2, OwnMoves DEF Reply
<1>. QED BY <1>2, <1>3, <1>4, <1>5, <1>6, <1>7, <1>8, <1>9, <1>10, <1>11 DEF Serve

LEMMA OwnStays ==
  ASSUME OwnInv, UNCHANGED request, OwnHolders'
  PROVE  OwnInv'
BY DEF OwnInv, OwnRequest, Unshared

LEMMA OwnStep == ASSUME LoginInv, OwnInv, [Next]_vars PROVE OwnInv'
<1>1. TypeOK
  BY DEF LoginInv
<1>2. ASSUME NEW a \in Owners,
             WebhookCreate(a) \/ \E e \in CommitMails[a] : WebhookIdentify(a, e)
      PROVE  OwnInv'
  <2>1. CASE WebhookCreate(a)
    BY <2>1, OwnUsersStay, OwnStays DEF WebhookCreate
  <2>2. ASSUME NEW e \in CommitMails[a], WebhookIdentify(a, e)
        PROVE  OwnInv'
    <3>1. /\ logins' = logins /\ request' = request /\ e \in Emails
          /\ identifiers' = [identifiers EXCEPT ![e] = IF identifiers[e] = NULL THEN a ELSE identifiers[e]]
      BY <2>2, LoginAssumption DEF WebhookIdentify
    <3>2. ASSUME NEW i \in Identities, Unshared(i), NEW m \in MailsOf[i]
          PROVE  identifiers'[m] \in {NULL, NameOf[i]}
      <4>1. m = e => a = NameOf[i]
        BY <2>2, <3>2 DEF Unshared
      <4>2. m \in Emails /\ identifiers[m] \in {NULL, NameOf[i]}
        BY <3>2, LoginAssumption DEF OwnInv, OwnHolders
      <4>. QED BY <1>1, <3>1, <4>1, <4>2 DEF TypeOK
    <3>3. OwnHolders'
      BY <3>1, <3>2 DEF OwnInv, OwnHolders, Unshared
    <3>. QED BY <3>1, <3>3, OwnStays
  <2>. QED BY <1>2, <2>1, <2>2
<1>3. CASE Crash
  <2>1. OwnHolders'
    BY <1>3, OwnUsersStay DEF Crash, users
  <2>. QED BY <1>3, <2>1 DEF Crash, OwnInv, OwnRequest, IdleRequest
<1>4. ASSUME NEW b \in Browsers, Logout(b)
      PROVE  OwnInv'
  BY <1>4, OwnUsersStay, OwnStays DEF Logout, users
<1>5. ASSUME NEW k \in claims, ClaimOrphanCommits(k)
      PROVE  OwnInv'
  BY <1>5, OwnUsersStay, OwnStays DEF ClaimOrphanCommits, users
<1>6. CASE UNCHANGED vars
  BY <1>6, OwnUsersStay, OwnStays DEF vars, users
<1>. QED BY <1>1, <1>2, <1>3, <1>4, <1>5, <1>6, OwnStarts, OwnServes DEF Next

LEMMA AlwaysOwn == Spec => []OwnInv
<1>1. LoginInv /\ OwnInv /\ [Next]_vars => OwnInv'
  BY OwnStep
<1>. QED BY <1>1, OwnBegins, AlwaysHeld, PTL DEF Spec

-----------------------------------------------------------------------------
(* Theorems                                                                *)

(* Sessions, requests, tables and goroutines of the login keep their       *)
(* types, whatever logs in, out, pushes or fails (auth.go, users.go).      *)
THEOREM LoginTyped == Spec => []TypeOK
<1>1. LoginInv => TypeOK
  BY DEF LoginInv
<1>. QED BY <1>1, AlwaysHeld, PTL

(* Whoever a browser is logged in as holds the key it logged in with,      *)
(* however its requests overwrite each other's sessions (auth.go:163-169). *)
THEOREM SessionsAlwaysExplained == Spec => []SessionExplained
<1>1. LoginInv => SessionExplained
  BY DEF LoginInv, SessionsHeld, SessionHeld, SessionExplained
<1>. QED BY <1>1, AlwaysHeld, PTL

(* However a login or a webhook is cut short between two inserts, whoever  *)
(* verifies addresses nobody else uses can log in the next time: nobody    *)
(* but the account of that name ever holds them (users.go:138-247).        *)
THEOREM NobodyIsLockedOut == Spec => []NeverLockedOut
<1>1. OwnHolders => NeverLockedOut
  <2>. SUFFICES ASSUME OwnHolders, NEW i \in Identities, Unshared(i), NameOf[i] \notin TooLong
                PROVE  LoginPossible(i)
    BY DEF NeverLockedOut
  <2>1. HoldersOf(MailsOf[i]) \subseteq {NameOf[i]} /\ logins[i] \in {NULL, NameOf[i]}
    BY DEF OwnHolders, HoldersOf
  <2>2. HoldersOf(MailsOf[i]) = {} \/ HoldersOf(MailsOf[i]) = {NameOf[i]}
    BY <2>1
  <2>3. Cardinality({NameOf[i]}) = 1
    BY FS_Singleton
  <2>. QED BY <2>1, <2>2, <2>3 DEF LoginPossible
<1>. QED BY <1>1, AlwaysOwn, PTL DEF OwnInv

(* Logins and webhooks, one query at a time, implement the directory: no   *)
(* account or identifier changes hands, and a claim names addresses its    *)
(* account holds (users.go:138-247, auth.go:157-160).                      *)
THEOREM ImplementsDirectory == Spec => DirectorySpec
<1>1. Init => Directory!Init
  BY DEF Init, Directory!Init
<1>2. LoginInv /\ [Next]_vars => [Directory!Next]_(Directory!directoryVars)
  <2>1. SUFFICES ASSUME LoginInv, [Next]_vars
                 PROVE  Directory!Next
    OBVIOUS
  <2>2. UsersGrow /\ NewClaims /\ HoldersExist'
    BY <2>1, EveryStep DEF StepKeeps, LoginInv
  <2>3. /\ accounts \subseteq accounts' /\ accounts' \subseteq Accounts
        /\ identifiers' \in Directory!Held(Emails) /\ logins' \in Directory!Held(Identities)
    BY <2>2 DEF UsersGrow, HoldersExist, Directory!Held
  <2>4. Directory!Kept(identifiers, Emails) /\ Directory!Kept(logins, Identities)
    BY <2>2 DEF UsersGrow, Directory!Kept
  <2>5. \A k \in claims' \ claims :
          k \in Directory!Claim /\ \A e \in k.emails : identifiers'[e] = k.user
    BY <2>2 DEF NewClaims, Claim, Directory!Claim
  <2>. QED BY <2>3, <2>4, <2>5 DEF Directory!Next
<1>. QED BY <1>1, <1>2, AlwaysHeld, PTL DEF Spec, DirectorySpec, Directory!Spec

=============================================================================
