------------------------------- MODULE Profile -------------------------------
(***************************************************************************)
(* The profile pages: the tabs in which a user adds and removes Julython's *)
(* webhook on her repositories (internal/features/profile over             *)
(* internal/services/github.go).                                           *)
(*                                                                         *)
(* A handler is a series of calls to GitHub, whose hooks other tabs and    *)
(* GitHub's own pages change meanwhile.  Each tab lists one page of        *)
(* repositories, and each row has one button, disabled while its request   *)
(* runs; the answer replaces the row, an error leaves it as it was.        *)
(***************************************************************************)
EXTENDS Integers, FiniteSetsExt, Functions

CONSTANTS
  Repos,    \* repositories the user belongs to
  Admin,    \* those she administers
  Tabs,
  PerPage,  \* webhookReposPerPage
  ListMax,  \* repositories the add and delete handlers look at: 100
  HooksMax, \* hooks GitHub returns for a repository: 30
  MaxHooks, \* bound: hooks ever created
  MaxElsewhere, \* bound: changes made on GitHub's pages
  Faults    \* whether calls to GitHub may fail

ASSUME ProfileAssumption ==
  /\ Admin \subseteq Repos /\ IsFiniteSet(Repos)
  /\ PerPage \in Nat \ {0} /\ ListMax \in Nat /\ HooksMax \in Nat
  /\ MaxHooks \in Nat \ {0} /\ MaxElsewhere \in Nat /\ Faults \in BOOLEAN

VARIABLES
  place,   \* place[r]: where r stands in GitHub's list, the last updated first
  hooks,   \* hooks[r]: the hooks of r on GitHub, numbered as they were made
  made,    \* hooks created so far; each gets the next number
  elsewhere, \* changes made so far on GitHub's pages
  row,     \* row[t][r]: what tab t shows of r, hook 0 for none
  request, \* request[t][r]: the add or delete in progress for that row
  load,    \* load[t]: the request for the tab's list
  stale,   \* stale[t]: rows of t that a change passed by
  missed   \* missed[t]: rows of t whose hook the list missed, its call failing

hookVars == <<place, hooks, made, elsewhere, row, request, load, stale, missed>>

-----------------------------------------------------------------------------
(* GitHub                                                                  *)

Hook == [id : 1..MaxHooks, ours : BOOLEAN, active : BOOLEAN]
Ids(r) == {h.id : h \in hooks[r]}
Ours(r) == {h \in hooks[r] : h.ours}
Without(r, id) == {h \in hooks[r] : h.id # id}

(* ListRepos: a page of GitHub's list, then only those with admin access.  *)
GitHubPage(perPage, page) ==
  {r \in Repos : perPage * (page - 1) < place[r] /\ place[r] <= perPage * page}
ListRepos(perPage, page) == GitHubPage(perPage, page) \cap Admin

(* GetRepoWebhooks: the first page of a repository's hooks, oldest first.  *)
Older(r, h) == {g \in hooks[r] : g.id < h.id}
ListedHooks(r) == {h \in hooks[r] : Cardinality(Older(r, h)) < HooksMax}

-----------------------------------------------------------------------------

NoRow == [shown |-> FALSE, hook |-> 0]
Row(hook) == [shown |-> TRUE, hook |-> hook]
Idle == [op |-> "none", step |-> "idle", hook |-> 0]
NotLoading ==
  [step |-> "idle", page |-> 1, places |-> <<>>, repos |-> {}, left |-> {}, found |-> [r \in Repos |-> 0]]

(* The orders GitHub's list can have.                                     *)
Places == Bijection(Repos, 1..Cardinality(Repos))

HooksInit ==
  /\ place \in Places
  /\ hooks \in [Repos -> {{}, {[id |-> 1, ours |-> FALSE, active |-> TRUE]}}]
  /\ \A r, q \in Repos : r # q => Ids(r) \cap Ids(q) = {}
  /\ made = 1 /\ elsewhere = 0
  /\ row = [t \in Tabs |-> [r \in Repos |-> NoRow]]
  /\ request = [t \in Tabs |-> [r \in Repos |-> Idle]]
  /\ load = [t \in Tabs |-> NotLoading]
  /\ stale = [t \in Tabs |-> {}]
  /\ missed = [t \in Tabs |-> {}]

RowType == [shown : BOOLEAN, hook : 0..MaxHooks]
RequestType ==
  [op : {"none", "add", "delete"},
   step : {"idle", "create", "relist", "find", "delete"},
   hook : 0..MaxHooks]
LoadType ==
  [step : {"idle", "repos", "hooks"}, page : Nat, places : Places \cup {<<>>},
   repos : SUBSET Admin, left : SUBSET Admin, found : [Repos -> 0..MaxHooks]]

HooksTypeOK ==
  /\ place \in Places
  /\ hooks \in [Repos -> SUBSET Hook]
  /\ row \in [Tabs -> [Repos -> RowType]]
  /\ request \in [Tabs -> [Repos -> RequestType]]
  /\ load \in [Tabs -> LoadType]
  /\ stale \in [Tabs -> SUBSET Repos]
  /\ missed \in [Tabs -> SUBSET Repos]
  /\ \A t \in Tabs :
       /\ \A r \in Repos : request[t][r].step # "idle" => row[t][r].shown
       /\ load[t].left \subseteq load[t].repos

(* A change to r passes by the rows of the other tabs.                     *)
PassesBy(r, except) ==
  stale' = [t \in Tabs |-> IF t \in except THEN stale[t] ELSE stale[t] \cup {r}]

-----------------------------------------------------------------------------
(* The list: Webhooks and WebhookRepos                                     *)

(* Mutant: the requests of the page that is left are still waited for.     *)
OpenPageOverRequests(t, page) ==
  /\ load' = [load EXCEPT ![t] = [NotLoading EXCEPT !.step = "repos", !.page = page]]
  /\ row' = [row EXCEPT ![t] = [r \in Repos |-> NoRow]]
  /\ stale' = [stale EXCEPT ![t] = {}]
  /\ missed' = [missed EXCEPT ![t] = {}]
  /\ UNCHANGED <<place, hooks, made, elsewhere, request>>

(* A page that is left drops its requests, and their handlers stop.        *)
OpenPage(t, page) ==
  /\ load' = [load EXCEPT ![t] = [NotLoading EXCEPT !.step = "repos", !.page = page]]
  /\ row' = [row EXCEPT ![t] = [r \in Repos |-> NoRow]]
  /\ request' = [request EXCEPT ![t] = [r \in Repos |-> Idle]]
  /\ stale' = [stale EXCEPT ![t] = {}]
  /\ missed' = [missed EXCEPT ![t] = {}]
  /\ UNCHANGED <<place, hooks, made, elsewhere>>

(* One repository more than a page shows, to know whether there are more.  *)
LoadRepos(t) ==
  /\ load[t].step = "repos"
  /\ LET listed == ListRepos(PerPage + 1, load[t].page)
     IN  load' = [load EXCEPT ![t] = [@ EXCEPT !.step = "hooks", !.places = place, !.repos = listed, !.left = listed]]
  /\ UNCHANGED <<place, hooks, made, elsewhere, row, request, stale, missed>>

(* Mutant: whatever hook comes first is taken.                             *)
FirstHook(listed) == IF listed = {} THEN 0 ELSE Min({h.id : h \in listed})

(* The number of the repository's hook of ours, 0 for none that is active. *)
OurHook(listed) ==
  LET own == {h.id : h \in {g \in listed : g.ours /\ g.active}}
  IN  IF own = {} THEN 0 ELSE Min(own)

(* The listed repositories that stand before r.                            *)
Ahead(t, r) == {q \in load[t].repos : load[t].places[q] < load[t].places[r]}

(* Mutant: the hooks found are put to GitHub's list before the filter.     *)
HooksAskedUnfiltered(t, r) ==
  CHOOSE q \in GitHubPage(PerPage + 1, load[t].page) :
    Cardinality({x \in GitHubPage(PerPage + 1, load[t].page) : place[x] < place[q]}) = Cardinality(Ahead(t, r))

(* The hooks the call for a repository of the list asks for.               *)
HooksAsked(t, r) == r

(* The hooks of one repository after the other; an error counts as none.   *)
LoadHooks(t) ==
  /\ load[t].step = "hooks"
  /\ \E r \in load[t].left :
       /\ Ahead(t, r) \cap load[t].left = {}
       /\ LET ours == OurHook(ListedHooks(HooksAsked(t, r)))
          IN  \E hook \in {ours} \cup (IF Faults THEN {0} ELSE {}) :
                /\ load' = [load EXCEPT ![t] = [@ EXCEPT !.found[r] = hook, !.left = load[t].left \ {r}]]
                /\ stale' = [stale EXCEPT ![t] = IF hook = ours THEN @ \ {r} ELSE @]
                /\ missed' = [missed EXCEPT ![t] = IF hook = ours THEN @ ELSE @ \cup {r}]
  /\ UNCHANGED <<place, hooks, made, elsewhere, row, request>>

(* WebhookRepoList: the first PerPage of them.                             *)
ShowRepos(t) ==
  /\ load[t].step = "hooks" /\ load[t].left = {}
  /\ row' = [row EXCEPT ![t] = [r \in Repos |->
       IF r \in load[t].repos /\ Cardinality(Ahead(t, r)) < PerPage THEN Row(load[t].found[r]) ELSE NoRow]]
  /\ load' = [load EXCEPT ![t] = NotLoading]
  /\ UNCHANGED <<place, hooks, made, elsewhere, request, stale, missed>>

LoadFails(t) ==
  /\ Faults
  /\ load[t].step = "repos"
  /\ load' = [load EXCEPT ![t] = NotLoading]
  /\ UNCHANGED <<place, hooks, made, elsewhere, row, request, stale, missed>>

-----------------------------------------------------------------------------
(* AddWebhook                                                              *)

ClickAdd(t, r) ==
  /\ row[t][r] = Row(0) /\ request[t][r] = Idle
  /\ request' = [request EXCEPT ![t][r] = [op |-> "add", step |-> "create", hook |-> 0]]
  /\ UNCHANGED <<place, hooks, made, elsewhere, row, load, stale, missed>>

Created(ours) == [id |-> made + 1, ours |-> ours, active |-> TRUE]

(* CreateWebhook: 201.  GitHub refuses a second hook with the same URL.    *)
CreateHook(t, r) ==
  /\ request[t][r].step = "create"
  /\ Ours(r) = {} /\ made < MaxHooks
  /\ hooks' = [hooks EXCEPT ![r] = @ \cup {Created(TRUE)}]
  /\ made' = made + 1
  /\ request' = [request EXCEPT ![t][r] = [op |-> "add", step |-> "relist", hook |-> made + 1]]
  /\ PassesBy(r, {t})
  /\ UNCHANGED <<place, elsewhere, row, load, missed>>

(* Mutant: an answer other than 201 has the handler ask again.             *)
RefuseHookRetry(t, r) ==
  /\ request[t][r].step = "create"
  /\ Ours(r) # {} \/ made = MaxHooks
  /\ UNCHANGED hookVars

(* Another answer than 201 (or the bound): the row stays, with its button. *)
RefuseHook(t, r) ==
  /\ request[t][r].step = "create"
  /\ Ours(r) # {} \/ made = MaxHooks
  /\ request' = [request EXCEPT ![t][r] = Idle]
  /\ UNCHANGED <<place, hooks, made, elsewhere, row, load, stale, missed>>

(* The hook is made but its answer is lost.                                *)
LoseCreated(t, r) ==
  /\ Faults
  /\ request[t][r].step = "create"
  /\ Ours(r) = {} /\ made < MaxHooks
  /\ hooks' = [hooks EXCEPT ![r] = @ \cup {Created(TRUE)}]
  /\ made' = made + 1
  /\ request' = [request EXCEPT ![t][r] = Idle]
  /\ PassesBy(r, {})
  /\ UNCHANGED <<place, elsewhere, row, load, missed>>

(* The new row, if the repository is among the first of the list; a line   *)
(* of text takes its place if not, or if the list fails.                   *)
AnswerAdd(t, r) ==
  /\ request[t][r].step = "relist"
  /\ \E listed \in {ListRepos(ListMax, 1)} \cup (IF Faults THEN {{}} ELSE {}) :
       row' = [row EXCEPT ![t][r] = IF r \in listed THEN Row(request[t][r].hook) ELSE NoRow]
  /\ request' = [request EXCEPT ![t][r] = Idle]
  /\ UNCHANGED <<place, hooks, made, elsewhere, load, stale, missed>>

-----------------------------------------------------------------------------
(* DeleteWebhook                                                           *)

ClickDelete(t, r) ==
  /\ row[t][r].shown /\ row[t][r].hook # 0 /\ request[t][r] = Idle
  /\ request' = [request EXCEPT ![t][r] = [op |-> "delete", step |-> "find", hook |-> row[t][r].hook]]
  /\ UNCHANGED <<place, hooks, made, elsewhere, row, load, stale, missed>>

FindRepo(t, r) ==
  /\ request[t][r].step = "find"
  /\ request' = [request EXCEPT ![t][r] =
       IF r \in ListRepos(ListMax, 1) THEN [@ EXCEPT !.step = "delete"] ELSE Idle]
  /\ UNCHANGED <<place, hooks, made, elsewhere, row, load, stale, missed>>

(* Mutant: every answer of GitHub's counts as success.                     *)
DeleteUnchecked(t, r) ==
  /\ request[t][r].step = "delete"
  /\ \/ hooks' = [hooks EXCEPT ![r] = Without(r, request[t][r].hook)]
     \/ Faults /\ UNCHANGED hooks
  /\ row' = [row EXCEPT ![t][r] = Row(0)]
  /\ request' = [request EXCEPT ![t][r] = Idle]
  /\ PassesBy(r, {t})
  /\ missed' = [missed EXCEPT ![t] = @ \ {r}]
  /\ UNCHANGED <<place, made, elsewhere, load>>

(* 204, or 404 for a hook that is gone already.                            *)
DeleteHook(t, r) ==
  /\ request[t][r].step = "delete"
  /\ hooks' = [hooks EXCEPT ![r] = Without(r, request[t][r].hook)]
  /\ row' = [row EXCEPT ![t][r] = Row(0)]
  /\ request' = [request EXCEPT ![t][r] = Idle]
  /\ PassesBy(r, {t})
  /\ missed' = [missed EXCEPT ![t] = @ \ {r}]
  /\ UNCHANGED <<place, made, elsewhere, load>>

(* The hook is removed but its answer is lost.                             *)
LoseDeleted(t, r) ==
  /\ Faults
  /\ request[t][r].step = "delete"
  /\ hooks' = [hooks EXCEPT ![r] = Without(r, request[t][r].hook)]
  /\ request' = [request EXCEPT ![t][r] = Idle]
  /\ PassesBy(r, {})
  /\ UNCHANGED <<place, made, elsewhere, row, load, missed>>

(* A call that fails before it changes anything.                           *)
RequestFails(t, r) ==
  /\ Faults
  /\ request[t][r].step \in {"create", "find", "delete"}
  /\ request' = [request EXCEPT ![t][r] = Idle]
  /\ UNCHANGED <<place, hooks, made, elsewhere, row, load, stale, missed>>

-----------------------------------------------------------------------------
(* GitHub's own pages                                                      *)

Elsewhere == elsewhere < MaxElsewhere /\ elsewhere' = elsewhere + 1

(* A hook is added, removed or switched on or off there.                   *)
ChangeHooks(r) ==
  /\ Elsewhere
  /\ \/ \E ours \in {b \in BOOLEAN : b => Ours(r) = {}} :
          /\ made < MaxHooks
          /\ made' = made + 1
          /\ hooks' = [hooks EXCEPT ![r] = @ \cup {Created(ours)}]
     \/ \E h \in hooks[r] :
          /\ \/ hooks' = [hooks EXCEPT ![r] = Without(r, h.id)]
             \/ hooks' = [hooks EXCEPT ![r] = Without(r, h.id) \cup {[h EXCEPT !.active = ~@]}]
          /\ UNCHANGED made
  /\ PassesBy(r, {})
  /\ UNCHANGED <<place, row, request, load, missed>>

(* A push puts a repository first in the list.                             *)
Touch(r) ==
  /\ Elsewhere
  /\ place' = [q \in Repos |->
       IF q = r THEN 1 ELSE IF place[q] < place[r] THEN place[q] + 1 ELSE place[q]]
  /\ UNCHANGED <<hooks, made, row, request, load, stale, missed>>

-----------------------------------------------------------------------------

Serve(t, r) ==
  CreateHook(t, r) \/ RefuseHook(t, r) \/ AnswerAdd(t, r) \/ FindRepo(t, r) \/ DeleteHook(t, r)

HooksNext ==
  \/ \E t \in Tabs :
       \/ \E page \in 1..(Cardinality(Repos) + PerPage) \div PerPage : OpenPage(t, page)
       \/ LoadRepos(t) \/ LoadHooks(t) \/ ShowRepos(t) \/ LoadFails(t)
  \/ \E t \in Tabs, r \in Repos :
       \/ ClickAdd(t, r) \/ ClickDelete(t, r) \/ Serve(t, r)
       \/ LoseCreated(t, r) \/ LoseDeleted(t, r) \/ RequestFails(t, r)
  \/ \E r \in Repos : ChangeHooks(r) \/ Touch(r)

(* Calls to GitHub end within the client's 30 seconds.                     *)
HooksFairness == \A t \in Tabs, r \in Repos : WF_hookVars(Serve(t, r))

-----------------------------------------------------------------------------
(* Properties                                                              *)

(* A row that no change passed by says what GitHub has.  An Added row's    *)
(* hook is there and delivers, whatever calls failed; an Add row's         *)
(* repository has none that does, unless the call for its hooks failed     *)
(* when the list was loaded: that error counts as no hooks, and the row    *)
(* offers to add the hook that is there.  And whatever passed it by, a row *)
(* never names a hook of another repository.  A repository with more hooks *)
(* than one answer holds is left out                                       *)
(* (profile.go:105-128,155-175,219-240, github.go:103-155).                *)
RowsTellTheTruth ==
  \A t \in Tabs, r \in Repos :
    /\ row[t][r].shown /\ request[t][r] = Idle /\ r \notin stale[t] /\ Cardinality(hooks[r]) <= HooksMax =>
         \/ {h.id : h \in {g \in Ours(r) : g.active}} = {row[t][r].hook} \ {0}
         \/ row[t][r].hook = 0 /\ r \in missed[t]
    /\ \A q \in Repos \ {r} : row[t][r].hook \notin Ids(q)

(* Serving a request never removes a hook of somebody else's service.      *)
ForeignHooksStay ==
  [][\A t \in Tabs, r \in Repos : Serve(t, r) \/ LoseDeleted(t, r) =>
       hooks[r] \ Ours(r) \subseteq hooks'[r]]_hookVars

(* A button that was clicked comes back: each handler answers, or its page *)
(* is left.                                                                *)
ButtonsComeBack ==
  \A t \in Tabs, r \in Repos : request[t][r] # Idle ~> request[t][r] = Idle

=============================================================================
