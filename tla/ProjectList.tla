---------------------------- MODULE ProjectList ----------------------------
(***************************************************************************)
(* The list of projects (internal/features/projects List): a visitor       *)
(* searches, scrolls, and each time the end of the list comes into view    *)
(* the next page is appended, while pushes create projects and turn them   *)
(* private or public.  A page starts below the last id of the one before.  *)
(***************************************************************************)
EXTENDS Integers, FiniteSets

CONSTANTS
  Ids,      \* ids of projects: UUIDv7, so numbers in the order of their making
  PageSize, \* projectPageSize
  Searches, \* what a search text may match in names and descriptions
  NoId

ASSUME ListAssumption ==
  /\ IsFiniteSet(Ids) /\ Ids \subseteq Nat
  /\ PageSize \in Nat \ {0}
  /\ Searches \subseteq SUBSET Ids
  /\ NoId \notin Nat

VARIABLES
  project, \* project[p]: "absent", "public" or "private"
  list,    \* the list on the page: its search, cards[p] times p, next cursor
  steady   \* projects public ever since the list was opened

listVars == <<project, list, steady>>

Public == {p \in Ids : project[p] = "public"}

ListInit ==
  /\ project = [p \in Ids |-> "absent"]
  /\ list = [search |-> {}, cards |-> [p \in Ids |-> 0], next |-> NoId]
  /\ steady = {}

ListTypeOK ==
  /\ project \in [Ids -> {"absent", "public", "private"}]
  /\ list \in [search : SUBSET Ids, cards : [Ids -> Nat], next : Ids \cup {NoId}]
  /\ steady \subseteq Public

-----------------------------------------------------------------------------
(* ORDER BY id DESC LIMIT n                                                *)
Newest(S, n) == {p \in S : Cardinality({q \in S : q > p}) < n}

\* Mutant: the cursor's own row is in the page again.
BelowOrAt(cursor) == {p \in Ids : cursor = NoId \/ p <= cursor}

Below(cursor) == {p \in Ids : cursor = NoId \/ p < cursor}

SearchActiveProjects(search, cursor, limit) ==
  Newest(Public \cap search \cap Below(cursor), limit)

(* The id of the last entry, and none when no further row was found.       *)
NextCursor(rows) ==
  IF rows = Newest(rows, PageSize) THEN NoId
  ELSE CHOOSE p \in Newest(rows, PageSize) : \A q \in Newest(rows, PageSize) : p <= q

(* ProjectListItems: the cards of a page's entries, put after those shown. *)
ProjectListItems(cards, rows) ==
  [p \in Ids |-> cards[p] + (IF p \in Newest(rows, PageSize) THEN 1 ELSE 0)]

(* The page itself, and each HTMX search, which replaces the whole list.   *)
ProjectListPage(search) ==
  LET rows == SearchActiveProjects(search, NoId, PageSize + 1)
  IN  /\ list' = [search |-> search, next |-> NextCursor(rows),
                  cards |-> ProjectListItems([p \in Ids |-> 0], rows)]
      /\ steady' = Public
      /\ UNCHANGED project

(* The sentinel at the end comes into view: listURL keeps the search.      *)
List ==
  LET rows == SearchActiveProjects(list.search, list.next, PageSize + 1)
  IN  /\ list.next # NoId
      /\ list' = [list EXCEPT !.next = NextCursor(rows),
                              !.cards = ProjectListItems(@, rows)]
      /\ UNCHANGED <<project, steady>>

(* A push creates the project, or copies the repository's private flag; of *)
(* two first pushes the one with the older id may be stored last.          *)
UpsertProjectByRepoID(p) ==
  /\ \E flag \in {"public", "private"} : project' = [project EXCEPT ![p] = flag]
  /\ steady' = steady \cap {q \in Ids : project'[q] = "public"}
  /\ UNCHANGED list

ListNext ==
  \/ \E search \in Searches : ProjectListPage(search)
  \/ List
  \/ \E p \in Ids : UpsertProjectByRepoID(p)

ListSpec == ListInit /\ [][ListNext]_listVars

-----------------------------------------------------------------------------
(* However projects come, go and come back while the visitor scrolls,      *)
(* nothing is listed twice, and a project that matches and stayed public   *)
(* is on the list or below the cursor of the next page (projects.go:43,    *)
(* SearchActiveProjects).                                                  *)
NothingPassedOver ==
  \A p \in Ids :
    /\ list.cards[p] <= 1
    /\ p \in steady \cap list.search /\ list.cards[p] = 0 =>
         list.next # NoId /\ p < list.next

=============================================================================
