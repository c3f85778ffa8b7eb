---------------------------- MODULE Leaderboard ----------------------------
(***************************************************************************)
(* The players' leaderboard (internal/features/game Leaders): a visitor    *)
(* reads it page by page, by OFFSET, while scoring rewrites the rows it is *)
(* ordered by.  "Load more" replaces the table, so what was seen is kept   *)
(* here as history.                                                        *)
(***************************************************************************)
EXTENDS Integers, FiniteSets, Functions

CONSTANTS
  Users,
  Limit,    \* rows of a page
  MaxScore, \* bound: scores a row may have
  NoRow

ASSUME LeaderboardAssumption ==
  /\ IsFiniteSet(Users) /\ Limit \in Nat \ {0} /\ MaxScore \in Nat
  /\ NoRow \notin Nat

VARIABLES
  score,  \* score[u]: what u's row is ordered by, NoRow without a row
  table,  \* the page shown: its offset, entries in order, and hasMore
  seen,   \* users shown since the leaderboard was opened
  still,  \* users whose row neither changed nor was tied since then
  fell    \* whether some row's score went down since then

leaderVars == <<score, table, seen, still, fell>>

Players == {u \in Users : score[u] # NoRow}

LeadersInit ==
  /\ score = [u \in Users |-> NoRow]
  /\ table = [offset |-> 0, entries |-> <<>>, more |-> FALSE]
  /\ seen = {} /\ still = {} /\ fell = FALSE

LeadersTypeOK ==
  /\ score \in [Users -> 0..MaxScore \cup {NoRow}]
  /\ table.offset \in Nat /\ table.more \in BOOLEAN
  /\ \E n \in 0..Limit : table.entries \in [1..n -> Users]
  /\ seen \subseteq Users /\ still \subseteq Players /\ fell \in BOOLEAN

-----------------------------------------------------------------------------
Untied(u) == \A v \in Users \ {u} : score[v] # score[u]

Count == Cardinality(Players)

(* The orders ORDER BY may give rows: tied ones come in any order, which   *)
(* may differ from one query to the next.                                  *)
Orders(S, Above(_, _)) ==
  {s \in Bijection(1..Cardinality(S), S) : \A i, j \in 1..Cardinality(S) : i < j => ~Above(s[j], s[i])}

Outscores(u, v) == score[u] > score[v]

(* How many of n rows LIMIT and OFFSET leave.                              *)
Left(n, limit, offset) == IF n <= offset THEN 0 ELSE IF n - offset < limit THEN n - offset ELSE limit

GetLeaderboard(limit, offset) ==
  {[i \in 1..Left(Count, limit, offset) |-> s[offset + i]] : s \in Orders(Players, Outscores)}

Cut(rows, n) == [i \in 1..Left(Cardinality(DOMAIN rows), n, 0) |-> rows[i]]

\* Mutant: the row fetched to see that there is more is shown.
AllRowsTable(rows, offset) ==
  [offset |-> offset, entries |-> rows, more |-> Cardinality(DOMAIN rows) > Limit]

LeaderboardTable(rows, offset) ==
  [offset |-> offset, entries |-> Cut(rows, Limit), more |-> Cardinality(DOMAIN rows) > Limit]

Leaders(offset) ==
  \E rows \in GetLeaderboard(Limit + 1, offset) : table' = LeaderboardTable(rows, offset)

LeaderboardPage ==
  /\ Leaders(0)
  /\ seen' = Range(table'.entries)
  /\ still' = {u \in Players : Untied(u)}
  /\ fell' = FALSE
  /\ UNCHANGED score

\* Mutant: the row fetched to see that there is more counts as shown.
NextOffsetAfterExtra == table.offset + Limit + 1

(* The offset in the button's address.                                     *)
NextOffset == table.offset + Limit

LoadMore ==
  /\ table.more
  /\ Leaders(NextOffset)
  /\ seen' = seen \cup Range(table'.entries)
  /\ UNCHANGED <<score, still, fell>>

(* AddCommit or a claim writes u's row; a recalculated total may be lower  *)
(* than the one it replaces.                                               *)
UpdatePlayer(u) ==
  /\ \E s \in 0..MaxScore \ {score[u]} : score' = [score EXCEPT ![u] = s]
  /\ fell' = (fell \/ (score[u] # NoRow /\ score'[u] < score[u]))
  /\ still' = {v \in still \ {u} : score'[u] # score[v]}
  /\ UNCHANGED <<table, seen>>

LeadersNext ==
  \/ LeaderboardPage
  \/ LoadMore
  \/ \E u \in Users : UpdatePlayer(u)

LeadersSpec == LeadersInit /\ [][LeadersNext]_leaderVars

-----------------------------------------------------------------------------
(* A visitor who reads to the last page has seen every player whose own    *)
(* row stayed as it was and was never tied, however others rose past it or *)
(* joined meanwhile; only a score that fell, or a tie, can hide one        *)
(* (leaderboard.go:25, GetLeaderboard).                                    *)
NobodyPassedOver == ~table.more /\ ~fell => still \subseteq seen

=============================================================================
