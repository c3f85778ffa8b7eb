----------------------------- MODULE Standings -----------------------------
(***************************************************************************)
(* The leaderboards of projects and languages (internal/features/game      *)
(* Projects and Languages): the first rows of one query, read again and    *)
(* again while scoring, scans and pushes rewrite the boards.  What changed *)
(* since the last reading is kept here as history.                         *)
(***************************************************************************)
EXTENDS Leaderboard

CONSTANTS
  Contestants, \* projects and languages
  Languages,
  MaxPoints    \* bound: points a board may have

ASSUME StandingsAssumption ==
  IsFiniteSet(Contestants) /\ Languages \subseteq Contestants /\ MaxPoints \in Nat

VARIABLES
  board,  \* points, verified points, and whether the project is public
  chart,  \* the table shown: its kind, entries in order, and hasMore
  kept, \* rows of that kind that neither changed nor were tied since
  risen   \* contestants whose row rose or was shown again since

standingVars == <<board, chart, kept, risen>>

Entrants(kind) == IF kind = "languages" THEN Languages ELSE Contestants \ Languages

(* The first commit makes the row and gives it points.                     *)
Rows(kind) == {e \in Entrants(kind) : board[e].points > 0 /\ board[e].public}

StandingsInit ==
  /\ board = [e \in Contestants |-> [points |-> 0, verified |-> 0, public |-> TRUE]]
  /\ chart = [kind |-> "projects", entries |-> <<>>, more |-> FALSE]
  /\ kept = {} /\ risen = {}

StandingsTypeOK ==
  /\ board \in [Contestants -> [points : 0..MaxPoints, verified : 0..MaxPoints, public : BOOLEAN]]
  /\ \A l \in Languages : board[l].verified = 0 /\ board[l].public
  /\ chart.kind \in {"projects", "languages"} /\ chart.more \in BOOLEAN
  /\ \E n \in 0..Limit : chart.entries \in [1..n -> [of : Contestants, points : 0..MaxPoints]]
  /\ kept \subseteq Rows(chart.kind) /\ risen \subseteq Contestants

-----------------------------------------------------------------------------
RankedBy(row) == IF row.verified > 0 THEN row.verified ELSE row.points

Higher(row, other) ==
  \/ RankedBy(row) > RankedBy(other)
  \/ RankedBy(row) = RankedBy(other) /\ row.points > other.points

Outranks(e, f) == Higher(board[e], board[f])
HasMorePoints(e, f) == board[e].points > board[f].points

First(limit, orders) ==
  {[i \in 1..Left(Cardinality(DOMAIN s), limit, 0) |-> s[i]] : s \in orders}

\* Mutant: without the second key.
GetByWorthAlone(limit) ==
  LET WorthMore(e, f) == RankedBy(board[e]) > RankedBy(board[f])
  IN  First(limit, Orders(Rows("projects"), WorthMore))

GetProjectLeaderboard(limit) == First(limit, Orders(Rows("projects"), Outranks))

GetLanguageLeaderboard(limit) == First(limit, Orders(Rows("languages"), HasMorePoints))

ProjectLeaderboardRow(e) ==
  [of |-> e, points |-> IF board[e].verified > 0 THEN board[e].verified ELSE board[e].points]

LanguageLeaderboardRow(e) == [of |-> e, points |-> board[e].points]

ProjectLeaderboardTable(rows) ==
  [kind |-> "projects", more |-> Cardinality(DOMAIN rows) > Limit,
   entries |-> [i \in DOMAIN Cut(rows, Limit) |-> ProjectLeaderboardRow(rows[i])]]

LanguageLeaderboardTable(rows) ==
  [kind |-> "languages", more |-> Cardinality(DOMAIN rows) > Limit,
   entries |-> [i \in DOMAIN Cut(rows, Limit) |-> LanguageLeaderboardRow(rows[i])]]

-----------------------------------------------------------------------------
Level(e, f) == ~Outranks(e, f) /\ ~Outranks(f, e)

Since(kind) ==
  /\ kept' = {e \in Rows(kind) : \A f \in Rows(kind) \ {e} : ~Level(e, f)}
  /\ risen' = {}
  /\ UNCHANGED board

ProjectChart ==
  /\ \E rows \in GetProjectLeaderboard(Limit + 1) : chart' = ProjectLeaderboardTable(rows)
  /\ Since("projects")

LanguageChart ==
  /\ \E rows \in GetLanguageLeaderboard(Limit + 1) : chart' = LanguageLeaderboardTable(rows)
  /\ Since("languages")

Write(e, row) ==
  /\ board' = [board EXCEPT ![e] = row]
  /\ risen' = IF Higher(row, board[e]) \/ (row.public /\ ~board[e].public) THEN risen \cup {e} ELSE risen
  /\ kept' = {s \in kept \ {e} : ~Level(s, e)'}
  /\ UNCHANGED chart

(* A commit's points are added to its project's board, or to a language's. *)
AddPoints(e) ==
  \E n \in (board[e].points + 1)..MaxPoints : Write(e, [board[e] EXCEPT !.points = n])

(* A scan gives its project's board the total of the metrics.              *)
VerifyPoints(e) ==
  /\ e \notin Languages /\ board[e].points > 0
  /\ \E n \in 0..MaxPoints : Write(e, [board[e] EXCEPT !.verified = n])

(* A push brings its repository's privacy.                                 *)
HideOrShow(e) ==
  /\ e \notin Languages
  /\ Write(e, [board[e] EXCEPT !.public = ~board[e].public])

StandingsNext ==
  \/ ProjectChart
  \/ LanguageChart
  \/ \E e \in Contestants : AddPoints(e) \/ VerifyPoints(e) \/ HideOrShow(e)

-----------------------------------------------------------------------------
(* Whom a visitor finds above e, everybody when e is not among the rows.   *)
AboveIn(e, entries) ==
  {entries[j].of : j \in {k \in DOMAIN entries : \A i \in DOMAIN entries : entries[i].of = e => k < i}}

Listed(entries) == {entries[i].of : i \in DOMAIN entries}

PlacesKept ==
  chart'.kind = chart.kind =>
    /\ \A i, j \in DOMAIN chart'.entries : i < j => chart'.entries[i].points >= chart'.entries[j].points
    /\ \A e \in kept \cap Listed(chart.entries) :
         AboveIn(e, chart'.entries) \subseteq AboveIn(e, chart.entries) \cup risen

(* On every reading of a leaderboard the points shown fall from row to     *)
(* row, and whoever stands above a row of the last reading that stayed as  *)
(* it was and was never tied stood there then, or rose or was shown again  *)
(* since: nobody loses a place, or falls off the end, because others fell  *)
(* (leaderboard.go:91, boards.sql.go:82).                                  *)
PlacesMoveForAReason == [][PlacesKept]_standingVars

=============================================================================
