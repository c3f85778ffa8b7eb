----------------------------- MODULE GamePages -----------------------------
(***************************************************************************)
(* The home page, the board cards of the player page and a project's page: *)
(* each is rendered from several queries, one after another and in no      *)
(* transaction, while scoring goes on.  Scoring is what ScoreLedger        *)
(* promises of it, which GameScoring implements.                           *)
(***************************************************************************)
EXTENDS Integers, FiniteSets, FiniteSetsExt

CONSTANTS
  Commits, Projects, Games, ProjectOf, CommitPoints, ProjectPoints, NULL,
  DayOf,      \* the day of the month of commits.timestamp
  Days,       \* 1..31
  RecentLimit \* commits in the list of recent ones

ASSUME PagesAssumption ==
  /\ IsFiniteSet(Commits) /\ ProjectOf \in [Commits -> Projects] /\ NULL \notin Games
  /\ IsFiniteSet(Days) /\ Days \subseteq Nat /\ DayOf \in [Commits -> Days]
  /\ CommitPoints \in Nat /\ ProjectPoints \in Nat /\ RecentLimit \in Nat \ {0}

VARIABLES
  home, credits, points, \* the tables, as ScoreLedger has them
  page                   \* what has been read of the page being rendered

pageVars == <<home, credits, points, page>>

Ledger == INSTANCE ScoreLedger WITH MayMissBonus <- TRUE

InGame(g) == {c \in Commits : home[c] = g}

(* stats, bars and recent are the home page's; points and count a card's;   *)
(* month and commits a card's or project page's, whose list of commits is   *)
(* recent too.  ok tells that no query failed so far, inMonth that the page *)
(* was asked for in the month of the game.                                  *)
NoPage == [kind |-> "none", of |-> NULL, read |-> 0, ok |-> TRUE,
           stats |-> 0, bars |-> [d \in Days |-> 0], recent |-> {},
           points |-> 0, count |-> 0, month |-> 0, inMonth |-> TRUE, commits |-> 0]

PagesInit == Ledger!Init /\ page = NoPage

PageType ==
  [kind : {"none", "home", "card", "project"}, of : Games \cup Ledger!BoardId \cup {NULL},
   read : 0..3, ok : BOOLEAN, stats : Nat, bars : [Days -> Nat], recent : SUBSET Commits,
   points : Nat, count : Nat, month : Nat, inMonth : BOOLEAN, commits : Nat]

PagesTypeOK ==
  /\ home \in [Commits -> Games \cup {NULL}]
  /\ credits \in [Ledger!BoardId -> Nat] /\ points \in [Ledger!BoardId -> Nat]
  /\ page \in PageType

-----------------------------------------------------------------------------
(* The queries                                                             *)

\* Mutant: the total is of every game.
GetStatsOfAllGames(g) == Cardinality({c \in Commits : home[c] # NULL})

GetCommitStats(g) == Cardinality(InGame(g))

GetDailyCommitCounts(g) == [d \in Days |-> Cardinality({c \in InGame(g) : DayOf[c] = d})]

(* The last commits by their own timestamps, those of a day in any order.  *)
GetRecentCommits(g) ==
  {R \in SUBSET InGame(g) :
     /\ Cardinality(R) = Min({RecentLimit, Cardinality(InGame(g))})
     /\ \A c \in R, d \in InGame(g) \ R : DayOf[c] >= DayOf[d]}

(* The page p with the board's commits of the current month, of which      *)
(* there are none when the game has left that month behind.                *)
GetProjectGameActivityAggregates(p, b) ==
  {[p EXCEPT !.month = Cardinality(Ledger!Placed(b))], [p EXCEPT !.inMonth = FALSE]}

(* A project's last commits, placed in a game or stored and not yet scored. *)
GetCommitsByProject(p) ==
  LET ofProject == {c \in Commits : ProjectOf[c] = p}
      placed == {c \in ofProject : home[c] # NULL}
      stored == {placed \cup S : S \in SUBSET (ofProject \ placed)}
  IN  {R \in SUBSET ofProject :
         \E S \in stored : R \subseteq S /\ Cardinality(R) = Min({RecentLimit, Cardinality(S)})}

-----------------------------------------------------------------------------
(* A page is read in steps; a query that fails leaves its part as it was.  *)

Shown == UNCHANGED <<home, credits, points>>

Reads(kind, n, parts) ==
  /\ page.kind = kind /\ page.read = n
  /\ \/ \E p \in parts : page' = [p EXCEPT !.read = n + 1]
     \/ page' = [page EXCEPT !.read = n + 1, !.ok = FALSE]
  /\ Shown

Asked(kind, of) == [NoPage EXCEPT !.kind = kind, !.of = of, !.read = 1]

Home(g) ==
  /\ page' \in {[Asked("home", g) EXCEPT !.stats = GetCommitStats(g)], [Asked("home", g) EXCEPT !.ok = FALSE]}
  /\ Shown

GetDailyCommits ==
  Reads("home", 1, {[page EXCEPT !.bars = GetDailyCommitCounts(page.of)]})

RecentActivity ==
  Reads("home", 2, {[page EXCEPT !.recent = R] : R \in GetRecentCommits(page.of)})

(* A board card: first the board's row, with the player's other boards.    *)
Player(b) ==
  /\ credits[b] > 0
  /\ page' = [Asked("card", b) EXCEPT !.points = points[b], !.count = credits[b]]
  /\ Shown

(* A project's page: its activity in the game, then its board and commits. *)
Detail(b) ==
  /\ page' \in GetProjectGameActivityAggregates(Asked("project", b), b)
  /\ Shown

BoardOfDetail ==
  Reads("project", 1, {[page EXCEPT !.commits = credits[page.of]]})

ProjectCommitList ==
  /\ page.ok
  /\ Reads("project", 2, {[page EXCEPT !.recent = R] : R \in GetCommitsByProject(page.of.project)})

(* On a card, the month's activity; without it the card has no game at all. *)
GameActivitySummary == Reads("card", 1, GetProjectGameActivityAggregates(page, page.of))

BoardOfActivity ==
  /\ page.ok
  /\ Reads("card", 2, {[page EXCEPT !.commits = credits[page.of]]})

Scoring == Ledger!Next /\ UNCHANGED page

PagesNext ==
  \/ \E g \in Games : Home(g)
  \/ GetDailyCommits
  \/ RecentActivity
  \/ \E b \in Ledger!BoardId : Player(b)
  \/ GameActivitySummary
  \/ BoardOfActivity
  \/ \E b \in Ledger!BoardId : Detail(b)
  \/ BoardOfDetail
  \/ ProjectCommitList
  \/ Scoring

PagesSpec == PagesInit /\ [][PagesNext]_pageVars

-----------------------------------------------------------------------------
(* What the pages show of it                                               *)

MaxDayCommits == Max({page.bars[d] : d \in Days})

(* A bar's height in per cent.                                             *)
HistogramBar(d) ==
  IF MaxDayCommits > 0 THEN Max({5, (page.bars[d] * 100) \div MaxDayCommits}) ELSE 5
CommitHistogram == [d \in Days |-> [count |-> page.bars[d], height |-> HistogramBar(d)]]

StatsSection ==
  [commits |-> page.stats, recent |-> Cardinality(page.recent), days |-> CommitHistogram]

(* The month's commits are those of the game while its month lasts.        *)
BoardCard ==
  [points |-> page.points, commits |-> page.count, month |-> page.month, board |-> page.commits]

ProjectStatsBar ==
  [month |-> page.month, board |-> page.commits, recent |-> Cardinality(page.recent)]

(* The commits a histogram counts, one mark for each.                      *)
Marks(bars) == UNION {{<<d, i>> : i \in 1..bars[d]} : d \in Days}

(* What is read later is never behind what was read before: the total of   *)
(* the home page is covered by its histogram, whose highest bar fills it,  *)
(* the recent list is as long as the total allows, a card's first count    *)
(* and points are covered by the activity and the board read after them,   *)
(* and a project's list of commits by its numbers, although scoring went   *)
(* on between the queries (handler.go:49, projects/service.go:125).        *)
ReadsHangTogether ==
  page.ok =>
    /\ page.kind = "home" /\ page.read >= 2 =>
         LET shown == StatsSection
         IN  /\ shown.commits <= Cardinality(Marks([d \in Days |-> shown.days[d].count]))
             /\ shown.commits > 0 => Max({shown.days[d].height : d \in Days}) = 100
             /\ page.read = 3 => shown.recent >= Min({shown.commits, RecentLimit})
    /\ page.kind = "card" /\ page.read >= 2 /\ page.inMonth =>
         BoardCard.commits <= BoardCard.month
    /\ page.kind = "card" /\ page.read = 3 =>
         /\ BoardCard.commits <= BoardCard.board
         /\ BoardCard.points <= BoardCard.board * (CommitPoints + ProjectPoints)
    /\ page.kind = "project" /\ page.read = 3 =>
         ProjectStatsBar.recent >= Min({RecentLimit, Max({ProjectStatsBar.month, ProjectStatsBar.board})})

=============================================================================
