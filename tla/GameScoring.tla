----------------------------- MODULE GameScoring -----------------------------
(***************************************************************************)
(* How a stored commit becomes points: GameService.AddCommit and           *)
(* ClaimOrphanCommits (internal/services/game.go), with the statements     *)
(* other requests run on the same rows: the unlinking of a player's board  *)
(* (internal/features/players), a project's privacy flag set by a push     *)
(* webhook, and the verified points an L1 scan leaves on boards.           *)
(*                                                                         *)
(* No transaction spans the statements of AddCommit, so each one is an     *)
(* action and the goroutines that score pushes interleave between them.    *)
(* A webhook's goroutine hands its created commits to AddCommit one after  *)
(* the other; the partition of commits into pushes and their order are     *)
(* inputs, so a worker simply takes any commit nobody has taken yet.       *)
(***************************************************************************)
EXTENDS GameCalendar, FiniteSets

CONSTANTS
  Commits,       \* rows of commits a webhook created
  Projects,
  Users,
  Languages,
  Workers,       \* goroutines that may be inside AddCommit at once
  ProjectOf,     \* commits.project_id
  AuthorOf,      \* user_id as CreateCommit returned it, NULL for an orphan
  EmailOwner,    \* who verifies the commit's email address at login, or NULL
  LanguagesOf,   \* commits.languages
  TimeOf,        \* commits.timestamp
  CommitPoints,  \* games.commit_points
  ProjectPoints, \* games.project_points
  ScanTotals,    \* the positive totals an L1 scan may compute
  Scanned,       \* projects whose L1 scans are followed
  Flippable,     \* projects whose repository may be or turn private
  Claimants,     \* users whose logins may claim orphans
  Unlinkers,     \* users who unlink boards on their page
  Faults         \* whether statements may fail and the process may die

BoardId == [game : Games, project : Projects]
PlayerId == [game : Games, user : Users]

ASSUME ScoringAssumption ==
  /\ IsFiniteSet(Commits) /\ Commits # {}
  /\ ProjectOf \in [Commits -> Projects]
  /\ AuthorOf \in [Commits -> Users \cup {NULL}]
  /\ EmailOwner \in [Commits -> Users \cup {NULL}]
  /\ LanguagesOf \in [Commits -> SUBSET Languages]
  /\ TimeOf \in [Commits -> Nat]
  /\ CommitPoints \in Nat /\ ProjectPoints \in Nat
  /\ ScanTotals \subseteq Nat \ {0}
  /\ Scanned \subseteq Projects
  /\ Flippable \subseteq Projects
  /\ Claimants \subseteq Users /\ Unlinkers \subseteq Users
  /\ Faults \in BOOLEAN
  /\ NULL \notin Users \cup Commits \cup BoardId

VARIABLES
  commits,    \* the commits table: user_id and game_id
  private,    \* the projects whose is_private is set
  boards,     \* the boards table, keyed as uq_board_project_game does
  langBoards, \* the language_boards table: commit_count
  players,    \* the players table, keyed as uq_player_user_game does
  fresh,      \* commits created and not yet handed to AddCommit
  scanning,   \* projects whose L1 scan has passed its privacy check
  call,       \* call[w]: the AddCommit call worker w is in
  claim       \* claim[u]: the ClaimOrphanCommits call a login of u started

tables == <<commits, private, boards, langBoards, players>>
vars == <<calendarVars, tables, fresh, scanning, call, claim>>

-----------------------------------------------------------------------------
(* Rows and calls                                                          *)

Board == [exists : BOOLEAN, points : Nat, commit_count : Nat, verified_points : Nat]
NoBoard == [exists |-> FALSE, points |-> 0, commit_count |-> 0, verified_points |-> 0]

Slots == [1..3 -> BoardId \cup {NULL}]
NoSlots == [i \in 1..3 |-> NULL]

(* status is analysis_status; "none" says there is no row.                 *)
Player == [status : {"none", "pending", "completed"}, points : Nat,
           verified_points : Nat, commit_count : Nat, project_count : Nat,
           slot : Slots]
NoPlayer == [status |-> "none", points |-> 0, verified_points |-> 0,
             commit_count |-> 0, project_count |-> 0, slot |-> NoSlots]

Counts == [commits : Nat, projects : Nat]
NoCounts == [commits |-> 0, projects |-> 0]

Call == [pc : {"idle", "game", "project", "setGame", "readBoard", "upsertBoard",
               "languages", "player", "newCounts", "newPlayer", "slots",
               "assign", "counts", "total", "update"},
         commit : Commits \cup {NULL}, game : Games \cup {NULL}, isNew : BOOLEAN,
         langs : SUBSET Languages, ids : Slots, counts : Counts, total : Nat]
IdleCall == [pc |-> "idle", commit |-> NULL, game |-> NULL, isNew |-> FALSE,
             langs |-> {}, ids |-> NoSlots, counts |-> NoCounts, total |-> 0]

Claim == [pc : {"idle", "update", "counts", "upsert"},
          game : Games \cup {NULL}, counts : Counts]

TypeOK ==
  /\ CalendarTypeOK
  /\ commits \in [Commits -> [user : Users \cup {NULL}, game : Games \cup {NULL}]]
  /\ private \subseteq Projects
  /\ boards \in [BoardId -> Board]
  /\ langBoards \in [Games -> [Languages -> Nat]]
  /\ players \in [PlayerId -> Player]
  /\ fresh \subseteq Commits
  /\ scanning \subseteq Projects
  /\ call \in [Workers -> Call]
  /\ claim \in [Users -> Claim]

Init ==
  /\ CalendarInit
  /\ commits = [c \in Commits |-> [user |-> AuthorOf[c], game |-> NULL]]
  /\ private \in SUBSET Flippable
  /\ boards = [b \in BoardId |-> NoBoard]
  /\ langBoards = [g \in Games |-> [l \in Languages |-> 0]]
  /\ players = [k \in PlayerId |-> NoPlayer]
  /\ fresh = Commits
  /\ scanning = {}
  /\ call = [w \in Workers |-> IdleCall]
  /\ claim = [u \in Users |-> [pc |-> "idle", game |-> NULL, counts |-> NoCounts]]

-----------------------------------------------------------------------------
(* The queries                                                             *)

(* CountUserCommitsForGame                                                 *)
CountUserCommits(u, g) ==
  LET own == {c \in Commits : commits[c].user = u /\ commits[c].game = g}
  IN  [commits |-> Cardinality(own), projects |-> Cardinality({ProjectOf[c] : c \in own})]

Score(counts) == counts.commits * CommitPoints + counts.projects * ProjectPoints

(* One row's share of GetPlayerBoardTotal.                                 *)
Worth(id) ==
  IF id = NULL THEN 0
  ELSE IF boards[id].verified_points > 0 THEN boards[id].verified_points
  ELSE boards[id].points

(* GetPlayerBoardTotal sums over rows, so an id given twice counts once.   *)
BoardTotal(ids) ==
  Worth(ids[1])
  + (IF ids[2] = ids[1] THEN 0 ELSE Worth(ids[2]))
  + (IF ids[3] \in {ids[1], ids[2]} THEN 0 ELSE Worth(ids[3]))

(* Mutants: the points of the conflict clause replace the row's; an UPDATE *)
(* that inserts nothing; a bonus taken back from a project already known.  *)
OverwrittenBoard(row, isNew) ==
  [row EXCEPT !.exists = TRUE, !.commit_count = @ + 1,
              !.points = CommitPoints + (IF isNew THEN ProjectPoints ELSE 0)]
UpdatedBoard(row, isNew) ==
  IF row.exists THEN [row EXCEPT !.commit_count = @ + 1, !.points = @ + CommitPoints] ELSE row
RefundedBoard(row, isNew) ==
  [row EXCEPT !.exists = TRUE, !.commit_count = @ + 1,
              !.points = @ + CommitPoints + (IF isNew THEN ProjectPoints ELSE -ProjectPoints)]

(* UpsertBoard: INSERT, or add to the row that is there.                   *)
CreditedBoard(row, isNew) ==
  [row EXCEPT !.exists = TRUE, !.commit_count = @ + 1,
              !.points = @ + CommitPoints + (IF isNew THEN ProjectPoints ELSE 0)]

(* Mutant: the conflict clause adds to the counts instead.                 *)
AccumulatedPlayer(row, counts) ==
  [row EXCEPT !.status = IF @ = "none" THEN "pending" ELSE @,
              !.points = @ + Score(counts),
              !.commit_count = @ + counts.commits,
              !.project_count = @ + counts.projects]

(* UpsertPlayer: on conflict every count and points column is overwritten, *)
(* while slots, verified_points and status stay.                           *)
UpsertedPlayer(row, counts) ==
  [row EXCEPT !.status = IF @ = "none" THEN "pending" ELSE @,
              !.points = Score(counts),
              !.commit_count = counts.commits,
              !.project_count = counts.projects]

(* Mutant: the board always goes into the first slot.                      *)
FirstSlot(ids, board) == [ids EXCEPT ![1] = board]

(* The slots AssignBoards is asked to write: the ids read before, with the *)
(* board put into the slot the switch on boardCount picks.                 *)
WantedSlots(ids, board) ==
  [ids EXCEPT ![IF ids[1] = NULL THEN 1 ELSE IF ids[2] = NULL THEN 2 ELSE 3] = board]

(* AssignBoards: COALESCE(argument, column).                               *)
AssignedSlots(wanted, current) ==
  [i \in 1..3 |-> IF wanted[i] = NULL THEN current[i] ELSE wanted[i]]

(* UnlinkBoard, WHERE clause included: AND binds tighter than OR, so       *)
(* player_id only restricts the comparison with board_1_id.                *)
UnlinkMatches(k, player, board) ==
  \/ k = player /\ players[k].slot[1] = board
  \/ players[k].slot[2] = board
  \/ players[k].slot[3] = board

UnlinkedSlots(slot, board) == [i \in 1..3 |-> IF slot[i] = board THEN NULL ELSE slot[i]]

-----------------------------------------------------------------------------
(* GameService.AddCommit, one statement at a time                          *)

BoardOf(w) == [game |-> call[w].game, project |-> ProjectOf[call[w].commit]]
PlayerOf(w) == [game |-> call[w].game, user |-> AuthorOf[call[w].commit]]

At(w, pc) == call[w].pc = pc
Goto(w, pc) == call' = [call EXCEPT ![w].pc = pc]
Return(w) == call' = [call EXCEPT ![w] = IdleCall]

(* Mutant: a commit of a redelivered push is scored again.                 *)
BeginAgain(w, c) ==
  /\ At(w, "idle")
  /\ call' = [call EXCEPT ![w].pc = "game", ![w].commit = c]
  /\ UNCHANGED <<calendarVars, tables, fresh, scanning, claim>>

(* scoreCreatedCommits calls AddCommit for a commit it created.            *)
Begin(w, c) ==
  /\ At(w, "idle")
  /\ c \in fresh
  /\ fresh' = fresh \ {c}
  /\ call' = [call EXCEPT ![w].pc = "game", ![w].commit = c]
  /\ UNCHANGED <<calendarVars, tables, scanning, claim>>

(* Mutant: the game of the moment of scoring, not of the commit.           *)
FindGameNow(w) ==
  /\ At(w, "game")
  /\ LET found == GamesAt(now)
     IN  \/ found = {} /\ Return(w)
         \/ \E g \in found : call' = [call EXCEPT ![w].pc = "project", ![w].game = g]
  /\ UNCHANGED <<calendarVars, tables, fresh, scanning, claim>>

(* No game at the commit's timestamp ends the call.                        *)
FindGame(w) ==
  /\ At(w, "game")
  /\ LET found == GamesAt(TimeOf[call[w].commit])
     IN  \/ found = {} /\ Return(w)
         \/ \E g \in found : call' = [call EXCEPT ![w].pc = "project", ![w].game = g]
  /\ UNCHANGED <<calendarVars, tables, fresh, scanning, claim>>

(* Mutant: the privacy test is inverted.                                   *)
CheckPublic(w) ==
  /\ At(w, "project")
  /\ IF ProjectOf[call[w].commit] \notin private THEN Return(w) ELSE Goto(w, "setGame")
  /\ UNCHANGED <<calendarVars, tables, fresh, scanning, claim>>

(* A private project ends the call.                                        *)
CheckProject(w) ==
  /\ At(w, "project")
  /\ IF ProjectOf[call[w].commit] \in private THEN Return(w) ELSE Goto(w, "setGame")
  /\ UNCHANGED <<calendarVars, tables, fresh, scanning, claim>>

SetCommitGame(w) ==
  /\ At(w, "setGame")
  /\ commits' = [commits EXCEPT ![call[w].commit].game = call[w].game]
  /\ Goto(w, "readBoard")
  /\ UNCHANGED <<calendarVars, private, boards, langBoards, players, fresh, scanning, claim>>

(* Mutant: a board that exists makes the project new.                      *)
ReadBoardSwapped(w) ==
  /\ At(w, "readBoard")
  /\ call' = [call EXCEPT ![w].pc = "upsertBoard", ![w].isNew = boards[BoardOf(w)].exists]
  /\ UNCHANGED <<calendarVars, tables, fresh, scanning, claim>>

(* addPointsToBoard: only ErrNoRows makes the project new; any other error *)
(* of this read is dropped.                                                *)
ReadBoard(w) ==
  /\ At(w, "readBoard")
  /\ \E failed \in {FALSE, Faults} :
       call' = [call EXCEPT ![w].pc = "upsertBoard",
                            ![w].isNew = ~boards[BoardOf(w)].exists /\ ~failed]
  /\ UNCHANGED <<calendarVars, tables, fresh, scanning, claim>>

(* UpsertBoard adds to the row, or inserts it with what it would add.      *)
UpsertBoard(w) ==
  /\ At(w, "upsertBoard")
  /\ boards' = [boards EXCEPT ![BoardOf(w)] = CreditedBoard(@, call[w].isNew)]
  /\ call' = [call EXCEPT ![w].pc = "languages", ![w].langs = LanguagesOf[call[w].commit]]
  /\ UNCHANGED <<calendarVars, commits, private, langBoards, players, fresh, scanning, claim>>

(* One turn of addLanguageBoards' loop; its points column is this count    *)
(* times commit_points.                                                    *)
UpsertLanguageBoard(w, l) ==
  /\ At(w, "languages")
  /\ l \in call[w].langs
  /\ langBoards' = [langBoards EXCEPT ![call[w].game][l] = @ + 1]
  /\ call' = [call EXCEPT ![w].langs = @ \ {l}]
  /\ UNCHANGED <<calendarVars, commits, private, boards, players, fresh, scanning, claim>>

(* The end of that loop; commit.UserID is what CreateCommit returned, not  *)
(* the user_id the row has by now.                                         *)
CheckAuthor(w) ==
  /\ At(w, "languages")
  /\ call[w].langs = {}
  /\ IF AuthorOf[call[w].commit] = NULL THEN Return(w) ELSE Goto(w, "player")
  /\ UNCHANGED <<calendarVars, tables, fresh, scanning, claim>>

(* assignPlayerBoards: GetPlayerByUserAndGame.                             *)
FindPlayer(w) ==
  /\ At(w, "player")
  /\ Goto(w, IF players[PlayerOf(w)].status = "none" THEN "newCounts" ELSE "slots")
  /\ UNCHANGED <<calendarVars, tables, fresh, scanning, claim>>

CountForNewPlayer(w) ==
  /\ At(w, "newCounts")
  /\ call' = [call EXCEPT ![w].pc = "newPlayer",
                ![w].counts = CountUserCommits(PlayerOf(w).user, call[w].game)]
  /\ UNCHANGED <<calendarVars, tables, fresh, scanning, claim>>

CreatePlayer(w) ==
  /\ At(w, "newPlayer")
  /\ players' = [players EXCEPT ![PlayerOf(w)] = UpsertedPlayer(@, call[w].counts)]
  /\ Goto(w, "slots")
  /\ UNCHANGED <<calendarVars, commits, private, boards, langBoards, fresh, scanning, claim>>

(* GetPlayerBoardIds: what the rest of the call believes of the slots.     *)
ReadSlots(w) ==
  /\ At(w, "slots")
  /\ LET ids == players[PlayerOf(w)].slot
         full == \A i \in 1..3 : ids[i] # NULL
         assigned == \E i \in 1..3 : ids[i] = BoardOf(w)
     IN  call' = [call EXCEPT ![w].ids = ids,
                    ![w].pc = IF full \/ assigned THEN "counts" ELSE "assign"]
  /\ UNCHANGED <<calendarVars, tables, fresh, scanning, claim>>

AssignBoards(w) ==
  /\ At(w, "assign")
  /\ players' = [players EXCEPT ![PlayerOf(w)].slot =
                   AssignedSlots(WantedSlots(call[w].ids, BoardOf(w)), @)]
  /\ Goto(w, "counts")
  /\ UNCHANGED <<calendarVars, commits, private, boards, langBoards, fresh, scanning, claim>>

CountCommits(w) ==
  /\ At(w, "counts")
  /\ call' = [call EXCEPT ![w].pc = "total",
                ![w].counts = CountUserCommits(PlayerOf(w).user, call[w].game)]
  /\ UNCHANGED <<calendarVars, tables, fresh, scanning, claim>>

(* The total is taken over the ids read before AssignBoards.               *)
SumBoards(w) ==
  /\ At(w, "total")
  /\ call' = [call EXCEPT ![w].pc = "update", ![w].total = BoardTotal(call[w].ids)]
  /\ UNCHANGED <<calendarVars, tables, fresh, scanning, claim>>

UpdatePlayerAnalysis(w) ==
  /\ At(w, "update")
  /\ players' = [players EXCEPT ![PlayerOf(w)] =
       [@ EXCEPT !.status = "completed",
                 !.verified_points = call[w].counts.commits + call[w].total,
                 !.commit_count = call[w].counts.commits,
                 !.project_count = call[w].counts.projects]]
  /\ Return(w)
  /\ UNCHANGED <<calendarVars, commits, private, boards, langBoards, fresh, scanning, claim>>

(* Mutant: a turn that fails has the loop over the languages start again.  *)
RestartLanguages(w) ==
  /\ Faults
  /\ ~At(w, "idle")
  /\ IF At(w, "languages") /\ call[w].langs # {}
     THEN call' = [call EXCEPT ![w].langs = LanguagesOf[call[w].commit]]
     ELSE Return(w)
  /\ UNCHANGED <<calendarVars, tables, fresh, scanning, claim>>

(* A statement fails, the one-minute context ends or the process dies: the *)
(* call returns where it stands and nothing is undone.                     *)
Abandon(w) ==
  /\ Faults
  /\ ~At(w, "idle")
  /\ Return(w)
  /\ UNCHANGED <<calendarVars, tables, fresh, scanning, claim>>

(* A failed or panicking scan, or a restart, drops a commit unscored.      *)
LoseCommit(c) ==
  /\ Faults
  /\ c \in fresh
  /\ fresh' = fresh \ {c}
  /\ UNCHANGED <<calendarVars, tables, scanning, call, claim>>

AddCommit(w) ==
  \/ \E c \in Commits : Begin(w, c)
  \/ FindGame(w) \/ CheckProject(w) \/ SetCommitGame(w)
  \/ ReadBoard(w) \/ UpsertBoard(w)
  \/ \E l \in Languages : UpsertLanguageBoard(w, l)
  \/ CheckAuthor(w) \/ FindPlayer(w) \/ CountForNewPlayer(w) \/ CreatePlayer(w)
  \/ ReadSlots(w) \/ AssignBoards(w) \/ CountCommits(w) \/ SumBoards(w)
  \/ UpdatePlayerAnalysis(w)

-----------------------------------------------------------------------------
(* GameService.ClaimOrphanCommits, after a login that created the account  *)
(* or added an email address to it                                         *)

(* With no game on, the claim ends here.                                   *)
ClaimFindGame(u) ==
  /\ u \in Claimants
  /\ claim[u].pc = "idle"
  /\ \E g \in GamesAt(now) : claim' = [claim EXCEPT ![u].pc = "update", ![u].game = g]
  /\ UNCHANGED <<calendarVars, tables, fresh, scanning, call>>

(* Mutant: the claim takes commits that have an author.                    *)
EveryCommit(u, g) == {c \in Commits : EmailOwner[c] = u /\ commits[c].game = g}

Orphans(u, g) ==
  {c \in Commits : commits[c].user = NULL /\ EmailOwner[c] = u /\ commits[c].game = g}

ClaimUpdate(u) ==
  /\ claim[u].pc = "update"
  /\ LET claimed == Orphans(u, claim[u].game)
     IN  /\ commits' = [c \in Commits |->
              IF c \in claimed THEN [commits[c] EXCEPT !.user = u] ELSE commits[c]]
         /\ claim' = [claim EXCEPT ![u].pc = IF claimed = {} THEN "idle" ELSE "counts"]
  /\ UNCHANGED <<calendarVars, private, boards, langBoards, players, fresh, scanning, call>>

(* UpsertPlayer: count, then write.                                        *)
ClaimCount(u) ==
  /\ claim[u].pc = "counts"
  /\ claim' = [claim EXCEPT ![u].pc = "upsert",
                 ![u].counts = CountUserCommits(u, claim[u].game)]
  /\ UNCHANGED <<calendarVars, tables, fresh, scanning, call>>

ClaimUpsertPlayer(u) ==
  /\ claim[u].pc = "upsert"
  /\ players' = [players EXCEPT ![[game |-> claim[u].game, user |-> u]] =
                   UpsertedPlayer(@, claim[u].counts)]
  /\ claim' = [claim EXCEPT ![u].pc = "idle"]
  /\ UNCHANGED <<calendarVars, commits, private, boards, langBoards, fresh, scanning, call>>

ClaimAbandon(u) ==
  /\ Faults
  /\ claim[u].pc # "idle"
  /\ claim' = [claim EXCEPT ![u].pc = "idle"]
  /\ UNCHANGED <<calendarVars, tables, fresh, scanning, call>>

ClaimOrphanCommits(u) ==
  ClaimFindGame(u) \/ ClaimUpdate(u) \/ ClaimCount(u) \/ ClaimUpsertPlayer(u)

-----------------------------------------------------------------------------
(* The other requests                                                      *)

(* players.Update: user u unlinks a board on the page of the current game. *)
Unlink(u, b) ==
  \E g \in ActiveOrLatest(now) :
    LET k == [game |-> g, user |-> u]
        hit == {m \in PlayerId : UnlinkMatches(m, k, b)}
    IN  /\ players[k].status # "none"
        /\ hit # {}
        /\ players' = [m \in PlayerId |->
             IF m \in hit THEN [players[m] EXCEPT !.slot = UnlinkedSlots(@, b)]
             ELSE players[m]]
        /\ UNCHANGED <<calendarVars, commits, private, boards, langBoards,
                       fresh, scanning, call, claim>>

(* A push's UpsertProjectByRepoID copies the repository's private flag.    *)
SetPrivate(p) ==
  /\ private' \in {private \cup {p}, private \ {p}}
  /\ UNCHANGED <<calendarVars, commits, boards, langBoards, players,
                 fresh, scanning, call, claim>>

(* RunScan: the privacy check on the project row it was given ...          *)
ScanStart(p) ==
  /\ p \notin private
  /\ scanning' = scanning \cup {p}
  /\ UNCHANGED <<calendarVars, tables, fresh, call, claim>>

(* ... and, after the scan, UpdateBoardVerifiedPointsByProjectID: every    *)
(* board of the project, whatever its game; a total of 0 writes nothing.   *)
ScanFinish(p) ==
  /\ p \in scanning
  /\ scanning' = scanning \ {p}
  /\ \/ UNCHANGED boards
     \/ \E total \in ScanTotals :
          boards' = [b \in BoardId |->
            IF b.project = p /\ boards[b].exists
            THEN [boards[b] EXCEPT !.verified_points = total] ELSE boards[b]]
  /\ UNCHANGED <<calendarVars, commits, private, langBoards, players, fresh, call, claim>>

OtherRequests ==
  \/ \E u \in Unlinkers, b \in BoardId : Unlink(u, b)
  \/ \E p \in Flippable : SetPrivate(p)
  \/ \E p \in Scanned : ScanStart(p) \/ ScanFinish(p)

Calendar == CalendarNext /\ UNCHANGED <<tables, fresh, scanning, call, claim>>

Next ==
  \/ \E w \in Workers : AddCommit(w) \/ Abandon(w)
  \/ \E c \in Commits : LoseCommit(c)
  \/ \E u \in Users : ClaimOrphanCommits(u) \/ ClaimAbandon(u)
  \/ OtherRequests
  \/ Calendar

Spec == Init /\ [][Next]_vars

-----------------------------------------------------------------------------
(* Properties                                                              *)

ProjectCommits(b) ==
  {c \in Commits : commits[c].game = b.game /\ ProjectOf[c] = b.project}

(* A board never shows more commits than the commits table has for its     *)
(* project and game, however many AddCommit calls upsert it at once and    *)
(* wherever they are cut short (game.go:175-186).                          *)
BoardNeverOvercounts ==
  \A b \in BoardId : boards[b].commit_count <= Cardinality(ProjectCommits(b))

(* A board's points are its commits' points and at least one project       *)
(* bonus: the check-then-insert of addPointsToBoard may award the bonus    *)
(* again, but it never loses it, nor a commit (game.go:204-226).           *)
BoardPointsAddUp ==
  \A b \in BoardId : boards[b].exists =>
    \E bonuses \in 1..boards[b].commit_count :
      boards[b].points = boards[b].commit_count * CommitPoints + bonuses * ProjectPoints

(* Every board in a player's slots is a board of the player's own game, on *)
(* a project the player has an own commit in, whatever stale ids           *)
(* AssignBoards was given and whoever unlinked in between                  *)
(* (game.go:291-353, players.sql:85-108).                                  *)
SlotsEarned ==
  \A k \in PlayerId, i \in 1..3 :
    LET b == players[k].slot[i]
    IN  b # NULL =>
          /\ b.game = k.game
          /\ boards[b].exists
          /\ \E c \in ProjectCommits(b) : commits[c].user = k.user

(* A player row never claims more commits or projects than the table holds *)
(* for the user and game: stale counts only lag (game.go:356-381,397-415). *)
PlayerNeverOvercounts ==
  \A k \in PlayerId :
    LET own == {c \in Commits : commits[c] = [user |-> k.user, game |-> k.game]}
    IN  /\ players[k].commit_count <= Cardinality(own)
        /\ players[k].project_count <= Cardinality({ProjectOf[c] : c \in own})

(* A commit's user and game are written once: no second AddCommit and no   *)
(* claim moves a commit to another game or player (commits.sql:49-53).     *)
AttributionIsFinal ==
  [][\A c \in Commits :
       /\ commits[c].game # NULL => commits'[c].game = commits[c].game
       /\ commits[c].user # NULL => commits'[c].user = commits[c].user]_commits

(* No request lowers a board's points or commit count, or removes it: an   *)
(* upsert beside a scan or another upsert adds to the row as it stands     *)
(* (boards.sql:5-13,26-31).                                                *)
BoardsOnlyGrow ==
  [][\A b \in BoardId :
       /\ boards'[b].points >= boards[b].points
       /\ boards'[b].commit_count >= boards[b].commit_count
       /\ boards[b].exists => boards'[b].exists]_boards

(* A commit is only ever placed in a game that exists and covers its own   *)
(* timestamp, whatever games an administrator creates or ends while it     *)
(* waits for its scan (game.go:153, games.sql:19-23).                      *)
PlacedInCoveringGame ==
  \A c \in Commits : LET g == commits[c].game
    IN  g # NULL => gameRow[g] # "absent" /\ Covers(g, TimeOf[c])

(* The same for a language's board, whose loop may be cut between two      *)
(* languages of one commit (game.go:228-254).                              *)
LanguageNeverOvercounts ==
  \A g \in Games, l \in Languages :
    langBoards[g][l] <= Cardinality({c \in Commits : commits[c].game = g /\ l \in LanguagesOf[c]})

(* The tables implement the ledger: whatever the statements do to commits  *)
(* and boards is a placement, a credit or nothing.                         *)
Ledger == INSTANCE ScoreLedger WITH
  home <- [c \in Commits |-> commits[c].game],
  credits <- [b \in BoardId |-> boards[b].commit_count],
  points <- [b \in BoardId |-> boards[b].points],
  MayMissBonus <- Faults

LedgerSpec == Ledger!Spec

-----------------------------------------------------------------------------
(* Scoring alone, while no one claims, unlinks or scans and the calendar   *)
(* stands still; and scoring beside other requests, where no scan fails    *)
(* and every goroutine keeps being scheduled.                              *)

ScoringNext == \E w \in Workers : AddCommit(w)

FairSpec ==
  /\ Init /\ [][ScoringNext \/ OtherRequests]_vars
  /\ \A w \in Workers : WF_vars(AddCommit(w))

Settled == fresh = {} /\ \A w \in Workers : At(w, "idle")

HeldBoards(k) == {players[k].slot[i] : i \in 1..3} \ {NULL}

(* When pushes are scored one at a time, every row is exact once they are, *)
(* however games came and went and scans finished meanwhile: one project   *)
(* bonus per board, every author counted, and each player holding three    *)
(* boards or one for every project worked on (game.go:146-386).            *)
ExactWhenSettled ==
  Settled =>
    /\ \A b \in BoardId :
         LET n == Cardinality(ProjectCommits(b))
         IN  /\ boards[b].commit_count = n
             /\ boards[b].points = IF n = 0 THEN 0 ELSE n * CommitPoints + ProjectPoints
    /\ \A k \in PlayerId :
         LET actual == CountUserCommits(k.user, k.game)
         IN  /\ players[k].commit_count = actual.commits
             /\ players[k].project_count = actual.projects
             /\ Cardinality(HeldBoards(k)) =
                  IF actual.projects > 3 THEN 3 ELSE actual.projects

Scorable(b) ==
  {c \in Commits : /\ ProjectOf[c] = b.project /\ b.project \notin private
                   /\ b.game \in GamesAt(TimeOf[c])}

(* However the goroutines interleave, the boards end up counting every     *)
(* commit of a public project made while a game was on.                    *)
BoardsCatchUp ==
  <>[](\A b \in BoardId : boards[b].commit_count = Cardinality(Scorable(b)))

-----------------------------------------------------------------------------
(* What a comment says and the code does not do                            *)

(* players.sql:97: "Remove a specific board from one of a player's board   *)
(* slots": a player who unlinks a board she holds empties a slot of hers,  *)
(* nobody else's.                                                          *)
UnlinkTouchesOwnSlots ==
  [][\A u \in Unlinkers, b \in BoardId :
       Unlink(u, b) /\ b \in HeldBoards([game |-> b.game, user |-> u]) =>
         \A k \in PlayerId : k.user # u => players'[k].slot = players[k].slot]_vars

=============================================================================
