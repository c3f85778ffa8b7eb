-------------------------- MODULE GameScoringProofs --------------------------
(***************************************************************************)
(* Proofs about GameScoring, for every value of its constants: what its    *)
(* calls own, that no board counts a commit twice, that it implements      *)
(* ScoreLedger and that the points of a board add up.                      *)
(***************************************************************************)
EXTENDS GameScoring, FiniteSetTheorems, TLAPS

-----------------------------------------------------------------------------
(* The queries                                                             *)

(* Commits is finite, so every set of commits can be counted, and a larger *)
(* set never counts less.                                                  *)
LEMMA CommitSets ==
  ASSUME NEW S \in SUBSET Commits
  PROVE  /\ IsFiniteSet(S)
         /\ Cardinality(S) \in Nat
         /\ \A T \in SUBSET S : Cardinality(T) <= Cardinality(S)
<1>1. IsFiniteSet(S)
  BY FS_Subset, ScoringAssumption
<1>2. Cardinality(S) \in Nat
  BY <1>1, FS_CardinalityType
<1>3. ASSUME NEW T \in SUBSET S PROVE Cardinality(T) <= Cardinality(S)
  BY <1>1, FS_Subset
<1>. QED BY <1>1, <1>2, <1>3

(* The projects of a set of commits can be counted too.                    *)
LEMMA ProjectSets ==
  ASSUME NEW S \in SUBSET Commits
  PROVE  LET projects == {ProjectOf[c] : c \in S}
         IN  IsFiniteSet(projects) /\ Cardinality(projects) \in Nat
<1>. DEFINE projects == {ProjectOf[c] : c \in S}
            f == [c \in S |-> ProjectOf[c]]
<1>1. f \in Surjection(S, projects)
  BY DEF Surjection
<1>2. IsFiniteSet(S)
  BY CommitSets
<1>3. IsFiniteSet(projects)
  BY <1>1, <1>2, FS_Surjection
<1>. QED BY <1>3, FS_CardinalityType

(* CountUserCommitsForGame returns two natural numbers.                    *)
LEMMA CountsTyped ==
  ASSUME NEW u, NEW g
  PROVE  CountUserCommits(u, g) \in Counts
<1>. DEFINE own == {c \in Commits : commits[c].user = u /\ commits[c].game = g}
<1>1. Cardinality(own) \in Nat
  BY CommitSets
<1>2. Cardinality({ProjectOf[c] : c \in own}) \in Nat
  BY ProjectSets
<1>. QED BY <1>1, <1>2 DEF CountUserCommits, Counts

(* GetPlayerBoardTotal returns a natural number.                           *)
LEMMA TotalTyped ==
  ASSUME boards \in [BoardId -> Board], NEW ids \in Slots
  PROVE  BoardTotal(ids) \in Nat
<1>1. \A id \in BoardId \cup {NULL} : Worth(id) \in Nat
  BY DEF Worth, Board
<1>2. ids[1] \in BoardId \cup {NULL} /\ ids[2] \in BoardId \cup {NULL}
      /\ ids[3] \in BoardId \cup {NULL}
  BY DEF Slots
<1>. QED BY <1>1, <1>2 DEF BoardTotal

(* A board fits a player's slots, whichever slot it is given.              *)
LEMMA SlotsTyped ==
  ASSUME NEW ids \in Slots, NEW current \in Slots, NEW b \in BoardId
  PROVE  /\ WantedSlots(ids, b) \in Slots
         /\ AssignedSlots(ids, current) \in Slots
         /\ UnlinkedSlots(ids, b) \in Slots
BY DEF Slots, WantedSlots, AssignedSlots, UnlinkedSlots

-----------------------------------------------------------------------------
(* Types                                                                   *)

(* What a call holds, by the statement it is at.                           *)
AssignPc == {"player", "newCounts", "newPlayer", "slots", "assign", "counts", "total", "update"}

CallOK(d) ==
  /\ d.pc # "idle" => d.commit \in Commits
  /\ d.pc \notin {"idle", "game"} => d.game \in Games
  /\ d.pc \in AssignPc => AuthorOf[d.commit] \in Users

CallsOK == \A w \in Workers : CallOK(call[w])
TypeInv == TypeOK /\ CallsOK

LEMMA InitTypes == Init => TypeInv
<1>. SUFFICES ASSUME Init PROVE TypeInv
  OBVIOUS
<1>. USE ScoringAssumption, CalendarAssumption DEF Init, CalendarInit
<1>1. CalendarTypeOK
  BY DEF CalendarTypeOK
<1>2. commits \in [Commits -> [user : Users \cup {NULL}, game : Games \cup {NULL}]]
  OBVIOUS
<1>3. private \subseteq Projects /\ fresh \subseteq Commits /\ scanning \subseteq Projects
  OBVIOUS
<1>4. boards \in [BoardId -> Board] /\ langBoards \in [Games -> [Languages -> Nat]]
  BY DEF NoBoard, Board
<1>5. players \in [PlayerId -> Player]
  BY DEF NoPlayer, Player, NoSlots, Slots
<1>6. call \in [Workers -> Call]
  BY DEF IdleCall, Call, NoSlots, Slots, NoCounts, Counts
<1>7. claim \in [Users -> Claim]
  BY DEF Claim, NoCounts, Counts
<1>8. CallsOK
  BY DEF CallsOK, CallOK, AssignPc, IdleCall
<1>. QED BY <1>1, <1>2, <1>3, <1>4, <1>5, <1>6, <1>7, <1>8 DEF TypeInv, TypeOK

(* What the types say of one call.                                         *)
LEMMA CallHolds ==
  ASSUME TypeInv, NEW w \in Workers
  PROVE  call[w] \in Call /\ CallOK(call[w])
BY DEF TypeInv, TypeOK, CallsOK

(* One call changes at a time; the others keep what they hold.             *)
LEMMA CallTyped ==
  ASSUME TypeInv, NEW w \in Workers, NEW d \in Call, CallOK(d),
         call' = [call EXCEPT ![w] = d]
  PROVE  call' \in [Workers -> Call] /\ CallsOK'
BY DEF TypeInv, TypeOK, CallsOK

LEMMA IdleTyped == IdleCall \in Call /\ CallOK(IdleCall)
BY DEF IdleCall, Call, CallOK, NoSlots, Slots, NoCounts, Counts, AssignPc

(* A step that leaves everything but call alone.                           *)
LEMMA LocalStep ==
  ASSUME TypeInv, UNCHANGED <<calendarVars, tables, fresh, scanning, claim>>,
         call' \in [Workers -> Call], CallsOK'
  PROVE  TypeInv'
BY DEF TypeInv, TypeOK, CalendarTypeOK, calendarVars, tables

(* Moving on to another statement, with nothing new read.                  *)
LEMMA GotoTyped ==
  ASSUME TypeInv, NEW w \in Workers, NEW pc, Goto(w, pc),
         [call[w] EXCEPT !.pc = pc] \in Call, CallOK([call[w] EXCEPT !.pc = pc])
  PROVE  call' \in [Workers -> Call] /\ CallsOK'
<1>1. call' = [call EXCEPT ![w] = [call[w] EXCEPT !.pc = pc]]
  BY DEF Goto
<1>. QED BY <1>1, CallTyped

LEMMA ReturnTyped ==
  ASSUME TypeInv, NEW w \in Workers, Return(w)
  PROVE  call' \in [Workers -> Call] /\ CallsOK'
BY IdleTyped, CallTyped DEF Return

LEMMA BeginTypes ==
  ASSUME TypeInv, NEW w \in Workers, NEW c \in Commits, Begin(w, c)
  PROVE  TypeInv'
<1>. DEFINE d == [call[w] EXCEPT !.pc = "game", !.commit = c]
<1>1. call' = [call EXCEPT ![w] = d]
  BY DEF Begin
<1>2. d \in Call /\ CallOK(d)
  BY CallHolds DEF Call, CallOK, AssignPc
<1>3. call' \in [Workers -> Call] /\ CallsOK'
  BY <1>1, <1>2, CallTyped
<1>. QED BY <1>3 DEF TypeInv, TypeOK, Begin, CalendarTypeOK, calendarVars, tables

LEMMA FindGameTypes ==
  ASSUME TypeInv, NEW w \in Workers, FindGame(w)
  PROVE  TypeInv'
<1>1. CASE Return(w)
  BY <1>1, ReturnTyped, LocalStep DEF FindGame
<1>2. ASSUME NEW g \in GamesAt(TimeOf[call[w].commit]),
             call' = [call EXCEPT ![w].pc = "project", ![w].game = g]
      PROVE  TypeInv'
  <2>. DEFINE d == [call[w] EXCEPT !.pc = "project", !.game = g]
  <2>1. call' = [call EXCEPT ![w] = d]
    BY <1>2
  <2>2. d \in Call /\ CallOK(d)
    BY CallHolds DEF Call, CallOK, AssignPc, FindGame, At, GamesAt
  <2>. QED BY <2>1, <2>2, CallTyped, LocalStep DEF FindGame
<1>. QED BY <1>1, <1>2 DEF FindGame

LEMMA CheckProjectTypes ==
  ASSUME TypeInv, NEW w \in Workers, CheckProject(w)
  PROVE  TypeInv'
<1>1. CASE Return(w)
  BY <1>1, ReturnTyped, LocalStep DEF CheckProject
<1>2. CASE Goto(w, "setGame")
  <2>1. /\ [call[w] EXCEPT !.pc = "setGame"] \in Call
        /\ CallOK([call[w] EXCEPT !.pc = "setGame"])
    BY CallHolds DEF Call, CallOK, AssignPc, CheckProject, At
  <2>. QED BY <1>2, <2>1, GotoTyped, LocalStep DEF CheckProject
<1>. QED BY <1>1, <1>2 DEF CheckProject

LEMMA SetCommitGameTypes ==
  ASSUME TypeInv, NEW w \in Workers, SetCommitGame(w)
  PROVE  TypeInv'
<1>1. /\ [call[w] EXCEPT !.pc = "readBoard"] \in Call
      /\ CallOK([call[w] EXCEPT !.pc = "readBoard"])
  BY CallHolds DEF Call, CallOK, AssignPc, SetCommitGame, At
<1>2. call' \in [Workers -> Call] /\ CallsOK'
  BY <1>1, GotoTyped DEF SetCommitGame
<1>3. call[w].game \in Games \cup {NULL}
  BY CallHolds DEF Call
<1>4. commits' \in [Commits -> [user : Users \cup {NULL}, game : Games \cup {NULL}]]
  BY <1>3 DEF TypeInv, TypeOK, SetCommitGame
<1>. QED BY <1>2, <1>4 DEF TypeInv, TypeOK, SetCommitGame, CalendarTypeOK, calendarVars

LEMMA ReadBoardTypes ==
  ASSUME TypeInv, NEW w \in Workers, ReadBoard(w)
  PROVE  TypeInv'
<1>1. PICK failed \in {FALSE, Faults} :
        call' = [call EXCEPT ![w].pc = "upsertBoard",
                             ![w].isNew = ~boards[BoardOf(w)].exists /\ ~failed]
  BY DEF ReadBoard
<1>. DEFINE d == [call[w] EXCEPT !.pc = "upsertBoard",
                                 !.isNew = ~boards[BoardOf(w)].exists /\ ~failed]
<1>2. call' = [call EXCEPT ![w] = d]
  BY <1>1
<1>3. (~boards[BoardOf(w)].exists /\ ~failed) \in BOOLEAN
  OBVIOUS
<1>4. d \in Call /\ CallOK(d)
  BY CallHolds, <1>3 DEF Call, CallOK, AssignPc, ReadBoard, At
<1>. QED BY <1>2, <1>4, CallTyped, LocalStep DEF ReadBoard

(* UpsertBoard writes a board row.                                         *)
LEMMA CreditedTyped ==
  ASSUME NEW row \in Board, NEW isNew \in BOOLEAN
  PROVE  CreditedBoard(row, isNew) \in Board
<1>. DEFINE p == row.points + CommitPoints + (IF isNew THEN ProjectPoints ELSE 0)
            n == row.commit_count + 1
<1>1. CommitPoints \in Nat /\ ProjectPoints \in Nat
  BY ScoringAssumption
<1>2. row.points \in Nat /\ row.commit_count \in Nat
  BY DEF Board
<1>3. p \in Nat /\ n \in Nat
  BY <1>1, <1>2
<1>4. CreditedBoard(row, isNew) = [row EXCEPT !.exists = TRUE, !.commit_count = n, !.points = p]
  BY DEF CreditedBoard, Board
<1>. HIDE DEF p, n
<1>. QED BY <1>3, <1>4 DEF Board

LEMMA UpsertBoardTypes ==
  ASSUME TypeInv, NEW w \in Workers, UpsertBoard(w)
  PROVE  TypeInv'
<1>. DEFINE d == [call[w] EXCEPT !.pc = "languages", !.langs = LanguagesOf[call[w].commit]]
<1>1. call' = [call EXCEPT ![w] = d]
  BY DEF UpsertBoard
<1>2. d \in Call /\ CallOK(d)
  <2>1. call[w] \in Call /\ CallOK(call[w]) /\ call[w].pc = "upsertBoard"
    BY CallHolds DEF UpsertBoard, At
  <2>2. LanguagesOf[call[w].commit] \in SUBSET Languages
    BY <2>1, ScoringAssumption DEF CallOK
  <2>. QED BY <2>1, <2>2 DEF Call, CallOK, AssignPc
<1>3. \A row \in Board, isNew \in BOOLEAN : CreditedBoard(row, isNew) \in Board
  BY CreditedTyped
<1>4. call[w].isNew \in BOOLEAN
  BY DEF TypeInv, TypeOK, Call
<1>. HIDE DEF d
<1>5. boards' \in [BoardId -> Board]
  BY <1>3, <1>4 DEF TypeInv, TypeOK, UpsertBoard
<1>6. call' \in [Workers -> Call] /\ CallsOK'
  BY <1>1, <1>2, CallTyped
<1>. QED BY <1>5, <1>6 DEF TypeInv, TypeOK, UpsertBoard, CalendarTypeOK, calendarVars

LEMMA UpsertLanguageBoardTypes ==
  ASSUME TypeInv, NEW w \in Workers, NEW l \in Languages, UpsertLanguageBoard(w, l)
  PROVE  TypeInv'
<1>. DEFINE d == [call[w] EXCEPT !.langs = @ \ {l}]
<1>1. call' = [call EXCEPT ![w] = d]
  BY DEF UpsertLanguageBoard
<1>2. d \in Call /\ CallOK(d)
  BY CallHolds DEF Call, CallOK, AssignPc, UpsertLanguageBoard, At
<1>3. call[w].game \in Games
  BY DEF TypeInv, TypeOK, CallsOK, Call, CallOK, UpsertLanguageBoard, At
<1>4. langBoards' \in [Games -> [Languages -> Nat]]
  BY <1>3 DEF TypeInv, TypeOK, UpsertLanguageBoard
<1>5. call' \in [Workers -> Call] /\ CallsOK'
  BY <1>1, <1>2, CallTyped
<1>. QED BY <1>4, <1>5 DEF TypeInv, TypeOK, UpsertLanguageBoard, CalendarTypeOK, calendarVars

LEMMA CheckAuthorTypes ==
  ASSUME TypeInv, NEW w \in Workers, CheckAuthor(w)
  PROVE  TypeInv'
<1>1. CASE Return(w)
  BY <1>1, ReturnTyped, LocalStep DEF CheckAuthor
<1>2. CASE AuthorOf[call[w].commit] # NULL /\ Goto(w, "player")
  <2>1. /\ call[w] \in Call /\ call[w].pc = "languages"
        /\ call[w].commit \in Commits /\ call[w].game \in Games
    BY DEF TypeInv, TypeOK, CallsOK, CallOK, CheckAuthor, At
  <2>2. AuthorOf[call[w].commit] \in Users
    BY <1>2, <2>1, ScoringAssumption
  <2>3. /\ [call[w] EXCEPT !.pc = "player"] \in Call
        /\ CallOK([call[w] EXCEPT !.pc = "player"])
    BY <2>1, <2>2 DEF Call, CallOK
  <2>. QED BY <1>2, <2>3, GotoTyped, LocalStep DEF CheckAuthor
<1>. QED BY <1>1, <1>2 DEF CheckAuthor

(* From here on the player and the board of the call are rows.             *)
LEMMA CallKeys ==
  ASSUME TypeInv, NEW w \in Workers, call[w].pc \notin {"idle", "game"}
  PROVE  /\ BoardOf(w) \in BoardId
         /\ call[w].pc \in AssignPc => PlayerOf(w) \in PlayerId
BY ScoringAssumption DEF TypeInv, TypeOK, CallsOK, CallOK, BoardOf, PlayerOf, BoardId, PlayerId

LEMMA FindPlayerTypes ==
  ASSUME TypeInv, NEW w \in Workers, FindPlayer(w)
  PROVE  TypeInv'
<1>1. ASSUME NEW pc \in {"newCounts", "slots"}
      PROVE  /\ [call[w] EXCEPT !.pc = pc] \in Call
             /\ CallOK([call[w] EXCEPT !.pc = pc])
  BY CallHolds DEF Call, CallOK, AssignPc, FindPlayer, At
<1>. QED BY <1>1, GotoTyped, LocalStep DEF FindPlayer

LEMMA CountForNewPlayerTypes ==
  ASSUME TypeInv, NEW w \in Workers, CountForNewPlayer(w)
  PROVE  TypeInv'
<1>. DEFINE d == [call[w] EXCEPT !.pc = "newPlayer",
                    !.counts = CountUserCommits(PlayerOf(w).user, call[w].game)]
<1>1. call' = [call EXCEPT ![w] = d]
  BY DEF CountForNewPlayer
<1>2. d \in Call /\ CallOK(d)
  BY CallHolds, CountsTyped DEF Call, CallOK, AssignPc, CountForNewPlayer, At
<1>. QED BY <1>1, <1>2, CallTyped, LocalStep DEF CountForNewPlayer

(* UpsertPlayer writes a player row.                                       *)
LEMMA UpsertedTyped ==
  ASSUME NEW row \in Player, NEW counts \in Counts
  PROVE  UpsertedPlayer(row, counts) \in Player
<1>1. Score(counts) \in Nat
  BY ScoringAssumption DEF Score, Counts
<1>. QED BY <1>1 DEF UpsertedPlayer, Player, Counts

LEMMA CreatePlayerTypes ==
  ASSUME TypeInv, NEW w \in Workers, CreatePlayer(w)
  PROVE  TypeInv'
<1>1. /\ [call[w] EXCEPT !.pc = "slots"] \in Call
      /\ CallOK([call[w] EXCEPT !.pc = "slots"])
  BY CallHolds DEF Call, CallOK, AssignPc, CreatePlayer, At
<1>2. call' \in [Workers -> Call] /\ CallsOK'
  BY <1>1, GotoTyped DEF CreatePlayer
<1>3. players' \in [PlayerId -> Player]
  BY UpsertedTyped DEF TypeInv, TypeOK, Call, CreatePlayer
<1>. QED BY <1>2, <1>3 DEF TypeInv, TypeOK, CreatePlayer, CalendarTypeOK, calendarVars

LEMMA ReadSlotsTypes ==
  ASSUME TypeInv, NEW w \in Workers, ReadSlots(w)
  PROVE  TypeInv'
<1>1. PICK pc \in {"counts", "assign"} :
        call' = [call EXCEPT ![w].ids = players[PlayerOf(w)].slot, ![w].pc = pc]
  BY DEF ReadSlots
<1>. DEFINE d == [call[w] EXCEPT !.ids = players[PlayerOf(w)].slot, !.pc = pc]
<1>2. call' = [call EXCEPT ![w] = d]
  BY <1>1
<1>3. players[PlayerOf(w)].slot \in Slots
  BY CallKeys DEF TypeInv, TypeOK, ReadSlots, At, AssignPc, Player
<1>4. d \in Call /\ CallOK(d)
  BY CallHolds, <1>3 DEF Call, CallOK, AssignPc, ReadSlots, At
<1>. QED BY <1>2, <1>4, CallTyped, LocalStep DEF ReadSlots

LEMMA AssignBoardsTypes ==
  ASSUME TypeInv, NEW w \in Workers, AssignBoards(w)
  PROVE  TypeInv'
<1>1. /\ [call[w] EXCEPT !.pc = "counts"] \in Call
      /\ CallOK([call[w] EXCEPT !.pc = "counts"])
  BY CallHolds DEF Call, CallOK, AssignPc, AssignBoards, At
<1>2. call' \in [Workers -> Call] /\ CallsOK'
  BY <1>1, GotoTyped DEF AssignBoards
<1>3. WantedSlots(call[w].ids, BoardOf(w)) \in Slots
  <2>1. call[w].ids \in Slots
    BY CallHolds DEF Call
  <2>2. BoardOf(w) \in BoardId
    BY CallKeys DEF AssignBoards, At
  <2>. QED BY <2>1, <2>2, SlotsTyped
<1>4. \A k \in PlayerId :
        AssignedSlots(WantedSlots(call[w].ids, BoardOf(w)), players[k].slot) \in Slots
  BY <1>3, SlotsTyped, CallKeys DEF TypeInv, TypeOK, AssignBoards, At, Player
<1>5. players' \in [PlayerId -> Player]
  BY <1>4 DEF TypeInv, TypeOK, AssignBoards, Player
<1>. QED BY <1>2, <1>5 DEF TypeInv, TypeOK, AssignBoards, CalendarTypeOK, calendarVars

LEMMA CountCommitsTypes ==
  ASSUME TypeInv, NEW w \in Workers, CountCommits(w)
  PROVE  TypeInv'
<1>. DEFINE d == [call[w] EXCEPT !.pc = "total",
                    !.counts = CountUserCommits(PlayerOf(w).user, call[w].game)]
<1>1. call' = [call EXCEPT ![w] = d]
  BY DEF CountCommits
<1>2. d \in Call /\ CallOK(d)
  BY CallHolds, CountsTyped DEF Call, CallOK, AssignPc, CountCommits, At
<1>. QED BY <1>1, <1>2, CallTyped, LocalStep DEF CountCommits

LEMMA SumBoardsTypes ==
  ASSUME TypeInv, NEW w \in Workers, SumBoards(w)
  PROVE  TypeInv'
<1>. DEFINE d == [call[w] EXCEPT !.pc = "update", !.total = BoardTotal(call[w].ids)]
<1>1. call' = [call EXCEPT ![w] = d]
  BY DEF SumBoards
<1>2. BoardTotal(call[w].ids) \in Nat
  BY TotalTyped DEF TypeInv, TypeOK, Call
<1>3. d \in Call /\ CallOK(d)
  BY CallHolds, <1>2 DEF Call, CallOK, AssignPc, SumBoards, At
<1>. QED BY <1>1, <1>3, CallTyped, LocalStep DEF SumBoards

LEMMA UpdatePlayerAnalysisTypes ==
  ASSUME TypeInv, NEW w \in Workers, UpdatePlayerAnalysis(w)
  PROVE  TypeInv'
<1>1. call' \in [Workers -> Call] /\ CallsOK'
  BY ReturnTyped DEF UpdatePlayerAnalysis
<1>. DEFINE v == call[w].counts.commits + call[w].total
<1>2. call[w].counts.commits \in Nat /\ call[w].counts.projects \in Nat /\ call[w].total \in Nat
  BY DEF TypeInv, TypeOK, Call, Counts
<1>3. \A row \in Player :
        [row EXCEPT !.status = "completed",
                    !.verified_points = v,
                    !.commit_count = call[w].counts.commits,
                    !.project_count = call[w].counts.projects] \in Player
  <2>1. v \in Nat
    BY <1>2
  <2>. HIDE DEF v
  <2>. QED BY <1>2, <2>1 DEF Player
<1>4. players' \in [PlayerId -> Player]
  BY <1>3 DEF TypeInv, TypeOK, UpdatePlayerAnalysis
<1>. QED BY <1>1, <1>4 DEF TypeInv, TypeOK, UpdatePlayerAnalysis, CalendarTypeOK, calendarVars

LEMMA AbandonTypes ==
  ASSUME TypeInv, NEW w \in Workers, Abandon(w)
  PROVE  TypeInv'
BY ReturnTyped, LocalStep DEF Abandon

LEMMA AddCommitTypes ==
  ASSUME TypeInv, NEW w \in Workers, AddCommit(w) \/ Abandon(w)
  PROVE  TypeInv'
BY BeginTypes, FindGameTypes, CheckProjectTypes, SetCommitGameTypes, ReadBoardTypes,
   UpsertBoardTypes, UpsertLanguageBoardTypes, CheckAuthorTypes, FindPlayerTypes,
   CountForNewPlayerTypes, CreatePlayerTypes, ReadSlotsTypes, AssignBoardsTypes,
   CountCommitsTypes, SumBoardsTypes, UpdatePlayerAnalysisTypes, AbandonTypes
DEF AddCommit

LEMMA ClaimTypes ==
  ASSUME TypeInv, NEW u \in Users, ClaimOrphanCommits(u) \/ ClaimAbandon(u)
  PROVE  TypeInv'
<1>. USE DEF TypeInv, TypeOK, Claim
<1>1. CASE ClaimFindGame(u)
  <2>1. ASSUME NEW g \in GamesAt(now),
               claim' = [claim EXCEPT ![u].pc = "update", ![u].game = g]
        PROVE  claim' \in [Users -> Claim]
    <3>1. g \in Games
      BY DEF GamesAt
    <3>. QED BY <2>1, <3>1
  <2>2. claim' \in [Users -> Claim]
    BY <1>1, <2>1 DEF ClaimFindGame
  <2>. QED BY <1>1, <2>2 DEF ClaimFindGame, CalendarTypeOK, calendarVars, tables, CallsOK
<1>2. CASE ClaimUpdate(u)
  <2>1. claim' \in [Users -> Claim]
    BY <1>2 DEF ClaimUpdate
  <2>2. commits' \in [Commits -> [user : Users \cup {NULL}, game : Games \cup {NULL}]]
    BY <1>2 DEF ClaimUpdate
  <2>. QED BY <1>2, <2>1, <2>2 DEF ClaimUpdate, CalendarTypeOK, calendarVars, CallsOK
<1>3. CASE ClaimCount(u)
  <2>1. claim' \in [Users -> Claim]
    BY <1>3, CountsTyped DEF ClaimCount
  <2>. QED BY <1>3, <2>1 DEF ClaimCount, CalendarTypeOK, calendarVars, tables, CallsOK
<1>4. CASE ClaimUpsertPlayer(u)
  <2>1. claim' \in [Users -> Claim]
    BY <1>4 DEF ClaimUpsertPlayer
  <2>2. players' \in [PlayerId -> Player]
    BY <1>4, UpsertedTyped DEF ClaimUpsertPlayer
  <2>. QED BY <1>4, <2>1, <2>2 DEF ClaimUpsertPlayer, CalendarTypeOK, calendarVars, CallsOK
<1>5. CASE ClaimAbandon(u)
  <2>1. claim' \in [Users -> Claim]
    BY <1>5 DEF ClaimAbandon
  <2>. QED BY <1>5, <2>1 DEF ClaimAbandon, CalendarTypeOK, calendarVars, tables, CallsOK
<1>. QED BY <1>1, <1>2, <1>3, <1>4, <1>5 DEF ClaimOrphanCommits

LEMMA OtherTypes ==
  ASSUME TypeInv, OtherRequests \/ \E c \in Commits : LoseCommit(c)
  PROVE  TypeInv'
<1>. USE DEF TypeInv, TypeOK
<1>1. ASSUME NEW u \in Unlinkers, NEW b \in BoardId, Unlink(u, b)
      PROVE  TypeInv'
  <2>1. \A k \in PlayerId : UnlinkedSlots(players[k].slot, b) \in Slots
    BY SlotsTyped DEF Player
  <2>2. players' \in [PlayerId -> Player]
    BY <1>1, <2>1 DEF Unlink, Player
  <2>. QED BY <1>1, <2>2 DEF Unlink, CalendarTypeOK, calendarVars, CallsOK
<1>2. ASSUME NEW p \in Flippable, SetPrivate(p)
      PROVE  TypeInv'
  BY <1>2, ScoringAssumption DEF SetPrivate, CalendarTypeOK, calendarVars, CallsOK
<1>3. ASSUME NEW p \in Scanned, ScanStart(p)
      PROVE  TypeInv'
  BY <1>3, ScoringAssumption DEF ScanStart, CalendarTypeOK, calendarVars, tables, CallsOK
<1>4. ASSUME NEW p \in Scanned, ScanFinish(p)
      PROVE  TypeInv'
  <2>1. \A row \in Board, total \in ScanTotals :
          [row EXCEPT !.verified_points = total] \in Board
    BY ScoringAssumption DEF Board
  <2>2. boards' \in [BoardId -> Board]
    BY <1>4, <2>1 DEF ScanFinish
  <2>. QED BY <1>4, <2>2 DEF ScanFinish, CalendarTypeOK, calendarVars, CallsOK
<1>5. ASSUME NEW c \in Commits, LoseCommit(c)
      PROVE  TypeInv'
  BY <1>5 DEF LoseCommit, CalendarTypeOK, calendarVars, tables, CallsOK
<1>. QED BY <1>1, <1>2, <1>3, <1>4, <1>5 DEF OtherRequests

LEMMA CalendarTypes ==
  ASSUME TypeInv, Calendar
  PROVE  TypeInv'
<1>. SUFFICES CalendarTypeOK'
  BY DEF TypeInv, TypeOK, Calendar, tables, CallsOK
<1>. USE DEF TypeInv, TypeOK, CalendarTypeOK
<1>1. CASE Tick
  BY <1>1, CalendarAssumption DEF Tick
<1>2. ASSUME NEW a \in Admins, NEW g \in Games, DeactivateAllGames(a, g)
      PROVE  CalendarTypeOK'
  BY <1>2 DEF DeactivateAllGames
<1>3. ASSUME NEW a \in Admins, InsertGame(a)
      PROVE  CalendarTypeOK'
  BY <1>3 DEF InsertGame
<1>4. ASSUME NEW a \in Admins, InsertGameFails(a)
      PROVE  CalendarTypeOK'
  BY <1>4 DEF InsertGameFails
<1>5. ASSUME NEW g \in Games, NEW isActive \in BOOLEAN, CreateGameOnly(g, isActive)
      PROVE  CalendarTypeOK'
  BY <1>5 DEF CreateGameOnly
<1>. QED BY <1>1, <1>2, <1>3, <1>4, <1>5 DEF Calendar, CalendarNext

LEMMA NextTypes == TypeInv /\ [Next]_vars => TypeInv'
<1>. SUFFICES ASSUME TypeInv, [Next]_vars PROVE TypeInv'
  OBVIOUS
<1>1. CASE UNCHANGED vars
  BY <1>1 DEF vars, tables, calendarVars, TypeInv, TypeOK, CalendarTypeOK, CallsOK
<1>. QED BY <1>1, AddCommitTypes, ClaimTypes, OtherTypes, CalendarTypes DEF Next

(* Every row, slot, count and clock value keeps its type, and a call holds *)
(* the commit, game and author its statement needs.                        *)
THEOREM TypeCorrect == Spec => []TypeOK
<1>1. Init => TypeInv
  BY InitTypes
<1>2. TypeInv /\ [Next]_vars => TypeInv'
  BY NextTypes
<1>3. TypeInv => TypeOK
  BY DEF TypeInv
<1>. QED BY <1>1, <1>2, <1>3, PTL DEF Spec

-----------------------------------------------------------------------------
(* What a step does to the commits a call holds                            *)

PendingPc == {"game", "project", "setGame"}
UncreditedPc == {"readBoard", "upsertBoard"}
CreditedPc == {"languages"} \cup AssignPc

(* w goes on, or returns, without touching commits or boards; it takes a   *)
(* project for a known one only if a board exists or a read failed, and    *)
(* writes language boards only inside their loop.                          *)
Moves(w) ==
  /\ UNCHANGED <<gameRow, commits, boards, fresh>>
  /\ call[w].pc # "idle"
  /\ \A x \in Workers \ {w} : call'[x] = call[x]
  /\ call'[w].pc # "idle" => call'[w].commit = call[w].commit
  /\ call'[w].pc \in PendingPc =>
       /\ call[w].pc \in PendingPc
       /\ \/ call[w].pc # "game" /\ call'[w].game = call[w].game
          \/ call'[w].game \in GamesAt(TimeOf[call[w].commit])
  /\ call'[w].pc \in UncreditedPc => call[w].pc \in UncreditedPc /\ call'[w].game = call[w].game
  /\ call'[w].pc \in CreditedPc => call[w].pc \in CreditedPc /\ call'[w].game = call[w].game
  /\ call'[w].pc = "upsertBoard" => call'[w].isNew \/ boards[BoardOf(w)].exists \/ Faults
  /\ \/ langBoards' = langBoards /\ call'[w].pc # "languages"
     \/ \E l \in Languages : UpsertLanguageBoard(w, l)

(* A step outside AddCommit: no commit changes its game, nor its user once *)
(* it has one, and of a board only the verified points.                    *)
Elsewhere ==
  /\ UNCHANGED <<call, langBoards>>
  /\ fresh' \subseteq fresh
  /\ \A g \in Games : gameRow[g] # "absent" => gameRow'[g] # "absent"
  /\ \A c \in Commits : /\ commits'[c].game = commits[c].game
                        /\ commits[c].user # NULL => commits'[c].user = commits[c].user
  /\ \A b \in BoardId : /\ boards'[b].exists = boards[b].exists
                        /\ boards'[b].points = boards[b].points
                        /\ boards'[b].commit_count = boards[b].commit_count

LEMMA CallChange ==
  ASSUME TypeInv, NEW w \in Workers, NEW d, call' = [call EXCEPT ![w] = d]
  PROVE  call'[w] = d /\ \A x \in Workers \ {w} : call'[x] = call[x]
BY DEF TypeInv, TypeOK

LEMMA ReturnMoves ==
  ASSUME TypeInv, NEW w \in Workers, Return(w), call[w].pc # "idle",
         UNCHANGED <<gameRow, commits, boards, langBoards, fresh>>
  PROVE  Moves(w)
<1>1. call'[w] = IdleCall /\ \A x \in Workers \ {w} : call'[x] = call[x]
  BY CallChange DEF Return
<1>. QED BY <1>1 DEF Moves, IdleCall, PendingPc, UncreditedPc, CreditedPc, AssignPc

LEMMA MovesShape ==
  ASSUME TypeInv, NEW w \in Workers,
         AddCommit(w) \/ Abandon(w),
         \A c \in Commits : ~Begin(w, c), ~SetCommitGame(w), ~UpsertBoard(w)
  PROVE  Moves(w)
<1>. USE DEF TypeInv, TypeOK, At, Goto, Return, IdleCall, calendarVars, tables, Moves, PendingPc,
             UncreditedPc, CreditedPc, AssignPc
<1>1. CASE FindGame(w)
  <2>1. CASE Return(w)
    BY <1>1, <2>1, ReturnMoves DEF FindGame
  <2>2. ASSUME NEW g \in GamesAt(TimeOf[call[w].commit]),
               call' = [call EXCEPT ![w].pc = "project", ![w].game = g]
        PROVE  Moves(w)
    <3>. DEFINE d == [call[w] EXCEPT !.pc = "project", !.game = g]
    <3>1. call'[w] = d /\ \A x \in Workers \ {w} : call'[x] = call[x]
      BY <2>2, CallChange
    <3>2. d.pc = "project" /\ d.commit = call[w].commit /\ d.game = g
      BY CallHolds DEF Call
    <3>. QED BY <1>1, <3>1, <3>2 DEF FindGame
  <2>. QED BY <1>1, <2>1, <2>2 DEF FindGame
<1>2. CASE CheckProject(w)
  <2>1. CASE Return(w)
    BY <1>2, <2>1, ReturnMoves DEF CheckProject
  <2>2. CASE Goto(w, "setGame")
    BY <1>2, <2>2 DEF CheckProject
  <2>. QED BY <1>2, <2>1, <2>2 DEF CheckProject
<1>3. CASE ReadBoard(w)
  <2>1. PICK failed \in {FALSE, Faults} :
          call' = [call EXCEPT ![w].pc = "upsertBoard",
                               ![w].isNew = ~boards[BoardOf(w)].exists /\ ~failed]
    BY <1>3 DEF ReadBoard
  <2>. DEFINE isNew == ~boards[BoardOf(w)].exists /\ ~failed
              d == [call[w] EXCEPT !.pc = "upsertBoard", !.isNew = isNew]
  <2>2. call'[w] = d /\ \A x \in Workers \ {w} : call'[x] = call[x]
    BY <2>1, CallChange
  <2>3. isNew \/ boards[BoardOf(w)].exists \/ Faults
    BY ScoringAssumption
  <2>. HIDE DEF isNew
  <2>4. /\ d.pc = "upsertBoard" /\ d.commit = call[w].commit /\ d.game = call[w].game
        /\ d.isNew = isNew
    BY CallHolds DEF Call
  <2>. QED BY <1>3, <2>2, <2>3, <2>4 DEF ReadBoard
<1>4. ASSUME NEW l \in Languages, UpsertLanguageBoard(w, l) PROVE Moves(w)
  <2>. DEFINE d == [call[w] EXCEPT !.langs = @ \ {l}]
  <2>1. call'[w] = d /\ \A x \in Workers \ {w} : call'[x] = call[x]
    BY <1>4, CallChange DEF UpsertLanguageBoard
  <2>2. d.pc = "languages" /\ d.commit = call[w].commit /\ d.game = call[w].game
    BY <1>4, CallHolds DEF Call, UpsertLanguageBoard
  <2>. QED BY <1>4, <2>1, <2>2 DEF UpsertLanguageBoard
<1>5. CASE CheckAuthor(w)
  <2>1. CASE Return(w)
    BY <1>5, <2>1, ReturnMoves DEF CheckAuthor
  <2>2. CASE Goto(w, "player")
    BY <1>5, <2>2 DEF CheckAuthor
  <2>. QED BY <1>5, <2>1, <2>2 DEF CheckAuthor
<1>6. CASE FindPlayer(w)
  BY <1>6 DEF FindPlayer
<1>7. CASE CountForNewPlayer(w)
  BY <1>7 DEF CountForNewPlayer
<1>8. CASE CreatePlayer(w)
  BY <1>8 DEF CreatePlayer
<1>9. CASE ReadSlots(w)
  BY <1>9 DEF ReadSlots
<1>10. CASE AssignBoards(w)
  BY <1>10 DEF AssignBoards
<1>11. CASE CountCommits(w)
  BY <1>11 DEF CountCommits
<1>12. CASE SumBoards(w)
  BY <1>12 DEF SumBoards
<1>13. CASE UpdatePlayerAnalysis(w)
  BY <1>13 DEF UpdatePlayerAnalysis
<1>14. CASE Abandon(w)
  BY <1>14 DEF Abandon
<1>. QED BY <1>1, <1>2, <1>3, <1>4, <1>5, <1>6, <1>7, <1>8, <1>9, <1>10, <1>11, <1>12,
            <1>13, <1>14 DEF AddCommit

LEMMA ElsewhereShape ==
  ASSUME TypeInv,
         \/ \E c \in Commits : LoseCommit(c)
         \/ \E u \in Users : ClaimOrphanCommits(u) \/ ClaimAbandon(u)
         \/ OtherRequests
         \/ Calendar
         \/ UNCHANGED vars
  PROVE  Elsewhere
<1>. USE DEF TypeInv, TypeOK, CalendarTypeOK, calendarVars, tables, Elsewhere
<1>1. ASSUME NEW c \in Commits, LoseCommit(c) PROVE Elsewhere
  BY <1>1 DEF LoseCommit
<1>2. ASSUME NEW u \in Users, ClaimOrphanCommits(u) \/ ClaimAbandon(u) PROVE Elsewhere
  BY <1>2, ScoringAssumption DEF ClaimOrphanCommits, ClaimFindGame, ClaimUpdate, Orphans,
     ClaimCount, ClaimUpsertPlayer, ClaimAbandon
<1>3. ASSUME NEW u \in Unlinkers, NEW b \in BoardId, Unlink(u, b) PROVE Elsewhere
  BY <1>3 DEF Unlink
<1>4. ASSUME NEW p \in Flippable, SetPrivate(p) PROVE Elsewhere
  BY <1>4 DEF SetPrivate
<1>5. ASSUME NEW p \in Scanned, ScanStart(p) PROVE Elsewhere
  BY <1>5 DEF ScanStart
<1>6. ASSUME NEW p \in Scanned, ScanFinish(p) PROVE Elsewhere
  BY <1>6 DEF ScanFinish, Board
<1>7. CASE Calendar
  BY <1>7 DEF Calendar, CalendarNext, Tick, DeactivateAllGames, InsertGame, InsertGameFails,
     CreateGameOnly
<1>8. CASE UNCHANGED vars
  BY <1>8 DEF vars
<1>. QED BY <1>1, <1>2, <1>3, <1>4, <1>5, <1>6, <1>7, <1>8 DEF OtherRequests

(* Every step is one of these.                                             *)
LEMMA StepShape ==
  ASSUME TypeInv, [Next]_vars
  PROVE  \/ \E w \in Workers : \/ \E c \in Commits : Begin(w, c)
                               \/ SetCommitGame(w)
                               \/ UpsertBoard(w)
                               \/ Moves(w)
         \/ Elsewhere
BY MovesShape, ElsewhereShape DEF Next

-----------------------------------------------------------------------------
(* Who holds which commit                                                  *)

(* A commit is fresh or held by one call, and a call that has placed its   *)
(* commit finds it where it put it.                                        *)
Ownership ==
  /\ \A w \in Workers : call[w].pc # "idle" => call[w].commit \notin fresh
  /\ \A w, x \in Workers :
       w # x /\ call[w].pc # "idle" /\ call[x].pc # "idle" => call[w].commit # call[x].commit
  /\ \A c \in fresh : commits[c].game = NULL
  /\ \A w \in Workers :
       /\ call[w].pc \in PendingPc => commits[call[w].commit].game = NULL
       /\ call[w].pc \in UncreditedPc \cup CreditedPc => commits[call[w].commit].game = call[w].game

(* An author's commit keeps the user it was created with.                  *)
Authored == \A c \in Commits : AuthorOf[c] # NULL => commits[c].user = AuthorOf[c]

OwnInv == TypeInv /\ Ownership /\ Authored

LEMMA Pcs ==
  ASSUME TypeInv, NEW w \in Workers
  PROVE  /\ call[w].pc \in {"idle"} \cup PendingPc \cup UncreditedPc \cup CreditedPc
         /\ call[w].pc # "idle" => call[w].commit \in Commits
BY CallHolds DEF Call, CallOK, PendingPc, UncreditedPc, CreditedPc, AssignPc

LEMMA BeginOwns ==
  ASSUME OwnInv, NEW w \in Workers, NEW c \in Commits, Begin(w, c)
  PROVE  Ownership' /\ Authored'
<1>. DEFINE d == [call[w] EXCEPT !.pc = "game", !.commit = c]
<1>1. /\ call'[w].pc = "game" /\ call'[w].commit = c
      /\ \A x \in Workers \ {w} : call'[x] = call[x]
  <2>1. call'[w] = d /\ \A x \in Workers \ {w} : call'[x] = call[x]
    <3>1. call' = [call EXCEPT ![w] = d]
      BY DEF Begin
    <3>. QED BY <3>1, CallChange DEF OwnInv
  <2>2. call[w] \in Call
    BY CallHolds DEF OwnInv
  <2>. QED BY <2>1, <2>2 DEF Call
<1>2. /\ c \in fresh /\ fresh' = fresh \ {c} /\ commits' = commits
      /\ call[w].pc = "idle"
  BY DEF Begin, At, tables
<1>. QED BY <1>1, <1>2 DEF OwnInv, Ownership, Authored, PendingPc, UncreditedPc, CreditedPc, AssignPc

LEMMA SetCommitGameShape ==
  ASSUME TypeInv, NEW w \in Workers, SetCommitGame(w)
  PROVE  /\ call[w].pc = "setGame" /\ call'[w].pc = "readBoard"
         /\ call[w].commit \in Commits /\ call'[w].commit = call[w].commit
         /\ call[w].game \in Games /\ call'[w].game = call[w].game
         /\ \A x \in Workers \ {w} : call'[x] = call[x]
         /\ \A c \in Commits \ {call[w].commit} : commits'[c] = commits[c]
         /\ commits'[call[w].commit].game = call[w].game
         /\ commits'[call[w].commit].user = commits[call[w].commit].user
         /\ UNCHANGED <<fresh, boards, langBoards, players, claim>>
<1>1. call[w].pc = "setGame" /\ call[w].commit \in Commits /\ call[w].game \in Games
  BY CallHolds DEF SetCommitGame, At, CallOK
<1>2. /\ call'[w].pc = "readBoard" /\ call'[w].commit = call[w].commit
      /\ call'[w].game = call[w].game
      /\ \A x \in Workers \ {w} : call'[x] = call[x]
  BY DEF SetCommitGame, Goto, TypeInv, TypeOK, Call
<1>3. /\ \A c \in Commits \ {call[w].commit} : commits'[c] = commits[c]
      /\ commits'[call[w].commit].game = call[w].game
      /\ commits'[call[w].commit].user = commits[call[w].commit].user
  BY <1>1 DEF SetCommitGame, TypeInv, TypeOK
<1>. QED BY <1>1, <1>2, <1>3 DEF SetCommitGame

LEMMA SetCommitGameOwns ==
  ASSUME OwnInv, NEW w \in Workers, SetCommitGame(w)
  PROVE  Ownership' /\ Authored'
<1>. DEFINE c == call[w].commit
<1>1. TypeInv /\ Ownership /\ Authored
  BY DEF OwnInv
<1>2. c \notin fresh /\ \A x \in Workers \ {w} : call[x].pc # "idle" => call[x].commit # c
  BY <1>1, SetCommitGameShape DEF Ownership
<1>3. Authored'
  BY <1>1, SetCommitGameShape DEF Authored
<1>4. \A x \in Workers \ {w} : call[x].pc # "idle" => commits'[call[x].commit] = commits[call[x].commit]
  BY <1>1, <1>2, SetCommitGameShape, Pcs
<1>5. \A x \in Workers : call'[x].pc = "idle" <=> call[x].pc = "idle"
  BY <1>1, SetCommitGameShape
<1>6. \A x \in Workers : call[x].pc # "idle" => call'[x].commit = call[x].commit
  BY <1>1, SetCommitGameShape
<1>7. \A x \in Workers :
       /\ call'[x].pc \in PendingPc => commits'[call'[x].commit].game = NULL
       /\ call'[x].pc \in UncreditedPc \cup CreditedPc => commits'[call'[x].commit].game = call'[x].game
  <2>1. ASSUME NEW x \in Workers \ {w}
        PROVE  /\ call'[x].pc \in PendingPc => commits'[call'[x].commit].game = NULL
               /\ call'[x].pc \in UncreditedPc \cup CreditedPc => commits'[call'[x].commit].game = call'[x].game
    BY <1>1, <1>4, SetCommitGameShape DEF Ownership, PendingPc, UncreditedPc, CreditedPc, AssignPc
  <2>. QED BY <1>1, <2>1, SetCommitGameShape DEF PendingPc
<1>8. \A e \in fresh' : commits'[e].game = NULL
  BY <1>1, <1>2, SetCommitGameShape DEF Ownership, TypeInv, TypeOK
<1>. QED BY <1>1, <1>3, <1>5, <1>6, <1>7, <1>8, SetCommitGameShape DEF Ownership

LEMMA UpsertBoardShape ==
  ASSUME TypeInv, NEW w \in Workers, UpsertBoard(w)
  PROVE  /\ call[w].pc = "upsertBoard" /\ call'[w].pc = "languages"
         /\ call[w].commit \in Commits /\ call'[w].commit = call[w].commit
         /\ call[w].game \in Games /\ call'[w].game = call[w].game
         /\ call'[w].langs = LanguagesOf[call[w].commit]
         /\ \A x \in Workers \ {w} : call'[x] = call[x]
         /\ BoardOf(w) \in BoardId
         /\ \A b \in BoardId \ {BoardOf(w)} : boards'[b] = boards[b]
         /\ boards'[BoardOf(w)] = CreditedBoard(boards[BoardOf(w)], call[w].isNew)
         /\ UNCHANGED <<commits, fresh, langBoards, players, claim>>
<1>1. call[w].pc = "upsertBoard" /\ call[w].commit \in Commits /\ call[w].game \in Games
  BY CallHolds DEF UpsertBoard, At, CallOK
<1>2. BoardOf(w) \in BoardId
  BY <1>1, CallKeys
<1>3. /\ call'[w].pc = "languages" /\ call'[w].commit = call[w].commit
      /\ call'[w].game = call[w].game /\ call'[w].langs = LanguagesOf[call[w].commit]
      /\ \A x \in Workers \ {w} : call'[x] = call[x]
  BY DEF UpsertBoard, TypeInv, TypeOK, Call
<1>4. /\ \A b \in BoardId \ {BoardOf(w)} : boards'[b] = boards[b]
      /\ boards'[BoardOf(w)] = CreditedBoard(boards[BoardOf(w)], call[w].isNew)
  BY <1>2 DEF UpsertBoard, TypeInv, TypeOK
<1>. QED BY <1>1, <1>2, <1>3, <1>4 DEF UpsertBoard

LEMMA UpsertBoardOwns ==
  ASSUME OwnInv, NEW w \in Workers, UpsertBoard(w)
  PROVE  Ownership' /\ Authored'
BY UpsertBoardShape DEF OwnInv, Ownership, Authored, PendingPc, UncreditedPc, CreditedPc, AssignPc

LEMMA MovesOwns ==
  ASSUME OwnInv, NEW w \in Workers, Moves(w)
  PROVE  Ownership' /\ Authored'
<1>1. TypeInv /\ Ownership /\ Authored
  BY DEF OwnInv
<1>2. \A x \in Workers :
        /\ call'[x].pc # "idle" => call[x].pc # "idle" /\ call'[x].commit = call[x].commit
        /\ call'[x].pc \in PendingPc => call[x].pc \in PendingPc
        /\ call'[x].pc \in UncreditedPc \cup CreditedPc =>
             call[x].pc \in UncreditedPc \cup CreditedPc /\ call'[x].game = call[x].game
  BY DEF Moves
<1>3. commits' = commits /\ fresh' = fresh
  BY DEF Moves
<1>4. Authored'
  BY <1>1, <1>3 DEF Authored
<1>. QED BY <1>1, <1>2, <1>3, <1>4 DEF Ownership, PendingPc, UncreditedPc, CreditedPc, AssignPc

LEMMA ElsewhereOwns ==
  ASSUME OwnInv, Elsewhere
  PROVE  Ownership' /\ Authored'
<1>1. TypeInv /\ Ownership /\ Authored /\ fresh \subseteq Commits
  BY DEF OwnInv, TypeInv, TypeOK
<1>2. Authored'
  BY <1>1, ScoringAssumption DEF Authored, Elsewhere
<1>3. \A x \in Workers : call[x].pc # "idle" => call[x].commit \in Commits
  BY <1>1, Pcs
<1>4. call' = call /\ fresh' \subseteq fresh /\ \A c \in Commits : commits'[c].game = commits[c].game
  BY DEF Elsewhere
<1>. QED BY <1>1, <1>2, <1>3, <1>4 DEF Ownership, PendingPc, UncreditedPc, CreditedPc, AssignPc

LEMMA InitOwns == Init => OwnInv
<1>. SUFFICES ASSUME Init PROVE OwnInv
  OBVIOUS
<1>1. Ownership /\ Authored
  BY DEF Init, Ownership, Authored, IdleCall, PendingPc, UncreditedPc, CreditedPc, AssignPc
<1>. QED BY <1>1, InitTypes DEF OwnInv

LEMMA NextOwns == OwnInv /\ [Next]_vars => OwnInv'
<1>. SUFFICES ASSUME OwnInv, [Next]_vars PROVE OwnInv'
  OBVIOUS
<1>1. TypeInv'
  BY NextTypes DEF OwnInv
<1>2. Ownership' /\ Authored'
  BY StepShape, BeginOwns, SetCommitGameOwns, UpsertBoardOwns, MovesOwns, ElsewhereOwns DEF OwnInv
<1>. QED BY <1>1, <1>2 DEF OwnInv

LEMMA AlwaysOwned == Spec => []OwnInv
BY InitOwns, NextOwns, PTL DEF Spec

AttributionKept ==
  \A c \in Commits :
    /\ commits[c].game # NULL => commits'[c].game = commits[c].game
    /\ commits[c].user # NULL => commits'[c].user = commits[c].user

(* The statement that places a commit runs in the one call that holds it,  *)
(* on a commit no call placed before; a claim takes commits without a user.*)
LEMMA NextKeeps ==
  ASSUME OwnInv, [Next]_vars
  PROVE  AttributionKept
<1>1. ASSUME NEW w \in Workers, NEW c \in Commits, Begin(w, c) PROVE AttributionKept
  BY <1>1 DEF Begin, tables, AttributionKept
<1>2. ASSUME NEW w \in Workers, SetCommitGame(w) PROVE AttributionKept
  BY <1>2, SetCommitGameShape DEF OwnInv, Ownership, PendingPc, AttributionKept
<1>3. ASSUME NEW w \in Workers, UpsertBoard(w) PROVE AttributionKept
  BY <1>3, UpsertBoardShape DEF OwnInv, AttributionKept
<1>4. ASSUME NEW w \in Workers, Moves(w) PROVE AttributionKept
  BY <1>4 DEF Moves, AttributionKept
<1>5. CASE Elsewhere
  BY <1>5 DEF Elsewhere, AttributionKept
<1>. QED BY <1>1, <1>2, <1>3, <1>4, <1>5, StepShape DEF OwnInv

(* A commit's game and user are written once.                              *)
THEOREM AttributionFinal == Spec => AttributionIsFinal
<1>1. OwnInv /\ [Next]_vars => [AttributionKept]_commits
  BY NextKeeps
<1>. QED BY <1>1, AlwaysOwned, PTL DEF Spec, AttributionIsFinal, AttributionKept

-----------------------------------------------------------------------------
(* What boards count                                                       *)

(* The commits that are placed and that their board does not count yet.    *)
InFlight == {call[w].commit : w \in {x \in Workers : call[x].pc \in UncreditedPc}}

(* A board counts at most the placed commits that are not in flight.       *)
Counted ==
  \A b \in BoardId : boards[b].commit_count <= Cardinality(ProjectCommits(b) \ InFlight)

CountInv == OwnInv /\ Counted

LEMMA PlacedSets ==
  ASSUME NEW b
  PROVE  /\ ProjectCommits(b) \in SUBSET Commits
         /\ ProjectCommits(b) \ InFlight \in SUBSET Commits
         /\ Cardinality(ProjectCommits(b)) \in Nat
         /\ Cardinality(ProjectCommits(b) \ InFlight) \in Nat
         /\ Cardinality(ProjectCommits(b) \ InFlight) <= Cardinality(ProjectCommits(b))
<1>1. ProjectCommits(b) \in SUBSET Commits
  BY DEF ProjectCommits
<1>. QED BY <1>1, CommitSets

(* When no placed and credited commit leaves a board, neither does its     *)
(* bound fall.                                                             *)
LEMMA CountedKept ==
  ASSUME TypeInv, Counted,
         \A b \in BoardId : /\ boards'[b].commit_count = boards[b].commit_count
                            /\ ProjectCommits(b) \ InFlight \subseteq ProjectCommits(b)' \ InFlight'
  PROVE  Counted'
<1>. SUFFICES ASSUME NEW b \in BoardId
              PROVE  boards'[b].commit_count <= Cardinality(ProjectCommits(b)' \ InFlight')
  BY DEF Counted
<1>1. ProjectCommits(b)' \ InFlight' \in SUBSET Commits
  BY DEF ProjectCommits
<1>2. Cardinality(ProjectCommits(b) \ InFlight) <= Cardinality(ProjectCommits(b)' \ InFlight')
  BY <1>1, CommitSets
<1>3. boards[b].commit_count \in Nat
  BY DEF TypeInv, TypeOK, Board
<1>4. Cardinality(ProjectCommits(b)' \ InFlight') \in Nat
  BY <1>1, CommitSets
<1>. QED BY <1>2, <1>3, <1>4, PlacedSets DEF Counted

LEMMA BeginCounted ==
  ASSUME CountInv, NEW w \in Workers, NEW c \in Commits, Begin(w, c)
  PROVE  Counted'
<1>1. TypeInv /\ Counted
  BY DEF CountInv, OwnInv
<1>2. /\ \A x \in Workers \ {w} : call'[x] = call[x]
      /\ call'[w].pc = "game"
      /\ commits' = commits /\ boards' = boards
  BY <1>1 DEF Begin, tables, TypeInv, TypeOK, Call
<1>3. InFlight' \subseteq InFlight
  BY <1>2 DEF InFlight, UncreditedPc
<1>4. \A b \in BoardId : ProjectCommits(b)' = ProjectCommits(b)
  BY <1>2 DEF ProjectCommits
<1>. QED BY <1>1, <1>2, <1>3, <1>4, CountedKept

LEMMA SetCommitGameCounted ==
  ASSUME CountInv, NEW w \in Workers, SetCommitGame(w)
  PROVE  Counted'
<1>. DEFINE c == call[w].commit
<1>1. TypeInv /\ Counted /\ Ownership
  BY DEF CountInv, OwnInv
<1>2. InFlight' \subseteq InFlight \cup {c}
  BY <1>1, SetCommitGameShape DEF InFlight
<1>3. commits[c].game = NULL
  BY <1>1, SetCommitGameShape DEF Ownership, PendingPc
<1>4. ASSUME NEW b \in BoardId
      PROVE  ProjectCommits(b) \ InFlight \subseteq ProjectCommits(b)' \ InFlight'
  <2>1. b.game # NULL
    BY CalendarAssumption DEF BoardId
  <2>2. c \notin ProjectCommits(b)
    BY <1>3, <2>1 DEF ProjectCommits
  <2>3. ProjectCommits(b) \subseteq ProjectCommits(b)'
    BY <1>1, <2>2, SetCommitGameShape DEF ProjectCommits
  <2>. QED BY <1>2, <2>2, <2>3
<1>. QED BY <1>1, <1>4, SetCommitGameShape, CountedKept

LEMMA UpsertBoardCounted ==
  ASSUME CountInv, NEW w \in Workers, UpsertBoard(w)
  PROVE  Counted'
<1>. DEFINE c == call[w].commit
<1>1. TypeInv /\ Counted /\ Ownership
  BY DEF CountInv, OwnInv
<1>2. c \in InFlight /\ c \in ProjectCommits(BoardOf(w))
  BY <1>1, UpsertBoardShape DEF InFlight, UncreditedPc, ProjectCommits, BoardOf, Ownership
<1>3. InFlight' = InFlight \ {c}
  <2>1. \A x \in Workers \ {w} : call[x].pc # "idle" => call[x].commit # c
    BY <1>1, UpsertBoardShape DEF Ownership
  <2>2. InFlight' \subseteq InFlight \ {c}
    BY <1>1, <2>1, UpsertBoardShape DEF InFlight, UncreditedPc
  <2>3. InFlight \ {c} \subseteq InFlight'
    BY <1>1, UpsertBoardShape DEF InFlight
  <2>. QED BY <2>2, <2>3
<1>4. \A b \in BoardId : ProjectCommits(b)' = ProjectCommits(b)
  BY <1>1, UpsertBoardShape DEF ProjectCommits
<1>5. ASSUME NEW b \in BoardId \ {BoardOf(w)}
      PROVE  boards'[b].commit_count <= Cardinality(ProjectCommits(b)' \ InFlight')
  <2>1. c \notin ProjectCommits(b)
    BY <1>1, <1>2, UpsertBoardShape DEF ProjectCommits, BoardId, BoardOf
  <2>2. ProjectCommits(b)' \ InFlight' = ProjectCommits(b) \ InFlight
    BY <1>3, <1>4, <2>1
  <2>. QED BY <1>1, <2>2, UpsertBoardShape DEF Counted
<1>6. ASSUME NEW b, b = BoardOf(w)
      PROVE  boards'[b].commit_count <= Cardinality(ProjectCommits(b)' \ InFlight')
  <2>1. b \in BoardId
    BY <1>1, <1>6, UpsertBoardShape
  <2>2. ProjectCommits(b)' \ InFlight' = (ProjectCommits(b) \ InFlight) \cup {c}
    BY <1>2, <1>3, <1>4, <1>6, <2>1
  <2>3. IsFiniteSet(ProjectCommits(b) \ InFlight)
    BY PlacedSets, CommitSets
  <2>4. Cardinality(ProjectCommits(b)' \ InFlight') = Cardinality(ProjectCommits(b) \ InFlight) + 1
    BY <1>2, <2>2, <2>3, FS_AddElement
  <2>5. boards[b] \in Board
    BY <1>1, <2>1 DEF TypeInv, TypeOK
  <2>6. boards'[b].commit_count = boards[b].commit_count + 1
    BY <1>1, <1>6, <2>5, UpsertBoardShape DEF CreditedBoard, Board
  <2>7. boards[b].commit_count \in Nat
    BY <2>5 DEF Board
  <2>. QED BY <1>1, <2>1, <2>4, <2>6, <2>7, PlacedSets DEF Counted
<1>. QED BY <1>5, <1>6 DEF Counted

LEMMA MovesCounted ==
  ASSUME CountInv, NEW w \in Workers, Moves(w)
  PROVE  Counted'
<1>1. TypeInv /\ Counted
  BY DEF CountInv, OwnInv
<1>2. \A x \in Workers : call'[x].pc \in UncreditedPc =>
        call[x].pc \in UncreditedPc /\ call'[x].commit = call[x].commit
  BY DEF Moves, UncreditedPc
<1>3. InFlight' \subseteq InFlight
  BY <1>2 DEF InFlight
<1>4. \A b \in BoardId : ProjectCommits(b)' = ProjectCommits(b)
  BY DEF Moves, ProjectCommits
<1>5. boards' = boards
  BY DEF Moves
<1>. QED BY <1>1, <1>3, <1>4, <1>5, CountedKept

LEMMA ElsewhereCounted ==
  ASSUME CountInv, Elsewhere
  PROVE  Counted'
<1>1. TypeInv /\ Counted
  BY DEF CountInv, OwnInv
<1>2. InFlight' = InFlight
  BY DEF Elsewhere, InFlight
<1>3. \A b \in BoardId : ProjectCommits(b)' = ProjectCommits(b)
  BY DEF Elsewhere, ProjectCommits
<1>. QED BY <1>1, <1>2, <1>3, CountedKept DEF Elsewhere

LEMMA InitCounted == Init => CountInv
<1>. SUFFICES ASSUME Init PROVE Counted
  BY InitOwns DEF CountInv
<1>1. \A b \in BoardId : boards[b].commit_count = 0
  BY DEF Init, NoBoard
<1>. QED BY <1>1, PlacedSets DEF Counted

LEMMA NextCounted == CountInv /\ [Next]_vars => CountInv'
<1>. SUFFICES ASSUME CountInv, [Next]_vars PROVE CountInv'
  OBVIOUS
<1>1. OwnInv'
  BY NextOwns DEF CountInv
<1>2. Counted'
  BY StepShape, BeginCounted, SetCommitGameCounted, UpsertBoardCounted, MovesCounted,
     ElsewhereCounted DEF CountInv, OwnInv
<1>. QED BY <1>1, <1>2 DEF CountInv

LEMMA AlwaysCounted == Spec => []CountInv
BY InitCounted, NextCounted, PTL DEF Spec

(* No interleaving or fault makes a board count a commit twice, or one     *)
(* that is not its own.                                                    *)
THEOREM NeverOvercounted == Spec => []BoardNeverOvercounts
<1>1. CountInv => BoardNeverOvercounts
  <2>. SUFFICES ASSUME CountInv, NEW b \in BoardId
                PROVE  boards[b].commit_count <= Cardinality(ProjectCommits(b))
    BY DEF BoardNeverOvercounts
  <2>1. boards[b].commit_count <= Cardinality(ProjectCommits(b) \ InFlight)
    BY DEF CountInv, Counted
  <2>2. boards[b].commit_count \in Nat
    BY DEF CountInv, OwnInv, TypeInv, TypeOK, Board
  <2>. QED BY <2>1, <2>2, PlacedSets
<1>. QED BY <1>1, AlwaysCounted, PTL

-----------------------------------------------------------------------------
(* When a call takes a project for a known one                             *)

(* The row appears with its first commit ...                               *)
RowsCounted ==
  \A b \in BoardId : /\ boards[b].exists <=> boards[b].commit_count # 0
                     /\ ~boards[b].exists => boards[b].points = 0

(* ... and a call that will not award the bonus has seen it, or failed.    *)
KnownExists ==
  \A w \in Workers : call[w].pc = "upsertBoard" /\ ~call[w].isNew =>
    boards[BoardOf(w)].exists \/ Faults

BonusInv == CountInv /\ RowsCounted /\ KnownExists

LEMMA InitBonus == Init => BonusInv
<1>. SUFFICES ASSUME Init PROVE RowsCounted /\ KnownExists
  BY InitCounted DEF BonusInv
<1>1. RowsCounted
  BY DEF Init, NoBoard, RowsCounted
<1>2. KnownExists
  BY DEF Init, IdleCall, KnownExists
<1>. QED BY <1>1, <1>2

LEMMA CreditedFields ==
  ASSUME TypeInv, NEW b \in BoardId, NEW isNew \in BOOLEAN,
         boards'[b] = CreditedBoard(boards[b], isNew)
  PROVE  /\ boards'[b].exists
         /\ boards'[b].commit_count = boards[b].commit_count + 1
         /\ boards'[b].points =
              boards[b].points + CommitPoints + (IF isNew THEN ProjectPoints ELSE 0)
         /\ boards[b].commit_count \in Nat /\ boards[b].points \in Nat
<1>1. boards[b] \in Board
  BY DEF TypeInv, TypeOK
<1>2. boards[b].commit_count \in Nat /\ boards[b].points \in Nat
  BY <1>1 DEF Board
<1>. QED BY <1>1, <1>2 DEF CreditedBoard, Board

LEMMA NextBonus == BonusInv /\ [Next]_vars => BonusInv'
<1>. SUFFICES ASSUME BonusInv, [Next]_vars PROVE RowsCounted' /\ KnownExists'
  BY NextCounted DEF BonusInv
<1>0. TypeInv /\ RowsCounted /\ KnownExists
  BY DEF BonusInv, CountInv, OwnInv
<1>1. ASSUME NEW w \in Workers, NEW c \in Commits, Begin(w, c)
      PROVE  RowsCounted' /\ KnownExists'
  <2>1. /\ \A x \in Workers \ {w} : call'[x] = call[x]
        /\ call'[w].pc = "game" /\ boards' = boards
    BY <1>0, <1>1 DEF Begin, tables, TypeInv, TypeOK, Call
  <2>. QED BY <1>0, <2>1 DEF RowsCounted, KnownExists, BoardOf
<1>2. ASSUME NEW w \in Workers, SetCommitGame(w)
      PROVE  RowsCounted' /\ KnownExists'
  BY <1>0, <1>2, SetCommitGameShape DEF RowsCounted, KnownExists, BoardOf
<1>3. ASSUME NEW w \in Workers, UpsertBoard(w)
      PROVE  RowsCounted' /\ KnownExists'
  <2>. DEFINE b == BoardOf(w)
  <2>1. call[w].isNew \in BOOLEAN
    BY <1>0, CallHolds DEF Call
  <2>2. /\ boards'[b].exists
        /\ boards'[b].commit_count = boards[b].commit_count + 1
        /\ boards[b].commit_count \in Nat
    BY <1>0, <1>3, <2>1, UpsertBoardShape, CreditedFields
  <2>3. \A e \in BoardId \ {b} : boards'[e] = boards[e]
    BY <1>0, <1>3, UpsertBoardShape
  <2>4. RowsCounted'
    BY <1>0, <2>2, <2>3 DEF RowsCounted
  <2>5. \A x \in Workers \ {w} : call'[x] = call[x]
    BY <1>0, <1>3, UpsertBoardShape
  <2>6. \A x \in Workers \ {w} : call[x].pc = "upsertBoard" => BoardOf(x) \in BoardId
    BY <1>0, CallKeys
  <2>7. KnownExists'
    BY <1>0, <1>3, <2>2, <2>3, <2>5, <2>6, UpsertBoardShape DEF KnownExists, BoardOf
  <2>. QED BY <2>4, <2>7
<1>4. ASSUME NEW w \in Workers, Moves(w)
      PROVE  RowsCounted' /\ KnownExists'
  <2>1. boards' = boards
    BY <1>4 DEF Moves
  <2>2. call'[w].pc = "upsertBoard" /\ ~call'[w].isNew => boards'[BoardOf(w)'].exists \/ Faults
    BY <1>4, <2>1 DEF Moves, UncreditedPc, BoardOf
  <2>3. \A x \in Workers \ {w} : call'[x] = call[x] /\ BoardOf(x)' = BoardOf(x)
    BY <1>4 DEF Moves, BoardOf
  <2>. QED BY <1>0, <2>1, <2>2, <2>3 DEF RowsCounted, KnownExists
<1>5. CASE Elsewhere
  <2>1. call' = call
    BY <1>5 DEF Elsewhere
  <2>2. RowsCounted'
    BY <1>0, <1>5 DEF RowsCounted, Elsewhere
  <2>3. \A x \in Workers : call[x].pc = "upsertBoard" => BoardOf(x) \in BoardId
    BY <1>0, CallKeys
  <2>4. \A x \in Workers : BoardOf(x)' = BoardOf(x)
    BY <2>1 DEF BoardOf
  <2>5. KnownExists'
    BY <1>0, <1>5, <2>1, <2>3, <2>4 DEF KnownExists, Elsewhere
  <2>. QED BY <2>2, <2>5
<1>. QED BY <1>0, <1>1, <1>2, <1>3, <1>4, <1>5, StepShape

LEMMA AlwaysBonus == Spec => []BonusInv
BY InitBonus, NextBonus, PTL DEF Spec

-----------------------------------------------------------------------------
(* The refinement                                                          *)

LEMMA InitLedger == Init => Ledger!Init
BY DEF Init, NoBoard, Ledger!Init, Ledger!BoardId, BoardId

(* The ledger counts as FiniteSets does.                                   *)
LEMMA LedgerCardinality ==
  ASSUME NEW S
  PROVE  Ledger!Cardinality(S) = Cardinality(S)
BY DEF Ledger!Cardinality, Cardinality

LEMMA PlaceLedger ==
  ASSUME BonusInv, NEW w \in Workers, SetCommitGame(w),
         NEW CONSTANT c, c = call[w].commit, NEW CONSTANT g, g = call[w].game
  PROVE  Ledger!Place(c, g)
<1>0. TypeInv /\ Ownership
  BY DEF BonusInv, CountInv, OwnInv
<1>1. commits[c].game = NULL
  BY <1>0, SetCommitGameShape DEF Ownership, PendingPc
<1>2. [e \in Commits |-> commits'[e].game] = [[e \in Commits |-> commits[e].game] EXCEPT ![c] = g]
  BY <1>0, SetCommitGameShape
<1>3. boards' = boards
  BY <1>0, SetCommitGameShape
<1>. QED BY <1>0, <1>1, <1>2, <1>3, SetCommitGameShape DEF Ledger!Place

LEMMA CreditLedger ==
  ASSUME BonusInv, NEW w \in Workers, UpsertBoard(w),
         NEW CONSTANT b, b = BoardOf(w), NEW CONSTANT isNew, isNew = call[w].isNew
  PROVE  Ledger!Credit(b, isNew)
<1>. DEFINE c == call[w].commit
<1>0. TypeInv /\ Ownership /\ Counted /\ RowsCounted /\ KnownExists
  BY DEF BonusInv, CountInv, OwnInv
<1>1. b \in BoardId /\ isNew \in BOOLEAN
  BY <1>0, UpsertBoardShape, CallHolds DEF Call
<1>2. c \in InFlight /\ c \in ProjectCommits(b)
  BY <1>0, UpsertBoardShape DEF InFlight, UncreditedPc, ProjectCommits, BoardOf, Ownership
<1>3. boards[b].commit_count < Cardinality(ProjectCommits(b))
  <2>1. ProjectCommits(b) \ InFlight \subseteq ProjectCommits(b) \ {c}
    BY <1>2
  <2>2. ProjectCommits(b) \in SUBSET Commits /\ ProjectCommits(b) \ {c} \in SUBSET Commits
    BY PlacedSets
  <2>3. IsFiniteSet(ProjectCommits(b)) /\ Cardinality(ProjectCommits(b)) \in Nat
    BY <2>2, CommitSets
  <2>4. Cardinality(ProjectCommits(b) \ {c}) = Cardinality(ProjectCommits(b)) - 1
    BY <1>2, <2>3, FS_RemoveElement
  <2>5. Cardinality(ProjectCommits(b) \ InFlight) <= Cardinality(ProjectCommits(b) \ {c})
    BY <2>1, <2>2, CommitSets
  <2>6. boards[b].commit_count <= Cardinality(ProjectCommits(b) \ InFlight)
    BY <1>0, <1>1 DEF Counted
  <2>7. boards[b].commit_count \in Nat /\ Cardinality(ProjectCommits(b) \ InFlight) \in Nat
    BY <1>0, <1>1, PlacedSets DEF TypeInv, TypeOK, Board
  <2>. QED BY <2>3, <2>4, <2>5, <2>6, <2>7
<1>4. Ledger!Placed(b) = ProjectCommits(b)
  BY DEF Ledger!Placed, ProjectCommits
<1>5. boards[b].commit_count = 0 => isNew \/ Faults
  BY <1>0, <1>1, UpsertBoardShape DEF RowsCounted, KnownExists
<1>6. /\ \A e \in BoardId \ {b} : boards'[e] = boards[e]
      /\ boards'[b].commit_count = boards[b].commit_count + 1
      /\ boards'[b].points =
           boards[b].points + CommitPoints + (IF isNew THEN ProjectPoints ELSE 0)
  BY <1>0, <1>1, UpsertBoardShape, CreditedFields
<1>7. [e \in BoardId |-> boards'[e].commit_count] =
        [[e \in BoardId |-> boards[e].commit_count] EXCEPT ![b] = @ + 1]
  BY <1>1, <1>6
<1>8. [e \in BoardId |-> boards'[e].points] =
        [[e \in BoardId |-> boards[e].points] EXCEPT
          ![b] = @ + CommitPoints + (IF isNew THEN ProjectPoints ELSE 0)]
  BY <1>1, <1>6
<1>9. commits' = commits
  BY <1>0, UpsertBoardShape
<1>. QED BY <1>1, <1>3, <1>4, <1>5, <1>7, <1>8, <1>9, LedgerCardinality DEF Ledger!Credit

LEMMA NextLedger == BonusInv /\ [Next]_vars => [Ledger!Next]_(Ledger!ledgerVars)
<1>. SUFFICES ASSUME BonusInv, [Next]_vars PROVE [Ledger!Next]_(Ledger!ledgerVars)
  OBVIOUS
<1>0. TypeInv
  BY DEF BonusInv, CountInv, OwnInv
<1>1. ASSUME NEW w \in Workers, NEW c \in Commits, Begin(w, c)
      PROVE  UNCHANGED Ledger!ledgerVars
  BY <1>1 DEF Begin, tables, Ledger!ledgerVars
<1>2. ASSUME NEW w \in Workers, SetCommitGame(w) PROVE Ledger!Next
  <2>1. PICK c \in Commits, g \in Games : c = call[w].commit /\ g = call[w].game
    BY <1>0, <1>2, SetCommitGameShape
  <2>2. Ledger!Place(c, g)
    BY <1>2, <2>1, PlaceLedger
  <2>. QED BY <2>2 DEF Ledger!Next
<1>3. ASSUME NEW w \in Workers, UpsertBoard(w) PROVE Ledger!Next
  <2>1. PICK b \in Ledger!BoardId, isNew \in BOOLEAN : b = BoardOf(w) /\ isNew = call[w].isNew
    BY <1>0, <1>3, UpsertBoardShape, CallHolds DEF Call, BoardId, Ledger!BoardId
  <2>2. Ledger!Credit(b, isNew)
    BY <1>3, <2>1, CreditLedger
  <2>. QED BY <2>2 DEF Ledger!Next
<1>4. ASSUME NEW w \in Workers, Moves(w) PROVE UNCHANGED Ledger!ledgerVars
  BY <1>4 DEF Moves, Ledger!ledgerVars
<1>5. CASE Elsewhere
  BY <1>5 DEF Elsewhere, Ledger!ledgerVars
<1>. QED BY <1>0, <1>1, <1>2, <1>3, <1>4, <1>5, StepShape

(* The statements, in any interleaving and cut short anywhere, implement   *)
(* the ledger: a commit is placed once, and a board is credited at most    *)
(* once for each commit placed on it.                                      *)
THEOREM ImplementsLedger == Spec => LedgerSpec
BY InitLedger, NextLedger, AlwaysBonus, PTL DEF Spec, LedgerSpec, Ledger!Spec

-----------------------------------------------------------------------------
(* Points                                                                  *)

(* Without a failed read, concurrent calls may award the project bonus     *)
(* again but never miss it, and no commit's points are lost.               *)
THEOREM PointsAddUp ==
  ASSUME ~Faults
  PROVE  Spec => []BoardPointsAddUp
<1>1. Init => BoardPointsAddUp
  BY DEF Init, NoBoard, BoardPointsAddUp
<1>2. BonusInv /\ BoardPointsAddUp /\ [Next]_vars => BoardPointsAddUp'
  <2>. SUFFICES ASSUME BonusInv, BoardPointsAddUp, [Next]_vars PROVE BoardPointsAddUp'
    OBVIOUS
  <2>0. TypeInv
    BY DEF BonusInv, CountInv, OwnInv
  <2>1. ASSUME NEW w \in Workers, UpsertBoard(w) PROVE BoardPointsAddUp'
    <3>. DEFINE b == BoardOf(w)
                n == boards[b].commit_count
    <3>1. /\ b \in BoardId /\ call[w].isNew \in BOOLEAN
          /\ boards'[b].commit_count = n + 1 /\ n \in Nat /\ boards[b].points \in Nat
          /\ boards'[b].points =
               boards[b].points + CommitPoints + (IF call[w].isNew THEN ProjectPoints ELSE 0)
          /\ \A e \in BoardId \ {b} : boards'[e] = boards[e]
      BY <2>0, <2>1, UpsertBoardShape, CreditedFields, CallHolds DEF Call
    <3>2. CommitPoints \in Nat /\ ProjectPoints \in Nat
      BY ScoringAssumption
    <3>3. \E bonuses \in 1..(n + 1) :
            boards'[b].points = (n + 1) * CommitPoints + bonuses * ProjectPoints
      <4>1. CASE boards[b].exists
        <5>1. PICK k \in 1..n : boards[b].points = n * CommitPoints + k * ProjectPoints
          BY <3>1, <4>1 DEF BoardPointsAddUp
        <5>2. (n + 1) * CommitPoints = n * CommitPoints + CommitPoints
          BY <3>1, <3>2
        <5>3. (k + 1) * ProjectPoints = k * ProjectPoints + ProjectPoints
          BY <3>2
        <5>4. n * CommitPoints \in Nat /\ k * ProjectPoints \in Nat
          BY <3>1, <3>2
        <5>5. CASE call[w].isNew
          <6>1. boards'[b].points = (n + 1) * CommitPoints + (k + 1) * ProjectPoints
            BY <3>1, <3>2, <5>1, <5>2, <5>3, <5>4, <5>5
          <6>. QED BY <3>1, <6>1
        <5>6. CASE ~call[w].isNew
          <6>1. boards'[b].points = (n + 1) * CommitPoints + k * ProjectPoints
            BY <3>1, <3>2, <5>1, <5>2, <5>4, <5>6
          <6>. QED BY <3>1, <6>1
        <5>. QED BY <5>5, <5>6
      <4>2. CASE ~boards[b].exists
        <5>1. n = 0 /\ boards[b].points = 0 /\ call[w].isNew
          BY <2>0, <2>1, <3>1, <4>2, UpsertBoardShape DEF BonusInv, RowsCounted, KnownExists
        <5>. QED BY <3>1, <3>2, <5>1
      <4>. QED BY <4>1, <4>2
    <3>. QED BY <3>1, <3>3 DEF BoardPointsAddUp
  <2>2. ASSUME \A e \in BoardId : /\ boards'[e].exists = boards[e].exists
                                  /\ boards'[e].points = boards[e].points
                                  /\ boards'[e].commit_count = boards[e].commit_count
        PROVE  BoardPointsAddUp'
    BY <2>2 DEF BoardPointsAddUp
  <2>3. ASSUME NEW w \in Workers, (\E c \in Commits : Begin(w, c)) \/ SetCommitGame(w) \/ Moves(w)
        PROVE  boards' = boards
    BY <2>3 DEF Begin, SetCommitGame, Moves, tables
  <2>. QED BY <2>0, <2>1, <2>2, <2>3, StepShape DEF Elsewhere
<1>. QED BY <1>1, <1>2, AlwaysBonus, PTL DEF Spec

=============================================================================
