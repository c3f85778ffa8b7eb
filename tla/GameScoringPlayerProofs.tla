----------------------- MODULE GameScoringPlayerProofs -----------------------
(***************************************************************************)
(* Proofs about GameScoring, continued: boards only grow, commits land in  *)
(* games that cover them, languages and players are not overcounted, no    *)
(* update of a board is lost, slots are earned, and pushes scored one at a *)
(* time leave every row exact.                                             *)
(***************************************************************************)
EXTENDS GameScoringProofs

-----------------------------------------------------------------------------
(* Boards                                                                  *)

BoardsGrow ==
  \A b \in BoardId :
    /\ boards'[b].points >= boards[b].points
    /\ boards'[b].commit_count >= boards[b].commit_count
    /\ boards[b].exists => boards'[b].exists

LEMMA CreditedGrows ==
  ASSUME NEW row \in Board, NEW isNew \in BOOLEAN
  PROVE  /\ CreditedBoard(row, isNew).exists
         /\ CreditedBoard(row, isNew).points >= row.points
         /\ CreditedBoard(row, isNew).commit_count >= row.commit_count
<1>. DEFINE p == row.points + CommitPoints + (IF isNew THEN ProjectPoints ELSE 0)
            n == row.commit_count + 1
<1>1. row.points \in Nat /\ row.commit_count \in Nat
  BY DEF Board
<1>2. p >= row.points /\ n >= row.commit_count
  BY <1>1, ScoringAssumption
<1>3. CreditedBoard(row, isNew) = [row EXCEPT !.exists = TRUE, !.commit_count = n, !.points = p]
  BY DEF CreditedBoard, Board
<1>. HIDE DEF p, n
<1>. QED BY <1>2, <1>3 DEF Board

LEMMA SameBoardsGrow ==
  ASSUME TypeInv,
         \A b \in BoardId : /\ boards'[b].exists = boards[b].exists
                            /\ boards'[b].points = boards[b].points
                            /\ boards'[b].commit_count = boards[b].commit_count
  PROVE  BoardsGrow
<1>1. \A b \in BoardId : boards[b].points \in Nat /\ boards[b].commit_count \in Nat
  BY DEF TypeInv, TypeOK, Board
<1>. QED BY <1>1 DEF BoardsGrow

LEMMA NextGrows ==
  ASSUME TypeInv, [Next]_vars
  PROVE  BoardsGrow
<1>1. ASSUME NEW w \in Workers, UpsertBoard(w) PROVE BoardsGrow
  <2>1. ASSUME NEW b \in BoardId, b # BoardOf(w)
        PROVE  /\ boards'[b].points >= boards[b].points
               /\ boards'[b].commit_count >= boards[b].commit_count
               /\ boards[b].exists => boards'[b].exists
    <3>1. boards'[b] = boards[b]
      BY <1>1, <2>1, UpsertBoardShape
    <3>2. boards[b].points \in Nat /\ boards[b].commit_count \in Nat
      BY DEF TypeInv, TypeOK, Board
    <3>. QED BY <3>1, <3>2
  <2>2. boards[BoardOf(w)] \in Board /\ call[w].isNew \in BOOLEAN
    BY <1>1, UpsertBoardShape, CallHolds DEF TypeInv, TypeOK, Call
  <2>. QED BY <1>1, <2>1, <2>2, UpsertBoardShape, CreditedGrows DEF BoardsGrow
<1>2. ASSUME NEW w \in Workers, NEW c \in Commits, Begin(w, c) PROVE BoardsGrow
  BY <1>2, SameBoardsGrow DEF Begin, tables
<1>3. ASSUME NEW w \in Workers, SetCommitGame(w) PROVE BoardsGrow
  BY <1>3, SameBoardsGrow, SetCommitGameShape
<1>4. ASSUME NEW w \in Workers, Moves(w) PROVE BoardsGrow
  BY <1>4, SameBoardsGrow DEF Moves
<1>5. CASE Elsewhere
  BY <1>5, SameBoardsGrow DEF Elsewhere
<1>. QED BY <1>1, <1>2, <1>3, <1>4, <1>5, StepShape

(* No request takes points or commits from a board, or removes one.        *)
THEOREM BoardsGrowOnly == Spec => BoardsOnlyGrow
<1>1. OwnInv /\ [Next]_vars => [BoardsGrow]_boards
  BY NextGrows DEF OwnInv
<1>. QED BY <1>1, AlwaysOwned, PTL DEF Spec, BoardsOnlyGrow, BoardsGrow

-----------------------------------------------------------------------------
(* Games                                                                   *)

(* Once a call has found its game, that game exists and covers the commit. *)
GameFound ==
  \A w \in Workers : call[w].pc \notin {"idle", "game"} =>
    gameRow[call[w].game] # "absent" /\ Covers(call[w].game, TimeOf[call[w].commit])

PlaceInv == OwnInv /\ GameFound /\ PlacedInCoveringGame

LEMMA GamesKnown ==
  ASSUME NEW t, NEW g \in GamesAt(t)
  PROVE  g \in Games /\ gameRow[g] # "absent" /\ Covers(g, t)
BY DEF GamesAt

(* A game that exists keeps existing.                                      *)
LEMMA GamesStay ==
  ASSUME TypeInv, [Next]_vars
  PROVE  \A g \in Games : gameRow[g] # "absent" => gameRow'[g] # "absent"
<1>1. ASSUME NEW w \in Workers, NEW c \in Commits, Begin(w, c) PROVE gameRow' = gameRow
  BY <1>1 DEF Begin, calendarVars
<1>2. ASSUME NEW w \in Workers, SetCommitGame(w) \/ UpsertBoard(w) PROVE gameRow' = gameRow
  BY <1>2 DEF SetCommitGame, UpsertBoard, calendarVars
<1>3. ASSUME NEW w \in Workers, Moves(w) PROVE gameRow' = gameRow
  BY <1>3 DEF Moves
<1>. QED BY <1>1, <1>2, <1>3, StepShape DEF Elsewhere

LEMMA BeginPlaces ==
  ASSUME PlaceInv, NEW w \in Workers, NEW c \in Commits, Begin(w, c)
  PROVE  GameFound' /\ PlacedInCoveringGame'
<1>1. call'[w].pc = "game" /\ \A x \in Workers \ {w} : call'[x] = call[x]
  BY CallHolds DEF Begin, PlaceInv, OwnInv, TypeInv, TypeOK, Call
<1>2. gameRow' = gameRow /\ commits' = commits
  BY DEF Begin, calendarVars, tables
<1>. QED BY <1>1, <1>2 DEF PlaceInv, GameFound, PlacedInCoveringGame, Covers

LEMMA SetCommitGamePlaces ==
  ASSUME PlaceInv, NEW w \in Workers, SetCommitGame(w)
  PROVE  GameFound' /\ PlacedInCoveringGame'
<1>1. TypeInv
  BY DEF PlaceInv, OwnInv
<1>2. gameRow' = gameRow
  BY DEF SetCommitGame, calendarVars
<1>. QED BY <1>1, <1>2, SetCommitGameShape DEF PlaceInv, GameFound, PlacedInCoveringGame, Covers

LEMMA UpsertBoardPlaces ==
  ASSUME PlaceInv, NEW w \in Workers, UpsertBoard(w)
  PROVE  GameFound' /\ PlacedInCoveringGame'
<1>1. TypeInv
  BY DEF PlaceInv, OwnInv
<1>2. gameRow' = gameRow
  BY DEF UpsertBoard, calendarVars
<1>. QED BY <1>1, <1>2, UpsertBoardShape DEF PlaceInv, GameFound, PlacedInCoveringGame, Covers

LEMMA MovesPlaces ==
  ASSUME PlaceInv, NEW w \in Workers, Moves(w), [Next]_vars
  PROVE  GameFound' /\ PlacedInCoveringGame'
<1>1. TypeInv /\ TypeInv'
  BY NextTypes DEF PlaceInv, OwnInv
<1>2. gameRow' = gameRow /\ commits' = commits
  BY DEF Moves
<1>3. PlacedInCoveringGame'
  BY <1>2 DEF PlaceInv, PlacedInCoveringGame, Covers
<1>4. ASSUME NEW x \in Workers, call'[x].pc \in PendingPc \cup UncreditedPc \cup CreditedPc,
             call'[x].pc # "game"
      PROVE  gameRow'[call'[x].game] # "absent" /\ Covers(call'[x].game, TimeOf[call'[x].commit])
  <2>1. CASE x # w
    BY <1>2, <1>4, <2>1 DEF Moves, PlaceInv, GameFound, PendingPc, UncreditedPc, CreditedPc, AssignPc
  <2>2. CASE x = w /\ call'[w].pc \in PendingPc /\ call'[w].game \in GamesAt(TimeOf[call[w].commit])
    BY <1>2, <2>2, GamesKnown DEF Moves, PendingPc
  <2>3. CASE x = w /\ call[w].pc \notin {"idle", "game"} /\ call'[w].game = call[w].game
    BY <1>2, <1>4, <2>3 DEF Moves, PlaceInv, GameFound, PendingPc, UncreditedPc, CreditedPc, AssignPc
  <2>. QED BY <1>4, <2>1, <2>2, <2>3 DEF Moves, PendingPc, UncreditedPc, CreditedPc, AssignPc
<1>5. \A x \in Workers : call'[x].pc \notin {"idle", "game"} =>
        call'[x].pc \in PendingPc \cup UncreditedPc \cup CreditedPc
  BY <1>1 DEF TypeInv, TypeOK, Call, PendingPc, UncreditedPc, CreditedPc, AssignPc
<1>. QED BY <1>3, <1>4, <1>5 DEF GameFound

LEMMA ElsewherePlaces ==
  ASSUME PlaceInv, Elsewhere
  PROVE  GameFound' /\ PlacedInCoveringGame'
<1>1. TypeInv /\ GameFound /\ PlacedInCoveringGame
  BY DEF PlaceInv, OwnInv
<1>2. GameFound'
  <2>1. \A w \in Workers : call[w].pc \notin {"idle", "game"} => call[w].game \in Games
    BY <1>1, CallHolds DEF CallOK
  <2>. QED BY <1>1, <2>1 DEF Elsewhere, GameFound, Covers
<1>3. \A c \in Commits : commits[c].game \in Games \cup {NULL}
  BY <1>1 DEF TypeInv, TypeOK
<1>4. PlacedInCoveringGame'
  BY <1>1, <1>3 DEF Elsewhere, PlacedInCoveringGame, Covers
<1>. QED BY <1>2, <1>4

LEMMA InitPlaces == Init => PlaceInv
<1>. SUFFICES ASSUME Init PROVE GameFound /\ PlacedInCoveringGame
  BY InitOwns DEF PlaceInv
<1>. QED BY DEF Init, IdleCall, GameFound, PlacedInCoveringGame

LEMMA NextPlaces == PlaceInv /\ [Next]_vars => PlaceInv'
<1>. SUFFICES ASSUME PlaceInv, [Next]_vars PROVE PlaceInv'
  OBVIOUS
<1>1. OwnInv'
  BY NextOwns DEF PlaceInv
<1>2. GameFound' /\ PlacedInCoveringGame'
  BY StepShape, BeginPlaces, SetCommitGamePlaces, UpsertBoardPlaces, MovesPlaces,
     ElsewherePlaces DEF PlaceInv, OwnInv
<1>. QED BY <1>1, <1>2 DEF PlaceInv

(* Whatever happens to the calendar while a commit waits, the game it is   *)
(* placed in exists and covers its timestamp.                              *)
THEOREM PlacedWhereCovered == Spec => []PlacedInCoveringGame
<1>1. PlaceInv => PlacedInCoveringGame
  BY DEF PlaceInv
<1>. QED BY <1>1, InitPlaces, NextPlaces, PTL DEF Spec

-----------------------------------------------------------------------------
(* Languages                                                               *)

LanguageCommits(g, l) == {c \in Commits : commits[c].game = g /\ l \in LanguagesOf[c]}

(* The placed commits whose call has yet to add them to l's board.         *)
LanguageAhead(w, l) ==
  \/ call[w].pc \in UncreditedPc
  \/ call[w].pc = "languages" /\ l \in call[w].langs

LanguagePending(l) == {call[w].commit : w \in {x \in Workers : LanguageAhead(x, l)}}

(* The loop runs over the commit's own languages.                          *)
LanguageLoop ==
  \A w \in Workers : call[w].pc = "languages" => call[w].langs \subseteq LanguagesOf[call[w].commit]

LanguageCounted ==
  \A g \in Games, l \in Languages :
    langBoards[g][l] <= Cardinality(LanguageCommits(g, l) \ LanguagePending(l))

LanguageInv == OwnInv /\ LanguageLoop /\ LanguageCounted

LEMMA LanguageSets ==
  ASSUME NEW g, NEW l
  PROVE  /\ IsFiniteSet(LanguageCommits(g, l) \ LanguagePending(l))
         /\ Cardinality(LanguageCommits(g, l)) \in Nat
         /\ Cardinality(LanguageCommits(g, l) \ LanguagePending(l)) \in Nat
         /\ Cardinality(LanguageCommits(g, l) \ LanguagePending(l))
              <= Cardinality(LanguageCommits(g, l))
<1>1. LanguageCommits(g, l) \in SUBSET Commits
  BY DEF LanguageCommits
<1>. QED BY <1>1, CommitSets

LEMMA PendingShrinks ==
  ASSUME NEW l \in Languages,
         \A x \in Workers : LanguageAhead(x, l)' =>
           LanguageAhead(x, l) /\ call'[x].commit = call[x].commit
  PROVE  LanguagePending(l)' \subseteq LanguagePending(l)
BY DEF LanguagePending

LEMMA LanguageKept ==
  ASSUME TypeInv, NEW g \in Games, NEW l \in Languages,
         langBoards[g][l] <= Cardinality(LanguageCommits(g, l) \ LanguagePending(l)),
         langBoards'[g][l] = langBoards[g][l],
         LanguageCommits(g, l) \ LanguagePending(l)
           \subseteq LanguageCommits(g, l)' \ LanguagePending(l)'
  PROVE  langBoards'[g][l] <= Cardinality(LanguageCommits(g, l)' \ LanguagePending(l)')
<1>1. LanguageCommits(g, l)' \ LanguagePending(l)' \in SUBSET Commits
  BY DEF LanguageCommits
<1>2. /\ Cardinality(LanguageCommits(g, l) \ LanguagePending(l))
           <= Cardinality(LanguageCommits(g, l)' \ LanguagePending(l)')
      /\ Cardinality(LanguageCommits(g, l)' \ LanguagePending(l)') \in Nat
  BY <1>1, CommitSets
<1>3. langBoards[g][l] \in Nat
  BY DEF TypeInv, TypeOK
<1>. QED BY <1>2, <1>3, LanguageSets

LEMMA LanguageBegin ==
  ASSUME LanguageInv, NEW w \in Workers, NEW c \in Commits, Begin(w, c)
  PROVE  LanguageLoop' /\ LanguageCounted'
<1>1. TypeInv /\ LanguageLoop /\ LanguageCounted
  BY DEF LanguageInv, OwnInv
<1>2. call'[w].pc = "game" /\ \A x \in Workers \ {w} : call'[x] = call[x]
  BY <1>1, CallHolds DEF Begin, TypeInv, TypeOK, Call
<1>3. commits' = commits /\ langBoards' = langBoards
  BY DEF Begin, tables
<1>4. \A l \in Languages : LanguagePending(l)' \subseteq LanguagePending(l)
  BY <1>2, PendingShrinks DEF LanguageAhead, UncreditedPc
<1>5. LanguageCounted'
  BY <1>1, <1>3, <1>4, LanguageKept DEF LanguageCounted, LanguageCommits
<1>. QED BY <1>1, <1>2, <1>5 DEF LanguageLoop

LEMMA LanguageSetCommitGame ==
  ASSUME LanguageInv, NEW w \in Workers, SetCommitGame(w)
  PROVE  LanguageLoop' /\ LanguageCounted'
<1>. DEFINE c == call[w].commit
<1>1. TypeInv /\ Ownership /\ LanguageLoop /\ LanguageCounted
  BY DEF LanguageInv, OwnInv
<1>2. commits[c].game = NULL
  BY <1>1, SetCommitGameShape DEF Ownership, PendingPc
<1>3. \A l \in Languages : LanguagePending(l)' \subseteq LanguagePending(l) \cup {c}
  BY <1>1, SetCommitGameShape DEF LanguagePending, LanguageAhead, UncreditedPc
<1>4. ASSUME NEW g \in Games, NEW l \in Languages
      PROVE  LanguageCommits(g, l) \ LanguagePending(l)
               \subseteq LanguageCommits(g, l)' \ LanguagePending(l)'
  <2>1. c \notin LanguageCommits(g, l)
    BY <1>2, CalendarAssumption DEF LanguageCommits
  <2>2. LanguageCommits(g, l) \subseteq LanguageCommits(g, l)'
    BY <1>1, <2>1, SetCommitGameShape DEF LanguageCommits
  <2>. QED BY <1>3, <2>1, <2>2
<1>5. LanguageCounted'
  BY <1>1, <1>4, SetCommitGameShape, LanguageKept DEF LanguageCounted
<1>. QED BY <1>1, <1>5, SetCommitGameShape DEF LanguageLoop

LEMMA LanguageUpsertBoard ==
  ASSUME LanguageInv, NEW w \in Workers, UpsertBoard(w)
  PROVE  LanguageLoop' /\ LanguageCounted'
<1>1. TypeInv /\ LanguageLoop /\ LanguageCounted
  BY DEF LanguageInv, OwnInv
<1>2. \A l \in Languages : LanguagePending(l)' \subseteq LanguagePending(l)
  <2>1. /\ call[w].pc = "upsertBoard" /\ call'[w].commit = call[w].commit
        /\ \A x \in Workers \ {w} : call'[x] = call[x]
    BY <1>1, UpsertBoardShape
  <2>2. \A l \in Languages, x \in Workers : LanguageAhead(x, l)' =>
          LanguageAhead(x, l) /\ call'[x].commit = call[x].commit
    BY <2>1 DEF LanguageAhead, UncreditedPc
  <2>. QED BY <2>2, PendingShrinks
<1>3. \A g \in Games, l \in Languages : LanguageCommits(g, l)' = LanguageCommits(g, l)
  BY <1>1, UpsertBoardShape DEF LanguageCommits
<1>4. LanguageCounted'
  BY <1>1, <1>2, <1>3, UpsertBoardShape, LanguageKept DEF LanguageCounted
<1>. QED BY <1>1, <1>4, UpsertBoardShape DEF LanguageLoop

LEMMA LanguageUpsert ==
  ASSUME LanguageInv, NEW w \in Workers, NEW m \in Languages, UpsertLanguageBoard(w, m)
  PROVE  LanguageLoop' /\ LanguageCounted'
<1>. DEFINE c == call[w].commit
            d == [call[w] EXCEPT !.langs = @ \ {m}]
<1>1. TypeInv /\ Ownership /\ LanguageLoop /\ LanguageCounted
  BY DEF LanguageInv, OwnInv
<1>2. /\ call[w].pc = "languages" /\ m \in call[w].langs
      /\ c \in Commits /\ call[w].game \in Games
      /\ commits' = commits
  BY <1>1, CallHolds DEF UpsertLanguageBoard, At, CallOK
<1>3. /\ call'[w].pc = "languages" /\ call'[w].commit = c /\ call'[w].langs = call[w].langs \ {m}
      /\ \A x \in Workers \ {w} : call'[x] = call[x]
  <2>1. call'[w] = d /\ \A x \in Workers \ {w} : call'[x] = call[x]
    BY <1>1, CallChange DEF UpsertLanguageBoard
  <2>. QED BY <1>1, <1>2, <2>1, CallHolds DEF Call
<1>4. LanguageLoop'
  BY <1>1, <1>2, <1>3 DEF LanguageLoop
<1>5. \A l \in Languages : LanguagePending(l)' \subseteq LanguagePending(l)
  BY <1>2, <1>3, PendingShrinks DEF LanguageAhead, UncreditedPc
<1>6. LanguagePending(m)' \subseteq LanguagePending(m) \ {c}
  <2>1. \A x \in Workers \ {w} : call[x].pc # "idle" => call[x].commit # c
    BY <1>1, <1>2 DEF Ownership
  <2>. QED BY <1>2, <1>3, <2>1 DEF LanguagePending, LanguageAhead, UncreditedPc
<1>7. \A g \in Games, l \in Languages : LanguageCommits(g, l)' = LanguageCommits(g, l)
  BY <1>2 DEF LanguageCommits
<1>8. \A g \in Games, l \in Languages :
        langBoards'[g][l] = IF g = call[w].game /\ l = m THEN langBoards[g][l] + 1
                            ELSE langBoards[g][l]
  BY <1>1, <1>2 DEF UpsertLanguageBoard, TypeInv, TypeOK
<1>9. ASSUME NEW g \in Games, NEW l \in Languages, ~(g = call[w].game /\ l = m)
      PROVE  langBoards'[g][l] <= Cardinality(LanguageCommits(g, l)' \ LanguagePending(l)')
  BY <1>1, <1>5, <1>7, <1>8, <1>9, LanguageKept DEF LanguageCounted
<1>10. ASSUME NEW g \in Games, g = call[w].game
       PROVE  langBoards'[g][m] <= Cardinality(LanguageCommits(g, m)' \ LanguagePending(m)')
  <2>. DEFINE before == LanguageCommits(g, m) \ LanguagePending(m)
              after == LanguageCommits(g, m)' \ LanguagePending(m)'
  <2>1. c \in LanguageCommits(g, m) /\ c \in LanguagePending(m)
    BY <1>1, <1>2, <1>10 DEF LanguageCommits, LanguagePending, LanguageAhead, LanguageLoop, Ownership, CreditedPc
  <2>2. before \cup {c} \subseteq after /\ c \notin before
    BY <1>5, <1>6, <1>7, <2>1
  <2>3. IsFiniteSet(before) /\ Cardinality(before) \in Nat
    BY LanguageSets
  <2>4. Cardinality(before \cup {c}) = Cardinality(before) + 1
    BY <2>2, <2>3, FS_AddElement
  <2>5. after \in SUBSET Commits
    BY DEF LanguageCommits
  <2>6. Cardinality(before \cup {c}) <= Cardinality(after) /\ Cardinality(after) \in Nat
    BY <2>2, <2>5, CommitSets
  <2>7. langBoards[g][m] \in Nat /\ langBoards[g][m] <= Cardinality(before)
    BY <1>1 DEF TypeInv, TypeOK, LanguageCounted
  <2>8. langBoards'[g][m] = langBoards[g][m] + 1
    BY <1>8, <1>10
  <2>. QED BY <2>3, <2>4, <2>6, <2>7, <2>8
<1>. QED BY <1>4, <1>9, <1>10 DEF LanguageCounted

LEMMA LanguageMoves ==
  ASSUME LanguageInv, NEW w \in Workers, Moves(w)
  PROVE  LanguageLoop' /\ LanguageCounted'
<1>1. TypeInv /\ LanguageLoop /\ LanguageCounted
  BY DEF LanguageInv, OwnInv
<1>2. CASE langBoards' = langBoards /\ call'[w].pc # "languages"
  <2>1. \A l \in Languages : LanguagePending(l)' \subseteq LanguagePending(l)
    <3>1. \A l \in Languages, x \in Workers : LanguageAhead(x, l)' =>
            LanguageAhead(x, l) /\ call'[x].commit = call[x].commit
      BY <1>2 DEF Moves, LanguageAhead, UncreditedPc
    <3>. QED BY <3>1, PendingShrinks
  <2>2. \A g \in Games, l \in Languages : LanguageCommits(g, l)' = LanguageCommits(g, l)
    BY DEF Moves, LanguageCommits
  <2>3. LanguageCounted'
    BY <1>1, <1>2, <2>1, <2>2, LanguageKept DEF LanguageCounted
  <2>4. LanguageLoop'
    BY <1>1, <1>2 DEF Moves, LanguageLoop
  <2>. QED BY <2>3, <2>4
<1>. QED BY <1>2, LanguageUpsert DEF Moves

LEMMA LanguageElsewhere ==
  ASSUME LanguageInv, Elsewhere
  PROVE  LanguageLoop' /\ LanguageCounted'
<1>1. LanguageLoop /\ LanguageCounted /\ call' = call /\ langBoards' = langBoards
  BY DEF LanguageInv, Elsewhere
<1>2. \A g \in Games, l \in Languages : LanguageCommits(g, l)' = LanguageCommits(g, l)
  BY DEF Elsewhere, LanguageCommits
<1>3. \A l \in Languages : LanguagePending(l)' = LanguagePending(l)
  BY <1>1 DEF LanguagePending, LanguageAhead
<1>. QED BY <1>1, <1>2, <1>3 DEF LanguageLoop, LanguageCounted

LEMMA LanguageInit == Init => LanguageInv
<1>. SUFFICES ASSUME Init PROVE LanguageLoop /\ LanguageCounted
  BY InitOwns DEF LanguageInv
<1>1. LanguageLoop
  BY DEF Init, IdleCall, LanguageLoop
<1>2. \A g \in Games, l \in Languages : langBoards[g][l] = 0
  BY DEF Init
<1>. QED BY <1>1, <1>2, LanguageSets DEF LanguageCounted

LEMMA LanguageNext == LanguageInv /\ [Next]_vars => LanguageInv'
<1>. SUFFICES ASSUME LanguageInv, [Next]_vars PROVE LanguageInv'
  OBVIOUS
<1>1. OwnInv'
  BY NextOwns DEF LanguageInv
<1>2. LanguageLoop' /\ LanguageCounted'
  BY StepShape, LanguageBegin, LanguageSetCommitGame, LanguageUpsertBoard, LanguageMoves,
     LanguageElsewhere DEF LanguageInv, OwnInv
<1>. QED BY <1>1, <1>2 DEF LanguageInv

(* A language's board never counts a commit twice, nor one that is not in  *)
(* that language.                                                          *)
THEOREM LanguagesNeverOvercounted == Spec => []LanguageNeverOvercounts
<1>1. LanguageInv => LanguageNeverOvercounts
  <2>. SUFFICES ASSUME LanguageInv, NEW g \in Games, NEW l \in Languages
                PROVE  langBoards[g][l] <= Cardinality(LanguageCommits(g, l))
    BY DEF LanguageNeverOvercounts, LanguageCommits
  <2>1. langBoards[g][l] \in Nat
    BY DEF LanguageInv, OwnInv, TypeInv, TypeOK
  <2>2. langBoards[g][l] <= Cardinality(LanguageCommits(g, l) \ LanguagePending(l))
    BY DEF LanguageInv, LanguageCounted
  <2>. QED BY <2>1, <2>2, LanguageSets
<1>. QED BY <1>1, LanguageInit, LanguageNext, PTL DEF Spec

-----------------------------------------------------------------------------
(* What a step reads and writes of players                                 *)

(* A player row keeps its counts and loses slots at most, or one call or   *)
(* claim writes what it has read.                                          *)
PlayerWritten(k) ==
  \/ /\ players'[k].commit_count = players[k].commit_count
     /\ players'[k].project_count = players[k].project_count
     /\ \A i \in 1..3 : players'[k].slot[i] \in {players[k].slot[i], NULL}
  \/ \E w \in Workers :
       /\ PlayerOf(w) = k
       /\ \/ call[w].pc = "newPlayer" /\ players'[k] = UpsertedPlayer(players[k], call[w].counts)
          \/ /\ call[w].pc = "assign"
             /\ players'[k] = [players[k] EXCEPT !.slot =
                  AssignedSlots(WantedSlots(call[w].ids, BoardOf(w)), players[k].slot)]
          \/ /\ call[w].pc = "update"
             /\ players'[k].commit_count = call[w].counts.commits
             /\ players'[k].project_count = call[w].counts.projects
             /\ players'[k].slot = players[k].slot
  \/ \E u \in Users :
       /\ claim[u].pc = "upsert" /\ k = [game |-> claim[u].game, user |-> u]
       /\ players'[k] = UpsertedPlayer(players[k], claim[u].counts)

CallReads(w) ==
  \/ call'[w] = call[w]
  \/ call'[w].pc \notin {"newPlayer", "assign", "total", "update"}
  \/ /\ call[w].pc \in AssignPc
     /\ call'[w].commit = call[w].commit /\ call'[w].game = call[w].game
     /\ \/ /\ call'[w].pc \in {"newPlayer", "total"}
           /\ call'[w].counts = CountUserCommits(AuthorOf[call[w].commit], call[w].game)
        \/ /\ call[w].pc = "total" /\ call'[w].pc = "update"
           /\ call'[w].counts = call[w].counts
        \/ call'[w].pc = "assign" /\ call'[w].ids = players[PlayerOf(w)].slot

ClaimReads(u) ==
  \/ claim'[u] = claim[u]
  \/ claim'[u].pc = "idle"
  \/ claim'[u].pc = "update" /\ claim'[u].game \in Games
  \/ claim[u].pc = "update" /\ claim'[u].pc = "counts" /\ claim'[u].game = claim[u].game
  \/ /\ claim[u].pc = "counts" /\ claim'[u].pc = "upsert"
     /\ claim'[u].game = claim[u].game
     /\ claim'[u].counts = CountUserCommits(u, claim[u].game)

PlayersWritten == \A k \in PlayerId : PlayerWritten(k)
CallsRead == \A w \in Workers : CallReads(w)
ClaimsRead == \A u \in Users : ClaimReads(u)

LEMMA PlayersSame ==
  ASSUME TypeInv, players' = players
  PROVE  PlayersWritten
BY DEF PlayersWritten, PlayerWritten, TypeInv, TypeOK, Player, Slots

LEMMA CallsSame ==
  ASSUME call' = call
  PROVE  CallsRead
BY DEF CallsRead, CallReads

LEMMA ClaimsSame ==
  ASSUME claim' = claim
  PROVE  ClaimsRead
BY DEF ClaimsRead, ClaimReads

(* One call changed, and what it went on to has nothing read for it.       *)
LEMMA NothingRead ==
  ASSUME NEW w \in Workers,
         \A x \in Workers \ {w} : call'[x] = call[x],
         call'[w].pc \notin {"newPlayer", "assign", "total", "update"}
  PROVE  CallsRead
BY DEF CallsRead, CallReads

(* The statements before the author is looked at, and the early returns.   *)
LEMMA EarlyReads ==
  ASSUME TypeInv, NEW w \in Workers,
         \/ \E c \in Commits : Begin(w, c)
         \/ FindGame(w) \/ CheckProject(w) \/ SetCommitGame(w) \/ ReadBoard(w) \/ UpsertBoard(w)
         \/ \E l \in Languages : UpsertLanguageBoard(w, l)
         \/ CheckAuthor(w) \/ FindPlayer(w) \/ Abandon(w)
  PROVE  PlayersWritten /\ CallsRead /\ ClaimsRead
<1>. USE DEF TypeInv, TypeOK, Call, tables
<1>1. players' = players /\ claim' = claim
  BY DEF Begin, FindGame, CheckProject, SetCommitGame, ReadBoard, UpsertBoard,
     UpsertLanguageBoard, CheckAuthor, FindPlayer, Abandon
<1>2. ASSUME Return(w) PROVE CallsRead
  <2>1. call'[w] = IdleCall /\ \A x \in Workers \ {w} : call'[x] = call[x]
    BY <1>2, CallChange DEF Return
  <2>. QED BY <2>1, NothingRead DEF IdleCall
<1>3. ASSUME NEW pc \in {"setGame", "readBoard", "player", "newCounts", "slots"}, Goto(w, pc)
      PROVE  CallsRead
  BY <1>3, NothingRead DEF Goto
<1>4. ASSUME NEW c \in Commits, Begin(w, c) PROVE CallsRead
  BY <1>4, NothingRead DEF Begin
<1>5. ASSUME FindGame(w) PROVE CallsRead
  <2>1. ASSUME NEW g, call' = [call EXCEPT ![w].pc = "project", ![w].game = g]
        PROVE  CallsRead
    BY <2>1, NothingRead
  <2>. QED BY <1>2, <1>5, <2>1 DEF FindGame
<1>6. ASSUME ReadBoard(w) PROVE CallsRead
  <2>1. PICK failed \in {FALSE, Faults} :
          call' = [call EXCEPT ![w].pc = "upsertBoard",
                               ![w].isNew = ~boards[BoardOf(w)].exists /\ ~failed]
    BY <1>6 DEF ReadBoard
  <2>. DEFINE isNew == ~boards[BoardOf(w)].exists /\ ~failed
  <2>2. call' = [call EXCEPT ![w].pc = "upsertBoard", ![w].isNew = isNew]
    BY <2>1
  <2>. HIDE DEF isNew
  <2>. QED BY <2>2, NothingRead
<1>7. ASSUME UpsertBoard(w) PROVE CallsRead
  <2>1. call'[w].pc = "languages" /\ \A x \in Workers \ {w} : call'[x] = call[x]
    BY <1>7, UpsertBoardShape
  <2>. QED BY <2>1, NothingRead
<1>8. ASSUME NEW l \in Languages, UpsertLanguageBoard(w, l) PROVE CallsRead
  <2>1. call[w].pc = "languages" /\ call' = [call EXCEPT ![w].langs = @ \ {l}]
    BY <1>8 DEF UpsertLanguageBoard, At
  <2>. QED BY <2>1, NothingRead
<1>9. CallsRead
  BY <1>2, <1>3, <1>4, <1>5, <1>6, <1>7, <1>8 DEF CheckProject, SetCommitGame, CheckAuthor,
     FindPlayer, Abandon
<1>. QED BY <1>1, <1>9, PlayersSame, ClaimsSame

(* A statement that only reads, for what comes next.                       *)
LEMMA OneCallRead ==
  ASSUME NEW w \in Workers, CallReads(w), \A x \in Workers \ {w} : call'[x] = call[x]
  PROVE  CallsRead
BY DEF CallsRead, CallReads

LEMMA LateReads ==
  ASSUME TypeInv, NEW w \in Workers,
         CountForNewPlayer(w) \/ ReadSlots(w) \/ CountCommits(w) \/ SumBoards(w)
  PROVE  PlayersWritten /\ CallsRead /\ ClaimsRead
<1>1. players' = players /\ claim' = claim
  BY DEF CountForNewPlayer, ReadSlots, CountCommits, SumBoards, tables
<1>2. call[w] \in Call
  BY CallHolds
<1>3. ASSUME NEW counts, NEW pc \in {"newPlayer", "total"}, call[w].pc \in AssignPc,
             counts = CountUserCommits(AuthorOf[call[w].commit], call[w].game),
             call' = [call EXCEPT ![w].pc = pc, ![w].counts = counts]
      PROVE  CallsRead
  <2>. DEFINE d == [call[w] EXCEPT !.pc = pc, !.counts = counts]
  <2>1. call' = [call EXCEPT ![w] = d]
    BY <1>3
  <2>2. call'[w] = d /\ \A x \in Workers \ {w} : call'[x] = call[x]
    BY <2>1, CallChange
  <2>3. d.pc = pc /\ d.counts = counts /\ d.commit = call[w].commit /\ d.game = call[w].game
    BY <1>2 DEF Call
  <2>. QED BY <1>3, <2>2, <2>3, OneCallRead DEF CallReads
<1>4. ASSUME CountForNewPlayer(w) PROVE CallsRead
  BY <1>3, <1>4 DEF CountForNewPlayer, PlayerOf, At, AssignPc
<1>5. ASSUME CountCommits(w) PROVE CallsRead
  BY <1>3, <1>5 DEF CountCommits, PlayerOf, At, AssignPc
<1>6. ASSUME ReadSlots(w) PROVE CallsRead
  <2>1. PICK pc \in {"counts", "assign"} :
          call' = [call EXCEPT ![w].ids = players[PlayerOf(w)].slot, ![w].pc = pc]
    BY <1>6 DEF ReadSlots
  <2>. DEFINE d == [call[w] EXCEPT !.ids = players[PlayerOf(w)].slot, !.pc = pc]
  <2>2. call' = [call EXCEPT ![w] = d]
    BY <2>1
  <2>3. call'[w] = d /\ \A x \in Workers \ {w} : call'[x] = call[x]
    BY <2>2, CallChange
  <2>4. /\ d.pc = pc /\ d.ids = players[PlayerOf(w)].slot
        /\ d.commit = call[w].commit /\ d.game = call[w].game
    BY <1>2 DEF Call
  <2>5. call[w].pc \in AssignPc
    BY <1>6 DEF ReadSlots, At, AssignPc
  <2>. QED BY <2>3, <2>4, <2>5, OneCallRead DEF CallReads
<1>7. ASSUME SumBoards(w) PROVE CallsRead
  <2>. DEFINE d == [call[w] EXCEPT !.pc = "update", !.total = BoardTotal(call[w].ids)]
  <2>1. call' = [call EXCEPT ![w] = d] /\ call[w].pc = "total"
    BY <1>7 DEF SumBoards, At
  <2>2. call'[w] = d /\ \A x \in Workers \ {w} : call'[x] = call[x]
    BY <2>1, CallChange
  <2>3. /\ d.pc = "update" /\ d.counts = call[w].counts
        /\ d.commit = call[w].commit /\ d.game = call[w].game
    BY <1>2 DEF Call
  <2>. QED BY <2>1, <2>2, <2>3, OneCallRead DEF CallReads, AssignPc
<1>8. CallsRead
  BY <1>4, <1>5, <1>6, <1>7
<1>. QED BY <1>1, <1>8, PlayersSame, ClaimsSame

(* The statements that write a player row.                                 *)
LEMMA LateWrites ==
  ASSUME TypeInv, NEW w \in Workers,
         CreatePlayer(w) \/ AssignBoards(w) \/ UpdatePlayerAnalysis(w)
  PROVE  PlayersWritten /\ CallsRead /\ ClaimsRead
<1>1. claim' = claim
  BY DEF CreatePlayer, AssignBoards, UpdatePlayerAnalysis
<1>2. CallsRead
  <2>1. ASSUME NEW pc \in {"slots", "counts"}, Goto(w, pc) PROVE CallsRead
    <3>1. call'[w].pc = pc /\ \A x \in Workers \ {w} : call'[x] = call[x]
      BY <2>1 DEF Goto, TypeInv, TypeOK, Call
    <3>. QED BY <3>1, NothingRead
  <2>2. ASSUME Return(w) PROVE CallsRead
    <3>1. call'[w] = IdleCall /\ \A x \in Workers \ {w} : call'[x] = call[x]
      BY <2>2, CallChange DEF Return
    <3>. QED BY <3>1, NothingRead DEF IdleCall
  <2>. QED BY <2>1, <2>2 DEF CreatePlayer, AssignBoards, UpdatePlayerAnalysis
<1>3. /\ call[w].pc \in AssignPc /\ PlayerOf(w) \in PlayerId
      /\ players[PlayerOf(w)] \in Player
      /\ call[w].pc \in {"newPlayer", "assign", "update"}
  <2>1. call[w].pc \in {"newPlayer", "assign", "update"}
    BY DEF CreatePlayer, AssignBoards, UpdatePlayerAnalysis, At
  <2>. QED BY <2>1, CallKeys DEF AssignPc, TypeInv, TypeOK
<1>4. ASSUME NEW row, players' = [players EXCEPT ![PlayerOf(w)] = row]
      PROVE  /\ players'[PlayerOf(w)] = row
             /\ \A k \in PlayerId : k # PlayerOf(w) => PlayerWritten(k)
  <2>1. \A k \in PlayerId : k # PlayerOf(w) => players'[k] = players[k] /\ players[k] \in Player
    BY <1>4 DEF TypeInv, TypeOK
  <2>. QED BY <1>3, <1>4, <2>1 DEF PlayerWritten, Player, Slots, TypeInv, TypeOK
<1>5. ASSUME CreatePlayer(w) PROVE PlayersWritten
  <2>1. players' = [players EXCEPT ![PlayerOf(w)] =
          UpsertedPlayer(players[PlayerOf(w)], call[w].counts)] /\ call[w].pc = "newPlayer"
    BY <1>5 DEF CreatePlayer, At
  <2>2. PlayerWritten(PlayerOf(w))
    BY <1>4, <2>1 DEF PlayerWritten
  <2>. QED BY <1>4, <2>1, <2>2 DEF PlayersWritten
<1>6. ASSUME AssignBoards(w) PROVE PlayersWritten
  <2>. DEFINE row == [players[PlayerOf(w)] EXCEPT !.slot =
                AssignedSlots(WantedSlots(call[w].ids, BoardOf(w)), players[PlayerOf(w)].slot)]
  <2>1. players' = [players EXCEPT ![PlayerOf(w)] = row] /\ call[w].pc = "assign"
    BY <1>6 DEF AssignBoards, At
  <2>2. PlayerWritten(PlayerOf(w))
    BY <1>4, <2>1 DEF PlayerWritten
  <2>. QED BY <1>4, <2>1, <2>2 DEF PlayersWritten
<1>7. ASSUME UpdatePlayerAnalysis(w) PROVE PlayersWritten
  <2>. DEFINE v == call[w].counts.commits + call[w].total
              row == [players[PlayerOf(w)] EXCEPT
                        !.status = "completed",
                        !.verified_points = v,
                        !.commit_count = call[w].counts.commits,
                        !.project_count = call[w].counts.projects]
  <2>1. players' = [players EXCEPT ![PlayerOf(w)] = row] /\ call[w].pc = "update"
    BY <1>7 DEF UpdatePlayerAnalysis, At
  <2>. HIDE DEF v
  <2>2. /\ row.commit_count = call[w].counts.commits
        /\ row.project_count = call[w].counts.projects
        /\ row.slot = players[PlayerOf(w)].slot
    BY <1>3 DEF Player
  <2>. HIDE DEF row
  <2>3. PlayerWritten(PlayerOf(w))
    BY <1>4, <2>1, <2>2 DEF PlayerWritten
  <2>. QED BY <1>4, <2>1, <2>3 DEF PlayersWritten
<1>. QED BY <1>1, <1>2, <1>5, <1>6, <1>7, ClaimsSame

(* A claim, another request or the calendar.                               *)
LEMMA OtherReads ==
  ASSUME TypeInv,
         \/ \E c \in Commits : LoseCommit(c)
         \/ \E u \in Users : ClaimOrphanCommits(u) \/ ClaimAbandon(u)
         \/ OtherRequests
         \/ Calendar
         \/ UNCHANGED vars
  PROVE  PlayersWritten /\ CallsRead /\ ClaimsRead
<1>1. CallsRead
  <2>1. call' = call
    BY ElsewhereShape DEF Elsewhere
  <2>. QED BY <2>1, CallsSame
<1>2. ASSUME NEW c \in Commits, LoseCommit(c) PROVE players' = players /\ claim' = claim
  BY <1>2 DEF LoseCommit, tables
<1>3. CASE Calendar \/ UNCHANGED vars
  <2>1. players' = players /\ claim' = claim
    BY <1>3 DEF Calendar, tables, vars
  <2>. QED BY <1>1, <2>1, PlayersSame, ClaimsSame
<1>4. CASE OtherRequests
  <2>1. claim' = claim
    BY <1>4 DEF OtherRequests, Unlink, SetPrivate, ScanStart, ScanFinish
  <2>2. ASSUME NEW u \in Unlinkers, NEW b \in BoardId, Unlink(u, b) PROVE PlayersWritten
    <3>1. \A k \in PlayerId :
            \/ players'[k] = players[k]
            \/ players'[k] = [players[k] EXCEPT !.slot = UnlinkedSlots(players[k].slot, b)]
      BY <2>2 DEF Unlink, TypeInv, TypeOK
    <3>2. \A k \in PlayerId : players[k] \in Player
      BY DEF TypeInv, TypeOK
    <3>3. ASSUME NEW k \in PlayerId,
                 players'[k] = [players[k] EXCEPT !.slot = UnlinkedSlots(players[k].slot, b)]
          PROVE  PlayerWritten(k)
      <4>1. /\ players'[k].commit_count = players[k].commit_count
            /\ players'[k].project_count = players[k].project_count
            /\ players'[k].slot = UnlinkedSlots(players[k].slot, b)
        BY <3>2, <3>3 DEF Player
      <4>. QED BY <4>1 DEF PlayerWritten, UnlinkedSlots
    <3>4. ASSUME NEW k \in PlayerId, players'[k] = players[k] PROVE PlayerWritten(k)
      BY <3>2, <3>4 DEF PlayerWritten, Player, Slots
    <3>. QED BY <3>1, <3>3, <3>4 DEF PlayersWritten
  <2>3. ASSUME \/ \E p \in Flippable : SetPrivate(p)
               \/ \E p \in Scanned : ScanStart(p) \/ ScanFinish(p)
        PROVE  players' = players
    BY <2>3 DEF SetPrivate, ScanStart, ScanFinish, tables
  <2>. QED BY <1>1, <1>4, <2>1, <2>2, <2>3, PlayersSame, ClaimsSame DEF OtherRequests
<1>5. ASSUME NEW u \in Users, ClaimOrphanCommits(u) \/ ClaimAbandon(u)
      PROVE  PlayersWritten /\ ClaimsRead
  <2>1. \A x \in Users \ {u} : claim'[x] = claim[x]
    BY <1>5 DEF ClaimOrphanCommits, ClaimFindGame, ClaimUpdate, ClaimCount, ClaimUpsertPlayer,
       ClaimAbandon, TypeInv, TypeOK
  <2>2. claim[u] \in Claim
    BY DEF TypeInv, TypeOK
  <2>3. ClaimReads(u)
    <3>. USE <2>2 DEF TypeInv, TypeOK, Claim, ClaimReads
    <3>1. CASE ClaimFindGame(u)
      BY <3>1 DEF ClaimFindGame, GamesAt
    <3>2. CASE ClaimUpdate(u)
      BY <3>2 DEF ClaimUpdate
    <3>3. CASE ClaimCount(u)
      BY <3>3 DEF ClaimCount
    <3>4. CASE ClaimUpsertPlayer(u) \/ ClaimAbandon(u)
      BY <3>4 DEF ClaimUpsertPlayer, ClaimAbandon
    <3>. QED BY <1>5, <3>1, <3>2, <3>3, <3>4 DEF ClaimOrphanCommits
  <2>4. ClaimsRead
    BY <2>1, <2>3 DEF ClaimsRead, ClaimReads
  <2>5. ASSUME ClaimUpsertPlayer(u) PROVE PlayersWritten
    <3>. DEFINE k == [game |-> claim[u].game, user |-> u]
    <3>1. players' = [players EXCEPT ![k] = UpsertedPlayer(players[k], claim[u].counts)]
      BY <2>5 DEF ClaimUpsertPlayer
    <3>2. claim[u].pc = "upsert"
      BY <2>5 DEF ClaimUpsertPlayer
    <3>3. ASSUME NEW m \in PlayerId PROVE PlayerWritten(m)
      <4>1. CASE m = k
        BY <3>1, <3>2, <4>1 DEF PlayerWritten, TypeInv, TypeOK
      <4>2. CASE m # k
        BY <3>1, <4>2 DEF PlayerWritten, TypeInv, TypeOK, Player, Slots
      <4>. QED BY <4>1, <4>2
    <3>. QED BY <3>3 DEF PlayersWritten
  <2>6. ASSUME ~ClaimUpsertPlayer(u) PROVE players' = players
    BY <1>5, <2>6 DEF ClaimOrphanCommits, ClaimFindGame, ClaimUpdate, ClaimCount, ClaimAbandon, tables
  <2>. QED BY <2>4, <2>5, <2>6, PlayersSame
<1>. QED BY <1>1, <1>2, <1>3, <1>4, <1>5, PlayersSame, ClaimsSame

LEMMA NextReads ==
  ASSUME TypeInv, [Next]_vars
  PROVE  PlayersWritten /\ CallsRead /\ ClaimsRead
<1>1. ASSUME NEW w \in Workers, AddCommit(w) \/ Abandon(w)
      PROVE  PlayersWritten /\ CallsRead /\ ClaimsRead
  BY <1>1, EarlyReads, LateReads, LateWrites DEF AddCommit
<1>. QED BY <1>1, OtherReads DEF Next

-----------------------------------------------------------------------------
(* What players count                                                      *)

OwnCommits(u, g) == {c \in Commits : commits[c].user = u /\ commits[c].game = g}
OwnProjects(u, g) == {ProjectOf[c] : c \in OwnCommits(u, g)}

(* Counts that the table still bears out.                                  *)
Within(n, projects, u, g) ==
  n <= Cardinality(OwnCommits(u, g)) /\ projects <= Cardinality(OwnProjects(u, g))

PlayersWithin ==
  \A k \in PlayerId : Within(players[k].commit_count, players[k].project_count, k.user, k.game)

CallsWithin ==
  \A w \in Workers : call[w].pc \in {"newPlayer", "total", "update"} =>
    Within(call[w].counts.commits, call[w].counts.projects, AuthorOf[call[w].commit], call[w].game)

ClaimsWithin ==
  \A u \in Users :
    /\ claim[u].pc \in {"update", "counts", "upsert"} => claim[u].game \in Games
    /\ claim[u].pc = "upsert" =>
         Within(claim[u].counts.commits, claim[u].counts.projects, u, claim[u].game)

WithinInv == OwnInv /\ PlayersWithin /\ CallsWithin /\ ClaimsWithin

LEMMA OwnSets ==
  ASSUME NEW u, NEW g
  PROVE  /\ Cardinality(OwnCommits(u, g)) \in Nat
         /\ IsFiniteSet(OwnProjects(u, g))
         /\ Cardinality(OwnProjects(u, g)) \in Nat
         /\ Within(0, 0, u, g)
         /\ Within(CountUserCommits(u, g).commits, CountUserCommits(u, g).projects, u, g)
<1>1. OwnCommits(u, g) \in SUBSET Commits
  BY DEF OwnCommits
<1>2. /\ Cardinality(OwnCommits(u, g)) \in Nat
      /\ IsFiniteSet(OwnProjects(u, g))
      /\ Cardinality(OwnProjects(u, g)) \in Nat
  BY <1>1, CommitSets, ProjectSets DEF OwnProjects
<1>3. /\ CountUserCommits(u, g).commits = Cardinality(OwnCommits(u, g))
      /\ CountUserCommits(u, g).projects = Cardinality(OwnProjects(u, g))
  BY DEF CountUserCommits, OwnCommits, OwnProjects
<1>. QED BY <1>2, <1>3 DEF Within

(* The commits of a player only become more.                               *)
LEMMA WithinStays ==
  ASSUME OwnInv, [Next]_vars, NEW n \in Nat, NEW projects \in Nat,
         NEW u \in Users, NEW g \in Games, Within(n, projects, u, g)
  PROVE  Within(n, projects, u, g)'
<1>1. u # NULL /\ g # NULL
  BY ScoringAssumption, CalendarAssumption
<1>2. OwnCommits(u, g) \subseteq OwnCommits(u, g)'
  BY <1>1, NextKeeps DEF AttributionKept, OwnCommits
<1>3. OwnCommits(u, g)' \in SUBSET Commits
  BY DEF OwnCommits
<1>4. OwnProjects(u, g) \subseteq OwnProjects(u, g)'
  BY <1>2 DEF OwnProjects
<1>5. IsFiniteSet(OwnProjects(u, g)') /\ Cardinality(OwnProjects(u, g)') \in Nat
  BY <1>3, ProjectSets DEF OwnProjects
<1>6. /\ Cardinality(OwnCommits(u, g)) <= Cardinality(OwnCommits(u, g)')
      /\ Cardinality(OwnCommits(u, g)') \in Nat
  BY <1>2, <1>3, CommitSets
<1>7. Cardinality(OwnProjects(u, g)) <= Cardinality(OwnProjects(u, g)')
  BY <1>4, <1>5, FS_Subset
<1>. QED BY <1>5, <1>6, <1>7, OwnSets DEF Within

LEMMA CallsWithinKept ==
  ASSUME WithinInv, [Next]_vars
  PROVE  CallsWithin'
<1>1. TypeInv /\ TypeInv' /\ OwnInv
  BY NextTypes DEF WithinInv, OwnInv
<1>2. CallsRead
  BY <1>1, NextReads
<1>. SUFFICES ASSUME NEW w \in Workers, call'[w].pc \in {"newPlayer", "total", "update"}
              PROVE  Within(call[w].counts.commits, call[w].counts.projects,
                            AuthorOf[call[w].commit], call[w].game)'
  BY DEF CallsWithin
<1>3. CallReads(w)
  BY <1>2 DEF CallsRead
<1>4. ASSUME call[w].pc \in AssignPc
      PROVE  /\ AuthorOf[call[w].commit] \in Users /\ call[w].game \in Games
             /\ call[w].counts.commits \in Nat /\ call[w].counts.projects \in Nat
  BY <1>1, <1>4, CallHolds DEF CallOK, Call, Counts, AssignPc
<1>5. CASE /\ call[w].pc \in {"newPlayer", "total", "update"}
           /\ call'[w].counts = call[w].counts
           /\ call'[w].commit = call[w].commit /\ call'[w].game = call[w].game
  <2>1. Within(call[w].counts.commits, call[w].counts.projects,
               AuthorOf[call[w].commit], call[w].game)
    BY <1>5 DEF WithinInv, CallsWithin
  <2>2. call[w].pc \in AssignPc
    BY <1>5 DEF AssignPc
  <2>3. PICK n \in Nat, projects \in Nat, u \in Users, g \in Games :
          /\ n = call[w].counts.commits /\ projects = call[w].counts.projects
          /\ u = AuthorOf[call[w].commit] /\ g = call[w].game
    BY <1>4, <2>2
  <2>4. Within(n, projects, u, g)'
    BY <1>1, <2>1, <2>3, WithinStays
  <2>. QED BY <1>5, <2>3, <2>4 DEF Within, OwnCommits, OwnProjects
<1>6. CASE /\ call[w].pc \in AssignPc
           /\ call'[w].counts = CountUserCommits(AuthorOf[call[w].commit], call[w].game)
           /\ call'[w].commit = call[w].commit /\ call'[w].game = call[w].game
  <2>1. PICK n \in Nat, projects \in Nat, u \in Users, g \in Games :
          /\ n = call'[w].counts.commits /\ projects = call'[w].counts.projects
          /\ u = AuthorOf[call[w].commit] /\ g = call[w].game
    BY <1>4, <1>6, CountsTyped DEF Counts
  <2>2. Within(n, projects, u, g)
    BY <1>6, <2>1, OwnSets
  <2>3. Within(n, projects, u, g)'
    BY <1>1, <2>2, WithinStays
  <2>. QED BY <1>6, <2>1, <2>3 DEF Within, OwnCommits, OwnProjects
<1>. QED BY <1>3, <1>5, <1>6 DEF CallReads

LEMMA ClaimsWithinKept ==
  ASSUME WithinInv, [Next]_vars
  PROVE  ClaimsWithin'
<1>1. TypeInv /\ OwnInv /\ ClaimsWithin
  BY DEF WithinInv, OwnInv
<1>. SUFFICES ASSUME NEW u \in Users
              PROVE  /\ claim'[u].pc \in {"update", "counts", "upsert"} => claim'[u].game \in Games
                     /\ claim'[u].pc = "upsert" =>
                          Within(claim[u].counts.commits, claim[u].counts.projects,
                                 u, claim[u].game)'
  BY DEF ClaimsWithin
<1>2. ClaimReads(u)
  BY <1>1, NextReads DEF ClaimsRead
<1>3. claim'[u].pc \in {"update", "counts", "upsert"} => claim'[u].game \in Games
  BY <1>1, <1>2 DEF ClaimReads, ClaimsWithin
<1>4. ASSUME claim'[u].pc = "upsert"
      PROVE  Within(claim[u].counts.commits, claim[u].counts.projects, u, claim[u].game)'
  <2>1. /\ claim'[u].game = claim[u].game
        /\ Within(claim'[u].counts.commits, claim'[u].counts.projects, u, claim[u].game)
        /\ claim'[u].counts \in Counts
    <3>1. CASE claim'[u] = claim[u]
      BY <1>1, <1>4, <3>1 DEF ClaimsWithin, TypeInv, TypeOK, Claim
    <3>2. CASE claim'[u].counts = CountUserCommits(u, claim[u].game) /\ claim'[u].game = claim[u].game
      BY <3>2, OwnSets, CountsTyped
    <3>. QED BY <1>2, <1>4, <3>1, <3>2 DEF ClaimReads
  <2>2. PICK n \in Nat, projects \in Nat, g \in Games :
          n = claim'[u].counts.commits /\ projects = claim'[u].counts.projects /\ g = claim'[u].game
    BY <1>3, <1>4, <2>1 DEF Counts
  <2>3. Within(n, projects, u, g)'
    BY <1>1, <2>1, <2>2, WithinStays
  <2>. QED BY <2>2, <2>3 DEF Within, OwnCommits, OwnProjects
<1>. QED BY <1>3, <1>4

LEMMA PlayersWithinKept ==
  ASSUME WithinInv, [Next]_vars
  PROVE  PlayersWithin'
<1>1. TypeInv /\ OwnInv /\ PlayersWithin /\ CallsWithin /\ ClaimsWithin
  BY DEF WithinInv, OwnInv
<1>. SUFFICES ASSUME NEW k \in PlayerId
              PROVE  Within(players[k].commit_count, players[k].project_count, k.user, k.game)'
  BY DEF PlayersWithin
<1>2. k.user \in Users /\ k.game \in Games /\ players[k] \in Player
  BY <1>1 DEF PlayerId, TypeInv, TypeOK
<1>3. PlayerWritten(k)
  BY <1>1, NextReads DEF PlayersWritten
<1>4. ASSUME NEW n \in Nat, NEW projects \in Nat, Within(n, projects, k.user, k.game),
             players'[k].commit_count = n, players'[k].project_count = projects
      PROVE  Within(players[k].commit_count, players[k].project_count, k.user, k.game)'
  <2>1. Within(n, projects, k.user, k.game)'
    BY <1>1, <1>2, <1>4, WithinStays
  <2>. QED BY <1>4, <2>1 DEF Within
<1>5. CASE /\ players'[k].commit_count = players[k].commit_count
           /\ players'[k].project_count = players[k].project_count
  <2>1. Within(players[k].commit_count, players[k].project_count, k.user, k.game)
    BY <1>1 DEF PlayersWithin
  <2>. QED BY <1>2, <1>4, <1>5, <2>1 DEF Player
<1>6. ASSUME NEW counts \in Counts, players'[k] = UpsertedPlayer(players[k], counts)
      PROVE  players'[k].commit_count = counts.commits /\ players'[k].project_count = counts.projects
  BY <1>2, <1>6 DEF UpsertedPlayer, Player
<1>7. ASSUME NEW w \in Workers, PlayerOf(w) = k, call[w].pc \in {"newPlayer", "update"}
      PROVE  /\ call[w].counts \in Counts
             /\ Within(call[w].counts.commits, call[w].counts.projects, k.user, k.game)
  <2>1. call[w].counts \in Counts
    BY <1>1, CallHolds DEF Call
  <2>2. k.user = AuthorOf[call[w].commit] /\ k.game = call[w].game
    BY <1>7 DEF PlayerOf
  <2>. QED BY <1>1, <1>7, <2>1, <2>2 DEF CallsWithin
<1>8. ASSUME NEW w \in Workers, PlayerOf(w) = k, call[w].pc = "newPlayer",
             players'[k] = UpsertedPlayer(players[k], call[w].counts)
      PROVE  Within(players[k].commit_count, players[k].project_count, k.user, k.game)'
  BY <1>4, <1>6, <1>7, <1>8 DEF Counts
<1>9. ASSUME NEW w \in Workers, PlayerOf(w) = k, call[w].pc = "update",
             players'[k].commit_count = call[w].counts.commits,
             players'[k].project_count = call[w].counts.projects
      PROVE  Within(players[k].commit_count, players[k].project_count, k.user, k.game)'
  BY <1>4, <1>7, <1>9 DEF Counts
<1>10. ASSUME NEW w \in Workers, NEW slot, players'[k] = [players[k] EXCEPT !.slot = slot]
       PROVE  Within(players[k].commit_count, players[k].project_count, k.user, k.game)'
  BY <1>2, <1>5, <1>10 DEF Player
<1>11. ASSUME NEW u \in Users, claim[u].pc = "upsert", k = [game |-> claim[u].game, user |-> u],
              players'[k] = UpsertedPlayer(players[k], claim[u].counts)
       PROVE  Within(players[k].commit_count, players[k].project_count, k.user, k.game)'
  <2>1. claim[u].counts \in Counts
    BY <1>1 DEF TypeInv, TypeOK, Claim
  <2>2. Within(claim[u].counts.commits, claim[u].counts.projects, k.user, k.game)
    BY <1>1, <1>11 DEF ClaimsWithin
  <2>. QED BY <1>4, <1>6, <1>11, <2>1, <2>2 DEF Counts
<1>. QED BY <1>3, <1>5, <1>8, <1>9, <1>10, <1>11 DEF PlayerWritten

LEMMA InitWithin == Init => WithinInv
<1>. SUFFICES ASSUME Init PROVE PlayersWithin /\ CallsWithin /\ ClaimsWithin
  BY InitOwns DEF WithinInv
<1>1. PlayersWithin
  BY OwnSets DEF Init, NoPlayer, PlayersWithin
<1>2. CallsWithin /\ ClaimsWithin
  BY DEF Init, IdleCall, CallsWithin, ClaimsWithin
<1>. QED BY <1>1, <1>2

LEMMA NextWithin == WithinInv /\ [Next]_vars => WithinInv'
BY NextOwns, PlayersWithinKept, CallsWithinKept, ClaimsWithinKept DEF WithinInv

(* Counts read by one statement and written by a later one, of a call or   *)
(* of a claim, never show a player more than the commits table holds.      *)
THEOREM PlayersNeverOvercounted == Spec => []PlayerNeverOvercounts
<1>1. WithinInv => PlayerNeverOvercounts
  <2>. SUFFICES ASSUME WithinInv, NEW k \in PlayerId
                PROVE  LET own == {c \in Commits : commits[c] = [user |-> k.user, game |-> k.game]}
                       IN  /\ players[k].commit_count <= Cardinality(own)
                           /\ players[k].project_count <= Cardinality({ProjectOf[c] : c \in own})
    BY DEF PlayerNeverOvercounts
  <2>. DEFINE own == {c \in Commits : commits[c] = [user |-> k.user, game |-> k.game]}
  <2>1. \A c \in Commits : commits[c] \in [user : Users \cup {NULL}, game : Games \cup {NULL}]
    BY DEF WithinInv, OwnInv, TypeInv, TypeOK
  <2>2. own = OwnCommits(k.user, k.game)
    BY <2>1 DEF OwnCommits
  <2>. HIDE DEF own
  <2>3. /\ players[k].commit_count <= Cardinality(own)
        /\ players[k].project_count <= Cardinality({ProjectOf[c] : c \in own})
    BY <2>2 DEF WithinInv, PlayersWithin, Within, OwnProjects
  <2>. QED BY <2>3 DEF own
<1>. QED BY <1>1, InitWithin, NextWithin, PTL DEF Spec

-----------------------------------------------------------------------------
(* What slots hold                                                         *)

Earned(k, b) ==
  b # NULL => /\ b.game = k.game
              /\ boards[b].exists
              /\ \E c \in ProjectCommits(b) : commits[c].user = k.user

(* The board a call has credited is there; the ids a call will write back  *)
(* were earned when it read them, and stay so.                             *)
BoardThere == \A w \in Workers : call[w].pc \in CreditedPc => boards[BoardOf(w)].exists
IdsEarned ==
  \A w \in Workers, i \in 1..3 : call[w].pc = "assign" => Earned(PlayerOf(w), call[w].ids[i])

SlotInv == OwnInv /\ BoardThere /\ SlotsEarned /\ IdsEarned

LEMMA SlotsAreEarned ==
  SlotsEarned <=> \A k \in PlayerId, i \in 1..3 : Earned(k, players[k].slot[i])
BY DEF SlotsEarned, Earned

LEMMA EarnedStays ==
  ASSUME OwnInv, [Next]_vars, NEW k \in PlayerId, NEW b \in BoardId \cup {NULL}, Earned(k, b)
  PROVE  Earned(k, b)'
<1>. SUFFICES ASSUME b # NULL
              PROVE  /\ b.game = k.game
                     /\ boards'[b].exists
                     /\ \E c \in ProjectCommits(b)' : commits'[c].user = k.user
  BY DEF Earned
<1>1. b \in BoardId /\ b.game # NULL /\ k.user # NULL
  BY CalendarAssumption, ScoringAssumption DEF BoardId, PlayerId
<1>2. boards[b].exists /\ b.game = k.game
  BY DEF Earned
<1>3. boards'[b].exists
  BY <1>1, <1>2, NextGrows DEF OwnInv, BoardsGrow
<1>4. PICK c \in Commits : commits[c].game = b.game /\ ProjectOf[c] = b.project /\ commits[c].user = k.user
  BY DEF Earned, ProjectCommits
<1>5. commits'[c].game = b.game /\ commits'[c].user = k.user
  BY <1>1, <1>4, NextKeeps DEF AttributionKept
<1>. QED BY <1>2, <1>3, <1>4, <1>5 DEF ProjectCommits

(* The call's own commit earns its author the board.                       *)
LEMMA BoardEarned ==
  ASSUME SlotInv, NEW w \in Workers, call[w].pc \in AssignPc
  PROVE  Earned(PlayerOf(w), BoardOf(w))
<1>1. TypeInv /\ Ownership /\ Authored /\ BoardThere
  BY DEF SlotInv, OwnInv
<1>2. call[w].pc \in CreditedPc /\ call[w].commit \in Commits /\ AuthorOf[call[w].commit] \in Users
  BY <1>1, CallHolds DEF CreditedPc, CallOK, AssignPc
<1>3. boards[BoardOf(w)].exists
  BY <1>1, <1>2 DEF BoardThere
<1>4. commits[call[w].commit].game = call[w].game
  BY <1>1, <1>2 DEF Ownership
<1>5. commits[call[w].commit].user = AuthorOf[call[w].commit]
  BY <1>1, <1>2, ScoringAssumption DEF Authored
<1>. QED BY <1>2, <1>3, <1>4, <1>5 DEF Earned, BoardOf, PlayerOf, ProjectCommits

LEMMA BoardThereKept ==
  ASSUME SlotInv, [Next]_vars
  PROVE  BoardThere'
<1>1. TypeInv /\ BoardThere
  BY DEF SlotInv, OwnInv
<1>. SUFFICES ASSUME NEW w \in Workers, call'[w].pc \in CreditedPc
              PROVE  boards'[BoardOf(w)'].exists
  BY DEF BoardThere
<1>2. CASE call[w].pc \in CreditedPc /\ call'[w].commit = call[w].commit /\ call'[w].game = call[w].game
  <2>1. BoardOf(w)' = BoardOf(w)
    BY <1>2 DEF BoardOf
  <2>2. BoardOf(w) \in BoardId
    BY <1>1, <1>2, CallKeys DEF CreditedPc, AssignPc
  <2>. QED BY <1>1, <1>2, <2>1, <2>2, NextGrows DEF BoardThere, BoardsGrow
<1>3. CASE UpsertBoard(w)
  <2>1. BoardOf(w)' = BoardOf(w)
    BY <1>1, <1>3, UpsertBoardShape DEF BoardOf
  <2>2. boards[BoardOf(w)] \in Board /\ call[w].isNew \in BOOLEAN
    BY <1>1, <1>3, UpsertBoardShape, CallHolds DEF TypeInv, TypeOK, Call
  <2>. QED BY <1>1, <1>3, <2>1, <2>2, UpsertBoardShape, CreditedGrows
<1>4. ASSUME NEW x \in Workers, NEW c \in Commits, Begin(x, c)
      PROVE  call[w].pc \in CreditedPc /\ call'[w] = call[w]
  <2>1. call'[x].pc = "game" /\ \A y \in Workers \ {x} : call'[y] = call[y]
    BY <1>1, <1>4 DEF Begin, TypeInv, TypeOK, Call
  <2>. QED BY <2>1 DEF CreditedPc, AssignPc
<1>5. ASSUME NEW x \in Workers, SetCommitGame(x)
      PROVE  call[w].pc \in CreditedPc /\ call'[w] = call[w]
  <2>1. call'[x].pc = "readBoard" /\ \A y \in Workers \ {x} : call'[y] = call[y]
    BY <1>1, <1>5, SetCommitGameShape
  <2>. QED BY <2>1 DEF CreditedPc, AssignPc
<1>6. ASSUME NEW x \in Workers, UpsertBoard(x), x # w
      PROVE  call[w].pc \in CreditedPc /\ call'[w] = call[w]
  BY <1>1, <1>6, UpsertBoardShape
<1>7. ASSUME NEW x \in Workers, Moves(x)
      PROVE  /\ call[w].pc \in CreditedPc
             /\ call'[w].commit = call[w].commit /\ call'[w].game = call[w].game
  BY <1>7 DEF Moves, CreditedPc, AssignPc
<1>8. ASSUME Elsewhere PROVE call[w].pc \in CreditedPc /\ call'[w] = call[w]
  BY <1>8 DEF Elsewhere
<1>. QED BY <1>1, <1>2, <1>3, <1>4, <1>5, <1>6, <1>7, <1>8, StepShape

LEMMA IdsEarnedKept ==
  ASSUME SlotInv, [Next]_vars
  PROVE  IdsEarned'
<1>1. TypeInv /\ TypeInv' /\ OwnInv /\ SlotsEarned /\ IdsEarned
  BY NextTypes DEF SlotInv, OwnInv
<1>. SUFFICES ASSUME NEW w \in Workers, NEW i \in 1..3, call'[w].pc = "assign"
              PROVE  Earned(PlayerOf(w), call[w].ids[i])'
  BY DEF IdsEarned
<1>2. CallReads(w)
  BY <1>1, NextReads DEF CallsRead
<1>3. /\ call[w].pc \in AssignPc
      /\ call'[w].commit = call[w].commit /\ call'[w].game = call[w].game
      /\ Earned(PlayerOf(w), call'[w].ids[i])
  <2>1. CASE call'[w] = call[w]
    BY <1>1, <2>1 DEF IdsEarned, AssignPc
  <2>2. CASE call'[w].ids = players[PlayerOf(w)].slot /\ call[w].pc \in AssignPc
             /\ call'[w].commit = call[w].commit /\ call'[w].game = call[w].game
    <3>1. PlayerOf(w) \in PlayerId
      BY <1>1, <2>2, CallKeys DEF AssignPc
    <3>. QED BY <1>1, <2>2, <3>1, SlotsAreEarned
  <2>. QED BY <1>2, <2>1, <2>2 DEF CallReads
<1>4. PlayerOf(w) \in PlayerId /\ PlayerOf(w)' = PlayerOf(w)
  BY <1>1, <1>3, CallKeys DEF AssignPc, PlayerOf
<1>5. call'[w].ids[i] \in BoardId \cup {NULL}
  BY <1>1 DEF TypeInv, TypeOK, Call, Slots
<1>6. PICK k \in PlayerId, b \in BoardId \cup {NULL} :
        k = PlayerOf(w) /\ k = PlayerOf(w)' /\ b = call'[w].ids[i]
  BY <1>4, <1>5
<1>7. Earned(k, b)'
  BY <1>1, <1>3, <1>6, EarnedStays
<1>. QED BY <1>6, <1>7 DEF Earned, ProjectCommits

LEMMA SlotsEarnedKept ==
  ASSUME SlotInv, [Next]_vars
  PROVE  SlotsEarned'
<1>1. TypeInv /\ OwnInv /\ SlotsEarned /\ IdsEarned
  BY DEF SlotInv, OwnInv
<1>. SUFFICES ASSUME NEW k \in PlayerId, NEW i \in 1..3
              PROVE  Earned(k, players[k].slot[i])'
  BY DEF SlotsEarned, Earned, ProjectCommits
<1>2. PlayerWritten(k)
  BY <1>1, NextReads DEF PlayersWritten
<1>3. players[k] \in Player /\ players[k].slot[i] \in BoardId \cup {NULL}
  BY <1>1 DEF TypeInv, TypeOK, Player, Slots
<1>4. \E b \in BoardId \cup {NULL} : players'[k].slot[i] = b /\ Earned(k, b)
  <2>1. Earned(k, players[k].slot[i])
    BY <1>1, SlotsAreEarned
  <2>2. Earned(k, NULL)
    BY DEF Earned
  <2>3. CASE players'[k].slot[i] \in {players[k].slot[i], NULL}
    BY <1>3, <2>1, <2>2, <2>3
  <2>4. ASSUME NEW counts, players'[k] = UpsertedPlayer(players[k], counts)
        PROVE  players'[k].slot[i] = players[k].slot[i]
    BY <1>3, <2>4 DEF UpsertedPlayer, Player
  <2>5. ASSUME NEW w \in Workers, PlayerOf(w) = k, call[w].pc = "assign",
               players'[k] = [players[k] EXCEPT !.slot =
                 AssignedSlots(WantedSlots(call[w].ids, BoardOf(w)), players[k].slot)]
        PROVE  \E b \in BoardId \cup {NULL} : players'[k].slot[i] = b /\ Earned(k, b)
    <3>1. Earned(k, BoardOf(w)) /\ BoardOf(w) \in BoardId
      BY <1>1, <2>5, BoardEarned, CallKeys DEF AssignPc
    <3>2. Earned(k, call[w].ids[i]) /\ call[w].ids \in Slots /\ call[w].ids[i] \in BoardId \cup {NULL}
      BY <1>1, <2>5, CallHolds DEF IdsEarned, Call, Slots
    <3>3. players'[k].slot = AssignedSlots(WantedSlots(call[w].ids, BoardOf(w)), players[k].slot)
      BY <1>3, <2>5 DEF Player
    <3>4. players'[k].slot[i] \in {players[k].slot[i], call[w].ids[i], BoardOf(w)}
      BY <3>2, <3>3 DEF AssignedSlots, WantedSlots, Slots
    <3>. QED BY <1>3, <2>1, <3>1, <3>2, <3>4
  <2>. QED BY <1>2, <2>3, <2>4, <2>5 DEF PlayerWritten
<1>5. PICK b \in BoardId \cup {NULL} : players'[k].slot[i] = b /\ Earned(k, b)
  BY <1>4
<1>6. Earned(k, b)'
  BY <1>1, <1>5, EarnedStays
<1>. QED BY <1>5, <1>6 DEF Earned, ProjectCommits

LEMMA InitSlots == Init => SlotInv
<1>. SUFFICES ASSUME Init PROVE BoardThere /\ SlotsEarned /\ IdsEarned
  BY InitOwns DEF SlotInv
<1>1. BoardThere /\ IdsEarned
  BY DEF Init, IdleCall, BoardThere, IdsEarned, CreditedPc, AssignPc
<1>2. SlotsEarned
  BY DEF Init, NoPlayer, NoSlots, SlotsEarned
<1>. QED BY <1>1, <1>2

LEMMA NextSlots == SlotInv /\ [Next]_vars => SlotInv'
BY NextOwns, BoardThereKept, SlotsEarnedKept, IdsEarnedKept DEF SlotInv

(* However stale the ids a call writes back, a slot only ever holds a      *)
(* board of the player's game and of a project the player committed to.    *)
THEOREM SlotsAlwaysEarned == Spec => []SlotsEarned
<1>1. SlotInv => SlotsEarned
  BY DEF SlotInv
<1>. QED BY <1>1, InitSlots, NextSlots, PTL DEF Spec


-----------------------------------------------------------------------------
(* No update is lost                                                       *)

AllCounted ==
  \A b \in BoardId : boards[b].commit_count = Cardinality(ProjectCommits(b) \ InFlight)

LEMMA AllCountedKept ==
  ASSUME AllCounted,
         \A b \in BoardId : /\ boards'[b].commit_count = boards[b].commit_count
                            /\ ProjectCommits(b)' \ InFlight' = ProjectCommits(b) \ InFlight
  PROVE  AllCounted'
BY DEF AllCounted

LEMMA SetCommitGameLosesNone ==
  ASSUME OwnInv, AllCounted, NEW w \in Workers, SetCommitGame(w)
  PROVE  AllCounted'
<1>. DEFINE c == call[w].commit
<1>1. TypeInv /\ Ownership
  BY DEF OwnInv
<1>2. InFlight' = InFlight \cup {c}
  <2>1. InFlight' \subseteq InFlight \cup {c}
    BY <1>1, SetCommitGameShape DEF InFlight
  <2>2. ASSUME NEW x \in Workers, call[x].pc \in UncreditedPc
        PROVE  call[x].commit \in InFlight'
    <3>1. x # w /\ call'[x] = call[x]
      BY <1>1, <2>2, SetCommitGameShape DEF UncreditedPc
    <3>. QED BY <2>2, <3>1 DEF InFlight
  <2>3. c \in InFlight'
    BY <1>1, SetCommitGameShape DEF InFlight, UncreditedPc
  <2>. QED BY <2>1, <2>2, <2>3 DEF InFlight
<1>3. commits[c].game = NULL
  BY <1>1, SetCommitGameShape DEF Ownership, PendingPc
<1>4. ASSUME NEW b \in BoardId
      PROVE  ProjectCommits(b)' \ InFlight' = ProjectCommits(b) \ InFlight
  <2>1. c \notin ProjectCommits(b)
    BY <1>3, CalendarAssumption DEF ProjectCommits, BoardId
  <2>2. \A e \in Commits \ {c} : e \in ProjectCommits(b)' <=> e \in ProjectCommits(b)
    BY <1>1, SetCommitGameShape DEF ProjectCommits
  <2>3. ProjectCommits(b)' \in SUBSET Commits /\ ProjectCommits(b) \in SUBSET Commits
    BY DEF ProjectCommits
  <2>. QED BY <1>2, <2>1, <2>2, <2>3
<1>. QED BY <1>1, <1>4, SetCommitGameShape, AllCountedKept

LEMMA UpsertBoardLosesNone ==
  ASSUME OwnInv, AllCounted, NEW w \in Workers, UpsertBoard(w)
  PROVE  AllCounted'
<1>. DEFINE c == call[w].commit
            d == BoardOf(w)
<1>1. TypeInv /\ Ownership
  BY DEF OwnInv
<1>2. d \in BoardId /\ c \in Commits /\ c \in ProjectCommits(d)
  BY <1>1, UpsertBoardShape DEF ProjectCommits, BoardOf, Ownership, UncreditedPc
<1>3. c \in InFlight /\ InFlight' = InFlight \ {c}
  <2>1. \A x \in Workers \ {w} : call[x].pc # "idle" => call[x].commit # c
    BY <1>1, UpsertBoardShape DEF Ownership
  <2>2. c \in InFlight /\ InFlight' \subseteq InFlight \ {c}
    BY <1>1, <2>1, UpsertBoardShape DEF InFlight, UncreditedPc
  <2>3. InFlight \ {c} \subseteq InFlight'
    BY <1>1, UpsertBoardShape DEF InFlight
  <2>. QED BY <2>2, <2>3
<1>4. \A b \in BoardId : ProjectCommits(b)' = ProjectCommits(b)
  BY <1>1, UpsertBoardShape DEF ProjectCommits
<1>5. ASSUME NEW b \in BoardId, b # d
      PROVE  boards'[b].commit_count = Cardinality(ProjectCommits(b)' \ InFlight')
  <2>1. c \notin ProjectCommits(b)
    BY <1>1, <1>2, <1>5 DEF ProjectCommits, BoardOf, BoardId
  <2>2. ProjectCommits(b)' \ InFlight' = ProjectCommits(b) \ InFlight
    BY <1>3, <1>4, <2>1
  <2>3. boards'[b] = boards[b]
    BY <1>1, <1>5, UpsertBoardShape
  <2>. QED BY <2>2, <2>3 DEF AllCounted
<1>6. ASSUME NEW b \in BoardId, b = d
      PROVE  boards'[b].commit_count = Cardinality(ProjectCommits(b)' \ InFlight')
  <2>. DEFINE S == ProjectCommits(b) \ InFlight
  <2>1. IsFiniteSet(S) /\ c \notin S /\ ProjectCommits(b)' \ InFlight' = S \cup {c}
    BY <1>2, <1>3, <1>4, <1>6, PlacedSets, CommitSets
  <2>2. boards[b].commit_count = Cardinality(S)
    BY DEF AllCounted
  <2>3. boards'[b].commit_count = boards[b].commit_count + 1
    BY <1>1, <1>6, UpsertBoardShape, CallHolds, CreditedFields DEF Call
  <2>. HIDE DEF S
  <2>4. Cardinality(S \cup {c}) = Cardinality(S) + 1
    BY <2>1, FS_AddElement
  <2>. QED BY <2>1, <2>2, <2>3, <2>4
<1>. QED BY <1>5, <1>6 DEF AllCounted

(* Between its placement and its credit a call reads once and returns      *)
(* nowhere.                                                                *)
LEMMA CallsLoseNone ==
  ASSUME ~Faults, OwnInv, AllCounted, NEW w \in Workers, AddCommit(w) \/ Abandon(w)
  PROVE  AllCounted'
<1>1. TypeInv
  BY DEF OwnInv
<1>2. ASSUME NEW c \in Commits, Begin(w, c) PROVE AllCounted'
  <2>1. /\ \A x \in Workers \ {w} : call'[x] = call[x]
        /\ call[w].pc = "idle" /\ call'[w].pc = "game"
        /\ commits' = commits /\ boards' = boards
    BY <1>1, <1>2 DEF Begin, tables, TypeInv, TypeOK, Call, At
  <2>2. InFlight' = InFlight
    BY <2>1 DEF InFlight, UncreditedPc
  <2>3. \A b \in BoardId : ProjectCommits(b)' = ProjectCommits(b)
    BY <2>1 DEF ProjectCommits
  <2>. QED BY <2>1, <2>2, <2>3, AllCountedKept
<1>3. ASSUME Moves(w), ~UpsertBoard(w) PROVE AllCounted'
  <2>1. call[w].pc = "readBoard" => call'[w].pc = "upsertBoard"
    <3>1. ASSUME call[w].pc = "readBoard", AddCommit(w) PROVE ReadBoard(w)
      BY <3>1 DEF AddCommit, Begin, FindGame, CheckProject, SetCommitGame, UpsertBoard,
         UpsertLanguageBoard, CheckAuthor, FindPlayer, CountForNewPlayer, CreatePlayer, ReadSlots,
         AssignBoards, CountCommits, SumBoards, UpdatePlayerAnalysis, At
    <3>2. ASSUME ReadBoard(w) PROVE call'[w].pc = "upsertBoard"
      BY <1>1, <3>2 DEF ReadBoard, TypeInv, TypeOK, Call
    <3>. QED BY <3>1, <3>2 DEF Abandon
  <2>2. call[w].pc # "upsertBoard"
    BY <1>3 DEF AddCommit, Begin, FindGame, CheckProject, SetCommitGame, ReadBoard,
       UpsertLanguageBoard, CheckAuthor, FindPlayer, CountForNewPlayer, CreatePlayer, ReadSlots,
       AssignBoards, CountCommits, SumBoards, UpdatePlayerAnalysis, At, Abandon
  <2>3. \A x \in Workers :
          /\ call'[x].pc \in UncreditedPc <=> call[x].pc \in UncreditedPc
          /\ call[x].pc \in UncreditedPc => call'[x].commit = call[x].commit
    BY <1>3, <2>1, <2>2 DEF Moves, UncreditedPc
  <2>4. InFlight' = InFlight
    BY <2>3 DEF InFlight
  <2>5. boards' = boards /\ \A b \in BoardId : ProjectCommits(b)' = ProjectCommits(b)
    BY <1>3 DEF Moves, ProjectCommits
  <2>. QED BY <2>4, <2>5, AllCountedKept
<1>. QED BY <1>1, <1>2, <1>3, SetCommitGameLosesNone, UpsertBoardLosesNone, MovesShape

LEMMA NoneLost ==
  ASSUME ~Faults, OwnInv, AllCounted, [Next]_vars
  PROVE  AllCounted'
<1>1. ASSUME Elsewhere PROVE AllCounted'
  <2>1. InFlight' = InFlight
    BY <1>1 DEF Elsewhere, InFlight
  <2>2. \A b \in BoardId : ProjectCommits(b)' = ProjectCommits(b)
    BY <1>1 DEF Elsewhere, ProjectCommits
  <2>. QED BY <1>1, <2>1, <2>2, AllCountedKept DEF Elsewhere
<1>. QED BY <1>1, CallsLoseNone, ElsewhereShape DEF Next, OwnInv

(* However many goroutines upsert a board at once, and whatever claims,    *)
(* scans, games and unlinking come between, no update of it is lost when   *)
(* no query fails: it counts exactly the commits placed on it, but for     *)
(* those a call has placed and is about to credit (game.go:205-225).       *)
THEOREM NoUpdateLost ==
  ASSUME ~Faults
  PROVE  Spec => []AllCounted
<1>1. Init => AllCounted
  <2>. SUFFICES ASSUME Init PROVE AllCounted
    OBVIOUS
  <2>1. ASSUME NEW b \in BoardId PROVE ProjectCommits(b) \ InFlight = {} /\ boards[b].commit_count = 0
    <3>1. \A c \in Commits : commits[c].game = NULL
      BY DEF Init
    <3>2. b.game # NULL
      BY CalendarAssumption DEF BoardId
    <3>. QED BY <3>1, <3>2 DEF Init, NoBoard, ProjectCommits
  <2>. QED BY <2>1, FS_EmptySet DEF AllCounted
<1>2. OwnInv /\ AllCounted /\ [Next]_vars => AllCounted'
  BY NoneLost
<1>. QED BY <1>1, <1>2, AlwaysOwned, PTL DEF Spec

-----------------------------------------------------------------------------
(* One push at a time                                                      *)

(* One goroutine scores, no statement of it fails, and nobody claims or    *)
(* unlinks meanwhile.                                                      *)
Alone ==
  /\ \A w, x \in Workers : w = x
  /\ ~Faults /\ Claimants = {} /\ Unlinkers = {}

Undisturbed ==
  /\ \A u \in Users : claim[u].pc = "idle"
  /\ \A c \in Commits : commits[c].user = AuthorOf[c]

(* The read before the upsert tells whether the board is there.            *)
BonusKnown ==
  \A w \in Workers : call[w].pc = "upsertBoard" => (call[w].isNew <=> ~boards[BoardOf(w)].exists)

Earnings(n) == IF n = 0 THEN 0 ELSE n * CommitPoints + ProjectPoints

(* A board counts the placed commits that are not in flight, exactly.      *)
BoardsExact ==
  \A b \in BoardId :
    LET n == Cardinality(ProjectCommits(b) \ InFlight)
    IN  boards[b].commit_count = n /\ boards[b].points = Earnings(n)

ExactBoardsInv == BonusInv /\ Undisturbed /\ BonusKnown /\ BoardsExact

(* A call that has placed its commit and has not returned.                 *)
Busy(w) == call[w].pc \in UncreditedPc \cup CreditedPc

BoardFor(c) == [game |-> commits[c].game, project |-> ProjectOf[c]]

Full(slot) == \A i \in 1..3 : slot[i] # NULL
Has(slot, b) == \E i \in 1..3 : slot[i] = b
Served(slot, b) == Full(slot) \/ Has(slot, b)

(* The slots are filled from the first on, each with another board.        *)
Apart(slot) ==
  \A i, j \in 1..3 : i < j /\ slot[j] # NULL => slot[i] # NULL /\ slot[i] # slot[j]

CountsShown(k) ==
  /\ players[k].commit_count = CountUserCommits(k.user, k.game).commits
  /\ players[k].project_count = CountUserCommits(k.user, k.game).projects

(* The row of a player no call is busy with shows what the table holds ... *)
CountsExact ==
  \A k \in PlayerId : (\A w \in Workers : Busy(w) => PlayerOf(w) # k) => CountsShown(k)

(* ... and the slots have served every commit no call is busy with.        *)
SlotsServe ==
  \A k \in PlayerId :
    /\ Apart(players[k].slot)
    /\ \A c \in OwnCommits(k.user, k.game) :
         (\A w \in Workers : Busy(w) => call[w].commit # c) => Served(players[k].slot, BoardFor(c))

(* What a call has read is still so when it writes.                        *)
ReadsHold ==
  \A w \in Workers :
    /\ call[w].pc = "assign" =>
         call[w].ids = players[PlayerOf(w)].slot /\ ~Served(call[w].ids, BoardOf(w))
    /\ call[w].pc \in {"counts", "total", "update"} => Served(players[PlayerOf(w)].slot, BoardOf(w))
    /\ call[w].pc \in {"total", "update"} =>
         call[w].counts = CountUserCommits(AuthorOf[call[w].commit], call[w].game)

ExactInv == ExactBoardsInv /\ SlotInv /\ CountsExact /\ SlotsServe /\ ReadsHold

(* What one more commit adds to a board.                                   *)
LEMMA OneMore ==
  ASSUME NEW S \in SUBSET Commits, NEW c \in Commits \ S
  PROVE  /\ Cardinality(S \cup {c}) = Cardinality(S) + 1
         /\ Earnings(Cardinality(S \cup {c})) =
              Earnings(Cardinality(S)) + CommitPoints
                + (IF Cardinality(S) = 0 THEN ProjectPoints ELSE 0)
<1>1. IsFiniteSet(S) /\ Cardinality(S) \in Nat
  BY CommitSets
<1>2. Cardinality(S \cup {c}) = Cardinality(S) + 1
  BY <1>1, FS_AddElement
<1>. DEFINE n == Cardinality(S)
<1>3. n \in Nat /\ CommitPoints \in Nat /\ ProjectPoints \in Nat
  BY <1>1, ScoringAssumption
<1>. HIDE DEF n
<1>4. n * CommitPoints \in Nat /\ (n + 1) * CommitPoints = n * CommitPoints + CommitPoints
  BY <1>3
<1>5. Earnings(n + 1) = Earnings(n) + CommitPoints + (IF n = 0 THEN ProjectPoints ELSE 0)
  BY <1>3, <1>4 DEF Earnings
<1>. QED BY <1>2, <1>5 DEF n

(* Steps that leave a board's counts, and the commits it counts, alone.    *)
LEMMA BoardsStayExact ==
  ASSUME BoardsExact,
         \A b \in BoardId : /\ boards'[b].commit_count = boards[b].commit_count
                            /\ boards'[b].points = boards[b].points
                            /\ ProjectCommits(b)' \ InFlight' = ProjectCommits(b) \ InFlight
  PROVE  BoardsExact'
BY DEF BoardsExact, Earnings

LEMMA FlightAlone ==
  ASSUME Alone, NEW w \in Workers
  PROVE  InFlight = IF call[w].pc \in UncreditedPc THEN {call[w].commit} ELSE {}
BY DEF Alone, InFlight

(* The commit leaves flight as the board is credited, with the bonus if it *)
(* is the first the board counts.                                          *)
LEMMA UpsertExact ==
  ASSUME Alone, ExactBoardsInv, NEW w \in Workers, UpsertBoard(w)
  PROVE  BoardsExact'
<1>. DEFINE c == call[w].commit
            d == BoardOf(w)
<1>1. TypeInv /\ Ownership /\ RowsCounted /\ BonusKnown /\ BoardsExact
  BY DEF ExactBoardsInv, BonusInv, CountInv, OwnInv
<1>2. InFlight = {c}
  BY <1>1, UpsertBoardShape, FlightAlone DEF UncreditedPc
<1>3. InFlight' = {}
  <2>1. call'[w].pc = "languages" /\ \A x \in Workers : x = w
    BY <1>1, UpsertBoardShape DEF Alone
  <2>. QED BY <2>1 DEF InFlight, UncreditedPc
<1>4. \A b \in BoardId : ProjectCommits(b)' = ProjectCommits(b)
  BY <1>1, UpsertBoardShape DEF ProjectCommits
<1>5. d \in BoardId /\ c \in Commits /\ c \in ProjectCommits(d)
  BY <1>1, UpsertBoardShape DEF ProjectCommits, BoardOf, Ownership, UncreditedPc
<1>6. ASSUME NEW b \in BoardId, b # d
      PROVE  LET n == Cardinality(ProjectCommits(b)' \ InFlight')
             IN  boards'[b].commit_count = n /\ boards'[b].points = Earnings(n)
  <2>1. c \notin ProjectCommits(b)
    BY <1>1, <1>5, <1>6 DEF ProjectCommits, BoardOf, BoardId
  <2>2. ProjectCommits(b)' \ InFlight' = ProjectCommits(b) \ InFlight
    BY <1>2, <1>3, <1>4, <2>1
  <2>3. boards'[b] = boards[b]
    BY <1>1, <1>6, UpsertBoardShape
  <2>. QED BY <1>1, <2>2, <2>3 DEF BoardsExact
<1>7. ASSUME NEW b \in BoardId, b = d
      PROVE  LET n == Cardinality(ProjectCommits(b)' \ InFlight')
             IN  boards'[b].commit_count = n /\ boards'[b].points = Earnings(n)
  <2>. DEFINE S == ProjectCommits(b) \ {c}
              n == Cardinality(S)
  <2>1. S \in SUBSET Commits /\ c \in Commits \ S /\ S \cup {c} = ProjectCommits(b)
    BY <1>5, <1>7, PlacedSets
  <2>2. boards[b].commit_count = n /\ boards[b].points = Earnings(n)
    BY <1>1, <1>2 DEF BoardsExact
  <2>3. /\ boards'[b].commit_count = boards[b].commit_count + 1
        /\ boards'[b].points =
             boards[b].points + CommitPoints + (IF call[w].isNew THEN ProjectPoints ELSE 0)
    BY <1>1, <1>7, UpsertBoardShape, CallHolds, CreditedFields DEF Call
  <2>4. call[w].isNew <=> n = 0
    <3>1. call[w].isNew <=> ~boards[b].exists
      BY <1>1, <1>7, UpsertBoardShape DEF BonusKnown
    <3>2. boards[b].exists <=> boards[b].commit_count # 0
      BY <1>1 DEF RowsCounted
    <3>. QED BY <2>2, <3>1, <3>2
  <2>5. /\ Cardinality(ProjectCommits(b)) = n + 1
        /\ Earnings(Cardinality(ProjectCommits(b))) =
             Earnings(n) + CommitPoints + (IF n = 0 THEN ProjectPoints ELSE 0)
    BY <2>1, OneMore
  <2>6. ProjectCommits(b)' \ InFlight' = ProjectCommits(b)
    BY <1>3, <1>4
  <2>. HIDE DEF n, S
  <2>7. (IF call[w].isNew THEN ProjectPoints ELSE 0) = (IF n = 0 THEN ProjectPoints ELSE 0)
    BY <2>4
  <2>. QED BY <2>2, <2>3, <2>5, <2>6, <2>7
<1>. QED BY <1>6, <1>7 DEF BoardsExact, Earnings

(* A commit that is placed is in flight first.                             *)
LEMMA SetGameExact ==
  ASSUME Alone, ExactBoardsInv, NEW w \in Workers, SetCommitGame(w)
  PROVE  BoardsExact'
<1>. DEFINE c == call[w].commit
<1>1. TypeInv /\ Ownership /\ BoardsExact
  BY DEF ExactBoardsInv, BonusInv, CountInv, OwnInv
<1>2. InFlight = {} /\ InFlight' = {c}
  BY <1>1, SetCommitGameShape DEF Alone, InFlight, UncreditedPc
<1>3. commits[c].game = NULL
  BY <1>1, SetCommitGameShape DEF Ownership, PendingPc
<1>4. ASSUME NEW b \in BoardId
      PROVE  ProjectCommits(b)' \ InFlight' = ProjectCommits(b) \ InFlight
  <2>1. c \notin ProjectCommits(b)
    BY <1>3, CalendarAssumption DEF ProjectCommits, BoardId
  <2>2. \A e \in Commits \ {c} : e \in ProjectCommits(b)' <=> e \in ProjectCommits(b)
    BY <1>1, SetCommitGameShape DEF ProjectCommits
  <2>3. ProjectCommits(b)' \in SUBSET Commits /\ ProjectCommits(b) \in SUBSET Commits
    BY DEF ProjectCommits
  <2>. QED BY <1>2, <2>1, <2>2, <2>3
<1>. QED BY <1>1, <1>4, SetCommitGameShape, BoardsStayExact

LEMMA MovesExact ==
  ASSUME Alone, ExactBoardsInv, NEW w \in Workers, Moves(w),
         call[w].pc \in UncreditedPc => call'[w].pc \in UncreditedPc
  PROVE  BoardsExact'
<1>1. BoardsExact
  BY DEF ExactBoardsInv
<1>2. InFlight' = InFlight
  BY DEF Moves, Alone, InFlight, UncreditedPc
<1>3. \A b \in BoardId : ProjectCommits(b)' = ProjectCommits(b)
  BY DEF Moves, ProjectCommits
<1>. QED BY <1>1, <1>2, <1>3, BoardsStayExact DEF Moves

(* Everything outside AddCommit, when no one claims or unlinks.            *)
LEMMA ElsewhereAlone ==
  ASSUME Alone, TypeInv, Undisturbed,
         \/ \E c \in Commits : LoseCommit(c)
         \/ \E u \in Users : ClaimOrphanCommits(u) \/ ClaimAbandon(u)
         \/ OtherRequests
         \/ Calendar
         \/ UNCHANGED vars
  PROVE  UNCHANGED <<commits, players, call, claim>>
<1>. USE DEF calendarVars, tables
<1>1. ASSUME NEW c \in Commits, LoseCommit(c) PROVE FALSE
  BY <1>1 DEF Alone, LoseCommit
<1>2. ASSUME NEW u \in Users, ClaimOrphanCommits(u) \/ ClaimAbandon(u) PROVE FALSE
  BY <1>2 DEF Alone, Undisturbed, ClaimOrphanCommits, ClaimFindGame, ClaimUpdate, ClaimCount,
     ClaimUpsertPlayer, ClaimAbandon
<1>3. ASSUME OtherRequests PROVE UNCHANGED <<commits, players, call, claim>>
  BY <1>3 DEF Alone, OtherRequests, SetPrivate, ScanStart, ScanFinish
<1>4. ASSUME Calendar PROVE UNCHANGED <<commits, players, call, claim>>
  BY <1>4 DEF Calendar
<1>5. ASSUME UNCHANGED vars PROVE UNCHANGED <<commits, players, call, claim>>
  BY <1>5 DEF vars
<1>. QED BY <1>1, <1>2, <1>3, <1>4, <1>5

LEMMA UndisturbedKept ==
  ASSUME Alone, TypeInv, Undisturbed, [Next]_vars
  PROVE  Undisturbed'
<1>1. ASSUME NEW w \in Workers, AddCommit(w) \/ Abandon(w) PROVE claim' = claim
  BY <1>1 DEF AddCommit, Abandon, Begin, FindGame, CheckProject, SetCommitGame, ReadBoard,
     UpsertBoard, UpsertLanguageBoard, CheckAuthor, FindPlayer, CountForNewPlayer, CreatePlayer,
     ReadSlots, AssignBoards, CountCommits, SumBoards, UpdatePlayerAnalysis
<1>2. ASSUME NEW w \in Workers, AddCommit(w) \/ Abandon(w), ~SetCommitGame(w)
      PROVE  commits' = commits
  BY <1>2 DEF AddCommit, Abandon, Begin, FindGame, CheckProject, ReadBoard,
     UpsertBoard, UpsertLanguageBoard, CheckAuthor, FindPlayer, CountForNewPlayer, CreatePlayer,
     ReadSlots, AssignBoards, CountCommits, SumBoards, UpdatePlayerAnalysis, tables
<1>3. ASSUME NEW w \in Workers, SetCommitGame(w)
      PROVE  \A c \in Commits : commits'[c].user = commits[c].user
  BY <1>3, SetCommitGameShape
<1>4. ASSUME NEW w \in Workers, AddCommit(w) \/ Abandon(w) PROVE Undisturbed'
  BY <1>1, <1>2, <1>3, <1>4 DEF Undisturbed
<1>5. ASSUME UNCHANGED <<commits, players, call, claim>> PROVE Undisturbed'
  BY <1>5 DEF Undisturbed
<1>. QED BY <1>4, <1>5, ElsewhereAlone DEF Next

LEMMA BonusKnownKept ==
  ASSUME Alone, ExactBoardsInv, [Next]_vars
  PROVE  BonusKnown'
<1>1. TypeInv /\ Undisturbed /\ BonusKnown
  BY DEF ExactBoardsInv, BonusInv, CountInv, OwnInv
<1>. SUFFICES ASSUME NEW w \in Workers, call'[w].pc = "upsertBoard"
              PROVE  call'[w].isNew <=> ~boards'[BoardOf(w)'].exists
  BY DEF BonusKnown
<1>2. CASE ReadBoard(w)
  <2>1. call' = [call EXCEPT ![w].pc = "upsertBoard", ![w].isNew = ~boards[BoardOf(w)].exists]
        /\ boards' = boards
    <3>1. PICK failed \in {FALSE, Faults} :
            call' = [call EXCEPT ![w].pc = "upsertBoard",
                                 ![w].isNew = ~boards[BoardOf(w)].exists /\ ~failed]
      BY <1>2 DEF ReadBoard
    <3>2. (~boards[BoardOf(w)].exists /\ ~failed) = ~boards[BoardOf(w)].exists
      <4>1. failed = FALSE
        BY ScoringAssumption DEF Alone
      <4>. QED BY <4>1
    <3>. QED BY <1>2, <3>1, <3>2 DEF ReadBoard, tables
  <2>. DEFINE isNew == ~boards[BoardOf(w)].exists
  <2>2. call' = [call EXCEPT ![w].pc = "upsertBoard", ![w].isNew = isNew]
    BY <2>1
  <2>. HIDE DEF isNew
  <2>3. call'[w].isNew = isNew /\ call'[w].commit = call[w].commit /\ call'[w].game = call[w].game
    BY <1>1, <2>2 DEF TypeInv, TypeOK, Call
  <2>. QED BY <2>1, <2>3 DEF isNew, BoardOf
<1>3. ASSUME UNCHANGED <<commits, players, call, claim>>, Elsewhere
      PROVE  call'[w].isNew <=> ~boards'[BoardOf(w)'].exists
  <2>1. BoardOf(w) \in BoardId /\ BoardOf(w)' = BoardOf(w) /\ call'[w] = call[w]
    BY <1>1, <1>3, CallKeys DEF BoardOf
  <2>. QED BY <1>1, <1>3, <2>1 DEF BonusKnown, Elsewhere
<1>4. ASSUME AddCommit(w) \/ Abandon(w), ~ReadBoard(w) PROVE FALSE
  <2>. USE DEF TypeInv, TypeOK, Call, At, Goto, Return, IdleCall
  <2>1. ASSUME NEW pc, call' = [call EXCEPT ![w].pc = pc], pc # "upsertBoard" PROVE FALSE
    BY <1>1, <2>1
  <2>2. ASSUME Return(w) PROVE FALSE
    BY <1>1, <2>2
  <2>3. ASSUME NEW c \in Commits, Begin(w, c) PROVE FALSE
    BY <1>1, <2>3 DEF Begin
  <2>4. ASSUME FindGame(w) PROVE FALSE
    <3>1. ASSUME NEW g, call' = [call EXCEPT ![w].pc = "project", ![w].game = g] PROVE FALSE
      BY <1>1, <3>1
    <3>. QED BY <2>2, <2>4, <3>1 DEF FindGame
  <2>5. ASSUME UpsertBoard(w) PROVE FALSE
    BY <1>1, <2>5, UpsertBoardShape
  <2>6. ASSUME NEW l \in Languages, UpsertLanguageBoard(w, l) PROVE FALSE
    BY <1>1, <2>6 DEF UpsertLanguageBoard
  <2>7. ASSUME CountForNewPlayer(w) PROVE FALSE
    BY <1>1, <2>7 DEF CountForNewPlayer
  <2>8. ASSUME ReadSlots(w) PROVE FALSE
    BY <1>1, <2>8 DEF ReadSlots
  <2>9. ASSUME CountCommits(w) PROVE FALSE
    BY <1>1, <2>9 DEF CountCommits
  <2>10. ASSUME SumBoards(w) PROVE FALSE
    BY <1>1, <2>10 DEF SumBoards
  <2>11. ASSUME CheckProject(w) \/ SetCommitGame(w) \/ CheckAuthor(w) \/ FindPlayer(w)
                \/ CreatePlayer(w) \/ AssignBoards(w) \/ UpdatePlayerAnalysis(w) \/ Abandon(w)
         PROVE  FALSE
    BY <2>1, <2>2, <2>11 DEF CheckProject, SetCommitGame, CheckAuthor, FindPlayer, CreatePlayer,
       AssignBoards, UpdatePlayerAnalysis, Abandon
  <2>. QED BY <1>4, <2>3, <2>4, <2>5, <2>6, <2>7, <2>8, <2>9, <2>10, <2>11 DEF AddCommit
<1>5. \A x \in Workers : x = w
  BY DEF Alone
<1>. QED BY <1>1, <1>2, <1>3, <1>4, <1>5, ElsewhereAlone, ElsewhereShape DEF Next

LEMMA ExactBoardsKept ==
  ASSUME Alone, ExactBoardsInv, [Next]_vars
  PROVE  ExactBoardsInv'
<1>1. TypeInv /\ Undisturbed /\ BoardsExact
  BY DEF ExactBoardsInv, BonusInv, CountInv, OwnInv
<1>2. ASSUME NEW w \in Workers, NEW c \in Commits, Begin(w, c) PROVE BoardsExact'
  <2>1. /\ call[w].pc = "idle" /\ call'[w].pc = "game" /\ \A x \in Workers : x = w
        /\ commits' = commits /\ boards' = boards
    BY <1>1, <1>2 DEF Begin, tables, TypeInv, TypeOK, Call, Alone, At
  <2>2. InFlight' = InFlight
    BY <2>1 DEF InFlight, UncreditedPc
  <2>3. \A b \in BoardId : ProjectCommits(b)' = ProjectCommits(b)
    BY <2>1 DEF ProjectCommits
  <2>. QED BY <1>1, <2>1, <2>2, <2>3, BoardsStayExact
<1>3. ASSUME NEW w \in Workers, AddCommit(w) \/ Abandon(w), Moves(w), ~UpsertBoard(w)
      PROVE  BoardsExact'
  <2>1. call[w].pc = "readBoard" => call'[w].pc = "upsertBoard"
    <3>1. ASSUME call[w].pc = "readBoard", AddCommit(w) PROVE ReadBoard(w)
      BY <3>1 DEF AddCommit, Begin, FindGame, CheckProject, SetCommitGame, UpsertBoard,
         UpsertLanguageBoard, CheckAuthor, FindPlayer, CountForNewPlayer, CreatePlayer, ReadSlots,
         AssignBoards, CountCommits, SumBoards, UpdatePlayerAnalysis, At
    <3>2. ASSUME ReadBoard(w) PROVE call'[w].pc = "upsertBoard"
      BY <1>1, <3>2 DEF ReadBoard, TypeInv, TypeOK, Call
    <3>. QED BY <1>3, <3>1, <3>2 DEF Abandon, Alone
  <2>2. call[w].pc # "upsertBoard"
    BY <1>3 DEF AddCommit, Begin, FindGame, CheckProject, SetCommitGame, ReadBoard,
       UpsertLanguageBoard, CheckAuthor, FindPlayer, CountForNewPlayer, CreatePlayer, ReadSlots,
       AssignBoards, CountCommits, SumBoards, UpdatePlayerAnalysis, At, Abandon, Alone
  <2>. QED BY <1>3, <2>1, <2>2, MovesExact DEF UncreditedPc
<1>4. ASSUME Elsewhere, commits' = commits PROVE BoardsExact'
  <2>1. InFlight' = InFlight
    BY <1>4 DEF Elsewhere, InFlight
  <2>2. \A b \in BoardId : ProjectCommits(b)' = ProjectCommits(b)
    BY <1>4 DEF ProjectCommits
  <2>. QED BY <1>1, <1>4, <2>1, <2>2, BoardsStayExact DEF Elsewhere
<1>5. ASSUME NEW w \in Workers, AddCommit(w) \/ Abandon(w) PROVE BoardsExact'
  BY <1>1, <1>2, <1>3, <1>5, SetGameExact, UpsertExact, MovesShape
<1>6. BoardsExact'
  BY <1>1, <1>4, <1>5, ElsewhereAlone, ElsewhereShape DEF Next
<1>. QED BY <1>1, <1>6, NextBonus, UndisturbedKept, BonusKnownKept DEF ExactBoardsInv

-----------------------------------------------------------------------------
(* One push at a time: the rows of players                                 *)

LEMMA OwnBoards ==
  ASSUME TypeInv, NEW k \in PlayerId, NEW c \in OwnCommits(k.user, k.game)
  PROVE  BoardFor(c) \in BoardId /\ c \in Commits
BY ScoringAssumption DEF OwnCommits, BoardFor, BoardId, PlayerId

(* A step in the middle of a call: nobody else's row changes, and a row    *)
(* written keeps serving what it served.                                   *)
LEMMA BusyKeeps ==
  ASSUME Alone, TypeInv, CountsExact, SlotsServe, NEW w \in Workers,
         commits' = commits, Busy(w), Busy(w)',
         call'[w].commit = call[w].commit, call'[w].game = call[w].game,
         \A k \in PlayerId : k # PlayerOf(w) => players'[k] = players[k],
         PlayerOf(w) \in PlayerId =>
           /\ Apart(players'[PlayerOf(w)].slot)
           /\ \A b \in BoardId :
                Served(players[PlayerOf(w)].slot, b) => Served(players'[PlayerOf(w)].slot, b)
  PROVE  CountsExact' /\ SlotsServe'
<1>1. PlayerOf(w)' = PlayerOf(w) /\ \A x \in Workers : x = w
  BY DEF PlayerOf, Alone
<1>2. CountsExact'
  <2>. SUFFICES ASSUME NEW k \in PlayerId, k # PlayerOf(w)
                PROVE  CountsShown(k)'
    BY <1>1 DEF CountsExact
  <2>1. CountsShown(k) /\ players'[k] = players[k]
    BY <1>1 DEF CountsExact
  <2>. QED BY <2>1 DEF CountsShown, CountUserCommits
<1>3. SlotsServe'
  <2>. SUFFICES ASSUME NEW k \in PlayerId
                PROVE  /\ Apart(players'[k].slot)
                       /\ \A c \in OwnCommits(k.user, k.game) :
                            call[w].commit # c => Served(players'[k].slot, BoardFor(c))
    BY <1>1 DEF SlotsServe, OwnCommits, BoardFor
  <2>1. /\ Apart(players[k].slot)
        /\ \A c \in OwnCommits(k.user, k.game) :
             call[w].commit # c => Served(players[k].slot, BoardFor(c))
    BY <1>1 DEF SlotsServe
  <2>2. \A c \in OwnCommits(k.user, k.game) : BoardFor(c) \in BoardId
    BY OwnBoards
  <2>3. CASE k = PlayerOf(w)
    BY <2>1, <2>2, <2>3
  <2>4. CASE k # PlayerOf(w)
    BY <2>1, <2>4
  <2>. QED BY <2>3, <2>4
<1>. QED BY <1>2, <1>3

(* The end of a call that has placed its commit.                           *)
LEMMA DoneKeeps ==
  ASSUME Alone, TypeInv, CountsExact, SlotsServe, NEW w \in Workers,
         commits' = commits, Busy(w), ~Busy(w)', call[w].commit \in Commits,
         commits[call[w].commit].game = call[w].game,
         commits[call[w].commit].user = AuthorOf[call[w].commit],
         \A k \in PlayerId : k # PlayerOf(w) => players'[k] = players[k],
         PlayerOf(w) \in PlayerId =>
           /\ players'[PlayerOf(w)].slot = players[PlayerOf(w)].slot
           /\ Served(players[PlayerOf(w)].slot, BoardOf(w)),
         \A k \in PlayerId : k = PlayerOf(w) => CountsShown(k)'
  PROVE  CountsExact' /\ SlotsServe'
<1>1. \A x \in Workers : x = w
  BY DEF Alone
<1>2. CountsExact'
  <2>. SUFFICES ASSUME NEW k \in PlayerId PROVE CountsShown(k)'
    BY DEF CountsExact
  <2>1. CASE k # PlayerOf(w)
    <3>1. CountsShown(k) /\ players'[k] = players[k]
      BY <1>1, <2>1 DEF CountsExact
    <3>. QED BY <3>1 DEF CountsShown, CountUserCommits
  <2>. QED BY <2>1
<1>3. SlotsServe'
  <2>. SUFFICES ASSUME NEW k \in PlayerId
                PROVE  /\ Apart(players'[k].slot)
                       /\ \A c \in OwnCommits(k.user, k.game) : Served(players'[k].slot, BoardFor(c))
    BY DEF SlotsServe, OwnCommits, BoardFor
  <2>1. /\ Apart(players[k].slot) /\ players'[k].slot = players[k].slot
        /\ \A c \in OwnCommits(k.user, k.game) :
             call[w].commit # c => Served(players[k].slot, BoardFor(c))
    BY <1>1 DEF SlotsServe
  <2>2. ASSUME call[w].commit \in OwnCommits(k.user, k.game)
        PROVE  Served(players[k].slot, BoardFor(call[w].commit))
    <3>1. k = PlayerOf(w)
      BY <2>2 DEF OwnCommits, PlayerOf, PlayerId
    <3>2. BoardFor(call[w].commit) = BoardOf(w)
      BY DEF BoardFor, BoardOf
    <3>. QED BY <3>1, <3>2
  <2>. QED BY <2>1, <2>2
<1>. QED BY <1>2, <1>3

(* A step before the commit is placed, or outside any call.                *)
LEMMA RestKeeps ==
  ASSUME CountsExact, SlotsServe,
         commits' = commits, players' = players,
         \A w \in Workers : (Busy(w)' <=> Busy(w)) /\ (Busy(w) => call'[w] = call[w])
  PROVE  CountsExact' /\ SlotsServe'
<1>1. \A w \in Workers : Busy(w) => PlayerOf(w)' = PlayerOf(w)
  BY DEF PlayerOf
<1>2. CountsExact'
  BY <1>1 DEF CountsExact, CountsShown, CountUserCommits
<1>3. SlotsServe'
  BY DEF SlotsServe, OwnCommits, BoardFor
<1>. QED BY <1>2, <1>3

(* Placing a commit makes its author the player the call is busy with.     *)
LEMMA PlaceKeeps ==
  ASSUME Alone, OwnInv, Undisturbed, CountsExact, SlotsServe, NEW w \in Workers, SetCommitGame(w)
  PROVE  CountsExact' /\ SlotsServe'
<1>. DEFINE c == call[w].commit
<1>1. TypeInv /\ Ownership /\ \A x \in Workers : x = w
  BY DEF OwnInv, Alone
<1>2. /\ ~Busy(w) /\ Busy(w)' /\ call'[w].commit = c
      /\ players' = players /\ c \in Commits
      /\ PlayerOf(w)' = [game |-> call[w].game, user |-> AuthorOf[c]]
  BY <1>1, SetCommitGameShape DEF Busy, UncreditedPc, CreditedPc, AssignPc, PlayerOf
<1>3. /\ commits[c].game = NULL /\ commits'[c].user = AuthorOf[c]
      /\ commits'[c].game = call[w].game
  BY <1>1, SetCommitGameShape DEF Ownership, PendingPc, Undisturbed
<1>4. \A e \in Commits : e # c => commits'[e] = commits[e]
  BY <1>1, SetCommitGameShape
<1>5. ASSUME NEW k \in PlayerId
      PROVE  /\ c \notin OwnCommits(k.user, k.game)
             /\ \A e \in Commits : e # c =>
                  (e \in OwnCommits(k.user, k.game)' <=> e \in OwnCommits(k.user, k.game))
  BY <1>3, <1>4, CalendarAssumption DEF OwnCommits, PlayerId
<1>6. CountsExact'
  <2>. SUFFICES ASSUME NEW k \in PlayerId, k # PlayerOf(w)'
                PROVE  CountsShown(k)'
    BY <1>1, <1>2 DEF CountsExact
  <2>1. c \notin OwnCommits(k.user, k.game)'
    BY <1>2, <1>3 DEF OwnCommits, PlayerId
  <2>2. OwnCommits(k.user, k.game)' = OwnCommits(k.user, k.game)
    BY <1>5, <2>1 DEF OwnCommits
  <2>3. CountUserCommits(k.user, k.game)' = CountUserCommits(k.user, k.game)
    BY <2>2 DEF CountUserCommits, OwnCommits
  <2>4. CountsShown(k)
    BY <1>1, <1>2 DEF CountsExact
  <2>. QED BY <1>2, <2>3, <2>4 DEF CountsShown
<1>7. SlotsServe'
  <2>. SUFFICES ASSUME NEW k \in PlayerId
                PROVE  /\ Apart(players[k].slot)
                       /\ \A e \in OwnCommits(k.user, k.game)' :
                            e # c => Served(players[k].slot, BoardFor(e)')
    BY <1>1, <1>2 DEF SlotsServe
  <2>1. /\ Apart(players[k].slot)
        /\ \A e \in OwnCommits(k.user, k.game) : Served(players[k].slot, BoardFor(e))
    BY <1>1, <1>2 DEF SlotsServe
  <2>2. \A e \in OwnCommits(k.user, k.game)' : e # c =>
          e \in OwnCommits(k.user, k.game) /\ BoardFor(e)' = BoardFor(e)
    BY <1>4, <1>5 DEF OwnCommits, BoardFor
  <2>. QED BY <2>1, <2>2
<1>. QED BY <1>6, <1>7

(* Filling the next free slot serves one board more.                       *)
LEMMA AssignServes ==
  ASSUME NEW slot \in Slots, NEW d \in BoardId, Apart(slot), ~Served(slot, d),
         NEW new, new = AssignedSlots(WantedSlots(slot, d), slot)
  PROVE  /\ new \in Slots /\ Apart(new) /\ Served(new, d)
         /\ \A b \in BoardId : Served(slot, b) => Served(new, b)
<1>1. d # NULL
  BY ScoringAssumption
<1>2. new \in Slots
  BY SlotsTyped
<1>3. /\ slot[1] \in BoardId \cup {NULL} /\ slot[2] \in BoardId \cup {NULL}
      /\ slot[3] \in BoardId \cup {NULL}
      /\ slot[1] # d /\ slot[2] # d /\ slot[3] # d
  BY DEF Slots, Served, Has
<1>4. /\ slot[1] = NULL => slot[2] = NULL /\ slot[3] = NULL
      /\ slot[2] = NULL => slot[3] = NULL
      /\ slot[3] = NULL
      /\ slot[2] # NULL => slot[1] # slot[2]
  <2>1. 1 \in 1..3 /\ 2 \in 1..3 /\ 3 \in 1..3 /\ 1 < 2 /\ 2 < 3 /\ 1 < 3
    OBVIOUS
  <2>2. /\ slot[2] # NULL => slot[1] # NULL /\ slot[1] # slot[2]
        /\ slot[3] # NULL => slot[1] # NULL /\ slot[2] # NULL
    BY <2>1 DEF Apart
  <2>3. ~(slot[1] # NULL /\ slot[2] # NULL /\ slot[3] # NULL)
    <3>1. \A i \in 1..3 : i = 1 \/ i = 2 \/ i = 3
      OBVIOUS
    <3>. QED BY <3>1 DEF Served, Full
  <2>. QED BY <2>2, <2>3
<1>. DEFINE want == WantedSlots(slot, d)
<1>5. /\ want[1] = IF slot[1] = NULL THEN d ELSE slot[1]
      /\ want[2] = IF slot[1] # NULL /\ slot[2] = NULL THEN d ELSE slot[2]
      /\ want[3] = IF slot[1] # NULL /\ slot[2] # NULL THEN d ELSE slot[3]
  BY <1>4 DEF WantedSlots, Slots
<1>6. \A i \in 1..3 : new[i] = IF want[i] = NULL THEN slot[i] ELSE want[i]
  BY DEF AssignedSlots
<1>. HIDE DEF want
<1>7. /\ new[1] = IF slot[1] = NULL THEN d ELSE slot[1]
      /\ new[2] = IF slot[1] # NULL /\ slot[2] = NULL THEN d ELSE slot[2]
      /\ new[3] = IF slot[1] # NULL /\ slot[2] # NULL THEN d ELSE NULL
  BY <1>1, <1>4, <1>5, <1>6
<1>8. Apart(new)
  <2>1. /\ new[2] # NULL => new[1] # NULL /\ new[1] # new[2]
        /\ new[3] # NULL => new[1] # NULL /\ new[1] # new[3] /\ new[2] # NULL /\ new[2] # new[3]
    BY <1>1, <1>3, <1>4, <1>7
  <2>2. \A i, j \in 1..3 : i < j => \/ i = 1 /\ j = 2
                                    \/ i = 1 /\ j = 3
                                    \/ i = 2 /\ j = 3
    OBVIOUS
  <2>. QED BY <2>1, <2>2 DEF Apart
<1>9. new[1] = d \/ new[2] = d \/ new[3] = d
  BY <1>7
<1>10. Served(new, d)
  <2>1. 1 \in 1..3 /\ 2 \in 1..3 /\ 3 \in 1..3
    OBVIOUS
  <2>. QED BY <1>9, <2>1 DEF Served, Has
<1>11. ASSUME NEW b \in BoardId, Served(slot, b) PROVE Served(new, b)
  <2>1. PICK i \in 1..3 : slot[i] = b
    <3>1. ~Full(slot)
      BY DEF Served
    <3>. QED BY <1>11, <3>1 DEF Served, Has
  <2>2. b # NULL
    BY ScoringAssumption
  <2>3. i = 1 \/ i = 2 \/ i = 3
    OBVIOUS
  <2>4. new[i] = b
    BY <1>4, <1>7, <2>1, <2>2, <2>3
  <2>. QED BY <2>4 DEF Served, Has
<1>. QED BY <1>2, <1>8, <1>10, <1>11

(* A call that goes on with the same commit, and what follows of it.       *)
GoesOn(w) ==
  /\ commits' = commits
  /\ Busy(w) /\ Busy(w)'
  /\ call'[w].commit = call[w].commit /\ call'[w].game = call[w].game

SameTables == commits' = commits /\ players' = players

LEMMA SameRowsServe ==
  ASSUME Alone, TypeInv, CountsExact, SlotsServe, NEW w \in Workers, GoesOn(w),
         players' = players
  PROVE  CountsExact' /\ SlotsServe'
<1>1. PlayerOf(w) \in PlayerId =>
           /\ Apart(players'[PlayerOf(w)].slot)
           /\ \A b \in BoardId :
                Served(players[PlayerOf(w)].slot, b) => Served(players'[PlayerOf(w)].slot, b)
  BY DEF SlotsServe
<1>. QED BY <1>1, BusyKeeps DEF GoesOn

(* What ReadsHold says of the one call.                                    *)
CallHeld(w) ==
  /\ call[w].pc = "assign" =>
       call[w].ids = players[PlayerOf(w)].slot /\ ~Served(call[w].ids, BoardOf(w))
  /\ call[w].pc \in {"counts", "total", "update"} => Served(players[PlayerOf(w)].slot, BoardOf(w))
  /\ call[w].pc \in {"total", "update"} =>
       call[w].counts = CountUserCommits(AuthorOf[call[w].commit], call[w].game)

PlayerTurn == CountsExact /\ SlotsServe /\ ReadsHold

LEMMA HeldAlone ==
  ASSUME Alone, NEW w \in Workers
  PROVE  /\ ReadsHold <=> CallHeld(w)
         /\ ReadsHold' <=> CallHeld(w)'
BY DEF Alone, ReadsHold, CallHeld

(* A step that changes nothing but one call.                               *)
LEMMA CallStep ==
  ASSUME TypeInv, NEW w \in Workers, NEW d, call' = [call EXCEPT ![w] = d]
  PROVE  call'[w] = d /\ call[w] \in Call
BY DEF TypeInv, TypeOK

(* The statements before and after the placing that read nothing for the   *)
(* player, and the returns that reach no player.                           *)
LEMMA QuietTurn ==
  ASSUME Alone, OwnInv, Undisturbed, PlayerTurn, NEW w \in Workers,
         \/ \E c \in Commits : Begin(w, c)
         \/ FindGame(w) \/ CheckProject(w) \/ ReadBoard(w) \/ UpsertBoard(w)
         \/ \E l \in Languages : UpsertLanguageBoard(w, l)
         \/ CheckAuthor(w) \/ FindPlayer(w) \/ CountForNewPlayer(w)
  PROVE  PlayerTurn'
<1>0. /\ TypeInv /\ CountsExact /\ SlotsServe /\ Ownership
      /\ call[w] \in Call /\ CallOK(call[w])
  BY CallHolds DEF OwnInv, PlayerTurn
<1>1. SameTables
  BY DEF Begin, FindGame, CheckProject, ReadBoard, UpsertBoard, UpsertLanguageBoard, CheckAuthor,
     FindPlayer, CountForNewPlayer, tables, SameTables
<1>2. ASSUME ~Busy(w), ~Busy(w)' PROVE PlayerTurn'
  <2>1. \A x \in Workers : (Busy(x)' <=> Busy(x)) /\ (Busy(x) => call'[x] = call[x])
    BY <1>2 DEF Alone
  <2>2. CountsExact' /\ SlotsServe'
    BY <1>0, <1>1, <2>1, RestKeeps DEF SameTables
  <2>3. CallHeld(w)'
    BY <1>2 DEF CallHeld, Busy, UncreditedPc, CreditedPc, AssignPc
  <2>. QED BY <2>2, <2>3, HeldAlone DEF PlayerTurn
<1>3. ASSUME GoesOn(w), call'[w].pc \notin {"assign", "counts", "total", "update"} PROVE PlayerTurn'
  <2>1. CountsExact' /\ SlotsServe'
    BY <1>0, <1>1, <1>3, SameRowsServe DEF SameTables
  <2>2. CallHeld(w)'
    BY <1>3 DEF CallHeld
  <2>. QED BY <2>1, <2>2, HeldAlone DEF PlayerTurn
<1>4. ASSUME NEW c \in Commits, Begin(w, c) PROVE ~Busy(w) /\ ~Busy(w)'
  BY <1>0, <1>4 DEF Begin, At, Busy, UncreditedPc, CreditedPc, AssignPc, TypeInv, TypeOK, Call
<1>5. ASSUME Return(w) PROVE ~Busy(w)'
  <2>1. call'[w] = IdleCall
    BY <1>0, <1>5, CallStep DEF Return
  <2>. QED BY <2>1 DEF IdleCall, Busy, UncreditedPc, CreditedPc, AssignPc
<1>6. ASSUME FindGame(w) PROVE ~Busy(w) /\ ~Busy(w)'
  <2>1. ASSUME NEW g, call' = [call EXCEPT ![w].pc = "project", ![w].game = g] PROVE ~Busy(w)'
    BY <1>0, <2>1 DEF Busy, UncreditedPc, CreditedPc, AssignPc, TypeInv, TypeOK, Call
  <2>2. ~Busy(w)
    BY <1>6 DEF FindGame, At, Busy, UncreditedPc, CreditedPc, AssignPc
  <2>. QED BY <1>5, <1>6, <2>1, <2>2 DEF FindGame
<1>7. ASSUME CheckProject(w) PROVE ~Busy(w) /\ ~Busy(w)'
  <2>1. ASSUME Goto(w, "setGame") PROVE ~Busy(w)'
    BY <1>0, <2>1 DEF Goto, Busy, UncreditedPc, CreditedPc, AssignPc, TypeInv, TypeOK, Call
  <2>2. ~Busy(w)
    BY <1>7 DEF CheckProject, At, Busy, UncreditedPc, CreditedPc, AssignPc
  <2>. QED BY <1>5, <1>7, <2>1, <2>2 DEF CheckProject
<1>8. ASSUME NEW d \in Call, call' = [call EXCEPT ![w] = d], Busy(w),
             d.pc \in {"upsertBoard", "languages", "player", "newCounts", "newPlayer", "slots"},
             d.commit = call[w].commit, d.game = call[w].game
      PROVE  PlayerTurn'
  <2>1. call'[w] = d
    BY <1>0, <1>8, CallStep
  <2>2. GoesOn(w)
    BY <1>1, <1>8, <2>1 DEF GoesOn, SameTables, Busy, UncreditedPc, CreditedPc, AssignPc
  <2>. QED BY <1>3, <1>8, <2>1, <2>2
<1>9. ASSUME ReadBoard(w) PROVE PlayerTurn'
  <2>1. PICK failed \in {FALSE, Faults} :
          call' = [call EXCEPT ![w].pc = "upsertBoard",
                               ![w].isNew = ~boards[BoardOf(w)].exists /\ ~failed]
    BY <1>9 DEF ReadBoard
  <2>. DEFINE isNew == ~boards[BoardOf(w)].exists /\ ~failed
              d == [call[w] EXCEPT !.pc = "upsertBoard", !.isNew = isNew]
  <2>2. call' = [call EXCEPT ![w] = d] /\ isNew \in BOOLEAN
    BY <2>1
  <2>. HIDE DEF isNew
  <2>3. /\ d \in Call /\ d.pc = "upsertBoard" /\ d.commit = call[w].commit
        /\ d.game = call[w].game
    BY <1>0, <2>2 DEF Call
  <2>4. Busy(w)
    BY <1>9 DEF ReadBoard, At, Busy, UncreditedPc
  <2>. HIDE DEF d
  <2>. QED BY <1>8, <2>2, <2>3, <2>4
<1>10. ASSUME UpsertBoard(w) PROVE PlayerTurn'
  <2>1. GoesOn(w) /\ call'[w].pc = "languages"
    BY <1>0, <1>1, <1>10, UpsertBoardShape
    DEF GoesOn, SameTables, Busy, UncreditedPc, CreditedPc
  <2>. QED BY <1>3, <2>1
<1>11. ASSUME NEW l \in Languages, UpsertLanguageBoard(w, l) PROVE PlayerTurn'
  <2>. DEFINE d == [call[w] EXCEPT !.langs = @ \ {l}]
  <2>1. call' = [call EXCEPT ![w] = d] /\ Busy(w) /\ call[w].pc = "languages"
    BY <1>11 DEF UpsertLanguageBoard, At, Busy, CreditedPc
  <2>2. d \in Call /\ d.pc = "languages" /\ d.commit = call[w].commit /\ d.game = call[w].game
    BY <1>0, <2>1 DEF Call
  <2>. HIDE DEF d
  <2>. QED BY <1>8, <2>1, <2>2
<1>12. ASSUME NEW pc \in {"player", "newCounts", "slots"}, Goto(w, pc), Busy(w) PROVE PlayerTurn'
  <2>. DEFINE d == [call[w] EXCEPT !.pc = pc]
  <2>1. call' = [call EXCEPT ![w] = d]
    BY <1>12 DEF Goto
  <2>2. d \in Call /\ d.pc = pc /\ d.commit = call[w].commit /\ d.game = call[w].game
    BY <1>0 DEF Call
  <2>. HIDE DEF d
  <2>. QED BY <1>8, <1>12, <2>1, <2>2
<1>13. ASSUME CheckAuthor(w) PROVE PlayerTurn'
  <2>1. Busy(w) /\ call[w].pc = "languages"
    BY <1>13 DEF CheckAuthor, At, Busy, CreditedPc
  <2>2. CASE AuthorOf[call[w].commit] # NULL
    BY <1>12, <1>13, <2>1, <2>2 DEF CheckAuthor
  <2>3. CASE AuthorOf[call[w].commit] = NULL
    <3>1. Return(w)
      BY <1>13, <2>3 DEF CheckAuthor
    <3>2. call'[w] = IdleCall /\ ~Busy(w)'
      BY <1>0, <1>5, <3>1, CallStep DEF Return
    <3>3. call[w].commit \in Commits /\ commits[call[w].commit].game = call[w].game
      BY <1>0, <2>1 DEF CallOK, Ownership, CreditedPc
    <3>4. commits[call[w].commit].user = AuthorOf[call[w].commit]
      BY <3>3 DEF Undisturbed
    <3>5. \A k \in PlayerId : k # PlayerOf(w)
      BY <2>3, ScoringAssumption DEF PlayerId, PlayerOf
    <3>6. CountsExact' /\ SlotsServe'
      BY <1>0, <1>1, <2>1, <3>2, <3>3, <3>4, <3>5, DoneKeeps DEF SameTables
    <3>7. CallHeld(w)'
      BY <3>2 DEF CallHeld, IdleCall
    <3>. QED BY <3>6, <3>7, HeldAlone DEF PlayerTurn
  <2>. QED BY <2>2, <2>3
<1>14. ASSUME FindPlayer(w) PROVE PlayerTurn'
  <2>1. Busy(w)
    BY <1>14 DEF FindPlayer, At, Busy, CreditedPc, AssignPc
  <2>. QED BY <1>12, <1>14, <2>1 DEF FindPlayer
<1>15. ASSUME CountForNewPlayer(w) PROVE PlayerTurn'
  <2>. DEFINE counts == CountUserCommits(PlayerOf(w).user, call[w].game)
              d == [call[w] EXCEPT !.pc = "newPlayer", !.counts = counts]
  <2>1. call' = [call EXCEPT ![w] = d] /\ Busy(w)
    BY <1>15 DEF CountForNewPlayer, At, Busy, CreditedPc, AssignPc
  <2>2. counts \in Counts
    BY CountsTyped
  <2>. HIDE DEF counts
  <2>3. d \in Call /\ d.pc = "newPlayer" /\ d.commit = call[w].commit /\ d.game = call[w].game
    BY <1>0, <2>2 DEF Call
  <2>. HIDE DEF d
  <2>. QED BY <1>8, <2>1, <2>3
<1>. QED BY <1>2, <1>4, <1>6, <1>7, <1>9, <1>10, <1>11, <1>13, <1>14, <1>15

(* The statements that work on the player.                                 *)
LEMMA AtPlayer ==
  ASSUME OwnInv, NEW w \in Workers, call[w].pc \in AssignPc
  PROVE  /\ Busy(w) /\ PlayerOf(w) \in PlayerId /\ BoardOf(w) \in BoardId
         /\ players[PlayerOf(w)] \in Player /\ players[PlayerOf(w)].slot \in Slots
         /\ call[w] \in Call /\ call[w].commit \in Commits
         /\ commits[call[w].commit].game = call[w].game
         /\ PlayerOf(w).user = AuthorOf[call[w].commit] /\ PlayerOf(w).game = call[w].game
<1>1. TypeInv /\ Ownership /\ call[w] \in Call /\ CallOK(call[w])
  BY CallHolds DEF OwnInv
<1>2. PlayerOf(w) \in PlayerId /\ BoardOf(w) \in BoardId
  BY <1>1, CallKeys DEF AssignPc
<1>3. players[PlayerOf(w)] \in Player
  BY <1>1, <1>2 DEF TypeInv, TypeOK
<1>4. players[PlayerOf(w)].slot \in Slots
  BY <1>3 DEF Player
<1>5. call[w].commit \in Commits /\ commits[call[w].commit].game = call[w].game
  BY <1>1 DEF CallOK, Ownership, CreditedPc, AssignPc
<1>6. Busy(w)
  BY DEF Busy, CreditedPc
<1>. QED BY <1>1, <1>2, <1>3, <1>4, <1>5, <1>6 DEF PlayerOf

(* A call goes on at another statement.                                    *)
LEMMA WentOn ==
  ASSUME TypeInv, NEW w \in Workers, NEW pc \in AssignPc, Goto(w, pc), Busy(w),
         commits' = commits
  PROVE  /\ GoesOn(w) /\ call'[w].pc = pc /\ call'[w].ids = call[w].ids
         /\ PlayerOf(w)' = PlayerOf(w) /\ BoardOf(w)' = BoardOf(w)
<1>. DEFINE d == [call[w] EXCEPT !.pc = pc]
<1>1. call' = [call EXCEPT ![w] = d]
  BY DEF Goto
<1>2. call'[w] = d /\ call[w] \in Call
  BY <1>1, CallStep
<1>3. d.pc = pc /\ d.commit = call[w].commit /\ d.game = call[w].game /\ d.ids = call[w].ids
  BY <1>2 DEF Call
<1>. HIDE DEF d
<1>. QED BY <1>2, <1>3 DEF GoesOn, Busy, CreditedPc, PlayerOf, BoardOf

LEMMA CreateTurn ==
  ASSUME Alone, OwnInv, PlayerTurn, NEW w \in Workers, CreatePlayer(w)
  PROVE  PlayerTurn'
<1>0. TypeInv /\ CountsExact /\ SlotsServe
  BY DEF OwnInv, PlayerTurn
<1>1. call[w].pc = "newPlayer" /\ Goto(w, "slots") /\ commits' = commits
  BY DEF CreatePlayer, At
<1>2. /\ Busy(w) /\ PlayerOf(w) \in PlayerId /\ players[PlayerOf(w)] \in Player
  BY <1>1, AtPlayer DEF AssignPc
<1>3. GoesOn(w) /\ call'[w].pc = "slots"
  BY <1>0, <1>1, <1>2, WentOn DEF AssignPc
<1>4. /\ players'[PlayerOf(w)] = UpsertedPlayer(players[PlayerOf(w)], call[w].counts)
      /\ \A k \in PlayerId : k # PlayerOf(w) => players'[k] = players[k]
  BY <1>0, <1>2 DEF CreatePlayer, TypeInv, TypeOK
<1>5. players'[PlayerOf(w)].slot = players[PlayerOf(w)].slot
  BY <1>2, <1>4 DEF UpsertedPlayer, Player
<1>6. Apart(players[PlayerOf(w)].slot)
  BY <1>0, <1>2 DEF SlotsServe
<1>7. CountsExact' /\ SlotsServe'
  BY <1>0, <1>3, <1>4, <1>5, <1>6, BusyKeeps DEF GoesOn
<1>8. CallHeld(w)'
  BY <1>3 DEF CallHeld
<1>. QED BY <1>7, <1>8, HeldAlone DEF PlayerTurn

LEMMA ReadSlotsTurn ==
  ASSUME Alone, OwnInv, PlayerTurn, NEW w \in Workers, ReadSlots(w)
  PROVE  PlayerTurn'
<1>0. TypeInv /\ CountsExact /\ SlotsServe
  BY DEF OwnInv, PlayerTurn
<1>1. call[w].pc = "slots" /\ commits' = commits /\ players' = players
  BY DEF ReadSlots, At, tables
<1>2. /\ Busy(w) /\ PlayerOf(w) \in PlayerId /\ BoardOf(w) \in BoardId
      /\ players[PlayerOf(w)].slot \in Slots /\ call[w] \in Call
  BY <1>1, AtPlayer DEF AssignPc
<1>. DEFINE ids == players[PlayerOf(w)].slot
            pc == IF Served(ids, BoardOf(w)) THEN "counts" ELSE "assign"
            d == [call[w] EXCEPT !.ids = ids, !.pc = pc]
<1>3. call' = [call EXCEPT ![w] = d]
  BY DEF ReadSlots, Served, Full, Has
<1>4. call'[w] = d
  BY <1>0, <1>3, CallStep
<1>5. d.pc = pc /\ d.ids = ids /\ d.commit = call[w].commit /\ d.game = call[w].game
  BY <1>2 DEF Call
<1>. HIDE DEF d
<1>6. GoesOn(w)
  BY <1>1, <1>2, <1>4, <1>5 DEF GoesOn, Busy, CreditedPc, AssignPc
<1>7. CountsExact' /\ SlotsServe'
  BY <1>0, <1>1, <1>6, SameRowsServe
<1>8. PlayerOf(w)' = PlayerOf(w) /\ BoardOf(w)' = BoardOf(w)
  BY <1>6 DEF GoesOn, PlayerOf, BoardOf
<1>9. CallHeld(w)'
  BY <1>1, <1>4, <1>5, <1>8 DEF CallHeld
<1>. QED BY <1>7, <1>9, HeldAlone DEF PlayerTurn

LEMMA AssignTurn ==
  ASSUME Alone, OwnInv, PlayerTurn, NEW w \in Workers, AssignBoards(w)
  PROVE  PlayerTurn'
<1>0. TypeInv /\ CountsExact /\ SlotsServe /\ CallHeld(w)
  BY HeldAlone DEF OwnInv, PlayerTurn
<1>1. call[w].pc = "assign" /\ Goto(w, "counts") /\ commits' = commits
  BY DEF AssignBoards, At
<1>2. /\ Busy(w) /\ PlayerOf(w) \in PlayerId /\ BoardOf(w) \in BoardId
      /\ players[PlayerOf(w)] \in Player /\ players[PlayerOf(w)].slot \in Slots
  BY <1>1, AtPlayer DEF AssignPc
<1>3. /\ GoesOn(w) /\ call'[w].pc = "counts"
      /\ PlayerOf(w)' = PlayerOf(w) /\ BoardOf(w)' = BoardOf(w)
  BY <1>0, <1>1, <1>2, WentOn DEF AssignPc
<1>. DEFINE slot == players[PlayerOf(w)].slot
            new == AssignedSlots(WantedSlots(slot, BoardOf(w)), slot)
<1>4. call[w].ids = slot /\ ~Served(slot, BoardOf(w)) /\ Apart(slot)
  BY <1>0, <1>1, <1>2 DEF CallHeld, SlotsServe
<1>5. /\ players'[PlayerOf(w)].slot = new
      /\ \A k \in PlayerId : k # PlayerOf(w) => players'[k] = players[k]
  BY <1>0, <1>2, <1>4 DEF AssignBoards, TypeInv, TypeOK, Player
<1>6. /\ Apart(new) /\ Served(new, BoardOf(w))
      /\ \A b \in BoardId : Served(slot, b) => Served(new, b)
  BY <1>2, <1>4, AssignServes
<1>. HIDE DEF new
<1>7. CountsExact' /\ SlotsServe'
  BY <1>0, <1>3, <1>5, <1>6, BusyKeeps DEF GoesOn
<1>8. CallHeld(w)'
  BY <1>3, <1>5, <1>6 DEF CallHeld
<1>. QED BY <1>7, <1>8, HeldAlone DEF PlayerTurn

LEMMA CountTurn ==
  ASSUME Alone, OwnInv, PlayerTurn, NEW w \in Workers, CountCommits(w) \/ SumBoards(w)
  PROVE  PlayerTurn'
<1>0. TypeInv /\ CountsExact /\ SlotsServe /\ CallHeld(w)
  BY HeldAlone DEF OwnInv, PlayerTurn
<1>1. /\ call[w].pc \in {"counts", "total"} /\ commits' = commits /\ players' = players
  BY DEF CountCommits, SumBoards, At, tables
<1>2. /\ Busy(w) /\ PlayerOf(w) \in PlayerId /\ call[w] \in Call
      /\ PlayerOf(w).user = AuthorOf[call[w].commit]
  BY <1>1, AtPlayer DEF AssignPc
<1>3. /\ call'[w].pc \in {"total", "update"}
      /\ call'[w].commit = call[w].commit /\ call'[w].game = call[w].game
      /\ call'[w].counts = CountUserCommits(AuthorOf[call[w].commit], call[w].game)
  <2>1. CASE CountCommits(w)
    <3>. DEFINE counts == CountUserCommits(PlayerOf(w).user, call[w].game)
                d == [call[w] EXCEPT !.pc = "total", !.counts = counts]
    <3>1. call' = [call EXCEPT ![w] = d]
      BY <2>1 DEF CountCommits
    <3>. HIDE DEF counts
    <3>2. call'[w] = d
      BY <1>0, <3>1, CallStep
    <3>3. d.pc = "total" /\ d.commit = call[w].commit /\ d.game = call[w].game /\ d.counts = counts
      BY <1>2 DEF Call
    <3>. QED BY <1>2, <3>2, <3>3 DEF counts
  <2>2. CASE SumBoards(w)
    <3>. DEFINE total == BoardTotal(call[w].ids)
                d == [call[w] EXCEPT !.pc = "update", !.total = total]
    <3>1. call' = [call EXCEPT ![w] = d] /\ call[w].pc = "total"
      BY <2>2 DEF SumBoards, At
    <3>. HIDE DEF total
    <3>2. call'[w] = d
      BY <1>0, <3>1, CallStep
    <3>3. /\ d.pc = "update" /\ d.commit = call[w].commit /\ d.game = call[w].game
          /\ d.counts = call[w].counts
      BY <1>2 DEF Call
    <3>. QED BY <1>0, <3>1, <3>2, <3>3 DEF CallHeld
  <2>. QED BY <2>1, <2>2
<1>4. GoesOn(w)
  BY <1>1, <1>2, <1>3 DEF GoesOn, Busy, CreditedPc, AssignPc
<1>5. CountsExact' /\ SlotsServe'
  BY <1>0, <1>1, <1>4, SameRowsServe
<1>6. PlayerOf(w)' = PlayerOf(w) /\ BoardOf(w)' = BoardOf(w)
  BY <1>4 DEF GoesOn, PlayerOf, BoardOf
<1>7. CountUserCommits(AuthorOf[call[w].commit], call[w].game)' =
        CountUserCommits(AuthorOf[call[w].commit], call[w].game)
  BY <1>1, <1>3 DEF CountUserCommits
<1>8. Served(players[PlayerOf(w)].slot, BoardOf(w))
  BY <1>0, <1>1 DEF CallHeld
<1>9. CallHeld(w)'
  BY <1>1, <1>3, <1>6, <1>7, <1>8 DEF CallHeld
<1>. QED BY <1>5, <1>9, HeldAlone DEF PlayerTurn

LEMMA UpdateTurn ==
  ASSUME Alone, OwnInv, Undisturbed, PlayerTurn, NEW w \in Workers, UpdatePlayerAnalysis(w)
  PROVE  PlayerTurn'
<1>0. TypeInv /\ CountsExact /\ SlotsServe /\ CallHeld(w)
  BY HeldAlone DEF OwnInv, PlayerTurn
<1>1. call[w].pc = "update" /\ Return(w) /\ commits' = commits
  BY DEF UpdatePlayerAnalysis, At
<1>2. /\ Busy(w) /\ PlayerOf(w) \in PlayerId /\ players[PlayerOf(w)] \in Player
      /\ call[w].commit \in Commits /\ commits[call[w].commit].game = call[w].game
      /\ PlayerOf(w).user = AuthorOf[call[w].commit] /\ PlayerOf(w).game = call[w].game
  BY <1>1, AtPlayer DEF AssignPc
<1>3. commits[call[w].commit].user = AuthorOf[call[w].commit]
  BY <1>2 DEF Undisturbed
<1>4. call'[w] = IdleCall /\ ~Busy(w)'
  <2>1. call'[w] = IdleCall
    BY <1>0, <1>1, CallStep DEF Return
  <2>. QED BY <2>1 DEF IdleCall, Busy, UncreditedPc, CreditedPc, AssignPc
<1>. DEFINE v == call[w].counts.commits + call[w].total
            row == [players[PlayerOf(w)] EXCEPT
                      !.status = "completed",
                      !.verified_points = v,
                      !.commit_count = call[w].counts.commits,
                      !.project_count = call[w].counts.projects]
<1>5. players' = [players EXCEPT ![PlayerOf(w)] = row]
  BY DEF UpdatePlayerAnalysis
<1>. HIDE DEF v
<1>6. /\ row.commit_count = call[w].counts.commits
      /\ row.project_count = call[w].counts.projects
      /\ row.slot = players[PlayerOf(w)].slot
  BY <1>2 DEF Player
<1>. HIDE DEF row
<1>7. /\ players'[PlayerOf(w)] = row
      /\ \A k \in PlayerId : k # PlayerOf(w) => players'[k] = players[k]
  BY <1>0, <1>2, <1>5 DEF TypeInv, TypeOK
<1>8. /\ call[w].counts = CountUserCommits(PlayerOf(w).user, PlayerOf(w).game)
      /\ Served(players[PlayerOf(w)].slot, BoardOf(w))
  BY <1>0, <1>1, <1>2 DEF CallHeld
<1>9. ASSUME NEW k \in PlayerId, k = PlayerOf(w) PROVE CountsShown(k)'
  BY <1>1, <1>6, <1>7, <1>8, <1>9 DEF CountsShown, CountUserCommits
<1>10. players'[PlayerOf(w)].slot = players[PlayerOf(w)].slot
  BY <1>6, <1>7
<1>11. CountsExact' /\ SlotsServe'
  BY <1>0, <1>1, <1>2, <1>3, <1>4, <1>7, <1>8, <1>9, <1>10, DoneKeeps
<1>12. CallHeld(w)'
  BY <1>4 DEF CallHeld, IdleCall
<1>. QED BY <1>11, <1>12, HeldAlone DEF PlayerTurn

LEMMA PlaceTurn ==
  ASSUME Alone, OwnInv, Undisturbed, PlayerTurn, NEW w \in Workers, SetCommitGame(w)
  PROVE  PlayerTurn'
<1>1. CountsExact' /\ SlotsServe'
  BY PlaceKeeps DEF PlayerTurn
<1>2. CallHeld(w)'
  BY SetCommitGameShape DEF CallHeld, OwnInv
<1>. QED BY <1>1, <1>2, HeldAlone DEF PlayerTurn

LEMMA TurnKept ==
  ASSUME Alone, OwnInv, Undisturbed, PlayerTurn, [Next]_vars
  PROVE  PlayerTurn'
<1>1. ASSUME UNCHANGED <<commits, players, call, claim>> PROVE PlayerTurn'
  <2>1. CountsExact' /\ SlotsServe'
    BY <1>1, RestKeeps DEF PlayerTurn, Busy
  <2>2. ReadsHold'
    BY <1>1 DEF PlayerTurn, ReadsHold, PlayerOf, BoardOf, CountUserCommits
  <2>. QED BY <2>1, <2>2 DEF PlayerTurn
<1>2. ASSUME NEW w \in Workers, AddCommit(w) PROVE PlayerTurn'
  BY <1>2, QuietTurn, PlaceTurn, CreateTurn, ReadSlotsTurn, AssignTurn, CountTurn, UpdateTurn
  DEF AddCommit
<1>. QED BY <1>1, <1>2, ElsewhereAlone DEF Next, Abandon, Alone, OwnInv

LEMMA InitExact == Init => ExactInv
<1>. SUFFICES ASSUME Init PROVE ExactInv
  OBVIOUS
<1>1. BonusInv /\ SlotInv
  BY InitBonus, InitSlots
<1>2. Undisturbed /\ BonusKnown /\ ReadsHold
  BY DEF Init, Undisturbed, BonusKnown, ReadsHold, IdleCall
<1>3. \A k \in PlayerId : OwnCommits(k.user, k.game) = {}
  BY CalendarAssumption DEF Init, OwnCommits, PlayerId
<1>4. CountsExact
  <2>. SUFFICES ASSUME NEW k \in PlayerId PROVE CountsShown(k)
    BY DEF CountsExact
  <2>1. CountUserCommits(k.user, k.game) = [commits |-> Cardinality({}), projects |-> Cardinality({})]
    <3>1. {ProjectOf[c] : c \in {}} = {}
      OBVIOUS
    <3>. QED BY <1>3, <3>1 DEF OwnCommits, CountUserCommits
  <2>. QED BY <2>1, FS_EmptySet DEF Init, NoPlayer, CountsShown
<1>5. SlotsServe
  BY <1>3 DEF Init, NoPlayer, NoSlots, SlotsServe, Apart
<1>6. BoardsExact
  <2>. SUFFICES ASSUME NEW b \in BoardId
                PROVE  LET n == Cardinality(ProjectCommits(b) \ InFlight)
                       IN  boards[b].commit_count = n /\ boards[b].points = Earnings(n)
    BY DEF BoardsExact
  <2>1. ProjectCommits(b) \ InFlight = {}
    BY CalendarAssumption DEF Init, ProjectCommits, BoardId
  <2>2. boards[b] = NoBoard /\ Cardinality({}) = 0
    BY FS_EmptySet DEF Init
  <2>. QED BY <2>1, <2>2 DEF NoBoard, Earnings
<1>. QED BY <1>1, <1>2, <1>4, <1>5, <1>6 DEF ExactInv, ExactBoardsInv

LEMMA NextExact ==
  ASSUME Alone
  PROVE  ExactInv /\ [Next]_vars => ExactInv'
<1>. SUFFICES ASSUME ExactInv, [Next]_vars PROVE ExactInv'
  OBVIOUS
<1>1. ExactBoardsInv' /\ SlotInv'
  BY ExactBoardsKept, NextSlots DEF ExactInv
<1>2. PlayerTurn'
  BY TurnKept DEF ExactInv, PlayerTurn, SlotInv, ExactBoardsInv
<1>. QED BY <1>1, <1>2 DEF ExactInv, PlayerTurn

LEMMA OneAdded ==
  ASSUME NEW S, NEW x, NEW n \in Nat, IsFiniteSet(S), Cardinality(S) = n
  PROVE  /\ IsFiniteSet(S \cup {x})
         /\ x \notin S => Cardinality(S \cup {x}) = n + 1
         /\ x \in S => Cardinality(S \cup {x}) = n
BY FS_AddElement

LEMMA TwoThings ==
  ASSUME NEW x, NEW y
  PROVE  /\ IsFiniteSet({x} \cup {y})
         /\ x # y => Cardinality({x} \cup {y}) = 2
         /\ Cardinality({x} \cup {y}) <= 2
<1>. DEFINE S == {x}
<1>1. IsFiniteSet(S) /\ Cardinality(S) = 1
  BY FS_Singleton
<1>2. y \in S <=> x = y
  OBVIOUS
<1>. HIDE DEF S
<1>3. /\ IsFiniteSet(S \cup {y})
      /\ y \notin S => Cardinality(S \cup {y}) = 1 + 1
      /\ y \in S => Cardinality(S \cup {y}) = 1
  BY <1>1, OneAdded
<1>4. IsFiniteSet(S \cup {y}) /\ (x # y => Cardinality(S \cup {y}) = 2) /\ Cardinality(S \cup {y}) <= 2
  BY <1>2, <1>3
<1>. QED BY <1>4 DEF S

LEMMA ThreeThings ==
  ASSUME NEW x, NEW y, NEW z, x # y, x # z, y # z
  PROVE  Cardinality(({x} \cup {y}) \cup {z}) = 3
<1>. DEFINE S == {x} \cup {y}
<1>1. IsFiniteSet(S) /\ Cardinality(S) = 2
  BY TwoThings
<1>2. z \notin S
  OBVIOUS
<1>. HIDE DEF S
<1>3. Cardinality(S \cup {z}) = 2 + 1
  BY <1>1, <1>2, OneAdded
<1>4. Cardinality(S \cup {z}) = 3
  BY <1>3
<1>. QED BY <1>4 DEF S

(* Three different things, at most.                                        *)
LEMMA HeldCount ==
  ASSUME NEW slot \in Slots, Apart(slot)
  PROVE  LET held == {slot[i] : i \in 1..3} \ {NULL}
         IN  /\ IsFiniteSet(held)
             /\ Full(slot) => Cardinality(held) = 3
             /\ ~Full(slot) => Cardinality(held) <= 2
<1>. DEFINE held == {slot[i] : i \in 1..3} \ {NULL}
<1>0. 1 \in 1..3 /\ 2 \in 1..3 /\ 3 \in 1..3 /\ 1 < 2 /\ 2 < 3 /\ 1 < 3
  OBVIOUS
<1>1. \A i \in 1..3 : i = 1 \/ i = 2 \/ i = 3
  OBVIOUS
<1>2. {slot[i] : i \in 1..3} = {slot[1], slot[2], slot[3]}
  BY <1>0, <1>1
<1>3. ASSUME Full(slot) PROVE held = {slot[1], slot[2], slot[3]} /\ Cardinality(held) = 3
  <2>1. slot[1] # NULL /\ slot[2] # NULL /\ slot[3] # NULL
    BY <1>0, <1>3 DEF Full
  <2>2. slot[1] # slot[2] /\ slot[1] # slot[3] /\ slot[2] # slot[3]
    BY <1>0, <2>1 DEF Apart
  <2>3. Cardinality(({slot[1]} \cup {slot[2]}) \cup {slot[3]}) = 3
    <3>. DEFINE a == slot[1]
                b == slot[2]
                c == slot[3]
    <3>1. a # b /\ a # c /\ b # c
      BY <2>2
    <3>. HIDE DEF a, b, c
    <3>2. Cardinality(({a} \cup {b}) \cup {c}) = 3
      BY <3>1, ThreeThings
    <3>. QED BY <3>2 DEF a, b, c
  <2>4. held = ({slot[1]} \cup {slot[2]}) \cup {slot[3]}
    BY <1>2, <2>1
  <2>. QED BY <2>3, <2>4
<1>4. IsFiniteSet({slot[1]} \cup {slot[2]}) /\ Cardinality({slot[1]} \cup {slot[2]}) <= 2
  BY TwoThings
<1>5. ASSUME ~Full(slot) PROVE held \subseteq {slot[1]} \cup {slot[2]}
  <2>1. slot[3] = NULL
    <3>1. slot[1] = NULL \/ slot[2] = NULL \/ slot[3] = NULL
      BY <1>1, <1>5 DEF Full
    <3>. QED BY <1>0, <3>1 DEF Apart
  <2>. QED BY <1>2, <2>1
<1>6. IsFiniteSet(held)
  <2>1. IsFiniteSet({slot[1]} \cup {slot[2]} \cup {slot[3]})
    BY <1>4, FS_AddElement
  <2>2. held \subseteq {slot[1]} \cup {slot[2]} \cup {slot[3]}
    BY <1>2
  <2>. QED BY <2>1, <2>2, FS_Subset
<1>7. ASSUME ~Full(slot) PROVE Cardinality(held) <= 2
  <2>1. Cardinality(held) <= Cardinality({slot[1]} \cup {slot[2]})
    BY <1>4, <1>5, <1>7, FS_Subset
  <2>2. Cardinality(held) \in Nat /\ Cardinality({slot[1]} \cup {slot[2]}) \in Nat
    BY <1>4, <1>6, FS_CardinalityType
  <2>. QED BY <1>4, <2>1, <2>2
<1>. QED BY <1>3, <1>6, <1>7

(* The projects of a player are as many as their boards.                   *)
LEMMA BoardsOfProjects ==
  ASSUME NEW P, IsFiniteSet(P), NEW g
  PROVE  /\ IsFiniteSet({[game |-> g, project |-> p] : p \in P})
         /\ Cardinality({[game |-> g, project |-> p] : p \in P}) = Cardinality(P)
<1>. DEFINE B == {[game |-> g, project |-> p] : p \in P}
            f == [p \in P |-> [game |-> g, project |-> p]]
<1>1. ASSUME NEW p \in P, NEW q \in P, f[p] = f[q] PROVE p = q
  <2>1. [game |-> g, project |-> p].project = p /\ [game |-> g, project |-> q].project = q
    OBVIOUS
  <2>. QED BY <1>1, <2>1
<1>2. f \in [P -> B] /\ \A b \in B : \E p \in P : f[p] = b
  OBVIOUS
<1>. HIDE DEF f, B
<1>3. f \in Bijection(P, B)
  BY <1>1, <1>2 DEF Bijection, Injection, Surjection, IsInjective
<1>4. IsFiniteSet(B) /\ Cardinality(B) = Cardinality(P)
  BY <1>3, FS_Bijection DEF ExistsBijection
<1>. QED BY <1>4 DEF B

(* Slots that are earned, apart and serve every project hold as many       *)
(* boards as there are projects, or three.                                 *)
LEMMA SlotsShown ==
  ASSUME TypeInv, SlotsEarned, SlotsServe, NEW k \in PlayerId, \A w \in Workers : ~Busy(w)
  PROVE  Cardinality(HeldBoards(k)) =
           IF Cardinality(OwnProjects(k.user, k.game)) > 3 THEN 3
           ELSE Cardinality(OwnProjects(k.user, k.game))
<1>. DEFINE slot == players[k].slot
            P == OwnProjects(k.user, k.game)
            B == {[game |-> k.game, project |-> p] : p \in P}
<1>1. slot \in Slots /\ Apart(slot)
  BY DEF TypeInv, TypeOK, Player, SlotsServe
<1>2. IsFiniteSet(P) /\ Cardinality(P) \in Nat
  BY OwnSets
<1>3. IsFiniteSet(B) /\ Cardinality(B) = Cardinality(P)
  <2>. HIDE DEF P
  <2>. QED BY <1>2, BoardsOfProjects
<1>4. HeldBoards(k) \subseteq B
  <2>. SUFFICES ASSUME NEW i \in 1..3, slot[i] # NULL PROVE slot[i] \in B
    BY DEF HeldBoards
  <2>1. Earned(k, slot[i]) /\ slot[i] \in BoardId
    BY <1>1, SlotsAreEarned DEF Slots
  <2>2. PICK c \in Commits : /\ commits[c].game = slot[i].game /\ ProjectOf[c] = slot[i].project
                             /\ commits[c].user = k.user /\ slot[i].game = k.game
    BY <2>1 DEF Earned, ProjectCommits
  <2>3. slot[i].project \in P
    BY <2>2 DEF OwnProjects, OwnCommits
  <2>4. slot[i] = [game |-> k.game, project |-> slot[i].project]
    BY <2>1, <2>2 DEF BoardId
  <2>. QED BY <2>3, <2>4
<1>5. /\ Full(slot) => Cardinality(HeldBoards(k)) = 3
      /\ ~Full(slot) => Cardinality(HeldBoards(k)) <= 2
      /\ IsFiniteSet(HeldBoards(k))
  BY <1>1, HeldCount DEF HeldBoards
<1>6. Cardinality(HeldBoards(k)) <= Cardinality(P) /\ Cardinality(HeldBoards(k)) \in Nat
  BY <1>3, <1>4, <1>5, FS_Subset, FS_CardinalityType
<1>7. ASSUME ~Full(slot) PROVE HeldBoards(k) = B
  <2>. SUFFICES ASSUME NEW p \in P PROVE [game |-> k.game, project |-> p] \in HeldBoards(k)
    BY <1>4
  <2>1. PICK c \in OwnCommits(k.user, k.game) : p = ProjectOf[c]
    BY DEF OwnProjects
  <2>2. BoardFor(c) = [game |-> k.game, project |-> p]
    BY <2>1 DEF BoardFor, OwnCommits
  <2>3. Served(slot, BoardFor(c)) /\ BoardFor(c) \in BoardId
    BY OwnBoards DEF SlotsServe
  <2>4. PICK i \in 1..3 : slot[i] = BoardFor(c)
    BY <1>7, <2>3 DEF Served, Has
  <2>5. slot[i] # NULL
    BY <2>3, <2>4, ScoringAssumption
  <2>. QED BY <2>2, <2>4, <2>5 DEF HeldBoards
<1>. HIDE DEF slot, P, B
<1>8. CASE Full(slot)
  BY <1>2, <1>5, <1>6, <1>8 DEF P
<1>9. CASE ~Full(slot)
  <2>1. Cardinality(HeldBoards(k)) = Cardinality(P) /\ Cardinality(P) <= 2
    BY <1>3, <1>5, <1>7, <1>9
  <2>. QED BY <1>2, <2>1 DEF P
<1>. QED BY <1>8, <1>9

(* With one goroutine and no failure, nothing is lost or awarded twice:    *)
(* once the pushes are scored, every board has each of its commits and one *)
(* bonus, and every player the counts and boards of the commits table,     *)
(* whatever games and scans came between (game.go:146-386).                *)
THEOREM ExactOnceScored ==
  ASSUME \A w, x \in Workers : w = x,
         ~Faults, Claimants = {}, Unlinkers = {}
  PROVE  Spec => []ExactWhenSettled
<1>1. Alone
  BY DEF Alone
<1>2. ASSUME ExactInv, Settled PROVE ExactWhenSettled
  <2>1. TypeInv /\ SlotsEarned /\ SlotsServe /\ CountsExact /\ BoardsExact
    BY <1>2 DEF ExactInv, ExactBoardsInv, SlotInv, OwnInv
  <2>2. \A w \in Workers : ~Busy(w)
    BY <1>2 DEF Settled, At, Busy, UncreditedPc, CreditedPc, AssignPc
  <2>3. ASSUME NEW b \in BoardId
        PROVE  LET n == Cardinality(ProjectCommits(b))
               IN  /\ boards[b].commit_count = n
                   /\ boards[b].points = IF n = 0 THEN 0 ELSE n * CommitPoints + ProjectPoints
    <3>1. InFlight = {}
      BY <1>2 DEF Settled, At, InFlight, UncreditedPc
    <3>2. ProjectCommits(b) \ InFlight = ProjectCommits(b)
      BY <3>1
    <3>. QED BY <2>1, <3>2 DEF BoardsExact, Earnings
  <2>4. ASSUME NEW k \in PlayerId
        PROVE  LET actual == CountUserCommits(k.user, k.game)
               IN  /\ players[k].commit_count = actual.commits
                   /\ players[k].project_count = actual.projects
                   /\ Cardinality(HeldBoards(k)) =
                        IF actual.projects > 3 THEN 3 ELSE actual.projects
    <3>1. CountsShown(k)
      BY <2>1, <2>2 DEF CountsExact
    <3>2. CountUserCommits(k.user, k.game).projects = Cardinality(OwnProjects(k.user, k.game))
      BY DEF CountUserCommits, OwnProjects, OwnCommits
    <3>. QED BY <2>1, <2>2, <3>1, <3>2, SlotsShown DEF CountsShown
  <2>. QED BY <2>3, <2>4 DEF ExactWhenSettled
<1>3. ExactInv => ExactWhenSettled
  BY <1>2 DEF ExactWhenSettled
<1>4. ExactInv /\ [Next]_vars => ExactInv'
  BY <1>1, NextExact
<1>. QED BY <1>3, <1>4, InitExact, PTL DEF Spec

=============================================================================
