---------------------------- MODULE GameCalendar ----------------------------
(***************************************************************************)
(* The games table and the clock: which game a moment belongs to.          *)
(*                                                                         *)
(* internal/services/game.go creates a game with up to two statements (an  *)
(* UPDATE that deactivates every game, then an INSERT) that share no       *)
(* transaction, and finds the game of a commit or of "now" with            *)
(* GetActiveGameAtTime.  A row never disappears and nothing in the program *)
(* reactivates one: ActivateGame has no caller.                            *)
(***************************************************************************)
EXTENDS Integers

CONSTANTS
  Games,      \* the rows a creategame run may insert
  Admins,     \* concurrent creategame processes
  StartsAt,   \* games.starts_at, in whatever unit the instance chooses
  EndsAt,     \* games.ends_at
  MaxTime,    \* bound on the clock
  NULL        \* SQL NULL, and "nothing" in a Go variable

ASSUME CalendarAssumption ==
  /\ StartsAt \in [Games -> Nat]
  /\ EndsAt \in [Games -> Nat]
  /\ MaxTime \in Nat
  /\ NULL \notin Games

VARIABLES
  gameRow,    \* gameRow[g]: "absent", or is_active as "active"/"inactive"
  now,        \* time.Now()
  creating    \* creating[a]: the game process a has yet to INSERT

calendarVars == <<gameRow, now, creating>>

CalendarTypeOK ==
  /\ gameRow \in [Games -> {"absent", "active", "inactive"}]
  /\ now \in 0..MaxTime
  /\ creating \in [Admins -> Games \cup {NULL}]

CalendarInit ==
  /\ gameRow \in [Games -> {"absent", "active"}]
  /\ \A g \in Games : gameRow[g] = "active" => StartsAt[g] < EndsAt[g]
  /\ now = 0
  /\ creating = [a \in Admins |-> NULL]

-----------------------------------------------------------------------------

Covers(g, t) == StartsAt[g] <= t /\ t <= EndsAt[g]

(* The rows ORDER BY starts_at DESC LIMIT 1 may return: several only when  *)
(* games start at the same moment, none when the query finds no row and    *)
(* GetActiveGameAt answers ErrNoActiveGame.                                *)
GamesAt(t) ==
  LET active == {g \in Games : gameRow[g] = "active" /\ Covers(g, t)}
  IN  {g \in active : \A h \in active : StartsAt[h] <= StartsAt[g]}

LatestEnded(t) ==
  LET ended == {g \in Games : gameRow[g] # "absent" /\ EndsAt[g] <= t}
  IN  {g \in ended : \A h \in ended : EndsAt[h] <= EndsAt[g]}

ActiveOrLatest(t) == IF GamesAt(t) # {} THEN GamesAt(t) ELSE LatestEnded(t)

-----------------------------------------------------------------------------

Tick ==
  /\ now < MaxTime
  /\ now' = now + 1
  /\ UNCHANGED <<gameRow, creating>>

(* CreateGame(isActive, deactivateOthers): the UPDATE that comes first.    *)
DeactivateAllGames(a, g) ==
  /\ creating[a] = NULL
  /\ gameRow[g] = "absent" /\ \A b \in Admins : creating[b] # g
  /\ StartsAt[g] < EndsAt[g]
  /\ gameRow' = [h \in Games |->
                   IF gameRow[h] = "active" THEN "inactive" ELSE gameRow[h]]
  /\ creating' = [creating EXCEPT ![a] = g]
  /\ UNCHANGED now

(* ... and the INSERT that ends it; its failure leaves the games inactive. *)
InsertGame(a) ==
  /\ creating[a] # NULL
  /\ gameRow' = [gameRow EXCEPT ![creating[a]] = "active"]
  /\ creating' = [creating EXCEPT ![a] = NULL]
  /\ UNCHANGED now

InsertGameFails(a) ==
  /\ creating[a] # NULL
  /\ creating' = [creating EXCEPT ![a] = NULL]
  /\ UNCHANGED <<gameRow, now>>

(* CreateGame without deactivateOthers, or of an inactive game.            *)
CreateGameOnly(g, isActive) ==
  /\ gameRow[g] = "absent" /\ \A b \in Admins : creating[b] # g
  /\ StartsAt[g] < EndsAt[g]
  /\ gameRow' = [gameRow EXCEPT ![g] = IF isActive THEN "active" ELSE "inactive"]
  /\ UNCHANGED <<now, creating>>

CalendarNext ==
  \/ Tick
  \/ \E a \in Admins :
       \/ \E g \in Games : DeactivateAllGames(a, g)
       \/ InsertGame(a)
       \/ InsertGameFails(a)
  \/ \E g \in Games, isActive \in BOOLEAN : CreateGameOnly(g, isActive)

=============================================================================
