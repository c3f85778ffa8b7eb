----------------------------- MODULE ScoreLedger -----------------------------
(***************************************************************************)
(* What scoring promises of the commits and boards tables, whatever the    *)
(* statements and their interleaving: a commit is placed in at most one    *)
(* game and stays there; a board is credited at most once per commit       *)
(* placed on it; each credit is worth commit_points, and the first one,    *)
(* perhaps others too, the project bonus.                                  *)
(***************************************************************************)
EXTENDS Integers, FiniteSets

CONSTANTS Commits, Projects, Games, ProjectOf, CommitPoints, ProjectPoints,
          MayMissBonus, \* whether a failed read may cost the project bonus
          NULL

VARIABLES
  home,    \* home[c]: the game commit c is placed in, or NULL
  credits, \* credits[b]: the commits board b was credited for
  points   \* points[b]

ledgerVars == <<home, credits, points>>

BoardId == [game : Games, project : Projects]

Placed(b) == {c \in Commits : home[c] = b.game /\ ProjectOf[c] = b.project}

Init ==
  /\ home = [c \in Commits |-> NULL]
  /\ credits = [b \in BoardId |-> 0]
  /\ points = [b \in BoardId |-> 0]

Place(c, g) ==
  /\ home[c] = NULL
  /\ home' = [home EXCEPT ![c] = g]
  /\ UNCHANGED <<credits, points>>

Credit(b, withBonus) ==
  /\ credits[b] < Cardinality(Placed(b))
  /\ credits[b] = 0 => withBonus \/ MayMissBonus
  /\ credits' = [credits EXCEPT ![b] = @ + 1]
  /\ points' = [points EXCEPT ![b] =
                  @ + CommitPoints + (IF withBonus THEN ProjectPoints ELSE 0)]
  /\ UNCHANGED home

Next ==
  \/ \E c \in Commits, g \in Games : Place(c, g)
  \/ \E b \in BoardId, withBonus \in BOOLEAN : Credit(b, withBonus)

Spec == Init /\ [][Next]_ledgerVars

=============================================================================
