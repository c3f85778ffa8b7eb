---------------------------- MODULE MCGameScoring ----------------------------
(* Instances of GameScoring for TLC.  Each MC... definition is the value a *)
(* cfg gives to one CONSTANT.                                              *)
EXTENDS GameScoring, TLC

CONSTANTS c1, c2, c3, c4, p1, p2, p3, p4, u1, u2, g1, g2, l1, l2

\* c1 and c2 on one project, c3 on another: both races of a board's first
\* commit and two boards for the slots of one player.
MCTwoProjects == [c \in Commits |-> IF c \in {c1, c2} THEN p1 ELSE p2]
\* c2 alone has a project of its own; c1 and c3 share the other.
MCSharedLast == [c \in Commits |-> IF c = c2 THEN p2 ELSE p1]
\* Every commit on a project of its own.
MCFourProjects == (c1 :> p1) @@ (c2 :> p2) @@ (c3 :> p3) @@ (c4 :> p4)

MCOneAuthor == [c \in Commits |-> u1]
\* Each player has a commit on p1, and u2 may have another project before it.
MCTwoAuthors == [c \in Commits |-> IF c = c1 THEN u1 ELSE u2]
\* c2 was pushed by someone without an account; u2 verifies every address,
\* the ones u1 committed under included.
MCOrphan == [c \in Commits |-> IF c = c2 THEN NULL ELSE u1]
MCNoOwner == [c \in Commits |-> NULL]
MCLateOwner == [c \in Commits |-> u2]

MCNoLanguages == [c \in Commits |-> {}]
\* c1 and c2 share l1; only c1's loop has a second turn.
MCLanguages == [c \in Commits |-> IF c = c1 THEN Languages ELSE IF c = c2 THEN {l1} ELSE {}]

\* One game on days 0-1, the other on days 1-2: day 1 is in both.
MCStart == [g \in Games |-> IF g = g1 THEN 0 ELSE 1]
MCEnd == [g \in Games |-> IF g = g1 THEN 1 ELSE 2]
MCSameDay == [c \in Commits |-> 1]
MCTwoDays == [c \in Commits |-> IF c = c1 THEN 1 ELSE 2]

=============================================================================
