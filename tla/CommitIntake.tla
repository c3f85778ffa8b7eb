---------------------------- MODULE CommitIntake ----------------------------
(***************************************************************************)
(* What the push webhook promises of commits: each one is stored once,     *)
(* waits, and is handed to scoring at most once.  GameScoring starts where *)
(* this ends: its fresh is waiting here.                                   *)
(***************************************************************************)
CONSTANT Commits

VARIABLES
  stored,   \* the commits that have a row
  waiting,  \* those some goroutine still has to hand to AddCommit
  handed    \* those AddCommit was called for

vars == <<stored, waiting, handed>>

Init == stored = {} /\ waiting = {} /\ handed = {}

(* An insert whose answer is lost leaves a row nobody hands over.          *)
Store(c) ==
  /\ c \notin stored
  /\ stored' = stored \cup {c}
  /\ waiting' \in {waiting, waiting \cup {c}}
  /\ UNCHANGED handed

HandOver(c) ==
  /\ c \in waiting
  /\ waiting' = waiting \ {c}
  /\ handed' = handed \cup {c}
  /\ UNCHANGED stored

(* A failing scan, a timeout or a restart: what waits is not retried.      *)
Lose ==
  /\ waiting' \subseteq waiting
  /\ UNCHANGED <<stored, handed>>

Next == (\E c \in Commits : Store(c) \/ HandOver(c)) \/ Lose

Spec == Init /\ [][Next]_vars

=============================================================================
