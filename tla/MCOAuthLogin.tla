---------------------------- MODULE MCOAuthLogin ----------------------------
(* Instances of OAuthLogin for TLC: ann, whose repository's pushes may     *)
(* make her account and name either address, and bob, who committed to it. *)
EXTENDS OAuthLogin, TLC

CONSTANTS ann, bob, e1, e2, i1, i2

MCName == [i \in Identities |-> IF i = i1 THEN ann ELSE bob]
MCMails == [i \in Identities |-> IF i = i1 THEN {e1} ELSE {e2}]
MCCommitMails == [a \in Owners |-> {e1, e2}]

MCSymmetry == Permutations(Requests) \cup Permutations(States)

=============================================================================
