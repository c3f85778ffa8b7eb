-------------------------- MODULE AccountDirectory --------------------------
(***************************************************************************)
(* What everyone may rely on of the users and user_identifiers tables,     *)
(* whichever logins and webhook requests write to them: an account stays,  *)
(* an address or provider key stays with the account that first held it,   *)
(* and a goroutine that claims commits for an account is given addresses   *)
(* the account holds.                                                      *)
(***************************************************************************)
CONSTANTS Accounts, Emails, Identities, NULL

VARIABLES
  accounts,    \* the accounts there are
  identifiers, \* the account that holds an address, or NULL
  logins,      \* the account that holds a provider's key, or NULL
  claims       \* the claims under way

directoryVars == <<accounts, identifiers, logins, claims>>

Claim == [user : Accounts, emails : SUBSET Emails]

Init ==
  /\ accounts = {}
  /\ identifiers = [e \in Emails |-> NULL]
  /\ logins = [i \in Identities |-> NULL]
  /\ claims = {}

Kept(holder, keys) == \A k \in keys : holder[k] # NULL => holder'[k] = holder[k]

Held(keys) == [keys -> accounts' \cup {NULL}]

Next ==
  /\ accounts \subseteq accounts' /\ accounts' \subseteq Accounts
  /\ identifiers' \in Held(Emails) /\ Kept(identifiers, Emails)
  /\ logins' \in Held(Identities) /\ Kept(logins, Identities)
  /\ \A k \in claims' \ claims :
       k \in Claim /\ \A e \in k.emails : identifiers'[e] = k.user

Spec == Init /\ [][Next]_directoryVars

=============================================================================
