------------------------------ MODULE Settings ------------------------------
(***************************************************************************)
(* The name in a user's settings (internal/features/profile/profile.go):   *)
(* the users table, the copy the session keeps since the login, and the    *)
(* page that shows one of them.                                            *)
(***************************************************************************)
CONSTANTS
  Names,   \* names the form accepts
  Refused, \* names it does not: the empty one, and those over 120 bytes
  Blank    \* the name of a GitHub account without one

ASSUME SettingsAssumption == Refused \cap Names = {} /\ Blank \notin Names

VARIABLES
  saved,   \* users.name
  session, \* SessionUser.Name, in the session store
  page     \* the page shown: [name, note]

settingsVars == <<saved, session, page>>

NoPage == [name |-> Blank, note |-> "closed"]

SettingsInit ==
  /\ saved \in Names
  /\ session = saved
  /\ page = NoPage

SettingsTypeOK ==
  /\ saved \in Names
  /\ session \in Names
  /\ page \in [name : Names \cup Refused \cup {Blank}, note : {"closed", "none", "success", "error"}]

(* Settings, Overview: both show the session's name.                       *)
ShowName ==
  /\ page' = [name |-> session, note |-> "none"]
  /\ UNCHANGED <<saved, session>>

(* settingsNameFromRequest: what was typed comes back with an error.       *)
RefuseName(n) ==
  /\ page.note # "closed"
  /\ page' = [name |-> n, note |-> "error"]
  /\ UNCHANGED <<saved, session>>

(* UpdateSettings: the users table, and a session key that nothing reads;  *)
(* the user it changes is the request's copy of the session's.             *)
UpdateSettings(n) ==
  /\ page.note # "closed"
  /\ saved' = n
  /\ page' = [name |-> n, note |-> "success"]
  /\ UNCHANGED session

(* UpdateProfile fails before the row is written or, reading it, after.    *)
UpdateFails(n) ==
  /\ page.note # "closed"
  /\ saved' \in {saved, n}
  /\ page' = [name |-> n, note |-> "error"]
  /\ UNCHANGED session

(* A login takes GitHub's name, or keeps the saved one where that is empty;*)
(* the row it reads back is the session's.                                 *)
Login(n) ==
  /\ saved' = IF n = Blank THEN saved ELSE n
  /\ session' = saved'
  /\ page' = NoPage

SettingsNext ==
  \/ ShowName
  \/ \E n \in Refused : RefuseName(n)
  \/ \E n \in Names : UpdateSettings(n) \/ UpdateFails(n)
  \/ \E n \in Names \cup {Blank} : Login(n)

-----------------------------------------------------------------------------
(* What a comment says and the code does not do                            *)

(* profile.go:295, "persist back to the session store": a page that shows  *)
(* no error shows the name that is saved, after the save as on it.         *)
SavedNameShown == page.note \in {"none", "success"} => page.name = saved

=============================================================================
