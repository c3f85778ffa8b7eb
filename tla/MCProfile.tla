------------------------------ MODULE MCProfile ------------------------------
(* The profile's pages for TLC: a run visits the webhooks or the settings.  *)
EXTENDS Profile, Settings, TLC

VARIABLE visit \* "hooks" or "settings"

Init ==
  /\ visit \in {"hooks", "settings"}
  /\ HooksInit /\ SettingsInit
  /\ visit = "hooks" => saved = CHOOSE n \in Names : TRUE

Next ==
  /\ UNCHANGED visit
  /\ \/ visit = "hooks" /\ HooksNext /\ UNCHANGED settingsVars
     \/ visit = "settings" /\ SettingsNext /\ UNCHANGED hookVars

Spec == Init /\ [][Next]_<<visit, hookVars, settingsVars>> /\ HooksFairness

(* Rows, requests, lists and names are what their queries and forms allow. *)
TypeOK == HooksTypeOK /\ SettingsTypeOK

=============================================================================
