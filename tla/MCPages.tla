------------------------------ MODULE MCPages ------------------------------
(* The pages for TLC: a run visits one of them, the others stand still.     *)
EXTENDS ProjectList, Standings, GamePages, Assistant, TLC

CONSTANTS c1, c2, c3, g1, g2, p1, p2

VARIABLE visit \* "list", "leaders", "projects", "languages", "game" or "assistant"

MCProjectOf == c1 :> p1 @@ c2 :> p1 @@ c3 :> p2
MCDayOf == c1 :> 1 @@ c2 :> 2 @@ c3 :> 2
MCSymmetry == Permutations(Chats) \cup Permutations(Models) \cup Permutations(Contestants \ Languages)
MCSearches == {Ids, {1, 3, 4}}

Init ==
  /\ visit \in {"list", "leaders", "projects", "languages", "game", "assistant"}
  /\ ListInit /\ LeadersInit /\ StandingsInit /\ PagesInit /\ AssistantInit

Next ==
  /\ UNCHANGED visit
  /\ \/ visit = "list" /\ ListNext /\ UNCHANGED <<leaderVars, standingVars, pageVars, assistantVars>>
     \/ visit = "leaders" /\ LeadersNext /\ UNCHANGED <<listVars, standingVars, pageVars, assistantVars>>
     \/ /\ visit \in {"projects", "languages"} /\ StandingsNext
        /\ chart'.kind \in {chart.kind, visit}
        /\ \A e \in Contestants \ Entrants(visit) : board'[e] = board[e]
        /\ UNCHANGED <<listVars, leaderVars, pageVars, assistantVars>>
     \/ visit = "game" /\ PagesNext /\ UNCHANGED <<listVars, leaderVars, standingVars, assistantVars>>
     \/ visit = "assistant" /\ AssistantNext /\ UNCHANGED <<listVars, leaderVars, standingVars, pageVars>>

Spec == Init /\ [][Next]_<<visit, listVars, leaderVars, standingVars, pageVars, assistantVars>>

(* Every table and every page has the shape its queries give it.           *)
TypeOK == ListTypeOK /\ LeadersTypeOK /\ StandingsTypeOK /\ PagesTypeOK /\ AssistantTypeOK

=============================================================================
