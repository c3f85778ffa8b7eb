----------------------------- MODULE Assistant -----------------------------
(***************************************************************************)
(* The assistant of a project's page (web/js/analyzer.ts and llm.ts):      *)
(* chats and metric reviews run as async functions over one llmSession and *)
(* one WebLLM engine, and meet at each await.  The Send button is disabled *)
(* during a chat, but the Enter key sends all the same.                    *)
(***************************************************************************)
EXTENDS FiniteSets

CONSTANTS
  Calls,  \* calls of sendChat and runMetricAIReview
  Chats,  \* those of sendChat
  Models, \* the options of #llm-model-select
  Chrome, \* Chrome's built-in model
  NoOne

ASSUME AssistantAssumption ==
  Chats \subseteq Calls /\ Models # {} /\ Chrome \notin Models /\ NoOne \notin Calls \cup Models

VARIABLES
  talk,          \* talk[c]: where call c is; a session is named after its maker
  llmSession,    \* the session all calls share
  gone,          \* sessions of Chrome that were destroyed
  webllmEngine,  \* the model of the engine
  loadedModelId,
  modelSelect,   \* the model selected
  disabled       \* chatBtn.disabled

assistantVars ==
  <<talk, llmSession, gone, webllmEngine, loadedModelId, modelSelect, disabled>>

(* model is the one selected at the session's making, chrome whether Chrome *)
(* made it; session and by are what answers.  alone and quiet tell that no  *)
(* other call, and no change of the model or its cache, came in between.    *)
Talk ==
  [at : {"idle", "fetch", "create", "webllm", "loading", "refresh", "prompting", "done",
         "failed", "crashed"},
   model : Models \cup {NoOne}, chrome : BOOLEAN, session : Calls \cup {NoOne},
   by : Models \cup {Chrome, NoOne}, alone : BOOLEAN, quiet : BOOLEAN]
Idle == [at |-> "idle", model |-> NoOne, chrome |-> FALSE, session |-> NoOne,
         by |-> NoOne, alone |-> TRUE, quiet |-> TRUE]

Active(c) == talk[c].at \notin {"idle", "done", "failed", "crashed"}

AssistantInit ==
  /\ talk = [c \in Calls |-> Idle]
  /\ llmSession = NoOne /\ gone = {}
  /\ webllmEngine = NoOne /\ loadedModelId = NoOne /\ modelSelect \in Models
  /\ disabled = FALSE

AssistantTypeOK ==
  /\ talk \in [Calls -> Talk]
  /\ llmSession \in Calls \cup {NoOne} /\ gone \subseteq Calls
  /\ webllmEngine \in Models \cup {NoOne} /\ loadedModelId \in Models \cup {NoOne}
  /\ modelSelect \in Models /\ disabled \in BOOLEAN

-----------------------------------------------------------------------------
Goes(c, to) == talk' = [talk EXCEPT ![c].at = to]

Over(c, how) == talk' = [talk EXCEPT ![c] = [Idle EXCEPT !.at = how, !.chrome = talk[c].chrome]]

\* Mutant: a chat that gives up leaves the button as it is.
EndsQuietly(c, how) ==
  /\ Over(c, how)
  /\ disabled' = (disabled /\ (c \notin Chats \/ how = "failed"))

(* A chat that ends or gives up turns the button on again.                 *)
Ends(c, how) ==
  /\ Over(c, how)
  /\ disabled' = (disabled /\ c \notin Chats)

(* Only Chrome's sessions mind: WebLLM keeps its engine.                   *)
DestroyLlmSession ==
  /\ llmSession' = NoOne
  /\ gone' = gone \cup {s \in {llmSession} \ {NoOne} : talk[s].chrome}

Start(c) ==
  /\ talk[c].at = "idle"
  /\ talk' = [d \in Calls |->
       IF d = c THEN [Idle EXCEPT !.at = "fetch", !.alone = \A o \in Calls : ~Active(o)]
       ELSE [talk[d] EXCEPT !.alone = @ /\ ~Active(d)]]
  /\ disabled' = (disabled \/ c \in Chats)
  /\ UNCHANGED <<llmSession, gone, webllmEngine, loadedModelId, modelSelect>>

(* The context arrives or does not, and the shared session makes way.      *)
FetchContext(c) ==
  /\ talk[c].at = "fetch"
  /\ \/ Ends(c, "failed") /\ UNCHANGED <<llmSession, gone>>
     \/ /\ DestroyLlmSession
        /\ talk' = [talk EXCEPT ![c].at = "create", ![c].model = modelSelect]
        /\ UNCHANGED disabled
  /\ UNCHANGED <<webllmEngine, loadedModelId, modelSelect>>

Made(c, chrome) ==
  /\ talk' = [talk EXCEPT ![c].at = "refresh", ![c].chrome = chrome]
  /\ llmSession' = c

TryChromePromptAPI(c) ==
  /\ talk[c].at = "create"
  /\ \/ Made(c, TRUE)
     \/ Goes(c, "webllm") /\ UNCHANGED llmSession
  /\ UNCHANGED <<gone, webllmEngine, loadedModelId, modelSelect, disabled>>

\* Mutant: an engine is kept whatever its model.
KeepEngine(c) ==
  /\ talk[c].at = "webllm"
  /\ IF webllmEngine # NoOne THEN Made(c, FALSE) ELSE Goes(c, "loading") /\ UNCHANGED llmSession
  /\ UNCHANGED <<gone, webllmEngine, loadedModelId, modelSelect, disabled>>

(* An engine of the call's model is used, any other is given up.           *)
TryWebLLM(c) ==
  /\ talk[c].at = "webllm"
  /\ IF webllmEngine # NoOne /\ loadedModelId = talk[c].model
     THEN Made(c, FALSE) /\ UNCHANGED <<webllmEngine, loadedModelId>>
     ELSE /\ Goes(c, "loading")
          /\ webllmEngine' = NoOne
          /\ loadedModelId' = IF webllmEngine = NoOne THEN loadedModelId ELSE NoOne
          /\ UNCHANGED llmSession
  /\ UNCHANGED <<gone, modelSelect, disabled>>

CreateEngine(c) ==
  /\ talk[c].at = "loading"
  /\ \/ /\ Made(c, FALSE)
        /\ webllmEngine' = talk[c].model /\ loadedModelId' = talk[c].model
        /\ UNCHANGED disabled
     \/ Ends(c, "failed") /\ UNCHANGED <<llmSession, webllmEngine, loadedModelId>>
  /\ UNCHANGED <<gone, modelSelect>>

(* A prompt throws on a session gone, or on an engine cleared meanwhile.   *)
Throws(s) == IF talk[s].chrome THEN s \in gone ELSE webllmEngine = NoOne

(* A review catches it; a chat's rejection is nobody's and the button      *)
(* stays as it is.                                                         *)
Rejected(c) ==
  IF c \in Chats
  THEN Goes(c, "crashed") /\ UNCHANGED <<llmSession, gone, disabled>>
  ELSE Ends(c, "failed") /\ DestroyLlmSession

(* After refreshDeleteBtn a call prompts the shared session, which may be  *)
(* another call's by now; without one a chat throws and a review gives up. *)
Prompt(c) ==
  /\ talk[c].at = "refresh"
  /\ \/ llmSession = NoOne /\ c \notin Chats /\ Ends(c, "failed") /\ UNCHANGED <<llmSession, gone>>
     \/ llmSession = NoOne /\ c \in Chats /\ Rejected(c)
     \/ llmSession # NoOne /\ Throws(llmSession) /\ Rejected(c)
     \/ /\ llmSession # NoOne /\ ~Throws(llmSession)
        /\ talk' = [talk EXCEPT ![c].at = "prompting", ![c].session = llmSession,
                                ![c].by = IF talk[llmSession].chrome THEN Chrome ELSE webllmEngine]
        /\ UNCHANGED <<llmSession, gone, disabled>>
  /\ UNCHANGED <<webllmEngine, loadedModelId, modelSelect>>

(* The stream ends or breaks; Chrome's breaks when its session is gone.    *)
Answered(c) ==
  /\ talk[c].at = "prompting"
  /\ \/ /\ talk[c].by # Chrome \/ talk[c].session \notin gone
        /\ Ends(c, "done")
        /\ IF c \in Chats THEN UNCHANGED <<llmSession, gone>> ELSE DestroyLlmSession
     \/ Rejected(c)
  /\ UNCHANGED <<webllmEngine, loadedModelId, modelSelect>>

Disturb == talk' = [c \in Calls |-> [talk[c] EXCEPT !.quiet = @ /\ ~Active(c)]]

SelectModel(m) ==
  /\ m # modelSelect /\ modelSelect' = m
  /\ DestroyLlmSession /\ Disturb
  /\ UNCHANGED <<webllmEngine, loadedModelId, disabled>>

DeleteCachedModels ==
  /\ webllmEngine' = NoOne
  /\ Disturb
  /\ UNCHANGED <<llmSession, gone, loadedModelId, modelSelect, disabled>>

Run(c) ==
  \/ FetchContext(c) \/ TryChromePromptAPI(c) \/ TryWebLLM(c) \/ CreateEngine(c)
  \/ Prompt(c) \/ Answered(c)

AssistantNext ==
  \/ \E c \in Calls : Start(c) \/ Run(c)
  \/ \E m \in Models : SelectModel(m)
  \/ DeleteCachedModels

AssistantSpec == AssistantInit /\ [][AssistantNext]_assistantVars

-----------------------------------------------------------------------------
(* A call is answered under its own instructions when no other ran beside  *)
(* it, and, the model and its cache left in peace, by Chrome or the model   *)
(* selected for it, whatever loads and races went before; such a call only  *)
(* breaks off while it is being answered (analyzer.ts:223, llm.ts:137).     *)
AnswersItsOwn ==
  \A c \in Calls :
    /\ talk[c].at = "prompting" /\ talk[c].alone => talk[c].session = c
    /\ talk[c].at \in {"prompting", "crashed"} /\ talk[c].alone /\ talk[c].quiet =>
         talk[c].session = c /\ talk[c].by \in {Chrome, talk[c].model}

(* The Send button is only off while a chat is under way, or after one     *)
(* broke off: no failed fetch, load or review leaves it off                *)
(* (analyzer.ts:168).                                                      *)
SendComesBack ==
  disabled => \E c \in Chats : Active(c) \/ talk[c].at = "crashed"

=============================================================================
