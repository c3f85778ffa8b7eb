-------------------------- MODULE AssistantProofs --------------------------
(***************************************************************************)
(* Proofs about Assistant, for every value of its constants.               *)
(***************************************************************************)
EXTENDS Assistant, TLAPS

-----------------------------------------------------------------------------
(* The inductive invariant, call by call                                   *)

(* A call that is under way alone is the only one.                         *)
AloneInv(c) == talk[c].alone /\ Active(c) => \A o \in Calls \ {c} : ~Active(o)

(* No session bears the name of a call that has not made one yet.          *)
UnmadeInv(c) ==
  talk[c].at \in {"idle", "fetch", "create", "webllm", "loading"} => c \notin gone /\ llmSession # c

ModelInv(c) ==
  talk[c].at \in {"create", "webllm", "loading", "refresh", "prompting", "crashed"} =>
    talk[c].model \in Models

(* Between its making and the prompt, a session made alone is the shared   *)
(* one or none is, and left in peace it can be prompted.                   *)
RefreshInv(c) ==
  talk[c].at = "refresh" /\ talk[c].alone =>
    /\ llmSession \in {c, NoOne}
    /\ talk[c].quiet => llmSession = c /\ ~Throws(c) /\ (talk[c].chrome \/ webllmEngine = talk[c].model)

AnsweredInv(c) ==
  /\ talk[c].at = "prompting" /\ talk[c].alone => talk[c].session = c
  /\ talk[c].at \in {"prompting", "crashed"} /\ talk[c].alone /\ talk[c].quiet =>
       talk[c].session = c /\ talk[c].by \in {Chrome, talk[c].model}

CallInv(c) == AloneInv(c) /\ UnmadeInv(c) /\ ModelInv(c) /\ RefreshInv(c) /\ AnsweredInv(c)

EngineInv == webllmEngine # NoOne => loadedModelId = webllmEngine

AssistantInv ==
  /\ AssistantTypeOK /\ EngineInv /\ SendComesBack
  /\ \A c \in Calls : CallInv(c)

-----------------------------------------------------------------------------
(* One call's step                                                         *)

LEMMA Names == NoOne \notin Calls /\ NoOne \notin Models /\ Chrome \notin Models /\ Chats \subseteq Calls
BY AssistantAssumption

LEMMA AloneField ==
  ASSUME NEW t \in Talk, NEW b \in BOOLEAN, NEW n, n = [t EXCEPT !.alone = b]
  PROVE  /\ n \in Talk
         /\ n.at = t.at /\ n.model = t.model /\ n.chrome = t.chrome /\ n.session = t.session
         /\ n.by = t.by /\ n.quiet = t.quiet /\ n.alone = b
BY DEF Talk

(* What a step of call c does at most: it moves c, and the shared session  *)
(* stays, goes or becomes c's.                                             *)
StepOf(c) ==
  /\ talk' \in [Calls -> Talk]
  /\ \A o \in Calls \ {c} : talk'[o] = talk[o]
  /\ llmSession' \in {llmSession, NoOne, c}
  /\ gone' \subseteq gone \cup ({llmSession} \ {NoOne})
  /\ webllmEngine' \in Models \cup {NoOne} /\ loadedModelId' \in Models \cup {NoOne}
  /\ modelSelect' = modelSelect /\ disabled' \in BOOLEAN
  /\ disabled' => disabled /\ (c \in Chats => Active(c)' \/ talk'[c].at = "crashed")

(* The other calls' invariants hold on, because a call under way beside c  *)
(* is not alone.                                                           *)
LEMMA OthersKeep ==
  ASSUME AssistantInv, NEW c \in Calls, Active(c), StepOf(c), EngineInv', CallInv(c)'
  PROVE  AssistantInv'
<1>1. AssistantTypeOK'
  BY DEF AssistantInv, AssistantTypeOK, StepOf
<1>2. SendComesBack'
  BY Names DEF AssistantInv, SendComesBack, StepOf, Active
<1>3. ASSUME NEW o \in Calls \ {c}
      PROVE  CallInv(o)'
  <2>1. talk'[o] = talk[o] /\ CallInv(o)
    BY <1>3 DEF StepOf, AssistantInv
  <2>2. ~(talk[o].alone /\ Active(o))
    BY <1>3, <2>1 DEF CallInv, AloneInv
  <2>3. AloneInv(o)' /\ RefreshInv(o)'
    BY <2>1, <2>2 DEF AloneInv, RefreshInv, Active
  <2>4. UnmadeInv(o)'
    BY <1>3, <2>1, Names DEF CallInv, UnmadeInv, StepOf
  <2>5. ModelInv(o)' /\ AnsweredInv(o)'
    BY <2>1 DEF CallInv, ModelInv, AnsweredInv
  <2>. QED BY <2>3, <2>4, <2>5 DEF CallInv
<1>. QED BY <1>1, <1>2, <1>3 DEF AssistantInv

(* A call that is over, however, has nothing left to keep.                 *)
LEMMA OverKeeps ==
  ASSUME AssistantInv, NEW c \in Calls, Active(c), NEW how \in {"done", "failed"}, Ends(c, how),
         llmSession' \in {llmSession, NoOne}, gone' \subseteq gone \cup ({llmSession} \ {NoOne}),
         UNCHANGED <<webllmEngine, loadedModelId, modelSelect>>
  PROVE  AssistantInv'
<1>1. /\ talk'[c] = [Idle EXCEPT !.at = how, !.chrome = talk[c].chrome]
      /\ StepOf(c)
  BY DEF Ends, Over, StepOf, Idle, AssistantInv, AssistantTypeOK, Talk
<1>2. CallInv(c)'
  BY <1>1 DEF CallInv, AloneInv, UnmadeInv, ModelInv, RefreshInv, AnsweredInv, Active, Idle
<1>3. EngineInv'
  BY DEF AssistantInv, EngineInv
<1>. QED BY <1>1, <1>2, <1>3, OthersKeep

(* A rejected prompt: a chat's is nobody's, a review gives up.             *)
LEMMA RejectedKeeps ==
  ASSUME AssistantInv, NEW c \in Calls, Rejected(c),
         \/ talk[c].at = "prompting"
         \/ talk[c].at = "refresh" /\ (llmSession = NoOne \/ Throws(llmSession)),
         UNCHANGED <<webllmEngine, loadedModelId, modelSelect>>
  PROVE  AssistantInv'
<1>1. Active(c) /\ CallInv(c) /\ EngineInv'
  BY DEF Active, AssistantInv, EngineInv
<1>2. CASE c \notin Chats
  <2>1. Ends(c, "failed") /\ DestroyLlmSession
    BY <1>2 DEF Rejected
  <2>2. llmSession' \in {llmSession, NoOne} /\ gone' \subseteq gone \cup ({llmSession} \ {NoOne})
    BY <2>1 DEF DestroyLlmSession
  <2>. QED BY <1>1, <2>1, <2>2, OverKeeps
<1>3. CASE c \in Chats
  <2>1. /\ talk' = [talk EXCEPT ![c].at = "crashed"]
        /\ UNCHANGED <<llmSession, gone, disabled>>
    BY <1>3 DEF Rejected, Goes
  <2>2. StepOf(c) /\ talk'[c] = [talk[c] EXCEPT !.at = "crashed"]
    BY <2>1 DEF StepOf, AssistantInv, AssistantTypeOK, Talk
  <2>3. talk[c].at = "refresh" => ~(talk[c].alone /\ talk[c].quiet)
    BY <1>1, Names DEF CallInv, RefreshInv
  <2>4. AnsweredInv(c)'
    BY <1>1, <2>2, <2>3 DEF CallInv, AnsweredInv, AssistantInv, AssistantTypeOK, Talk
  <2>5. AloneInv(c)' /\ UnmadeInv(c)' /\ ModelInv(c)' /\ RefreshInv(c)'
    BY <1>1, <2>2 DEF CallInv, AloneInv, UnmadeInv, ModelInv, RefreshInv, Active, AssistantInv, AssistantTypeOK, Talk
  <2>. QED BY <1>1, <2>2, <2>4, <2>5, OthersKeep DEF CallInv
<1>. QED BY <1>2, <1>3

(* A session just made is its maker's and can be prompted.                 *)
LEMMA MadeKeeps ==
  ASSUME AssistantInv, NEW c \in Calls, NEW chrome \in BOOLEAN, Made(c, chrome),
         talk[c].at \in {"create", "webllm", "loading"},
         ~chrome => webllmEngine' = talk[c].model,
         webllmEngine' \in Models \cup {NoOne}, loadedModelId' \in Models \cup {NoOne}, EngineInv',
         UNCHANGED <<gone, modelSelect, disabled>>
  PROVE  AssistantInv'
<1>1. Active(c) /\ CallInv(c)
  BY DEF Active, AssistantInv
<1>2. /\ talk'[c] = [talk[c] EXCEPT !.at = "refresh", !.chrome = chrome]
      /\ llmSession' = c /\ StepOf(c)
  <2>1. talk \in [Calls -> Talk] /\ talk[c] \in Talk /\ disabled \in BOOLEAN
    BY DEF AssistantInv, AssistantTypeOK
  <2>2. talk'[c] = [talk[c] EXCEPT !.at = "refresh", !.chrome = chrome] /\ llmSession' = c
    BY <2>1 DEF Made, Talk
  <2>3. talk'[c] \in Talk /\ talk'[c].at = "refresh"
    BY <2>1, <2>2 DEF Talk
  <2>4. talk' \in [Calls -> Talk] /\ \A o \in Calls \ {c} : talk'[o] = talk[o]
    BY <2>1, <2>3 DEF Made
  <2>. QED BY <2>1, <2>2, <2>3, <2>4 DEF StepOf, Active
<1>3. /\ talk'[c].at = "refresh" /\ talk'[c].chrome = chrome /\ talk'[c].model = talk[c].model
      /\ talk'[c].alone = talk[c].alone
  BY <1>2 DEF AssistantInv, AssistantTypeOK, Talk
<1>4. AloneInv(c)'
  BY <1>1, <1>2, <1>3 DEF CallInv, AloneInv, Active, StepOf
<1>5. c \notin gone' /\ talk[c].model \in Models
  BY <1>1 DEF CallInv, UnmadeInv, ModelInv
<1>6. RefreshInv(c)'
  BY <1>2, <1>3, <1>5, Names DEF RefreshInv, Throws
<1>7. UnmadeInv(c)' /\ ModelInv(c)' /\ AnsweredInv(c)'
  BY <1>3, <1>5 DEF UnmadeInv, ModelInv, AnsweredInv
<1>. QED BY <1>1, <1>2, <1>4, <1>6, <1>7, OthersKeep DEF CallInv

-----------------------------------------------------------------------------
(* Every step                                                              *)

LEMMA InitInv == AssistantInit => AssistantInv
<1>1. SUFFICES ASSUME AssistantInit
               PROVE  AssistantInv
  OBVIOUS
<1>2. Idle \in Talk
  BY DEF Idle, Talk
<1>3. AssistantTypeOK /\ EngineInv /\ SendComesBack
  BY <1>1, <1>2 DEF AssistantInit, AssistantTypeOK, EngineInv, SendComesBack
<1>4. ASSUME NEW c \in Calls
      PROVE  CallInv(c)
  <2>1. talk[c].at = "idle" /\ llmSession = NoOne /\ gone = {}
    BY <1>1 DEF AssistantInit, Idle
  <2>. QED BY <2>1, Names DEF CallInv, AloneInv, UnmadeInv, ModelInv, RefreshInv, AnsweredInv, Active
<1>. QED BY <1>3, <1>4 DEF AssistantInv

LEMMA StartKeeps == ASSUME AssistantInv, NEW c \in Calls, Start(c) PROVE AssistantInv'
<1> DEFINE others == \A o \in Calls : ~Active(o)
<1>1. talk \in [Calls -> Talk] /\ \A o \in Calls : CallInv(o)
  BY DEF AssistantInv, AssistantTypeOK
<1>2. /\ talk'[c] = [Idle EXCEPT !.at = "fetch", !.alone = others]
      /\ UNCHANGED <<llmSession, gone, webllmEngine, loadedModelId, modelSelect>>
      /\ talk[c].at = "idle"
  BY DEF Start
<1>3. /\ talk'[c] \in Talk /\ talk'[c].at = "fetch" /\ talk'[c].alone = others
  <2>1. others \in BOOLEAN
    OBVIOUS
  <2> HIDE DEF others
  <2>. QED BY <1>2, <2>1 DEF Idle, Talk
<1>4. ASSUME NEW o \in Calls \ {c}
      PROVE  /\ talk'[o] \in Talk
             /\ talk'[o].at = talk[o].at /\ talk'[o].model = talk[o].model
             /\ talk'[o].chrome = talk[o].chrome /\ talk'[o].session = talk[o].session
             /\ talk'[o].by = talk[o].by /\ talk'[o].quiet = talk[o].quiet
             /\ talk'[o].alone = (talk[o].alone /\ ~Active(o))
  <2> DEFINE b == talk[o].alone /\ ~Active(o)
  <2>1. talk'[o] = [talk[o] EXCEPT !.alone = b] /\ talk[o] \in Talk
    BY <1>1, <1>4 DEF Start
  <2>2. b \in BOOLEAN
    OBVIOUS
  <2> HIDE DEF b
  <2>3. /\ talk'[o] \in Talk
        /\ talk'[o].at = talk[o].at /\ talk'[o].model = talk[o].model
        /\ talk'[o].chrome = talk[o].chrome /\ talk'[o].session = talk[o].session
        /\ talk'[o].by = talk[o].by /\ talk'[o].quiet = talk[o].quiet /\ talk'[o].alone = b
    BY <2>1, <2>2, AloneField
  <2>. QED BY <2>3 DEF b
<1>5. AssistantTypeOK'
  <2>1. talk' = [d \in Calls |-> talk'[d]]
    BY DEF Start
  <2>2. \A d \in Calls : talk'[d] \in Talk
    BY <1>3, <1>4
  <2>3. talk' \in [Calls -> Talk]
    BY <2>1, <2>2
  <2>4. disabled' \in BOOLEAN
    BY DEF Start
  <2>. QED BY <1>2, <2>3, <2>4 DEF AssistantInv, AssistantTypeOK
<1>6. SendComesBack'
  <2>1. disabled' => disabled \/ c \in Chats
    BY DEF Start
  <2>2. \A o \in Chats : o # c => talk'[o].at = talk[o].at
    BY <1>4, Names
  <2>. QED BY <1>2, <1>3, <2>1, <2>2 DEF AssistantInv, SendComesBack, Active
<1>7. CallInv(c)'
  <2>1. c \notin gone /\ llmSession # c
    BY <1>1, <1>2 DEF CallInv, UnmadeInv
  <2>2. AloneInv(c)'
    BY <1>3, <1>4 DEF AloneInv, Active
  <2>. QED BY <1>2, <1>3, <2>1, <2>2 DEF CallInv, UnmadeInv, ModelInv, RefreshInv, AnsweredInv
<1>8. ASSUME NEW o \in Calls \ {c}
      PROVE  CallInv(o)'
  <2>1. CallInv(o)
    BY <1>1
  <2>2. AloneInv(o)' /\ RefreshInv(o)'
    BY <1>4 DEF AloneInv, RefreshInv, Active
  <2>3. UnmadeInv(o)' /\ ModelInv(o)'
    BY <1>2, <1>4, <2>1 DEF CallInv, UnmadeInv, ModelInv
  <2>4. AnsweredInv(o)'
    BY <1>4, <2>1 DEF CallInv, AnsweredInv
  <2>. QED BY <2>2, <2>3, <2>4 DEF CallInv
<1>. QED BY <1>2, <1>5, <1>6, <1>7, <1>8 DEF AssistantInv, EngineInv

(* A step between two awaits that makes no session and answers nobody.     *)
LEMMA MovesOn ==
  ASSUME AssistantInv, NEW c \in Calls, NEW model \in Models \cup {NoOne},
         NEW to \in {"create", "webllm", "loading"},
         talk[c].at \in {"fetch", "create", "webllm"},
         talk' = [talk EXCEPT ![c].at = to, ![c].model = model], model \in Models,
         llmSession' \in {llmSession, NoOne}, gone' \subseteq gone \cup ({llmSession} \ {NoOne}),
         webllmEngine' \in Models \cup {NoOne}, loadedModelId' \in Models \cup {NoOne}, EngineInv',
         UNCHANGED <<modelSelect, disabled>>
  PROVE  AssistantInv'
<1>1. Active(c) /\ CallInv(c)
  BY DEF Active, AssistantInv
<1>2. talk'[c] = [talk[c] EXCEPT !.at = to, !.model = model] /\ StepOf(c)
  <2>1. talk \in [Calls -> Talk] /\ talk[c] \in Talk
    BY DEF AssistantInv, AssistantTypeOK
  <2>2. talk'[c] = [talk[c] EXCEPT !.at = to, !.model = model]
    BY <2>1 DEF Talk
  <2>3. talk'[c] \in Talk /\ talk'[c].at = to
    BY <2>1, <2>2 DEF Talk
  <2>4. talk' \in [Calls -> Talk] /\ \A o \in Calls \ {c} : talk'[o] = talk[o]
    BY <2>1, <2>3
  <2>. QED BY <2>2, <2>3, <2>4 DEF StepOf, Active, AssistantInv, AssistantTypeOK
<1>3. talk'[c].at = to /\ talk'[c].model = model /\ talk'[c].alone = talk[c].alone
  BY <1>2 DEF AssistantInv, AssistantTypeOK, Talk
<1>4. AloneInv(c)'
  BY <1>1, <1>2, <1>3 DEF CallInv, AloneInv, Active, StepOf
<1>5. UnmadeInv(c)'
  BY <1>1, <1>3, Names DEF CallInv, UnmadeInv
<1>6. ModelInv(c)' /\ RefreshInv(c)' /\ AnsweredInv(c)'
  BY <1>3 DEF ModelInv, RefreshInv, AnsweredInv
<1>. QED BY <1>1, <1>2, <1>4, <1>5, <1>6, OthersKeep DEF CallInv

LEMMA RunKeeps == ASSUME AssistantInv, NEW c \in Calls, Run(c) PROVE AssistantInv'
<1>1. /\ CallInv(c) /\ EngineInv /\ modelSelect \in Models
      /\ talk \in [Calls -> Talk]
      /\ llmSession \in Calls \cup {NoOne} /\ webllmEngine \in Models \cup {NoOne}
      /\ loadedModelId \in Models \cup {NoOne}
  BY DEF AssistantInv, AssistantTypeOK, Talk
<1>2. DestroyLlmSession =>
        llmSession' \in {llmSession, NoOne} /\ gone' \subseteq gone \cup ({llmSession} \ {NoOne})
  BY DEF DestroyLlmSession
<1>3. CASE FetchContext(c)
  <2>1. talk[c].at = "fetch" /\ Active(c) /\ UNCHANGED <<webllmEngine, loadedModelId, modelSelect>> /\ EngineInv'
    BY <1>1, <1>3 DEF FetchContext, Active, EngineInv
  <2>2. CASE Ends(c, "failed") /\ UNCHANGED <<llmSession, gone>>
    BY <2>1, <2>2, OverKeeps
  <2>3. CASE /\ DestroyLlmSession /\ UNCHANGED disabled
             /\ talk' = [talk EXCEPT ![c].at = "create", ![c].model = modelSelect]
    BY <1>1, <1>2, <2>1, <2>3, MovesOn
  <2>. QED BY <1>3, <2>2, <2>3 DEF FetchContext
<1>4. ASSUME NEW to \in {"webllm", "loading"}, Goes(c, to), talk[c].at \in {"create", "webllm"}
      PROVE  talk' = [talk EXCEPT ![c].at = to, ![c].model = talk[c].model] /\ talk[c].model \in Models
  BY <1>1, <1>4 DEF Goes, CallInv, ModelInv
<1>5. CASE TryChromePromptAPI(c)
  <2>1. /\ talk[c].at = "create" /\ EngineInv'
        /\ UNCHANGED <<gone, webllmEngine, loadedModelId, modelSelect, disabled>>
    BY <1>1, <1>5 DEF TryChromePromptAPI, EngineInv
  <2>2. CASE Made(c, TRUE)
    BY <1>1, <2>1, <2>2, MadeKeeps
  <2>3. CASE Goes(c, "webllm") /\ UNCHANGED llmSession
    BY <1>1, <1>4, <2>1, <2>3, MovesOn
  <2>. QED BY <1>5, <2>2, <2>3 DEF TryChromePromptAPI
<1>6. CASE TryWebLLM(c)
  <2>1. talk[c].at = "webllm" /\ UNCHANGED <<gone, modelSelect, disabled>>
    BY <1>6 DEF TryWebLLM
  <2>2. CASE webllmEngine # NoOne /\ loadedModelId = talk[c].model
    <3>1. Made(c, FALSE) /\ UNCHANGED <<webllmEngine, loadedModelId>>
      BY <1>6, <2>2 DEF TryWebLLM
    <3>2. EngineInv' /\ webllmEngine' = talk[c].model
      BY <1>1, <2>2, <3>1 DEF EngineInv
    <3>. QED BY <1>1, <2>1, <3>1, <3>2, MadeKeeps
  <2>3. CASE ~(webllmEngine # NoOne /\ loadedModelId = talk[c].model)
    <3>1. /\ Goes(c, "loading") /\ webllmEngine' = NoOne /\ UNCHANGED llmSession
          /\ loadedModelId' \in {loadedModelId, NoOne}
      BY <1>6, <2>3 DEF TryWebLLM
    <3>2. EngineInv' /\ loadedModelId' \in Models \cup {NoOne}
      BY <1>1, <3>1 DEF EngineInv
    <3>. QED BY <1>1, <1>4, <2>1, <3>1, <3>2, MovesOn
  <2>. QED BY <2>2, <2>3
<1>7. CASE CreateEngine(c)
  <2>1. talk[c].at = "loading" /\ Active(c) /\ UNCHANGED <<gone, modelSelect>>
    BY <1>7 DEF CreateEngine, Active
  <2>2. CASE /\ Made(c, FALSE) /\ UNCHANGED disabled
             /\ webllmEngine' = talk[c].model /\ loadedModelId' = talk[c].model
    <3>1. EngineInv' /\ talk[c].model \in Models
      BY <1>1, <2>1, <2>2 DEF EngineInv, CallInv, ModelInv
    <3>. QED BY <2>1, <2>2, <3>1, MadeKeeps
  <2>3. CASE Ends(c, "failed") /\ UNCHANGED <<llmSession, webllmEngine, loadedModelId>>
    BY <2>1, <2>3, OverKeeps
  <2>. QED BY <1>7, <2>2, <2>3 DEF CreateEngine
<1>8. CASE Prompt(c)
  <2>1. /\ talk[c].at = "refresh" /\ Active(c) /\ EngineInv'
        /\ UNCHANGED <<webllmEngine, loadedModelId, modelSelect>>
    BY <1>1, <1>8 DEF Prompt, Active, EngineInv
  <2>2. CASE Ends(c, "failed") /\ UNCHANGED <<llmSession, gone>>
    BY <2>1, <2>2, OverKeeps
  <2>3. CASE Rejected(c) /\ (llmSession = NoOne \/ Throws(llmSession))
    BY <2>1, <2>3, RejectedKeeps
  <2>4. CASE /\ llmSession # NoOne /\ ~Throws(llmSession)
             /\ talk' = [talk EXCEPT ![c].at = "prompting", ![c].session = llmSession,
                                ![c].by = IF talk[llmSession].chrome THEN Chrome ELSE webllmEngine]
             /\ UNCHANGED <<llmSession, gone, disabled>>
    <3> DEFINE by == IF talk[llmSession].chrome THEN Chrome ELSE webllmEngine
    <3>1. by \in Models \cup {Chrome, NoOne}
      BY <1>1
    <3>2. /\ talk'[c] = [talk[c] EXCEPT !.at = "prompting", !.session = llmSession, !.by = by]
          /\ StepOf(c)
      <4>1. talk'[c] = [talk[c] EXCEPT !.at = "prompting", !.session = llmSession, !.by = by]
        BY <1>1, <2>4 DEF Talk
      <4>2. talk'[c] \in Talk /\ talk'[c].at = "prompting"
        <5>1. talk[c] \in Talk
          BY <1>1
        <5> HIDE DEF by
        <5>. QED BY <1>1, <3>1, <4>1, <5>1 DEF Talk
      <4>3. talk' \in [Calls -> Talk] /\ \A o \in Calls \ {c} : talk'[o] = talk[o]
        BY <1>1, <2>4, <4>2
      <4>. QED BY <2>1, <2>4, <4>1, <4>2, <4>3 DEF StepOf, Active, AssistantInv, AssistantTypeOK
    <3>3. /\ talk'[c].at = "prompting" /\ talk'[c].session = llmSession /\ talk'[c].by = by
          /\ talk'[c].alone = talk[c].alone /\ talk'[c].quiet = talk[c].quiet
          /\ talk'[c].model = talk[c].model
      BY <1>1, <3>2
    <3>4. AloneInv(c)'
      BY <1>1, <2>1, <3>2, <3>3 DEF CallInv, AloneInv, Active, StepOf
    <3>5. AnsweredInv(c)'
      BY <1>1, <2>1, <2>4, <3>3 DEF CallInv, RefreshInv, AnsweredInv
    <3>6. UnmadeInv(c)' /\ ModelInv(c)' /\ RefreshInv(c)'
      BY <1>1, <2>1, <3>3 DEF CallInv, UnmadeInv, ModelInv, RefreshInv
    <3>. QED BY <2>1, <3>2, <3>4, <3>5, <3>6, OthersKeep DEF CallInv
  <2>. QED BY <1>8, <2>2, <2>3, <2>4 DEF Prompt
<1>9. CASE Answered(c)
  <2>1. talk[c].at = "prompting" /\ Active(c) /\ UNCHANGED <<webllmEngine, loadedModelId, modelSelect>>
    BY <1>9 DEF Answered, Active
  <2>2. CASE Ends(c, "done") /\ (DestroyLlmSession \/ UNCHANGED <<llmSession, gone>>)
    BY <1>2, <2>1, <2>2, OverKeeps
  <2>3. CASE Rejected(c)
    BY <2>1, <2>3, RejectedKeeps
  <2>. QED BY <1>9, <2>2, <2>3 DEF Answered
<1>. QED BY <1>3, <1>5, <1>6, <1>7, <1>8, <1>9 DEF Run

(* Changing the model or deleting the cache ends the peace of the calls    *)
(* under way.                                                              *)
LEMMA DisturbKeeps ==
  ASSUME AssistantInv, Disturb,
         llmSession' \in {llmSession, NoOne}, gone' \subseteq gone \cup ({llmSession} \ {NoOne}),
         webllmEngine' \in {webllmEngine, NoOne}, loadedModelId' = loadedModelId,
         modelSelect' \in Models, disabled' = disabled
  PROVE  AssistantInv'
<1>1. /\ talk \in [Calls -> Talk]
      /\ \A c \in Calls : CallInv(c)
  BY DEF AssistantInv, AssistantTypeOK, Talk
<1>2. \A c \in Calls : talk'[c] = [talk[c] EXCEPT !.quiet = @ /\ ~Active(c)]
  BY DEF Disturb
<1>3. AssistantTypeOK'
  <2>1. \A c \in Calls : (talk[c].quiet /\ ~Active(c)) \in BOOLEAN
    OBVIOUS
  <2>. QED BY <1>1, <2>1 DEF Disturb, AssistantInv, AssistantTypeOK, Talk
<1>4. \A c \in Calls :
        /\ talk'[c].at = talk[c].at /\ talk'[c].model = talk[c].model /\ talk'[c].chrome = talk[c].chrome
        /\ talk'[c].session = talk[c].session /\ talk'[c].by = talk[c].by /\ talk'[c].alone = talk[c].alone
        /\ talk'[c].quiet = (talk[c].quiet /\ ~Active(c))
  <2> SUFFICES ASSUME NEW c \in Calls
      PROVE  /\ talk'[c].at = talk[c].at /\ talk'[c].model = talk[c].model
             /\ talk'[c].chrome = talk[c].chrome /\ talk'[c].session = talk[c].session
             /\ talk'[c].by = talk[c].by /\ talk'[c].alone = talk[c].alone
             /\ talk'[c].quiet = (talk[c].quiet /\ ~Active(c))
    OBVIOUS
  <2> DEFINE b == talk[c].quiet /\ ~Active(c)
  <2>1. talk'[c] = [talk[c] EXCEPT !.quiet = b] /\ talk[c] \in Talk
    BY <1>1, <1>2
  <2>2. b \in BOOLEAN
    OBVIOUS
  <2> HIDE DEF b
  <2>3. /\ talk'[c].at = talk[c].at /\ talk'[c].model = talk[c].model
        /\ talk'[c].chrome = talk[c].chrome /\ talk'[c].session = talk[c].session
        /\ talk'[c].by = talk[c].by /\ talk'[c].alone = talk[c].alone /\ talk'[c].quiet = b
    BY <2>1, <2>2, AloneField
  <2>. QED BY <2>3 DEF b
<1>5. EngineInv' /\ SendComesBack'
  BY <1>4, Names DEF AssistantInv, EngineInv, SendComesBack, Active
<1>6. ASSUME NEW c \in Calls
      PROVE  CallInv(c)'
  <2>1. CallInv(c)
    BY <1>1
  <2>2. AloneInv(c)' /\ ModelInv(c)' /\ AnsweredInv(c)'
    BY <1>4, <2>1 DEF CallInv, AloneInv, ModelInv, AnsweredInv, Active
  <2>3. UnmadeInv(c)'
    BY <1>4, <2>1, Names DEF CallInv, UnmadeInv
  <2>4. RefreshInv(c)'
    BY <1>4, <2>1 DEF CallInv, RefreshInv, Active
  <2>. QED BY <2>2, <2>3, <2>4 DEF CallInv
<1>. QED BY <1>3, <1>5, <1>6 DEF AssistantInv

LEMMA StepKeeps == AssistantInv /\ [AssistantNext]_assistantVars => AssistantInv'
<1>1. SUFFICES ASSUME AssistantInv, [AssistantNext]_assistantVars
               PROVE  AssistantInv'
  OBVIOUS
<1>2. ASSUME NEW m \in Models, SelectModel(m)
      PROVE  AssistantInv'
  BY <1>1, <1>2, DisturbKeeps DEF SelectModel, DestroyLlmSession
<1>3. CASE DeleteCachedModels
  BY <1>1, <1>3, DisturbKeeps DEF DeleteCachedModels, AssistantInv, AssistantTypeOK, Talk
<1>4. CASE UNCHANGED assistantVars
  BY <1>1, <1>4 DEF assistantVars, AssistantInv, AssistantTypeOK, EngineInv, SendComesBack, CallInv, AloneInv,
     UnmadeInv, ModelInv, RefreshInv, AnsweredInv, Active, Throws
<1>. QED BY <1>1, <1>2, <1>3, <1>4, StartKeeps, RunKeeps DEF AssistantNext

LEMMA Always == AssistantSpec => []AssistantInv
BY InitInv, StepKeeps, PTL DEF AssistantSpec

-----------------------------------------------------------------------------
(* Theorems                                                                *)

(* However many chats and reviews share the session and the engine, one    *)
(* that ran alone was answered under its own instructions, and in peace by *)
(* Chrome or the model chosen for it (analyzer.ts:223, llm.ts:137).        *)
THEOREM AnsweredAsAsked == AssistantSpec => []AnswersItsOwn
<1>1. AssistantInv => AnswersItsOwn
  BY DEF AssistantInv, CallInv, AnsweredInv, AnswersItsOwn
<1>. QED BY <1>1, Always, PTL

(* A Send button that is off belongs to a chat under way or one that broke *)
(* off, whatever else failed (analyzer.ts:168).                            *)
THEOREM SendAlwaysComesBack == AssistantSpec => []SendComesBack
<1>1. AssistantInv => SendComesBack
  BY DEF AssistantInv
<1>. QED BY <1>1, Always, PTL

=============================================================================
