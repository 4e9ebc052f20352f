------------------------------ MODULE Provider ------------------------------
(***************************************************************************)
(* The parts of a provider's turn: the call and its attempts (TurnEngine), *)
(* a request and its retries (HttpRetry), the stream (StreamDecoder), the  *)
(* answer in both protocols (ChatTurn, ResponsesTurn), the filters of the  *)
(* families (FamilyFilters) and what the next call is told (TurnHistory).  *)
(* They meet only in arguments and results, so a behaviour is one of one   *)
(* part, and the variables of the others rest in an initial state.         *)
(***************************************************************************)
EXTENDS TurnEngine

CONSTANTS
    Minute, Hints,                              \* HttpRetry
    Bodies,                                     \* StreamDecoder
    Answers,                                    \* ChatTurn
    Plans, MaxAgain,                            \* ResponsesTurn
    Texts, Marked,                              \* FamilyFilters
    Configs, CallIds, CallLists, Imports, MaxRuns, MaxSaid \* TurnHistory

VARIABLES
    part, \* whose behaviour this is
    \* HttpRetry
    httpTools, httpCloneable, httpRefreshable, httpPhase, httpAttempt,
    httpRefreshed, httpClock, httpWake, httpDue, httpWorked, httpAnswered,
    \* StreamDecoder
    streamBody, streamAt, streamPending, streamBuffer, streamScanned,
    streamHead, streamRaw, streamSse, streamApplied, streamResult,
    \* ChatTurn
    chatAnswer, chatSent, chatTold, chatSaid, chatShown, chatCalls,
    chatReason, chatOutcome,
    \* ResponsesTurn
    respPlan, respCur, respStep, respLetters, respLog, respAgain, respA,
    respOutcome,
    \* FamilyFilters
    filterFamily, filterText, filterMark, filterAt, filterPending,
    filterMode, filterVisible, filterReasoning, filterTurn,
    \* TurnHistory
    historySession, historyNow, historyConfig, historyPhase,
    historyImported, historyRuns, historySaid

httpVars == <<httpTools, httpCloneable, httpRefreshable, httpPhase,
    httpAttempt, httpRefreshed, httpClock, httpWake, httpDue, httpWorked,
    httpAnswered>>
streamVars == <<streamBody, streamAt, streamPending, streamBuffer,
    streamScanned, streamHead, streamRaw, streamSse, streamApplied,
    streamResult>>
chatVars == <<chatAnswer, chatSent, chatTold, chatSaid, chatShown, chatCalls,
    chatReason, chatOutcome>>
respVars == <<respPlan, respCur, respStep, respLetters, respLog, respAgain,
    respA, respOutcome>>
filterVars == <<filterFamily, filterText, filterMark, filterAt, filterPending,
    filterMode, filterVisible, filterReasoning, filterTurn>>
historyVars == <<historySession, historyNow, historyConfig, historyPhase,
    historyImported, historyRuns, historySaid>>
providerVars == <<part, vars, httpVars, streamVars, chatVars, respVars, filterVars,
                  historyVars>>

Http ==
    INSTANCE HttpRetry WITH
        tools <- httpTools,
        cloneable <- httpCloneable, refreshable <- httpRefreshable,
        phase <- httpPhase, attempt <- httpAttempt,
        refreshed <- httpRefreshed, clock <- httpClock, wake <- httpWake,
        due <- httpDue, worked <- httpWorked, answered <- httpAnswered
Decoder ==
    INSTANCE StreamDecoder WITH
        body <- streamBody, at <- streamAt,
        pending <- streamPending, buffer <- streamBuffer,
        scanned <- streamScanned, head <- streamHead, raw <- streamRaw,
        sse <- streamSse, applied <- streamApplied, result <- streamResult
Chat ==
    INSTANCE ChatTurn WITH
        answer <- chatAnswer, sent <- chatSent,
        told <- chatTold, said <- chatSaid, shown <- chatShown,
        calls <- chatCalls, reason <- chatReason, outcome <- chatOutcome
Responses ==
    INSTANCE ResponsesTurn WITH
        plan <- respPlan,
        cur <- respCur, step <- respStep, letters <- respLetters,
        log <- respLog, again <- respAgain, a <- respA,
        outcome <- respOutcome
Filters ==
    INSTANCE FamilyFilters WITH
        family <- filterFamily,
        text <- filterText, mark <- filterMark, at <- filterAt,
        pending <- filterPending, mode <- filterMode,
        visible <- filterVisible, reasoning <- filterReasoning,
        turn <- filterTurn
History ==
    INSTANCE TurnHistory WITH
        Calls <- CallIds, session <- historySession, now <- historyNow,
        config <- historyConfig, phase <- historyPhase,
        imported <- historyImported, runs <- historyRuns, said <- historySaid

ProviderAssumption ==
    /\ CallsAssumption /\ Http!TickAssumption /\ History!CallsAreNumbers
    /\ Decoder!BodiesAssumption /\ Chat!AnswersAssumption
    /\ Responses!PlansAssumption

\* An invariant that is about one part is only looked at in its behaviours.
Of(p, holds) == part = p => holds

ProviderInit ==
    /\ part \in {"engine", "http", "decoder", "chat", "responses", "filters", "history"}
    /\ part = "engine" \/ call = CHOOSE c \in Calls : TRUE
    /\ TurnInit
    /\ part = "http" \/ (httpTools = {} /\ httpCloneable = TRUE /\ httpRefreshable = TRUE)
    /\ Http!HttpInit
    /\ part = "decoder" \/ streamBody = CHOOSE b \in Bodies : TRUE
    /\ Decoder!StreamInit
    /\ part = "chat" \/ chatAnswer = CHOOSE x \in Answers : TRUE
    /\ Chat!ChatInit
    /\ part = "responses" \/ respPlan = CHOOSE p \in Plans : TRUE
    /\ Responses!ResponsesInit
    /\ part = "filters" \/ (filterFamily = "kimi" /\ filterText = <<>>)
    /\ Filters!FilterInit
    /\ part = "history" \/ historyImported = FALSE
    /\ History!HistoryInit

ProviderNext ==
    /\ UNCHANGED part
    /\ IF part = "engine" THEN Next ELSE UNCHANGED vars
    /\ IF part = "http" THEN Http!Next ELSE UNCHANGED httpVars
    /\ IF part = "decoder" THEN Decoder!Next ELSE UNCHANGED streamVars
    /\ IF part = "chat" THEN Chat!Next ELSE UNCHANGED chatVars
    /\ IF part = "responses" THEN Responses!Next ELSE UNCHANGED respVars
    /\ IF part = "filters" THEN Filters!Next ELSE UNCHANGED filterVars
    /\ IF part = "history" THEN History!Next ELSE UNCHANGED historyVars

ProviderSpec ==
    /\ ProviderInit /\ [][ProviderNext]_providerVars
    /\ part = "engine" => Fairness
    /\ part = "http" => Http!Fairness

-----------------------------------------------------------------------------
(* What was sent arrives, whole, once, in order and in its own channel:     *)
(* however it is cut into pieces (StreamDecoder), in whatever style it is   *)
(* told (ChatTurn, ResponsesTurn), and wherever its tags are cut            *)
(* (FamilyFilters).                                                         *)
AnswersArriveWhole ==
    /\ Of("decoder", Decoder!CutsDoNotMatter)
    /\ Of("chat", Chat!TextIsWhatWasSent)
    /\ Of("responses", Responses!TurnIsTheAnswer /\ Responses!HonestIsBelieved)
    /\ Of("filters", Filters!NoTagIsShown /\ Filters!SinkHasTheTurn
                     /\ Filters!MarksDivide /\ Filters!OnlySummariesGoOn)

(* Nothing that broke off, failed or is incomplete becomes a turn, and none *)
(* of its calls is executed.                                                *)
NoTurnFromAFailure ==
    /\ Of("decoder", Decoder!NoTurnFromATruncation)
    /\ Of("chat", Chat!OnlyWholeCallsRun /\ Chat!TurnSaysSomething)
    /\ Of("responses", Responses!NoTurnFromAFailure)

(* However often a request is sent, work that must not be done twice is     *)
(* done once, what is tried again is bounded and waits as long as the       *)
(* server asks, and the reader sees one attempt.                            *)
WorkIsAskedOnce ==
    /\ Of("engine", OneAttemptIsSeen /\ HostedWorkOnce
                    /\ RequestsBounded /\ OnlyAcceptedIsSent)
    /\ Of("http", Http!StatefulOnce /\ Http!ServerWaitIsKept /\ Http!WorkBounded)

(* Whatever provider told it, and whichever is asked next: a body holds     *)
(* what was said, once and in order, each call with its answer, behind the  *)
(* last system prompt (messages.rs, responses.rs).                          *)
HistoryIsTold ==
    Of("history", History!CallsAreAnswered /\ History!SaidOnceInOrder
                  /\ History!NothingIsForgotten /\ History!SystemIsReplaced)

(* A call of next_turn and a request end, whatever the server does or does  *)
(* not do.                                                                  *)
CallsEnd == (part = "engine" => Ends) /\ (part = "http" => Http!Ends)
=============================================================================
