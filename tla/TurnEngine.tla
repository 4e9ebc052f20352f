----------------------------- MODULE TurnEngine -----------------------------
(***************************************************************************)
(* One call of OpenAiCompatibleProvider::next_turn: up to three attempts,  *)
(* each with its own deadline; in an attempt a bearer, a request, one      *)
(* forced refresh after an answer 401, and, where the configuration asks   *)
(* for it, one more request without tools.  The other actors are the       *)
(* server, the network, the clock and the coordinator, which may drop the  *)
(* call.  What a body says is left to the modules of the decoder: here it  *)
(* shows something or nothing, and ends in a turn or in an error that may  *)
(* or may not be tried again.                                              *)
(***************************************************************************)
EXTENDS Naturals, FiniteSets

CONSTANTS
    Calls,     \* the requests and configurations, records as in CallOK
    MaxImages, \* DEEPSEEK_MAX_IMAGE_COUNT
    MaxUrl,    \* DEEPSEEK_MAX_EXTERNAL_URL_CHARS
    MaxInline, \* DEEPSEEK_MAX_INLINE_IMAGE_BYTES
    MaxBody    \* DEEPSEEK_MAX_REQUEST_BYTES

MaxAttempts == 3

ImageOK(i) ==
    /\ i.kind \in {"file", "url", "data", "other"}
    /\ i.role \in {"user", "tool", "assistant"}
    /\ i.supported \in BOOLEAN /\ i.size \in Nat /\ i.padding \in Nat

CallOK(c) ==
    /\ \A f \in {"deepseek", "tools", "hosted", "refreshable", "fallback"} :
            c[f] \in BOOLEAN
    /\ c.mode \in {"chat", "responses"}
    /\ c.size \in Nat
    /\ \A i \in c.images : ImageOK(i)

\* What the constants must be.
CallsAssumption == \A c \in Calls : CallOK(c)

VARIABLES
    call,      \* the request and the configuration: fixed
    phase,     \* where next_turn waits
    attempt,   \* 1..MaxAttempts
    refreshed, \* `retried` of stream_turn_with_auth
    bare,      \* the fallback without tools has been built in this attempt
    status,    \* the last status code
    hint,      \* its Retry-After: "none", "short" or "long" (over a minute)
    outcome,   \* "none", "turn", "error" or "dropped"
    shown,     \* the attempts whose text or reasoning the sink has been given
    sent,      \* how many requests were sent
    worked,    \* how many of them the server may have worked on
    refreshes  \* forced refreshes of the present attempt

vars == <<call, phase, attempt, refreshed, bare, status, hint, outcome,
          shown, sent, worked, refreshes>>

Success == {200}
Retryable == {429, 500}
ToolMode == {400, 500}
Statuses == {200, 400, 401, 404, 429, 500}
Worked == {200, 500}

\* ---------------------------------------------------------------- DeepSeek
DataBytes(i) ==
    LET bytes == (i.size * 3) \div 4
        pad == IF i.padding > 2 THEN 2 ELSE i.padding
    IN IF bytes > pad THEN bytes - pad ELSE 0

ReferenceAccepted(i) ==
    \/ i.kind = "file"
    \/ i.kind = "url" /\ i.size <= MaxUrl
    \/ i.kind = "data" /\ DataBytes(i) <= MaxInline

ImageAccepted(i) ==
    /\ i.role = "user" \/ (call.mode = "responses" /\ i.role = "tool")
    /\ i.supported
    /\ ReferenceAccepted(i)

ImagesAccepted ==
    call.deepseek =>
        /\ Cardinality(call.images) <= MaxImages
        /\ \A i \in call.images : ImageAccepted(i)

BodyAccepted(size) == call.deepseek /\ call.images # {} => size <= MaxBody

\* the message that tells the model it has no tools makes the body longer
BodySize == IF bare THEN call.size + 1 ELSE call.size

-----------------------------------------------------------------------------
TurnInit ==
    /\ call \in Calls
    /\ phase = "start" /\ attempt = 1
    /\ refreshed = FALSE /\ bare = FALSE
    /\ status = 0 /\ hint = "none"
    /\ outcome = "none"
    /\ shown = {} /\ sent = 0 /\ worked = 0 /\ refreshes = 0

\* Mutant: an attempt is repeated whatever its sink was given.
AgainAfterOutput(retryable, delay) ==
    attempt < MaxAttempts /\ delay # "long" /\ ~call.hosted /\ retryable

\* Mutant: a request with hosted work is repeated like any other.
AgainHosted(retryable, delay) ==
    attempt < MaxAttempts /\ delay # "long" /\ attempt \notin shown /\ retryable

\* whether an attempt that ended in an error is followed by another
Again(retryable, delay) ==
    /\ attempt < MaxAttempts
    /\ delay # "long"
    /\ attempt \notin shown
    /\ ~call.hosted
    /\ retryable

Fail(retryable, delay) ==
    /\ IF Again(retryable, delay)
       THEN phase' = "sleep" /\ UNCHANGED outcome
       ELSE phase' = "done" /\ outcome' = "error"
    /\ hint' = delay
    /\ UNCHANGED <<call, attempt, refreshed, bare, status, shown>>

Start ==
    /\ phase = "start"
    /\ ImagesAccepted /\ BodyAccepted(BodySize)
    /\ phase' = "bearer" /\ refreshed' = FALSE
    /\ UNCHANGED <<call, attempt, bare, status, hint, outcome, shown, sent,
                   worked, refreshes>>

Refuse ==
    /\ phase = "start"
    /\ ~(ImagesAccepted /\ BodyAccepted(BodySize))
    /\ Fail(FALSE, "none")
    /\ UNCHANGED <<sent, worked, refreshes>>

Bearer ==
    /\ phase \in {"bearer", "force"}
    /\ phase' = "send"
    /\ refreshed' = (refreshed \/ phase = "force")
    /\ refreshes' = IF phase = "force" THEN refreshes + 1 ELSE refreshes
    /\ UNCHANGED <<call, attempt, bare, status, hint, outcome, shown, sent,
                   worked>>

NoBearer ==
    /\ phase \in {"bearer", "force"}
    /\ Fail(FALSE, "none")
    /\ refreshes' = IF phase = "force" THEN refreshes + 1 ELSE refreshes
    /\ UNCHANGED <<sent, worked>>

\* The request is lost on the way, before the server works on it or after.
SendFails ==
    /\ phase = "send"
    /\ sent' = sent + 1
    /\ \E transient \in BOOLEAN : Fail(transient, "none")
    /\ \E reached \in {0, 1} : worked' = worked + reached
    /\ UNCHANGED refreshes

HeadArrives ==
    /\ phase = "send"
    /\ \E s \in Statuses, h \in {"none", "short", "long"} :
        /\ status' = s /\ hint' = h
        /\ worked' = IF s \in Worked THEN worked + 1 ELSE worked
        /\ phase' = CASE s \in Success                   -> "body"
                      [] s \in Retryable \cup {401}      -> "answered"
                      [] s \notin Success \cup Retryable \cup {401} -> "preview"
    /\ sent' = sent + 1
    /\ UNCHANGED <<call, attempt, refreshed, bare, outcome, shown, refreshes>>

\* A piece of the body that lets the sinks of the family pass something on.
Show ==
    /\ phase = "body"
    /\ shown' = shown \cup {attempt}
    /\ UNCHANGED <<call, phase, attempt, refreshed, bare, status, hint,
                   outcome, sent, worked, refreshes>>

\* A piece that cannot be read, a decoder that refuses what it was given, or
\* an end that comes too soon.
BodyFails ==
    /\ phase \in {"body", "preview"}
    /\ \E retryable \in BOOLEAN :
        /\ phase = "preview" => retryable
        /\ Fail(retryable, "none")
    /\ UNCHANGED <<sent, worked, refreshes>>

BodyEnds ==
    /\ phase \in {"body", "preview"}
    /\ phase' = "answered"
    /\ UNCHANGED <<call, attempt, refreshed, bare, status, hint, outcome,
                   shown, sent, worked, refreshes>>

\* Mutant: the refresh does not remember that it was made.
UnauthorizedAgain == status = 401 /\ call.refreshable

Unauthorized == status = 401 /\ ~refreshed /\ call.refreshable

Refresh ==
    /\ phase = "answered" /\ Unauthorized
    /\ phase' = "force"
    /\ UNCHANGED <<call, attempt, refreshed, bare, status, hint, outcome,
                   shown, sent, worked, refreshes>>

ToolsRefused == call.fallback /\ call.tools /\ ~bare /\ status \in ToolMode

\* Mutant: the longer request goes out without a look at its size.
DropToolsUnchecked ==
    /\ phase = "answered" /\ ~Unauthorized /\ ToolsRefused
    /\ bare' = TRUE /\ refreshed' = FALSE
    /\ phase' = "bearer"
    /\ UNCHANGED <<call, attempt, status, hint, outcome, shown, sent, worked,
                   refreshes>>

DropTools ==
    /\ phase = "answered" /\ ~Unauthorized /\ ToolsRefused
    /\ bare' = TRUE
    /\ phase' = "start"
    /\ UNCHANGED <<call, attempt, refreshed, status, hint, outcome, shown,
                   sent, worked, refreshes>>

Settle ==
    /\ phase = "answered" /\ ~Unauthorized /\ ~ToolsRefused
    /\ \/ /\ status \notin Success
          /\ Fail(status \in Retryable,
                  IF status \in Retryable THEN hint ELSE "none")
       \/ \* the whole turn does not pass validate_turn
          /\ status \in Success
          /\ Fail(TRUE, "none")
       \/ /\ status \in Success
          /\ phase' = "done" /\ outcome' = "turn"
          /\ UNCHANGED <<call, attempt, refreshed, bare, status, hint, shown>>
    /\ UNCHANGED <<sent, worked, refreshes>>

\* Mutant: the time for the head of an answer is not limited.
DeadlineOfBody ==
    /\ phase \in {"body", "preview"}
    /\ Fail(FALSE, "none")
    /\ UNCHANGED <<sent, worked, refreshes>>

\* tokio::time::timeout around the attempt, which can only cut it short where
\* the attempt waits
Deadline ==
    /\ phase \in {"bearer", "force", "send", "body", "preview"}
    /\ Fail(FALSE, "none")
    /\ UNCHANGED <<sent, worked, refreshes>>

Wake ==
    /\ phase = "sleep"
    /\ phase' = "start" /\ attempt' = attempt + 1
    /\ bare' = FALSE /\ refreshes' = 0
    /\ UNCHANGED <<call, refreshed, status, hint, outcome, shown, sent,
                   worked>>

\* The coordinator drops the call when its run is cancelled.
Drop ==
    /\ phase # "done"
    /\ phase' = "done" /\ outcome' = "dropped"
    /\ UNCHANGED <<call, attempt, refreshed, bare, status, hint, shown, sent,
                   worked, refreshes>>

Finished == phase = "done" /\ UNCHANGED vars

Next ==
    \/ Start \/ Refuse \/ Bearer \/ NoBearer \/ SendFails \/ HeadArrives \/ Show
    \/ BodyFails \/ BodyEnds \/ Refresh \/ DropTools \/ Settle \/ Deadline
    \/ Wake \/ Drop \/ Finished

\* what an attempt does without waiting for anyone
Run == Start \/ Refuse \/ Refresh \/ DropTools \/ Settle

\* The task runs and the timers fire; nothing is asked of the server, of the
\* network or of the source of the bearer.
Fairness == WF_vars(Run) /\ WF_vars(Deadline) /\ WF_vars(Wake)

Spec == TurnInit /\ [][Next]_vars /\ Fairness

-----------------------------------------------------------------------------
TypeOK ==
    /\ CallOK(call)
    /\ phase \in {"start", "bearer", "force", "send", "body", "preview",
                  "answered", "sleep", "done"}
    /\ attempt \in 1..MaxAttempts
    /\ refreshed \in BOOLEAN /\ bare \in BOOLEAN
    /\ status \in Statuses \cup {0}
    /\ hint \in {"none", "short", "long"}
    /\ outcome \in {"none", "turn", "error", "dropped"}
    /\ shown \subseteq 1..MaxAttempts
    /\ sent \in Nat /\ worked \in Nat /\ refreshes \in Nat

\* The reader of a stream never sees the beginning of two answers: whatever
\* text and reasoning the sink was given comes from one attempt, and it is the
\* attempt that ends the call (AttemptSink and the condition of the retry).
OneAttemptIsSeen == shown \subseteq {attempt} /\ Cardinality(shown) <= 1

\* Work that the provider hosts (a search, an image) is asked for once: unless
\* the fallback without tools is configured, no second request follows one
\* that the server may have worked on.
HostedWorkOnce == call.hosted /\ ~call.fallback => worked <= 1

\* The same for every configuration, which docs/api-reliability.md:8 promises:
\* "response failures on those operations are not replayed".  The fallback
\* without tools does not keep it.
HostedWorkNeverReplayed == call.hosted => worked <= 1

\* However the server answers, a call costs a bounded number of requests: two
\* for each bearer that is read, and one bearer more for a fallback.
RequestsBounded ==
    sent <= attempt * (IF call.refreshable THEN 2 ELSE 1)
                    * (IF call.fallback THEN 2 ELSE 1)

\* docs/api-reliability.md:8: "OAuth refresh remains separately bounded to one
\* refresh per attempt".  Not kept: the fallback may refresh once more.
OneRefreshPerAttempt == refreshes <= 1

\* Nothing that the rules for DeepSeek images refuse is ever on its way, in
\* any attempt, not even as the longer request of the fallback.
OnlyAcceptedIsSent ==
    phase \in {"bearer", "send", "force", "body", "preview"} =>
        ImagesAccepted /\ BodyAccepted(BodySize)

\* A call ends, whatever the server does or does not do: the deadline of the
\* attempt and the bound on attempts are enough.
Ends == <>(phase = "done")
=============================================================================
