----------------------------- MODULE HttpRetry ------------------------------
(***************************************************************************)
(* send_http and the retries of send_http_request beneath it: a request is *)
(* sent again after some answers and some failures, unless the server may  *)
(* have done work that must not be done twice, and never sooner than the   *)
(* server asks for; an answer 401 leads to one refresh of the bearer.      *)
(* Time is counted in ticks; a minute is `Minute` of them.                 *)
(***************************************************************************)
EXTENDS Naturals

CONSTANTS
    Minute,   \* the longest wait before a retry, in ticks
    Hints     \* the waits a server may ask for, in ticks, NoHint apart

\* What the constants must be.
TickAssumption == Minute \in Nat \ {0} /\ Hints \subseteq Nat

MaxHttpAttempts == 3
NoHint == 0
Backoff == 1

VARIABLES
    tools,     \* the types of the tools in the body
    cloneable, \* the body can be sent again
    refreshable,
    phase,     \* "bearer", "force", "send", "sleep" or "done"
    attempt, refreshed,
    clock,     \* ticks since the call began
    wake,      \* when the sleep ends
    due,       \* before when the server does not want to be asked again
    worked,    \* how often the server may have done the work
    answered   \* the call ended with an answer, which may be a refusal

vars == <<tools, cloneable, refreshable, phase, attempt, refreshed, clock,
          wake, due, worked, answered>>

Call == <<tools, cloneable, refreshable>>

\* Mutant: every request may be replayed.
PolicyReplayable == "Replayable"

Policy == IF \E t \in tools : t # "function" THEN "ConnectOnly" ELSE "Replayable"

Retryable == {429, 500}
Statuses == {200, 401, 404, 429, 500}
Failures == {"connect", "timeout", "closed", "other"}
\* after these the work may have been done
Late == {"timeout", "closed", "other"}
Worked == {200, 500}

HttpInit ==
    /\ tools \in SUBSET {"function", "web_search"}
    /\ cloneable \in BOOLEAN /\ refreshable \in BOOLEAN
    /\ phase = "bearer" /\ attempt = 1 /\ refreshed = FALSE
    /\ clock = 0 /\ wake = 0 /\ due = 0 /\ worked = 0
    /\ answered = FALSE

Bearer ==
    /\ phase \in {"bearer", "force"}
    /\ phase' = "send" /\ attempt' = 1
    /\ refreshed' = (refreshed \/ phase = "force")
    /\ UNCHANGED <<Call, clock, wake, due, worked, answered>>

NoBearer ==
    /\ phase \in {"bearer", "force"}
    /\ phase' = "done"
    /\ UNCHANGED <<Call, attempt, refreshed, clock, wake, due, worked, answered>>

\* Mutant: the wait is the program's own, whatever the server asked for.
DelayOwn(hint) == Backoff

Delay(hint) == IF hint = NoHint THEN Backoff ELSE hint

\* Mutant: one attempt more.
RetriesOneMore(retryable, hint) ==
    retryable /\ attempt <= MaxHttpAttempts /\ cloneable /\ Delay(hint) <= Minute

Retries(retryable, hint) ==
    retryable /\ attempt < MaxHttpAttempts /\ cloneable /\ Delay(hint) <= Minute

Sleep(hint) == phase' = "sleep" /\ wake' = clock + Delay(hint)

SendFails ==
    /\ phase = "send"
    /\ \E f \in Failures :
        LET retryable == IF Policy = "Replayable" THEN f # "other"
                         ELSE f = "connect" IN
        /\ worked' = IF f \in Late THEN worked + 1 ELSE worked
        /\ IF Retries(retryable, NoHint)
           THEN Sleep(NoHint)
           ELSE phase' = "done" /\ UNCHANGED wake
    /\ UNCHANGED <<Call, attempt, refreshed, clock, due, answered>>

Answer ==
    /\ phase = "send"
    /\ \E s \in Statuses, hint \in Hints \cup {NoHint} :
        /\ worked' = IF s \in Worked THEN worked + 1 ELSE worked
        /\ IF Retries(Policy = "Replayable" /\ s \in Retryable, hint)
           THEN Sleep(hint) /\ due' = clock + hint /\ UNCHANGED answered
           ELSE /\ phase' = IF s = 401 /\ ~refreshed /\ refreshable
                            THEN "force" ELSE "done"
                /\ answered' = (phase' = "done")
                /\ UNCHANGED <<wake, due>>
    /\ UNCHANGED <<Call, attempt, refreshed, clock>>

\* Mutant: the attempts are not counted.
WakeUncounted ==
    /\ phase = "sleep" /\ clock >= wake
    /\ phase' = "send" /\ clock' = 0 /\ wake' = 0 /\ due' = 0
    /\ UNCHANGED <<Call, attempt, refreshed, worked, answered>>

Wake ==
    /\ phase = "sleep" /\ clock >= wake
    /\ phase' = "send" /\ attempt' = attempt + 1
    /\ UNCHANGED <<Call, refreshed, clock, wake, due, worked, answered>>

\* Time only matters while the task sleeps; it passes at most once too often.
Tick ==
    /\ phase = "sleep" /\ clock <= wake
    /\ clock' = clock + 1
    /\ UNCHANGED <<Call, phase, attempt, refreshed, wake, due, worked, answered>>

Finished == phase = "done" /\ UNCHANGED vars

Next ==
    \/ Bearer \/ NoBearer \/ SendFails \/ Answer \/ Wake \/ Tick \/ Finished

\* The client's own limits on connecting and reading end every wait for the
\* network (HttpClientTuning), and the source of the bearer answers.
Fairness ==
    /\ WF_vars(Bearer \/ NoBearer) /\ WF_vars(SendFails \/ Answer)
    /\ WF_vars(Wake) /\ WF_vars(Tick)

Spec == HttpInit /\ [][Next]_vars /\ Fairness

-----------------------------------------------------------------------------
TypeOK ==
    /\ tools \subseteq {"function", "web_search"}
    /\ cloneable \in BOOLEAN /\ refreshable \in BOOLEAN
    /\ phase \in {"bearer", "force", "send", "sleep", "done"}
    /\ attempt \in 1..MaxHttpAttempts /\ refreshed \in BOOLEAN
    /\ clock \in Nat /\ wake \in Nat /\ due \in Nat /\ worked \in Nat
    /\ answered \in BOOLEAN

\* A request with hosted work is never sent a second time once the server may
\* have begun on it, also not by way of a refresh (HttpRetryPolicy: "Stateful
\* operations may retry connection setup failures, before a request was sent").
StatefulOnce == (\E t \in tools : t # "function") => worked <= 1

\* No request is sent sooner than the server asked for, and the program does
\* not sit out a wait of more than a minute.
ServerWaitIsKept ==
    /\ phase = "send" => clock >= due
    /\ phase = "sleep" => wake - clock <= Minute

\* Whatever the answers, the work is asked for at most three times for each
\* bearer, of which there are two when the source can refresh.
WorkBounded ==
    worked <= MaxHttpAttempts + (IF refreshed THEN MaxHttpAttempts - 1 ELSE 0)

\* A call ends although every answer may ask for another try.
Ends == <>(phase = "done")
=============================================================================
