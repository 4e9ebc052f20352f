------------------------------- MODULE ChatTurn -------------------------------
(***************************************************************************)
(* ChatCompletionsTurnAssembler under a stream of the Chat Completions     *)
(* protocol: the server holds an answer (text, reasoning, tool calls) and  *)
(* sends it in its own style, in pieces of any size, text and calls in any *)
(* order; it may stop early and give any finish reason.  What the          *)
(* assembler makes of it is compared with what was sent.                   *)
(***************************************************************************)
EXTENDS Integers, Sequences, FiniteSets, TurnParts

CONSTANTS Answers \* the server's answers and styles, records as in AnswerOK

Channels == {"text", "reasoning"}
\* content_filter stands for every reason the code does not name
Reasons == {"stop", "tool_calls", "length", "insufficient_system_resource",
            "content_filter", "none"}

VARIABLES
    answer,  \* what the server has to say, how it says it, and the contract
    sent,    \* how many letters of each channel it has sent
    told,    \* how many pieces of the arguments of each call; -1: nothing yet
    said,    \* TextDeltaReconciler of each channel
    shown,   \* what the sink was given, for each channel
    calls,   \* ToolCallAssembler
    reason,  \* the finish reason, "none" before it comes
    outcome  \* "none", "turn" or an error

vars == <<answer, sent, told, said, shown, calls, reason, outcome>>

Letters(ch) == answer[ch]
CallNumbers == DOMAIN answer.calls

ChatInit ==
    /\ answer \in Answers
    /\ sent = [ch \in Channels |-> 0]
    /\ told = [c \in CallNumbers |-> -1]
    /\ said = [ch \in Channels |-> NoText]
    /\ shown = [ch \in Channels |-> <<>>]
    /\ calls = <<>>
    /\ reason = "none" /\ outcome = "none"

\* emit_content: the sink gets what is new
Hear(ch, incoming, snapshot) ==
    /\ said' = [said EXCEPT ![ch] = Pushed(@, incoming, snapshot, answer.allow)]
    /\ shown' = [shown EXCEPT ![ch] =
                    IF incoming = <<>> THEN @
                    ELSE @ \o NewText(said[ch], incoming, snapshot, answer.allow)]

Streams == outcome = "none" /\ reason = "none" /\ ~answer.whole

\* A chunk with k more letters of a channel, alone or with all before them.
Say(ch, k) ==
    /\ Streams /\ sent[ch] + k <= Len(Letters(ch))
    /\ k > 0 \/ (answer.cumulative /\ sent[ch] > 0)
    /\ Hear(ch, SubSeq(Letters(ch), IF answer.cumulative THEN 1 ELSE sent[ch] + 1,
                       sent[ch] + k), FALSE)
    /\ sent' = [sent EXCEPT ![ch] = @ + k]
    /\ UNCHANGED <<answer, told, calls, reason, outcome>>

\* The pieces of call c from `from` to `to`, with its identity at the beginning
\* or, in the style of DeepSeek, each time.
DeltaOf(c, from, to) ==
    LET named == told[c] = -1 \/ answer.repeats
        plan == answer.calls[c]
    IN [index |-> IF answer.indexed THEN c - 1 ELSE NoIndex,
        id |-> IF named THEN plan.id ELSE Absent,
        name |-> IF named THEN plan.name ELSE Absent,
        args |-> SubSeq(plan.args, from + 1, to)]

Contract == [replace |-> answer.deepseek \/ answer.gemini, gemini |-> answer.gemini]

Tell(c, k) ==
    /\ Streams
    /\ LET from == IF told[c] = -1 THEN 0 ELSE told[c]
           to == from + k
       IN /\ to <= Len(answer.calls[c].args)
          /\ told[c] = -1 \/ k > 0
          \* without an index a call comes in one piece
          /\ answer.indexed \/ (told[c] = -1 /\ to = Len(answer.calls[c].args))
          /\ told' = [told EXCEPT ![c] = to]
          /\ calls' = ApplyCallDelta(calls, DeltaOf(c, from, to), 0, FALSE,
                                     Contract.replace, Contract.gemini)
    /\ UNCHANGED <<answer, sent, said, shown, reason, outcome>>

\* A call of a message is a snapshot, and its place is its index.
MessageCall(s, c) ==
    ApplyCallDelta(s, [DeltaOf(c, 0, Len(answer.calls[c].args)) EXCEPT !.index = NoIndex],
                   c - 1, TRUE, Contract.replace, Contract.gemini)

MessageCalls == FoldLeft(MessageCall, <<>>, [c \in CallNumbers |-> c])

\* The answer comes as one message, not as a stream.
Message ==
    /\ answer.whole /\ outcome = "none"
    /\ reason = "none" /\ calls = <<>> /\ sent = [ch \in Channels |-> 0]
    /\ sent' = [ch \in Channels |-> Len(Letters(ch))]
    /\ said' = [ch \in Channels |-> Pushed(said[ch], Letters(ch), TRUE, answer.allow)]
    /\ shown' = [ch \in Channels |-> NewText(said[ch], Letters(ch), TRUE, answer.allow)]
    /\ told' = [c \in CallNumbers |-> Len(answer.calls[c].args)]
    /\ calls' = MessageCalls
    /\ \E r \in Reasons : reason' = r
    /\ UNCHANGED <<answer, outcome>>

FinishReason ==
    /\ Streams
    /\ \E r \in Reasons \ {"none"} : reason' = r
    /\ UNCHANGED <<answer, sent, told, said, shown, calls, outcome>>

\* Mutant: a reason that is not known is a success.
ReasonErrorKnown ==
    CASE reason \in {"stop", "tool_calls", "content_filter"} -> "none"
      [] reason = "length" -> "output_limit"
      [] reason = "insufficient_system_resource" -> "resource_unavailable"
      [] reason = "none" -> "stream_closed"

ReasonError ==
    CASE reason \in {"stop", "tool_calls"} -> "none"
      [] reason = "length" -> "output_limit"
      [] reason = "insufficient_system_resource" -> "resource_unavailable"
      [] reason = "content_filter" -> "finish_error"
      [] reason = "none" -> "stream_closed"

CallError == IF CallsValid(calls) THEN "none" ELSE "invalid_tool_call"

TurnCalls == FinishedCalls(calls)
ToolTerminal == TurnCalls # <<>> \/ reason = "tool_calls"

\* finish_checked, after [DONE] or the end of a JSON body
Done ==
    /\ outcome = "none"
    /\ outcome' =
        IF ReasonError # "none" THEN ReasonError
        ELSE IF CallError # "none" THEN CallError
        ELSE LET e == TurnError(said["text"].emitted, TurnCalls, ToolTerminal, FALSE, FALSE)
             IN IF e = "none" THEN "turn" ELSE e
    /\ UNCHANGED <<answer, sent, told, said, shown, calls, reason>>

Finished == outcome # "none" /\ UNCHANGED vars

Next ==
    \/ \E ch \in Channels : \E k \in 0..Len(Letters(ch)) : Say(ch, k)
    \/ \E c \in CallNumbers : \E k \in 0..Len(answer.calls[c].args) : Tell(c, k)
    \/ Message \/ FinishReason \/ Done \/ Finished

Spec == ChatInit /\ [][Next]_vars

-----------------------------------------------------------------------------
IsWord(w) == w \in Seq(ToSet(w)) /\ w # Absent

\* A call of the server: its arguments are whole, and no part of it could be
\* taken for a field that is not there.
CallOK(c) ==
    /\ c = [id |-> c.id, name |-> c.name, args |-> c.args]
    /\ IsWord(c.id) /\ IsWord(c.name)
    /\ c.args \in Seq(ToSet(c.args) \ ToSet(Absent)) /\ IsObject(c.args)

\* Only the vendors whose contract replaces names send them again, and a
\* Gemini message does not give one id to two calls: the second would take the
\* place of the first.
AnswerOK(a) ==
    /\ \A f \in {"allow", "cumulative", "indexed", "repeats", "deepseek", "gemini", "whole"} :
            a[f] \in BOOLEAN
    /\ a.text \in Seq(ToSet(a.text)) /\ a.reasoning \in Seq(ToSet(a.reasoning))
    /\ a.calls \in Seq(ToSet(a.calls)) /\ \A c \in ToSet(a.calls) : CallOK(c)
    /\ a.repeats => a.deepseek \/ a.gemini
    /\ a.whole /\ a.gemini =>
            \A i, j \in DOMAIN a.calls : i # j => a.calls[i].id # a.calls[j].id

AnswersAssumption == \A a \in Answers : AnswerOK(a)

TypeOK ==
    /\ AnswerOK(answer)
    /\ sent \in [Channels -> Nat] /\ told \in [CallNumbers -> Int]
    /\ DOMAIN said = Channels /\ DOMAIN shown = Channels
    /\ reason \in Reasons
    /\ outcome \in {"none", "turn", "output_limit", "resource_unavailable", "finish_error",
                    "stream_closed", "invalid_tool_call", "empty_response"}

\* What the sink was shown and what the turn will hold is, at every moment,
\* exactly what the server has sent so far, whatever the sizes of the pieces
\* and whether it repeats what it said before, if the configuration looks for
\* repetitions only where the server repeats (TextDeltaReconciler).
TextIsWhatWasSent ==
    answer.allow = answer.cumulative =>
        \A ch \in Channels :
            /\ said[ch].emitted = SubSeq(Letters(ch), 1, sent[ch])
            /\ shown[ch] = said[ch].emitted

\* The same for every server and configuration, which does not hold: the
\* configuration custom::config looks for repetitions in the stream of any server.
TextIsWholeForAll ==
    outcome = "turn" => said["text"].emitted = SubSeq(Letters("text"), 1, sent["text"])

\* A turn carries the calls the server has told in full, with their own
\* identity and arguments, each once; if one call is incomplete there is no turn,
\* whatever the finish reason says, so nothing incomplete is executed.
OnlyWholeCallsRun ==
    outcome = "turn" =>
        LET begun == {c \in CallNumbers : told[c] >= 0} IN
        /\ \A c \in begun : told[c] = Len(answer.calls[c].args)
        /\ {[id |-> x.id, name |-> x.name, args |-> x.args] : x \in ToSet(TurnCalls)}
             = {answer.calls[c] : c \in begun}
        /\ Len(TurnCalls) = Cardinality(begun)

\* A turn is never empty and never made of an answer that was cut off by a
\* limit, refused, or ended without a reason.
TurnSaysSomething ==
    outcome = "turn" =>
        /\ reason \in {"stop", "tool_calls"}
        /\ sent["text"] > 0 \/ \E c \in CallNumbers : told[c] >= 0
        /\ reason = "tool_calls" => \E c \in CallNumbers : told[c] >= 0
=============================================================================
