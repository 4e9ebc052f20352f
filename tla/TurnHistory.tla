------------------------------ MODULE TurnHistory ------------------------------
(***************************************************************************)
(* What a model is asked: the messages of a session, which the coordinator *)
(* lengthens by turns, tool results and continuations, and the body that a *)
(* provider makes of them in its own protocol.  A session outlives the run *)
(* and its provider: what one protocol left in it is told in another.      *)
(*                                                                         *)
(* Whatever is said has a number (4 * said + kind), so that an order and a *)
(* repetition can be seen.  A call id c is the key of a call; the provider *)
(* calls it c, and -c is the key written out where it has no name for it.  *)
(***************************************************************************)
EXTENDS Integers, Sequences, SequencesExt

CONSTANTS
    Configs,  \* the providers a run may use: <<mode, family>>
    Calls,    \* ids of calls; a server may use one again
    CallLists, \* what an answer may call
    Imports,  \* sessions an application brings along, in persisted turn items
    MaxRuns, MaxSaid   \* bounds

\* What the constants must be.
CallsAreNumbers ==
    /\ Calls \subseteq Nat \ {0} /\ MaxRuns \in Nat /\ MaxSaid \in Nat
    /\ \A l \in CallLists : ToSet(l) \subseteq Calls /\ IsInjective(l)

VARIABLES
    session,   \* what is stored, and what it should hold: messages, told, system,
               \* and dropped, the thoughts that led to nothing but a summary
    now,       \* the same of the running request
    config,    \* the provider of the running request
    phase,     \* "idle" or "asking"
    imported, runs, said

vars == <<session, now, config, phase, imported, runs, said>>

None == 0
Item(kind, id) == [kind |-> kind, id |-> id]
NoState == [items |-> <<>>, full |-> <<>>, output |-> <<>>, thought |-> None]

Message(role, text) ==
    [role |-> role, text |-> text, calls |-> <<>>, key |-> None, callId |-> None, state |-> NoState]

\* ToolCall::wire_call_id
WireCallId(call) == IF call.named THEN call.id ELSE -call.id

\* --------------------------------------------------------- Responses body
\* filter_persisted_turn_items
FilterPersisted(items) ==
    SelectSeq(items, LAMBDA i : i.kind \in {"assistant", "reasoning", "call", "output", "search"})

\* Mutant: the items of the terminal snapshot are replayed as they are.
PartialReplayWhole(items) == items

\* codex_style_partial_replay_items
PartialReplay(items) == SelectSeq(items, LAMBDA i : i.kind \in {"reasoning", "search"})

\* replay_items_from_message
ReplayItems(message) ==
    LET state == message.state IN
    IF state.full # <<>> THEN [items |-> FilterPersisted(state.full), whole |-> TRUE]
    ELSE [items |-> IF state.items # <<>> THEN state.items ELSE PartialReplay(state.output),
          whole |-> FALSE]

\* Mutant: only the calls of the canonical messages are known.
RecordCallIdsNothing(items, ids) == ids

\* record_function_call_ids: the key of an item's call is made of its id.
RecordCallIds(items, ids) ==
    [c \in Calls |-> IF \E i \in ToSet(items) : i.kind = "call" /\ i.id = c THEN c ELSE ids[c]]

\* resolve_function_call_id
ResolveCallId(message, ids) ==
    IF message.callId # None THEN message.callId
    ELSE IF ids[message.key] # None THEN ids[message.key] ELSE -message.key

CallItems(message) ==
    [i \in DOMAIN message.calls |-> Item("call", WireCallId(message.calls[i]))]

If(kind, id) == IF id = None THEN <<>> ELSE <<Item(kind, id)>>

\* message_to_responses_items, with the ids of the calls so far
ResponsesItems(message, ids) ==
    LET replay == ReplayItems(message)
        known == RecordCallIds(replay.items, ids)
        thought == IF replay.items = <<>> THEN If("reasoning", message.state.thought) ELSE <<>>
    IN IF message.role = "tool"
       THEN [items |-> <<Item("output", ResolveCallId(message, ids))>>, ids |-> ids]
       ELSE IF replay.whole THEN [items |-> replay.items, ids |-> known]
       ELSE [items |-> replay.items \o thought \o If(message.role, message.text)
                           \o CallItems(message),
             ids |-> [c \in Calls |->
                        IF \E i \in DOMAIN message.calls : message.calls[i].id = c
                        THEN WireCallId(message.calls[CHOOSE i \in DOMAIN message.calls :
                                                        message.calls[i].id = c])
                        ELSE known[c]]]

\* build_responses_body: leading system messages are the instructions.
ResponsesBody(messages) ==
    LET take(b, message) ==
            LET r == ResponsesItems(message, b.ids) IN
            IF b.leading /\ message.role = "system"
            THEN [b EXCEPT !.lead = Append(@, message.text)]
            ELSE [b EXCEPT !.leading = FALSE, !.input = @ \o r.items, !.ids = r.ids]
        b == FoldLeft(take, [leading |-> TRUE, lead |-> <<>>, input |-> <<>>,
                             ids |-> [c \in Calls |-> None]], messages)
    IN [lead |-> b.lead, input |-> b.input]

\* -------------------------------------------------------------- Chat body
\* tool_message_call_id
ToolMessageCallId(message) == IF message.callId # None THEN message.callId ELSE -message.key

\* replay_assistant_reasoning_content
ReplayThought(family, message) ==
    IF message.role = "assistant"
       /\ (family = "kimi" \/ (family = "deepseek" /\ message.calls # <<>>))
    THEN If("reasoning", message.state.thought) ELSE <<>>

\* message_to_wire, its fields one after the other
ChatItems(family, message) ==
    IF message.role = "tool" THEN <<Item("output", ToolMessageCallId(message))>>
    ELSE ReplayThought(family, message) \o If(message.role, message.text) \o CallItems(message)

\* build_chat_completions_body and decorate_chat
ChatBody(family, messages) ==
    LET lead == SelectInSeq(messages, LAMBDA message : message.role # "system") - 1
        rest == SubSeq(messages, lead + 1, Len(messages))
    IN [lead |-> [i \in 1..lead |-> messages[i].text],
        input |-> FlattenSeq([i \in DOMAIN rest |-> ChatItems(family, rest[i])])]

Body == IF config[1] = "responses" THEN ResponsesBody(now.messages)
        ELSE ChatBody(config[2], now.messages)

\* ----------------------------------------------------------------- the run
HistoryInit ==
    /\ \E s \in {<<>>} \cup Imports :
            /\ session = [messages |-> s, told |-> {}, dropped |-> {}, system |-> None]
            /\ imported = (s # <<>>)
    /\ now = session
    /\ config = CHOOSE c \in Configs : TRUE
    /\ phase = "idle" /\ runs = 0 /\ said = 1

\* split_leading_system
WithoutLead(messages) ==
    LET rest == SelectInSeq(messages, LAMBDA message : message.role # "system")
    IN IF rest = 0 THEN <<>> ELSE SubSeq(messages, rest, Len(messages))

\* Mutant: the system prompt of a request is put before that of the session.
MergeStacked(stored, system, request) == system \o stored \o request

\* merge_session_and_request_messages
Merge(stored, system, request) ==
    IF system = <<>> THEN stored \o request ELSE system \o WithoutLead(stored) \o request

\* start: a prompt, perhaps with a system prompt; a session that was imported
\* goes on with the protocol it was made for.
StartRun(c, prompted) ==
    LET system == IF prompted THEN <<Message("system", 4 * said)>> ELSE <<>>
    IN /\ phase = "idle" /\ runs < MaxRuns /\ said < MaxSaid
       /\ imported => c[1] = "responses"
       /\ now' = [messages |-> Merge(session.messages, system, <<Message("user", 4 * said + 3)>>),
                  told |-> session.told \cup {4 * said + 3}, dropped |-> session.dropped,
                  system |-> IF prompted THEN 4 * said ELSE session.system]
       /\ config' = c
       /\ phase' = "asking" /\ runs' = runs + 1 /\ said' = said + 1
       /\ UNCHANGED <<session, imported>>

\* What a server can answer; open is end_turn = false, which Codex looks at.
Replies ==
    {a \in [text : BOOLEAN, thought : BOOLEAN, snapshot : BOOLEAN, summary : BOOLEAN,
            promise : BOOLEAN, open : BOOLEAN,
            calls : CallLists] :
        /\ config[1] # "responses" => ~a.snapshot
        /\ config[1] = "host" => ~a.thought
        /\ a.summary => config[2] = "qwen" /\ ~a.text
        /\ a.promise => a.text
        /\ a.open => config[2] = "codex"}

\* The turn a provider makes of an answer: ModelTurn with its opaque state.
\* A provider of the application's own has neither state nor names for calls.
Turn(a) ==
    LET thought == IF a.thought THEN 4 * said + 1 ELSE None
        text == IF a.text THEN 4 * said + 3 ELSE None
        calls == [i \in DOMAIN a.calls |-> [id |-> a.calls[i], named |-> config[1] # "host"]]
        items == If("reasoning", thought)
    IN [text |-> text, calls |-> calls,
        state |-> CASE config[1] = "responses" ->
                        [NoState EXCEPT !.items = items,
                          !.output = IF a.snapshot
                                     THEN items \o If("assistant", text)
                                          \o [i \in DOMAIN calls |-> Item("call", WireCallId(calls[i]))]
                                     ELSE <<>>]
                    [] config[1] = "chat" -> [NoState EXCEPT !.thought = thought]
                    [] config[1] = "host" -> NoState]

\* Mutant: a turn that is not over goes on, whatever it calls.
TerminalOpenFirst(a) ==
    IF a.open THEN "requested"
    ELSE IF a.calls # <<>> THEN "calls" ELSE IF a.summary THEN "summary"
    ELSE IF a.promise THEN "incomplete" ELSE "stop"

\* apply_summary_to_turn and then apply_turn_continuation (tools are offered)
Terminal(a) ==
    IF a.calls # <<>> THEN "calls"
    ELSE IF a.summary THEN "summary"
    ELSE IF a.open THEN "requested"
    ELSE IF a.promise /\ config[1] # "host" THEN "incomplete" ELSE "stop"

\* validate_turn: nothing was said and nothing goes on.
Empty(a) == a.calls = <<>> /\ ~a.text /\ Terminal(a) = "stop"

AssistantMessage(turn) ==
    [Message("assistant", turn.text) EXCEPT !.calls = turn.calls, !.state = turn.state]

\* tool_message
ToolMessage(call) ==
    [Message("tool", None) EXCEPT !.key = call.id, !.callId = IF call.named THEN call.id ELSE None]

\* Mutant: an answer that goes on is asked again with its own text only.
ContinuationForgetful(turn, terminal) ==
    IF terminal = "incomplete" THEN <<Message("system", 4 * said + 3)>>
    ELSE <<AssistantMessage(turn)>>

\* apply_continuation; the prompt of a continuation is said as a system message.
Continuation(turn, terminal) ==
    LET prompt == Message("system", 4 * (said + 1)) IN
    CASE terminal = "incomplete" -> <<AssistantMessage(turn), prompt>>
      [] terminal = "summary" -> <<prompt>>
      [] terminal = "requested" ->
            IF turn.text # None \/ turn.state.items # <<>> THEN <<AssistantMessage(turn)>>
            ELSE <<prompt>>

\* What the next request has to hold of a turn.
ToldBy(turn) ==
    (IF turn.text = None THEN {} ELSE {turn.text}) \cup {turn.state.items[i].id : i \in DOMAIN turn.state.items}

\* A turn with calls: assistant_message, and a result for each call in order.
ToolRound(a) ==
    LET turn == Turn(a) IN
    /\ phase = "asking" /\ said < MaxSaid /\ Terminal(a) = "calls"
    /\ now' = [now EXCEPT !.messages = @ \o <<AssistantMessage(turn)>>
                              \o [i \in DOMAIN turn.calls |-> ToolMessage(turn.calls[i])],
                          !.told = @ \cup ToldBy(turn)]
    /\ said' = said + 1
    /\ UNCHANGED <<session, config, phase, imported, runs>>

\* A turn that has to go on.
GoOn(a) ==
    LET turn == Turn(a) IN
    /\ phase = "asking" /\ said + 1 < MaxSaid
    /\ Terminal(a) \in {"incomplete", "summary", "requested"}
    /\ now' = [now EXCEPT !.messages = @ \o Continuation(turn, Terminal(a)),
                          !.told = @ \cup ToldBy(turn),
                          !.dropped = IF Terminal(a) = "summary" THEN @ \cup ToldBy(turn)
                                      ELSE @]
    /\ said' = said + 2
    /\ UNCHANGED <<session, config, phase, imported, runs>>

\* complete_without_tools; the result is saved as the session.
Complete(a) ==
    LET turn == Turn(a)
        spoken == turn.text # None \/ config[1] # "host"
    IN /\ phase = "asking" /\ said < MaxSaid /\ Terminal(a) = "stop"
       /\ config[1] # "host" => ~Empty(a)
       /\ session' = [now EXCEPT !.messages = IF spoken THEN Append(@, AssistantMessage(turn)) ELSE @,
                                 !.told = @ \cup ToldBy(turn)]
       /\ now' = session' /\ phase' = "idle" /\ said' = said + 1
       /\ UNCHANGED <<config, imported, runs>>

\* A turn or a tool failed, or the run was cancelled: the session stays.
Fail ==
    /\ phase = "asking"
    /\ now' = session /\ phase' = "idle"
    /\ UNCHANGED <<session, config, imported, runs, said>>

Next ==
    \/ \E c \in Configs, prompted \in BOOLEAN : StartRun(c, prompted)
    \/ \E a \in Replies : ToolRound(a)
    \/ \E a \in Replies : GoOn(a)
    \/ \E a \in Replies : Complete(a)
    \/ Fail

Spec == HistoryInit /\ [][Next]_vars

-----------------------------------------------------------------------------
TypeOK ==
    /\ phase \in {"idle", "asking"} /\ config \in Configs /\ imported \in BOOLEAN
    /\ runs \in 0..MaxRuns /\ said \in 1..MaxSaid
    /\ \A m \in ToSet(now.messages) : m.role \in {"system", "user", "assistant", "tool"}

Asking == phase = "asking" /\ config[1] # "host"

\* In whatever protocol a call was made, and in whatever it is told: every call
\* in a body is answered once, under its own id, before anything else is said,
\* and no answer comes without its call (message_to_wire,
\* message_to_responses_items).
CallsAreAnswered ==
    LET walk(w, i) ==
            CASE i.kind = "call" -> [w EXCEPT !.ok = @ /\ i.id \notin w.open, !.open = @ \cup {i.id}]
              [] i.kind = "output" -> [w EXCEPT !.ok = @ /\ i.id \in w.open, !.open = @ \ {i.id}]
              [] OTHER -> [w EXCEPT !.ok = @ /\ w.open = {}]
        w == FoldLeft(walk, [ok |-> TRUE, open |-> {}], Body.input)
    IN Asking => w.ok /\ w.open = {}

Numbers(input) == LET said_(i) == i.kind \notin {"call", "output"}
                      s == SelectSeq(input, said_)
                  IN [i \in DOMAIN s |-> s[i].id]

\* Nothing is told twice, and everything in the order in which it was said: a
\* thought before the words and the calls that came of it.
SaidOnceInOrder ==
    LET heard == Numbers(Body.input)
    IN Asking => \A i, j \in DOMAIN heard : i < j => heard[i] < heard[j]

\* A model is reminded of every prompt and every answer of the runs that were
\* completed and of this one; a Responses server also of its own reasoning, but
\* for the thoughts that led to nothing but a summary: apply_continuation goes on
\* with the prompt alone, which tells the summary, and they are never told again.
NothingIsForgotten ==
    LET heard == ToSet(Numbers(Body.input))
    IN Asking => \A n \in now.told :
                    IF n \in now.dropped THEN n % 4 = 1 /\ n \notin heard
                    ELSE n \in heard \/ (config[1] = "chat" /\ n % 4 = 1)

\* At the head of a body stands the system prompt that was given last, alone
\* (docs/python/sessions.md:34).
SystemIsReplaced ==
    Asking => Body.lead = IF now.system = None THEN <<>> ELSE <<now.system>>
=============================================================================
