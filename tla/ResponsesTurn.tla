----------------------------- MODULE ResponsesTurn -----------------------------
(***************************************************************************)
(* ResponsesTurnAssembler under a stream of the Responses protocol.  The   *)
(* server holds a sequence of output items and reports each of them in     *)
(* deltas, in snapshots of a part or of an item, and once more in the      *)
(* terminal event, in any combination that tells the whole; the events     *)
(* carry sequence numbers, ids or neither, and may arrive again.           *)
(***************************************************************************)
EXTENDS Naturals, Sequences, FiniteSets, TurnParts

CONSTANTS
    Plans,   \* what the server has to say and how: records as in PlanOK
    MaxAgain \* how many events arrive a second time

VARIABLES
    plan,
    cur,     \* the item the server reports
    step,    \* how far it is: "new", "open" or "text_done"
    letters, \* how many letters of its text or pieces of its arguments it sent
    log,     \* the events sent so far
    again,   \* how many of them a second time
    a,       \* the state of the assembler
    outcome  \* "none", "turn" or the error

vars == <<plan, cur, step, letters, log, again, a, outcome>>

Items == plan.items
Here == Items[cur]
IsText(item) == item.kind \in {"message", "reasoning"}

Assembler ==
    [last |-> 0, keys |-> {}, parts |-> [i \in DOMAIN Items |-> NoText],
     text |-> <<>>, reasoning |-> <<>>, calls |-> <<>>, replay |-> <<>>,
     images |-> <<>>, terminal |-> "none", sawDone |-> FALSE, error |-> "none"]

ResponsesInit ==
    /\ plan \in Plans
    /\ cur = 1 /\ step = "new" /\ letters = 0
    /\ log = <<>> /\ again = 0
    /\ a = Assembler
    /\ outcome = "none"

\* ------------------------------------------------------------ the assembler
\* push_output, push_reasoning, push_reasoning_summary: what a part adds is
\* added to the text of the turn and given to the sink
Add(s, item, suffix) ==
    IF item.kind = "message" THEN [s EXCEPT !.text = @ \o suffix]
    ELSE [s EXCEPT !.reasoning = @ \o suffix]

PushPart(s, e) ==
    LET part == s.parts[e.item] IN
    [Add(s, Items[e.item], NewText(part, e.value, FALSE, plan.allow))
        EXCEPT !.parts[e.item] = Pushed(part, e.value, FALSE, plan.allow)]

\* complete_output, complete_reasoning, complete_reasoning_summary
CompletePart(s, e) ==
    LET part == s.parts[e.item]
        suffix == SubSeq(e.value, Len(part.emitted) + 1, Len(e.value))
        saw == [s EXCEPT !.sawDone = @ \/ Items[e.item].kind = "message"]
    IN IF ~Continues(part, e.value) THEN [saw EXCEPT !.error = "diverged"]
       ELSE [Add(saw, Items[e.item], suffix)
                EXCEPT !.parts[e.item] = Completed(part, e.value)]

CallDelta(s, i, id, name, args, snapshot) ==
    [s EXCEPT !.calls = ApplyCallDelta(@,
        [index |-> i - 1, id |-> id, name |-> name, args |-> args],
        i - 1, snapshot, FALSE, FALSE)]

\* Mutant: an item that is told twice is replayed twice.
UpsertAppends(replay, item) == Append(replay, item)

\* ReplayState::upsert: by type and id
Upsert(replay, item) ==
    LET known == {i \in DOMAIN replay : replay[i].kind = item.kind /\ replay[i].id = item.id}
    IN IF known = {} THEN Append(replay, item)
       ELSE [replay EXCEPT ![CHOOSE i \in known : \A j \in known : i <= j] = item]

\* GeneratedArtifactState::capture: an image is taken once
Capture(images, item) ==
    IF Contains(images, item.id) THEN images ELSE Append(images, item.id)

\* output_item.done, and each item of a terminal snapshot
MergeItem(s, i) ==
    LET item == Items[i] IN
    CASE item.kind \in {"reasoning", "search"} -> [s EXCEPT !.replay = Upsert(@, item)]
      [] item.kind = "call" -> CallDelta(s, i, item.id, item.name, item.text, TRUE)
      [] item.kind = "image" -> [s EXCEPT !.images = Capture(@, item)]
      [] item.kind = "message" -> s

\* every item of the response, one after the other
MergeItems(s) == FoldLeft(MergeItem, s, [i \in DOMAIN Items |-> i])

\* extract_responses_output_text
OutputText ==
    FlattenSeq([i \in DOMAIN Items |-> IF Items[i].kind = "message" THEN Items[i].text
                                       ELSE <<>>])

\* apply_terminal_snapshot, with reconcile_terminal_text
ApplySnapshot(s, full) ==
    LET complete == IF full THEN OutputText ELSE <<>> IN
    IF (s.sawDone /\ s.text # complete) \/ (complete # <<>> /\ ~IsPrefix(s.text, complete))
    THEN [s EXCEPT !.error = "diverged"]
    ELSE LET t == IF complete = <<>> THEN s ELSE [s EXCEPT !.text = complete]
         IN IF full THEN MergeItems(t) ELSE t

\* Mutant: the label of the terminal event says it all.
TerminalStatusOfLabel(e) == e.label

\* terminal_status: a failed or incomplete payload is not promoted by its label
TerminalStatus(e) ==
    IF e.status \in {"incomplete", "failed"} THEN e.status ELSE e.label

ApplyTerminal(s, e) ==
    LET t == [s EXCEPT !.terminal = TerminalStatus(e)] IN
    IF e.label = "failed" THEN [t EXCEPT !.error = "failed"]
    ELSE IF e.output = "none" THEN t ELSE ApplySnapshot(t, e.output = "full")

Apply(s, e) ==
    CASE e.type = "delta" -> PushPart(s, e)
      [] e.type = "text_done" -> CompletePart(s, e)
      [] e.type = "added" ->
            IF Items[e.item].kind = "call"
            THEN CallDelta(s, e.item, Items[e.item].id, Items[e.item].name, <<>>, FALSE)
            ELSE s
      [] e.type = "args_delta" -> CallDelta(s, e.item, Absent, Absent, e.value, FALSE)
      [] e.type = "args_done" -> CallDelta(s, e.item, Absent, Absent, e.value, TRUE)
      [] e.type = "item_done" -> MergeItem(s, e.item)
      [] e.type = "terminal" -> ApplyTerminal(s, e)

\* Mutant: an event with an id is taken as often as it comes.
AcceptAnyId(s, e) ==
    IF plan.numbered = "sequence" /\ e.number = s.last THEN "again"
    ELSE IF plan.numbered = "sequence" /\ e.number < s.last THEN "late" ELSE "new"

\* accept_event
Accept(s, e) ==
    CASE plan.numbered = "sequence" ->
            IF e.number = s.last THEN "again" ELSE IF e.number < s.last THEN "late" ELSE "new"
      [] plan.numbered = "id" -> IF e.number \in s.keys THEN "again" ELSE "new"
      [] plan.numbered = "no" -> "new"

\* apply_value
Receive(s, e) ==
    CASE Accept(s, e) = "again" -> s
      [] Accept(s, e) = "late" -> [s EXCEPT !.error = "late"]
      [] Accept(s, e) = "new" ->
            Apply([s EXCEPT !.last = e.number, !.keys = @ \cup {e.number}], e)

\* finish_checked once the decoder has its terminal event
Finish(s) ==
    CASE s.error # "none" -> s.error
      [] s.error = "none" /\ s.terminal # "completed" -> s.terminal
      [] s.error = "none" /\ s.terminal = "completed" ->
            IF ~CallsValid(s.calls) THEN "invalid_tool_call"
            ELSE LET calls == FinishedCalls(s.calls)
                     e == TurnError(s.text, calls, calls # <<>>, s.images # <<>>, plan.more)
                 IN IF e = "none" THEN "turn" ELSE e

-----------------------------------------------------------------------------
\* ------------------------------------------------ the server and the network
Event(type, item, value) ==
    [type |-> type, item |-> item, value |-> value, number |-> Len(log) + 1,
     label |-> "", status |-> "", output |-> ""]

Send(e) ==
    /\ log' = Append(log, e)
    /\ a' = Receive(a, e)
    /\ outcome' = IF a'.error # "none" THEN a'.error
                  ELSE IF e.type = "terminal" THEN Finish(a') ELSE "none"
    /\ UNCHANGED <<plan, again>>

Reports == outcome = "none" /\ plan.streams /\ cur <= Len(Items)

Open ==
    /\ Reports /\ step = "new"
    /\ step' = "open" /\ letters' = 0
    /\ Send(Event("added", cur, <<>>))
    /\ UNCHANGED cur

\* Some more letters of a text, or pieces of arguments.
Delta(k) ==
    /\ Reports /\ step = "open" /\ Here.kind \in {"message", "reasoning", "call"}
    /\ letters + k <= Len(Here.text)
    /\ letters' = letters + k
    /\ Send(Event(IF Here.kind = "call" THEN "args_delta" ELSE "delta", cur,
                  SubSeq(Here.text, letters + 1, letters + k)))
    /\ UNCHANGED <<cur, step>>

\* The snapshot of a part, which also tells what no delta told.
PartDone ==
    /\ Reports /\ step = "open" /\ Here.kind \in {"message", "reasoning", "call"}
    /\ step' = "text_done" /\ letters' = Len(Here.text)
    /\ Send(Event(IF Here.kind = "call" THEN "args_done" ELSE "text_done", cur, Here.text))
    /\ UNCHANGED cur

ItemDone ==
    /\ Reports /\ step \in {"open", "text_done"}
    /\ IsText(Here) => letters = Len(Here.text)
    /\ step' = "new" /\ cur' = cur + 1 /\ letters' = 0
    /\ Send(Event("item_done", cur, <<>>))

\* The server goes on without a snapshot of the item, if its deltas were whole.
Skip ==
    /\ Reports /\ step \in {"open", "text_done"}
    /\ Here.kind \in {"message", "call"}
    /\ letters = Len(Here.text)
    /\ step' = "new" /\ cur' = cur + 1 /\ letters' = 0
    /\ UNCHANGED <<plan, log, again, a, outcome>>

Terminal ==
    /\ outcome = "none"
    /\ plan.streams => cur > Len(Items)
    /\ Send([Event("terminal", 0, <<>>) EXCEPT
                !.label = plan.label, !.status = plan.status, !.output = plan.output])
    /\ UNCHANGED <<cur, step, letters>>

\* An event arrives again, at once or later.
Again ==
    /\ outcome = "none" /\ plan.numbered # "no" /\ again < MaxAgain
    /\ \E i \in DOMAIN log :
        /\ a' = Receive(a, log[i])
        /\ outcome' = a'.error
    /\ again' = again + 1
    /\ UNCHANGED <<plan, cur, step, letters, log>>

\* The connection closes without a terminal event.
Close ==
    /\ outcome = "none"
    /\ outcome' = "stream_closed"
    /\ UNCHANGED <<plan, cur, step, letters, log, again, a>>

Finished == outcome # "none" /\ UNCHANGED vars

Next ==
    \/ Open \/ (\E k \in 1..3 : Delta(k)) \/ PartDone \/ ItemDone \/ Skip
    \/ Terminal \/ Again \/ Close \/ Finished

Spec == ResponsesInit /\ [][Next]_vars

-----------------------------------------------------------------------------
PlanOK(p) ==
    /\ p.items \in Seq(ToSet(p.items))
    /\ \A i \in DOMAIN p.items :
            p.items[i].kind \in {"message", "reasoning", "call", "search", "image"}
    /\ p.numbered \in {"sequence", "id", "no"}
    /\ p.label \in {"completed", "incomplete", "failed"}
    /\ p.status \in {"", "completed", "incomplete", "failed"}
    /\ p.output \in {"none", "bare", "full"}
    /\ p.streams \in BOOLEAN /\ p.more \in BOOLEAN /\ p.allow \in BOOLEAN
    /\ p.streams \/ p.output = "full"

PlansAssumption == \A p \in Plans : PlanOK(p)

TypeOK ==
    /\ PlanOK(plan)
    /\ cur \in 1..Len(Items) + 1
    /\ step \in {"new", "open", "text_done"}
    /\ letters \in 0..4 /\ again \in 0..MaxAgain
    /\ outcome \in {"none", "turn", "diverged", "late", "failed", "incomplete",
                    "stream_closed", "invalid_tool_call", "empty_response"}

Of(kinds) == SelectSeq(Items, LAMBDA i : i.kind \in kinds)
TextOf(kind) == FlattenSeq([i \in DOMAIN Items |-> IF Items[i].kind = kind THEN Items[i].text
                                                  ELSE <<>>])

\* A turn holds exactly what the server said: the text and reasoning of its
\* parts in order, each call once with its own identity and all its arguments,
\* the items to be replayed and the images once each, however often and in
\* whatever form each of them was told.
TurnIsTheAnswer ==
    outcome = "turn" =>
        /\ a.text = TextOf("message")
        /\ plan.streams => a.reasoning = TextOf("reasoning")
        /\ LET calls == FinishedCalls(a.calls)
               said == Of({"call"})
           IN /\ Len(calls) = Len(said)
              /\ \A i \in DOMAIN said :
                    calls[i].id = said[i].id /\ calls[i].name = said[i].name
                    /\ calls[i].args = said[i].text
        /\ a.replay = Of({"reasoning", "search"})
        /\ a.images = [i \in DOMAIN Of({"image"}) |-> Of({"image"})[i].id]

\* Only an answer that ended well is a turn: what is incomplete or failed
\* does not become one because its terminal event is labelled as completed.
NoTurnFromAFailure ==
    outcome = "turn" => plan.label = "completed" /\ plan.status \in {"", "completed"}

Misled == outcome \in {"diverged", "late", "invalid_tool_call"}

\* No honest answer is refused: the checks of the assembler (sequence numbers,
\* snapshots against deltas, the terminal text) only fire when an older event
\* came again, as long as a terminal event that has a response has its output.
HonestIsBelieved ==
    Misled /\ plan.output # "bare" => again > 0 /\ outcome = "late"

\* The same for a terminal event whose response carries no output, which the
\* streams of turn_engine_tests.rs:126-143 have.  It does not hold: a text
\* that an event has completed differs from the empty one of such a response.
HonestIsAlwaysBelieved == Misled => again > 0 /\ outcome = "late"
=============================================================================
