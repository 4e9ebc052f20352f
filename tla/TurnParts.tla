------------------------------ MODULE TurnParts ------------------------------
(***************************************************************************)
(* The parts both protocols put a turn together from: the reconciler of    *)
(* texts that arrive in pieces or as snapshots (common/delta.rs), the      *)
(* assembler of tool calls (tool_deltas.rs) and the validation of a turn.  *)
(* A text is a sequence; the arguments of a call are a JSON object when    *)
(* they begin with "{" and their first "}" is their end.                   *)
(***************************************************************************)
EXTENDS Integers, Sequences, SequencesExt

\* ----------------------------------------------------- TextDeltaReconciler
NoText == [emitted |-> <<>>, cumulative |-> FALSE]

Overlaps(current, complete) ==
    {n \in 0..Len(complete) :
        n <= Len(current) /\
        SubSeq(current, Len(current) - n + 1, Len(current)) = SubSeq(complete, 1, n)}

\* Mutant: the shortest overlap is taken for the longest.
MissingSuffixShortest(current, complete) ==
    LET o == Overlaps(current, complete)
        shortest == CHOOSE n \in o : \A m \in o : m >= n
    IN SubSeq(complete, shortest + 1, Len(complete))

\* missing_complete_text_suffix: its cases of equal texts, of a text that ends
\* with the other and of a prefix are all the longest overlap
MissingSuffix(current, complete) ==
    LET o == Overlaps(current, complete)
        longest == CHOOSE n \in o : \A m \in o : m <= n
    IN SubSeq(complete, longest + 1, Len(complete))

\* push_compatible: what is new for the sink
NewText(t, incoming, snapshot, allow) ==
    IF snapshot \/ t.cumulative
       \/ (allow /\ t.emitted # <<>> /\ IsPrefix(t.emitted, incoming))
    THEN MissingSuffix(t.emitted, incoming)
    ELSE incoming

Pushed(t, incoming, snapshot, allow) ==
    IF incoming = <<>> THEN t
    ELSE [emitted |-> t.emitted \o NewText(t, incoming, snapshot, allow),
          cumulative |-> \/ snapshot \/ t.cumulative
                         \/ (allow /\ t.emitted # <<>> /\ IsPrefix(t.emitted, incoming))]

\* strict_complete_text_suffix: a completed text must continue what was emitted
Continues(t, complete) == complete = <<>> \/ IsPrefix(t.emitted, complete)

Completed(t, complete) ==
    IF complete = <<>> \/ complete = t.emitted THEN t
    ELSE [emitted |-> complete, cumulative |-> TRUE]

\* ------------------------------------------------------- ToolCallAssembler
\* A delta is a record of index (or NoIndex) and of id, name and args, which are
\* sequences, or Absent for a field that is not there.
NoIndex == -1
Absent == <<"absent">>

NoCall == [observed |-> FALSE, id |-> <<>>, name |-> <<>>, args |-> <<>>]

CallIndex(calls, delta, position, gemini) ==
    IF delta.index # NoIndex THEN delta.index + 1
    ELSE IF gemini /\ delta.id \notin {Absent, <<>>}
    THEN LET known == {i \in DOMAIN calls : calls[i].id = delta.id}
         IN IF known = {} THEN Len(calls) + 1
            ELSE CHOOSE i \in known : \A j \in known : i <= j
    ELSE IF position < Len(calls) THEN position + 1 ELSE Len(calls) + 1

Merge(old, new, replace) ==
    IF new = Absent THEN old ELSE IF replace THEN new ELSE old \o new

\* apply_chat_delta
ApplyCallDelta(calls, delta, position, snapshot, replace, gemini) ==
    LET i == CallIndex(calls, delta, position, gemini)
        n == IF i > Len(calls) THEN i ELSE Len(calls)
        old == IF i \in DOMAIN calls THEN calls[i] ELSE NoCall
        new == [observed |-> TRUE,
                id |-> Merge(old.id, delta.id, snapshot \/ replace),
                name |-> Merge(old.name, delta.name, snapshot \/ replace),
                args |-> Merge(old.args, delta.args, snapshot)]
    IN [j \in 1..n |-> IF j = i THEN new
                       ELSE IF j \in DOMAIN calls THEN calls[j] ELSE NoCall]

\* Mutant: the end of the arguments is not looked for.
IsObjectBegun(args) == args # <<>> /\ Head(args) = "{"

IsObject(args) ==
    /\ args # <<>> /\ Head(args) = "{"
    /\ Last(args) = "}"
    /\ \A i \in 1..Len(args) - 1 : args[i] # "}"

\* ToolCallAssembler::validate: of every call that was seen
CallsValid(calls) ==
    LET seen == {i \in DOMAIN calls : calls[i].observed} IN
    \A i \in seen :
        /\ calls[i].id # <<>> /\ calls[i].name # <<>>
        /\ \A j \in seen : i # j => calls[i].id # calls[j].id
        /\ IsObject(calls[i].args)

\* finished_tool_calls
KeepNamed(kept, c) == IF c.name # <<>> THEN Append(kept, c) ELSE kept

FinishedCalls(calls) == FoldLeft(KeepNamed, <<>>, calls)

\* --------------------------------------------------------- validate_turn
\* the error of a turn, or "none"
TurnError(text, calls, toolTerminal, artifact, continues) ==
    IF calls = <<>> /\ text = <<>> /\ ~artifact /\ ~continues THEN "empty_response"
    ELSE IF toolTerminal /\ calls = <<>> THEN "invalid_tool_call"
    ELSE IF \E i \in DOMAIN calls :
                \/ calls[i].name = <<>> \/ ~IsObject(calls[i].args)
                \/ calls[i].id = <<>>
                \/ \E j \in DOMAIN calls : i # j /\ calls[i].id = calls[j].id
    THEN "invalid_tool_call" ELSE "none"
=============================================================================
